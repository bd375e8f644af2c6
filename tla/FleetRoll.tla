------------------------------ MODULE FleetRoll ------------------------------
(***************************************************************************)
(* The delivery of an image to the fleet: deploy/gcp/seeders.sh run in     *)
(* roll or create mode against the pin of deploy/gcp/IMAGE, and the        *)
(* startup script a VM runs on every boot.  The script rolls the selected  *)
(* VMs in array order, one at a time; with set -e any failing command ends *)
(* it, and so does the time limit of the CI job.  One roll runs at a time  *)
(* (the workflow's concurrency group).  The network has peers throughout:  *)
(* a container of a good image answers mainnet once it has warmed up.      *)
(***************************************************************************)
EXTENDS Naturals, Sequences

CONSTANTS
    SEEDERS,        \* the inventory: a sequence of VMs, canary first
    Digests,        \* images of docker.io/zfnd/dnsseeder
    Signed,         \* those the release workflow has signed
    Bad,            \* those that never answer mainnet
    GATE_TRIES,
    None            \* no image

Elements(s) == {s[i] : i \in 1..Len(s)}

Nodes == Elements(SEEDERS)
Nets  == {"mainnet", "testnet"}

\* A VM is reset, and then passes the gate: with the new container up, or "early",
\* by an answer of the container docker restarted before the startup script has
\* replaced it, which ran the same image as the new one or an "old" one.
Stages == {"untouched", "reset", "passed", "early", "old"}

ASSUME FleetAssumption ==
    /\ SEEDERS \in Seq(Nodes) /\ SEEDERS # <<>>
    /\ Signed \subseteq Digests /\ Bad \subseteq Digests
    /\ GATE_TRIES \in Nat \ {0}
    /\ None \notin Digests

VARIABLES
    pin,       \* the committed IMAGE
    pc, mode, todo, digest, tries,   \* the script
    vm,        \* VM -> "absent", "booting" (before docker run) or "up"
    startup,   \* VM -> digest in the startup script of its metadata
    image,     \* VM -> digest of its zeeder container, None without one
    answers,   \* VM -> networks it answers over UDP and TCP
    label,     \* VM -> its zeeder-digest label
    witnessed, \* history: whether the VM being rolled has answered mainnet with
               \* the digest since its reset
    stage,     \* history: VM -> how far the last roll has come with it (Stages)
    before     \* history: VMs that answered mainnet when the last roll began and
               \* have not restarted by themselves since

script == <<pc, mode, todo, digest, tries>>
fleet  == <<vm, startup, image, answers, label>>
vars   == <<pin, pc, mode, todo, digest, tries, vm, startup, image, answers,
            label, witnessed, stage, before>>

Idle ==
    /\ pc' = "idle" /\ mode' = "none" /\ todo' = <<>> /\ digest' = None
    /\ tries' = 0 /\ witnessed' = FALSE

\* A fleet that has been rolled to the pin, but for one VM not yet created.
Init ==
    /\ pin \in Signed \ Bad
    /\ pc = "idle" /\ mode = "none" /\ todo = <<>> /\ digest = None /\ tries = 0
    /\ \E new \in SUBSET {SEEDERS[Len(SEEDERS)]} :
          /\ vm = [n \in Nodes |-> IF n \in new THEN "absent" ELSE "up"]
          /\ startup = [n \in Nodes |-> IF n \in new THEN None ELSE pin]
          /\ image = startup /\ label = startup
          /\ answers = [n \in Nodes |-> IF n \in new THEN {} ELSE Nets]
    /\ witnessed = FALSE /\ before = {}
    /\ stage = [n \in Nodes |-> "untouched"]
-----------------------------------------------------------------------------
(* The script.                                                             *)

\* What a call may roll: the VM --only names, or all in the inventory's order; a
\* name that matches none ends the call.
Selections == {SEEDERS} \cup {<<n>> : n \in Nodes}

\* IMAGE is read when the script starts.
Start(m, selected) ==
    /\ pc = "idle"
    /\ pc' = IF m = "roll" THEN "audit" ELSE "verify"
    /\ mode' = m /\ todo' = selected /\ digest' = pin /\ tries' = 0
    /\ before' = {n \in Nodes : vm[n] = "up" /\ "mainnet" \in answers[n]}
    /\ stage' = [n \in Nodes |-> "untouched"]
    /\ UNCHANGED <<pin, fleet, witnessed>>

\* audit_all infra: every selected VM is RUNNING.
Audit ==
    /\ pc = "audit" /\ \A n \in Elements(todo) : vm[n] # "absent"
    /\ pc' = "verify"
    /\ UNCHANGED <<pin, mode, todo, digest, tries, fleet, witnessed, stage, before>>

VerifyImage ==
    /\ pc = "verify" /\ digest \in Signed
    /\ pc' = IF mode = "roll" THEN "metadata" ELSE "create"
    /\ UNCHANGED <<pin, mode, todo, digest, tries, fleet, witnessed, stage, before>>

\* Variant of AddMetadata: the pin is read again for every VM.
AddMetadataOfPin ==
    /\ pc = "metadata"
    /\ startup' = [startup EXCEPT ![Head(todo)] = pin]
    /\ pc' = "reset"
    /\ UNCHANGED <<pin, mode, todo, digest, tries, vm, image, answers, label,
                   witnessed, stage, before>>

AddMetadata ==
    /\ pc = "metadata"
    /\ startup' = [startup EXCEPT ![Head(todo)] = digest]
    /\ pc' = "reset"
    /\ UNCHANGED <<pin, mode, todo, digest, tries, vm, image, answers, label,
                   witnessed, stage, before>>

\* Variants of Reset: all selected VMs at once, and the label applied with it.
ResetAll ==
    /\ pc = "reset"
    /\ vm' = [n \in Nodes |-> IF n \in Elements(todo) THEN "booting" ELSE vm[n]]
    /\ answers' = [n \in Nodes |-> IF n \in Elements(todo) THEN {} ELSE answers[n]]
    /\ stage' = [n \in Nodes |-> IF n \in Elements(todo) THEN "reset" ELSE stage[n]]
    /\ pc' = "gate" /\ tries' = 0 /\ witnessed' = FALSE
    /\ UNCHANGED <<pin, mode, todo, digest, startup, image, label, before>>
ResetLabels ==
    /\ pc = "reset"
    /\ vm' = [vm EXCEPT ![Head(todo)] = "booting"]
    /\ answers' = [answers EXCEPT ![Head(todo)] = {}]
    /\ label' = [label EXCEPT ![Head(todo)] = digest]
    /\ stage' = [stage EXCEPT ![Head(todo)] = "reset"]
    /\ pc' = "gate" /\ tries' = 0 /\ witnessed' = FALSE
    /\ UNCHANGED <<pin, mode, todo, digest, startup, image, before>>

Reset ==
    /\ pc = "reset"
    /\ vm' = [vm EXCEPT ![Head(todo)] = "booting"]
    /\ answers' = [answers EXCEPT ![Head(todo)] = {}]
    /\ stage' = [stage EXCEPT ![Head(todo)] = "reset"]
    /\ pc' = "gate" /\ tries' = 0 /\ witnessed' = FALSE
    /\ UNCHANGED <<pin, mode, todo, digest, startup, image, label, before>>

\* History: what the gate's passing answer came from.
RecordPass ==
    LET n == Head(todo) IN
    stage' = [stage EXCEPT ![n] = IF pc' # "label" THEN @
                                  ELSE IF vm[n] = "up" THEN "passed"
                                  ELSE IF image[n] = digest THEN "early" ELSE "old"]

\* Variant of Gate: one try too many.
GateOneMore ==
    /\ pc = "gate" /\ tries <= GATE_TRIES
    /\ tries' = tries + 1
    /\ \/ answers[Head(todo)] = Nets /\ pc' = "label"
       \/ answers[Head(todo)] # Nets /\ pc' = "gate"
    /\ RecordPass
    /\ UNCHANGED <<pin, mode, todo, digest, fleet, witnessed, before>>

\* One try.  Both networks pass; after the last try mainnet alone does.
Gate ==
    /\ pc = "gate" /\ tries < GATE_TRIES
    /\ tries' = tries + 1
    /\ \/ answers[Head(todo)] = Nets /\ pc' = "label"
       \/ /\ answers[Head(todo)] # Nets
          /\ pc' = IF tries' < GATE_TRIES THEN "gate"
                   ELSE IF "mainnet" \in answers[Head(todo)] THEN "label" ELSE "failed"
    /\ RecordPass
    /\ UNCHANGED <<pin, mode, todo, digest, fleet, witnessed, before>>

\* The next VM, or the end.
Advance(again) ==
    IF Len(todo) > 1
    THEN /\ pc' = again /\ todo' = Tail(todo) /\ tries' = 0 /\ witnessed' = FALSE
         /\ UNCHANGED <<mode, digest>>
    ELSE Idle

AddLabel ==
    /\ pc = "label"
    /\ label' = [label EXCEPT ![Head(todo)] = digest]
    /\ Advance("metadata")
    /\ UNCHANGED <<pin, vm, startup, image, answers, stage, before>>

\* create_vm: labelled at once, and no gate; an existing VM is left alone.
CreateVm ==
    /\ pc = "create"
    /\ Advance("create")
    /\ LET n == Head(todo) IN
       \/ /\ vm[n] = "absent"
          /\ vm' = [vm EXCEPT ![n] = "booting"]
          /\ startup' = [startup EXCEPT ![n] = digest]
          /\ label' = [label EXCEPT ![n] = digest]
       \/ vm[n] # "absent" /\ UNCHANGED <<vm, startup, label>>
    /\ UNCHANGED <<pin, image, answers, stage, before>>

\* die: the audit, the signature or the gate.
Die ==
    /\ \/ pc = "audit" /\ \E n \in Elements(todo) : vm[n] = "absent"
       \/ pc = "verify" /\ digest \notin Signed
       \/ pc = "failed"
    /\ Idle
    /\ UNCHANGED <<pin, fleet, stage, before>>

\* A command fails under set -e, or the CI job ends.
Abort ==
    /\ pc # "idle" /\ Idle
    /\ UNCHANGED <<pin, fleet, stage, before>>
-----------------------------------------------------------------------------
(* The VMs and the repository.                                             *)

\* startup-script.sh.tmpl: the image is pulled, or is there already, or docker
\* run fails; the container of before is removed in any case.
StartupScript(n, available) ==
    /\ vm[n] = "booting"
    /\ vm' = [vm EXCEPT ![n] = "up"]
    /\ image' = [image EXCEPT ![n] =
                    IF available \/ startup[n] = image[n] THEN startup[n] ELSE None]
    /\ answers' = [answers EXCEPT ![n] = {}]
    /\ UNCHANGED <<pin, script, startup, label, witnessed, stage, before>>

\* A running container finds peers of a network.  After a reset that may be the
\* container of before: docker restarts it (--restart always), and the startup
\* script removes it only once it has pulled the image.
WarmUp(n, net) ==
    /\ image[n] # None
    /\ net \notin answers[n]
    /\ net = "mainnet" => image[n] \notin Bad
    /\ answers' = [answers EXCEPT ![n] = @ \cup {net}]
    /\ witnessed' = (witnessed \/ /\ net = "mainnet" /\ image[n] = digest
                                  /\ pc = "gate" /\ n = Head(todo))
    /\ UNCHANGED <<pin, script, vm, startup, image, label, stage, before>>

\* Host maintenance, which is not the roll's doing.
Reboot(n) ==
    /\ vm[n] = "up"
    /\ vm' = [vm EXCEPT ![n] = "booting"]
    /\ answers' = [answers EXCEPT ![n] = {}]
    /\ before' = before \ {n}
    /\ UNCHANGED <<pin, script, startup, image, label, witnessed, stage>>

\* A release pins its digest, or the pin is reverted.
Commit(d) ==
    /\ d # pin /\ pin' = d
    /\ UNCHANGED <<script, fleet, witnessed, stage, before>>

Next ==
    \/ \E m \in {"roll", "create"}, selected \in Selections : Start(m, selected)
    \/ Audit \/ VerifyImage \/ AddMetadata \/ Reset \/ Gate \/ AddLabel \/ CreateVm
    \/ Die
    \/ Abort
    \/ \E n \in Nodes, available \in BOOLEAN : StartupScript(n, available)
    \/ \E n \in Nodes, net \in Nets : WarmUp(n, net)
    \/ \E n \in Nodes : Reboot(n)
    \/ \E d \in Digests : Commit(d)

Spec == Init /\ [][Next]_vars
-----------------------------------------------------------------------------
(* Properties.                                                             *)

\* Every variable has its type; the gate makes at most GATE_TRIES tries.
TypeOK ==
    /\ pin \in Digests /\ digest \in Digests \cup {None}
    /\ pc \in {"idle", "audit", "verify", "metadata", "reset", "gate", "label", "create", "failed"}
    /\ pc = "idle" <=> todo = <<>>
    /\ tries \in 0..GATE_TRIES
    /\ vm \in [Nodes -> {"absent", "booting", "up"}]
    /\ startup \in [Nodes -> Digests \cup {None}]
    /\ image \in [Nodes -> Digests \cup {None}]
    /\ label \in [Nodes -> Digests \cup {None}]
    /\ answers \in [Nodes -> SUBSET Nets]
    /\ stage \in [Nodes -> Stages]

\* A roll takes at most one nameserver at a time out of service, whatever the
\* image does and wherever the roll stops (operations.md, roll constraints): of
\* the VMs that answered when it began, those it has not reset and those that
\* passed the gate with their new container answer, and at most one is between
\* its reset and the gate.  Beside it only VMs the gate let pass early, which the
\* script cannot tell apart, may be silent, until their new container has found
\* peers.
OthersKeepAnswering ==
    LET silent == {n \in before : "mainnet" \notin answers[n]}
    IN  /\ \A n \in silent : stage[n] \in {"reset", "early", "old"}
        /\ \A m, n \in silent : stage[m] = "reset" /\ stage[n] = "reset" => m = n

\* Only a signed image reaches a VM's startup script, also when the pin moves in
\* the middle of a roll (ADR 0006: fails closed).
SignedOnly == \A n \in Nodes : startup[n] # None => startup[n] \in Signed

\* A VM that exists is labelled only by a roll that has passed it at the gate,
\* with the roll's image, and only after it has answered mainnet with that image
\* since its reset (the comment in roll_vm; create_vm labels a new VM at once),
\* unless what answered the gate was a container of another image that docker had
\* restarted before the startup script replaced it.
LabelWitnessed ==
    [][\A n \in Nodes :
          label'[n] # label[n] /\ vm[n] # "absent" =>
              /\ label'[n] = digest
              /\ stage[n] \in {"passed", "early", "old"}
              /\ stage[n] # "old" => witnessed]_vars
=============================================================================
