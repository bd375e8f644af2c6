--------------------------- MODULE FleetRollProofs ---------------------------
(* Theorems about FleetRoll for every inventory, every set of images and   *)
(* every number of tries.                                                  *)
EXTENDS FleetRoll, TLAPS

-----------------------------------------------------------------------------
(* The inductive invariant.                                                *)

Rolled == Head(todo)

\* Beyond TypeOK: the VMs still to roll are of the inventory.
Types ==
    /\ TypeOK
    /\ todo \in Seq(Nodes) /\ before \subseteq Nodes
    /\ witnessed \in BOOLEAN

\* From the verification on the script holds a signed digest, which is in the
\* startup script of the VM it has reset.
Verified ==
    /\ pc \in {"metadata", "reset", "gate", "label", "create", "failed"} => digest \in Signed
    /\ pc \in {"reset", "gate"} => startup[Rolled] = digest

\* A VM that is up after its reset runs the digest or nothing.
RunsDigest ==
    pc = "gate" => /\ vm[Rolled] # "absent"
                   /\ vm[Rolled] = "up" => image[Rolled] \in {digest, None}

\* Mainnet answered at the gate by a container of the digest is a witness, and so
\* is what passed the gate, but for a container of another image.
Answered ==
    /\ pc = "gate" /\ "mainnet" \in answers[Rolled] =>
          image[Rolled] # None /\ (image[Rolled] = digest => witnessed)
    /\ pc = "label" => /\ stage[Rolled] \in {"passed", "early", "old"}
                       /\ stage[Rolled] # "old" => witnessed

\* Only the VM at the gate, or the one at which the roll ended, is between its
\* reset and the gate.
OneReset ==
    /\ pc \in {"gate", "failed"} => stage[Rolled] = "reset"
    /\ pc \notin {"gate", "failed", "idle"} => \A n \in Nodes : stage[n] # "reset"
    /\ \A m, n \in Nodes : stage[m] = "reset" /\ stage[n] = "reset" => m = n

\* Every VM that answered when the roll began and has not restarted by itself goes
\* on answering until it is reset, and again once its new container has passed.
Serving(n) == vm[n] = "up" /\ "mainnet" \in answers[n]

OthersServe == \A n \in before : stage[n] \in {"untouched", "passed"} => Serving(n)

FleetInv ==
    Types /\ SignedOnly /\ Verified /\ RunsDigest /\ Answered /\ OneReset /\ OthersServe
-----------------------------------------------------------------------------
(* The inventory and the list of VMs to roll.                              *)

\* What a call selects is a list of VMs, and not empty.
LEMMA SelectionType ==
    ASSUME NEW selected \in Selections
    PROVE  selected \in Seq(Nodes) /\ selected # <<>>
<1>1. CASE selected = SEEDERS
  BY <1>1, FleetAssumption
<1>2. ASSUME NEW n \in Nodes, selected = <<n>> PROVE selected \in Seq(Nodes) /\ selected # <<>>
  BY <1>2
<1> QED BY <1>1, <1>2 DEF Selections

\* While the script runs there is a VM at hand.
LEMMA RolledType ==
    ASSUME Types, pc # "idle"
    PROVE  /\ Rolled \in Nodes /\ Len(todo) \in Nat \ {0} /\ Tail(todo) \in Seq(Nodes)
           /\ Len(todo) > 1 => Tail(todo) # <<>>
<1>1. todo \in Seq(Nodes) /\ todo # <<>>
  BY DEF Types, TypeOK
<1>2. Len(todo) \in Nat \ {0} /\ Head(todo) = todo[1] /\ todo[1] \in Nodes
  BY <1>1
<1>3. Tail(todo) \in Seq(Nodes) /\ Len(Tail(todo)) = Len(todo) - 1
  BY <1>1
<1>4. Len(todo) > 1 => Tail(todo) # <<>>
  BY <1>2, <1>3
<1> QED BY <1>2, <1>3, <1>4 DEF Rolled

\* It holds of a fleet that has been rolled.
LEMMA FleetInit == Init => FleetInv
<1> SUFFICES ASSUME Init PROVE FleetInv
  OBVIOUS
<1>1. PICK new \in SUBSET {SEEDERS[Len(SEEDERS)]} :
          /\ vm = [n \in Nodes |-> IF n \in new THEN "absent" ELSE "up"]
          /\ startup = [n \in Nodes |-> IF n \in new THEN None ELSE pin]
          /\ image = startup /\ label = startup
          /\ answers = [n \in Nodes |-> IF n \in new THEN {} ELSE Nets]
  BY DEF Init
<1>2. /\ pin \in Signed /\ pin \in Digests /\ pc = "idle" /\ todo = <<>> /\ digest = None
      /\ tries = 0 /\ before = {} /\ stage = [n \in Nodes |-> "untouched"]
  BY FleetAssumption DEF Init
<1>3. witnessed \in BOOLEAN
  BY Zenon DEF Init
<1>4. TypeOK
  BY <1>1, <1>2, FleetAssumption DEF TypeOK, Stages
<1>5. Types
  BY <1>2, <1>3, <1>4 DEF Types
<1>6. SignedOnly /\ Verified /\ RunsDigest /\ Answered /\ OneReset
  BY <1>1, <1>2 DEF SignedOnly, Verified, RunsDigest, Answered, OneReset
<1>7. OthersServe
  BY <1>2 DEF OthersServe
<1> QED BY <1>5, <1>6, <1>7 DEF FleetInv
-----------------------------------------------------------------------------
(* The script's steps.                                                     *)

\* The end of a roll, wherever it comes: at most the VM it was at is left silent.
LEMMA IdleKeeps ==
    ASSUME FleetInv, pc # "idle", Idle,
           vm' \in [Nodes -> {"absent", "booting", "up"}],
           startup' \in [Nodes -> Digests \cup {None}],
           label' \in [Nodes -> Digests \cup {None}],
           \A n \in Nodes : vm[n] # "absent" => vm'[n] = vm[n],
           \A n \in Nodes : startup'[n] # None => startup'[n] \in Signed,
           UNCHANGED <<pin, image, answers, stage, before>>
    PROVE  FleetInv'
<1>0. Types /\ TypeOK /\ before \subseteq Nodes /\ OneReset /\ OthersServe
  BY DEF FleetInv, Types
<1>1. /\ pc' = "idle" /\ todo' = <<>> /\ digest' = None /\ tries' = 0 /\ witnessed' = FALSE
  BY DEF Idle
<1>2. witnessed' \in BOOLEAN
  BY <1>1, Zenon
<1>3. Types'
  <2>1. tries' \in 0..GATE_TRIES
    BY <1>1, FleetAssumption
  <2>2. TypeOK'
    BY <1>0, <1>1, <2>1 DEF TypeOK
  <2>3. todo' \in Seq(Nodes)
    BY <1>1
  <2> QED BY <1>0, <1>2, <2>2, <2>3 DEF Types
<1>4. SignedOnly' /\ Verified' /\ RunsDigest' /\ Answered' /\ OneReset'
  BY <1>0, <1>1 DEF SignedOnly, Verified, RunsDigest, Answered, OneReset
<1>5. OthersServe'
  BY <1>0 DEF OthersServe, Serving
<1> QED BY <1>3, <1>4, <1>5 DEF FleetInv

\* The next VM of the list: the roll goes on only when every VM answers.
LEMMA NextVmKeeps ==
    ASSUME FleetInv, pc \in {"label", "create"}, NEW again \in {"metadata", "create"},
           Len(todo) > 1, pc' = again, todo' = Tail(todo), tries' = 0, witnessed' = FALSE,
           vm' \in [Nodes -> {"absent", "booting", "up"}],
           startup' \in [Nodes -> Digests \cup {None}],
           label' \in [Nodes -> Digests \cup {None}],
           \A n \in Nodes : vm[n] # "absent" => vm'[n] = vm[n],
           \A n \in Nodes : startup'[n] # None => startup'[n] \in Signed,
           UNCHANGED <<pin, mode, digest, image, answers, stage, before>>
    PROVE  FleetInv'
<1>1. Types /\ TypeOK /\ todo' \in Seq(Nodes) /\ todo' # <<>>
  BY RolledType DEF FleetInv, Types
<1>2. witnessed' \in BOOLEAN
  BY Zenon
<1>3. TypeOK'
  <2>1. tries' \in 0..GATE_TRIES
    BY FleetAssumption
  <2> QED BY <1>1, <2>1 DEF TypeOK
<1>4. Types'
  BY <1>1, <1>2, <1>3 DEF Types
<1>5. SignedOnly' /\ Verified' /\ RunsDigest' /\ Answered' /\ OneReset'
  BY DEF FleetInv, SignedOnly, Verified, RunsDigest, Answered, OneReset
<1>6. OthersServe'
  BY <1>1 DEF FleetInv, OthersServe, Serving, Types
<1> QED BY <1>4, <1>5, <1>6 DEF FleetInv

\* Every step of the script keeps the invariant.
LEMMA ScriptKeeps ==
    ASSUME FleetInv,
           \/ \E m \in {"roll", "create"}, selected \in Selections : Start(m, selected)
           \/ Audit \/ VerifyImage \/ AddMetadata \/ Reset \/ Gate \/ AddLabel \/ CreateVm
           \/ Die \/ Abort
    PROVE  FleetInv'
<1> USE DEF fleet, script
<1>0. /\ Types /\ TypeOK /\ SignedOnly /\ Verified /\ RunsDigest /\ Answered /\ OneReset /\ OthersServe
      /\ todo \in Seq(Nodes) /\ before \subseteq Nodes
      /\ witnessed \in BOOLEAN
  BY DEF FleetInv, Types
<1>a. pc # "idle" => Rolled \in Nodes
  BY <1>0, RolledType
<1>1. ASSUME NEW m \in {"roll", "create"}, NEW selected \in Selections, Start(m, selected)
      PROVE  FleetInv'
  <2>1. /\ pc' \in {"audit", "verify"} /\ todo' = selected /\ digest' = pin /\ tries' = 0
        /\ before' = {n \in Nodes : vm[n] = "up" /\ "mainnet" \in answers[n]}
        /\ stage' = [n \in Nodes |-> "untouched"]
        /\ UNCHANGED <<pin, vm, startup, image, answers, label, witnessed>>
    BY <1>1 DEF Start
  <2>2. todo' \in Seq(Nodes) /\ todo' # <<>>
    BY <2>1, SelectionType
  <2>3. stage' \in [Nodes -> Stages] /\ \A n \in Nodes : stage'[n] = "untouched"
    BY <2>1 DEF Stages
  <2>4. TypeOK'
    <3>1. tries' \in 0..GATE_TRIES
      BY <2>1, FleetAssumption
    <3> QED BY <1>0, <2>1, <2>2, <2>3, <3>1 DEF TypeOK
  <2>5. Types'
    BY <1>0, <2>1, <2>2, <2>4 DEF Types
  <2>6. SignedOnly' /\ Verified' /\ RunsDigest' /\ Answered' /\ OneReset'
    BY <1>0, <2>1, <2>3 DEF SignedOnly, Verified, RunsDigest, Answered, OneReset
  <2>7. OthersServe'
    BY <2>1 DEF OthersServe, Serving
  <2> QED BY <2>5, <2>6, <2>7 DEF FleetInv
<1>2. ASSUME Audit \/ VerifyImage PROVE FleetInv'
  <2>1. /\ pc \in {"audit", "verify"} /\ pc' \in {"verify", "metadata", "create"}
        /\ UNCHANGED <<pin, todo, digest, tries, vm, startup, image, answers, label,
                       witnessed, stage, before>>
        /\ pc' # "verify" => digest \in Signed
    BY <1>2 DEF Audit, VerifyImage
  <2>2. Types'
    BY <1>0, <2>1 DEF Types, TypeOK
  <2>3. SignedOnly' /\ Verified' /\ RunsDigest' /\ Answered' /\ OneReset'
    BY <1>0, <2>1 DEF SignedOnly, Verified, RunsDigest, Answered, OneReset
  <2>4. OthersServe'
    BY <1>0, <2>1 DEF OthersServe, Serving
  <2> QED BY <2>2, <2>3, <2>4 DEF FleetInv
<1>3. ASSUME AddMetadata PROVE FleetInv'
  <2>1. /\ pc = "metadata" /\ pc' = "reset" /\ startup' = [startup EXCEPT ![Rolled] = digest]
        /\ UNCHANGED <<pin, todo, digest, tries, vm, image, answers, label,
                       witnessed, stage, before>>
    BY <1>3 DEF AddMetadata, Rolled
  <2>2. Rolled \in Nodes /\ digest \in Signed /\ Rolled' = Rolled
    BY <1>0, <1>a, <2>1 DEF Verified, Rolled
  <2>3. Types'
    BY <1>0, <2>1, <2>2 DEF Types, TypeOK
  <2>4. SignedOnly' /\ Verified'
    BY <1>0, <2>1, <2>2 DEF SignedOnly, Verified, TypeOK
  <2>5. RunsDigest' /\ Answered' /\ OneReset' /\ OthersServe'
    BY <1>0, <2>1 DEF RunsDigest, Answered, OneReset, OthersServe, Serving
  <2> QED BY <2>3, <2>4, <2>5 DEF FleetInv
<1>4. ASSUME Reset PROVE FleetInv'
  <2>1. /\ pc = "reset" /\ pc' = "gate" /\ tries' = 0 /\ witnessed' = FALSE
        /\ vm' = [vm EXCEPT ![Rolled] = "booting"] /\ answers' = [answers EXCEPT ![Rolled] = {}]
        /\ stage' = [stage EXCEPT ![Rolled] = "reset"]
        /\ UNCHANGED <<pin, todo, digest, startup, image, label, before>>
    BY <1>4 DEF Reset, Rolled
  <2>2. Rolled \in Nodes /\ Rolled' = Rolled
    BY <1>a, <2>1 DEF Rolled
  <2>3. /\ vm'[Rolled] = "booting" /\ answers'[Rolled] = {} /\ stage'[Rolled] = "reset"
        /\ \A n \in Nodes \ {Rolled} :
              vm'[n] = vm[n] /\ answers'[n] = answers[n] /\ stage'[n] = stage[n]
    BY <1>0, <2>1, <2>2 DEF TypeOK
  <2>4. TypeOK'
    <3>1. tries' \in 0..GATE_TRIES
      BY <2>1, FleetAssumption
    <3> QED BY <1>0, <2>1, <2>2, <3>1 DEF TypeOK, Stages
  <2>5. witnessed' \in BOOLEAN
    BY <2>1, Zenon
  <2>6. Types'
    BY <1>0, <2>1, <2>4, <2>5 DEF Types
  <2>7. SignedOnly' /\ Verified' /\ RunsDigest' /\ Answered' /\ OneReset'
    BY <1>0, <2>1, <2>2, <2>3 DEF SignedOnly, Verified, RunsDigest, Answered, OneReset
  <2>8. OthersServe'
    BY <1>0, <2>1, <2>2, <2>3 DEF OthersServe, Serving, Types
  <2> QED BY <2>6, <2>7, <2>8 DEF FleetInv
<1>5. ASSUME Gate PROVE FleetInv'
  <2>1. /\ pc = "gate" /\ tries < GATE_TRIES /\ tries' = tries + 1
        /\ pc' \in {"gate", "label", "failed"}
        /\ UNCHANGED <<pin, todo, digest, vm, startup, image, answers, label,
                       witnessed, before>>
    BY <1>5 DEF Gate
  <2>2. pc' = "label" => "mainnet" \in answers[Rolled]
    BY <1>5 DEF Gate, Rolled, Nets
  <2>3. Rolled \in Nodes /\ Rolled' = Rolled
    BY <1>a, <2>1 DEF Rolled
  <2>4. PICK result \in Stages : /\ stage' = [stage EXCEPT ![Rolled] = result]
                                 /\ pc' # "label" => result = stage[Rolled]
                                 /\ pc' = "label" => result \in {"passed", "early", "old"}
                                 /\ pc' = "label" /\ result = "passed" => vm[Rolled] = "up"
                                 /\ pc' = "label" /\ result = "early" => image[Rolled] = digest
    <3>1. stage[Rolled] \in Stages
      BY <1>0, <2>3 DEF TypeOK
    <3>2. CASE pc' # "label"
      BY <1>5, <3>1, <3>2 DEF Gate, RecordPass, Rolled
    <3>3. CASE pc' = "label"
      BY <1>5, <3>3 DEF Gate, RecordPass, Rolled, Stages
    <3> QED BY <3>2, <3>3
  <2>5. stage'[Rolled] = result /\ \A n \in Nodes \ {Rolled} : stage'[n] = stage[n]
    BY <1>0, <2>3, <2>4 DEF TypeOK
  <2>6. TypeOK'
    <3>1. tries' \in 0..GATE_TRIES
      BY <1>0, <2>1, FleetAssumption DEF TypeOK
    <3> QED BY <1>0, <2>1, <2>4, <3>1 DEF TypeOK
  <2>7. Types'
    BY <1>0, <2>1, <2>6 DEF Types
  <2>8. SignedOnly' /\ Verified' /\ RunsDigest'
    BY <1>0, <2>1, <2>3 DEF SignedOnly, Verified, RunsDigest
  <2>9. Answered'
    <3>1. pc' = "label" /\ result # "old" => image[Rolled] = digest /\ witnessed
      BY <1>0, <2>1, <2>2, <2>4 DEF Answered, RunsDigest
    <3> QED BY <1>0, <2>1, <2>3, <2>4, <2>5, <3>1 DEF Answered
  <2>10. OneReset'
    BY <1>0, <2>1, <2>3, <2>4, <2>5 DEF OneReset
  <2>11. OthersServe'
    <3>1. result \in {"untouched", "passed"} => Serving(Rolled)
      BY <1>0, <2>1, <2>2, <2>4 DEF OneReset, Serving
    <3> QED BY <1>0, <2>1, <2>5, <3>1 DEF OthersServe, Serving, Types
  <2> QED BY <2>7, <2>8, <2>9, <2>10, <2>11 DEF FleetInv
<1>6. ASSUME AddLabel PROVE FleetInv'
  <2>1. /\ pc = "label" /\ label' = [label EXCEPT ![Rolled] = digest]
        /\ UNCHANGED <<pin, vm, startup, image, answers, stage, before>>
    BY <1>6 DEF AddLabel, Rolled
  <2>2. label' \in [Nodes -> Digests \cup {None}]
    BY <1>0, <2>1 DEF TypeOK
  <2>3. CASE Len(todo) > 1
    <3>1. /\ pc' = "metadata" /\ todo' = Tail(todo) /\ tries' = 0 /\ witnessed' = FALSE
          /\ UNCHANGED <<mode, digest>>
      BY <1>6, <2>3 DEF AddLabel, Advance
    <3>2. vm' \in [Nodes -> {"absent", "booting", "up"}] /\ startup' \in [Nodes -> Digests \cup {None}]
      BY <1>0, <2>1 DEF TypeOK
    <3> QED BY <1>0, <2>1, <2>2, <2>3, <3>1, <3>2, NextVmKeeps DEF SignedOnly
  <2>4. CASE ~(Len(todo) > 1)
    <3>1. Idle
      BY <1>6, <2>4 DEF AddLabel, Advance
    <3>2. vm' \in [Nodes -> {"absent", "booting", "up"}] /\ startup' \in [Nodes -> Digests \cup {None}]
      BY <1>0, <2>1 DEF TypeOK
    <3> QED BY <1>0, <2>1, <2>2, <3>1, <3>2, IdleKeeps DEF SignedOnly
  <2> QED BY <2>3, <2>4
<1>7. ASSUME CreateVm PROVE FleetInv'
  <2>1. pc = "create" /\ UNCHANGED <<pin, image, answers, stage, before>>
    BY <1>7 DEF CreateVm
  <2>2. Rolled \in Nodes /\ digest \in Signed /\ digest \in Digests
    BY <1>0, <1>a, <2>1, FleetAssumption DEF Verified
  <2>3. \/ /\ vm[Rolled] = "absent"
           /\ vm' = [vm EXCEPT ![Rolled] = "booting"]
           /\ startup' = [startup EXCEPT ![Rolled] = digest]
           /\ label' = [label EXCEPT ![Rolled] = digest]
        \/ UNCHANGED <<vm, startup, label>>
    BY <1>7 DEF CreateVm, Rolled
  <2>4. /\ vm' \in [Nodes -> {"absent", "booting", "up"}]
        /\ startup' \in [Nodes -> Digests \cup {None}]
        /\ label' \in [Nodes -> Digests \cup {None}]
    BY <1>0, <2>2, <2>3 DEF TypeOK
  <2>5. /\ \A n \in Nodes : vm[n] # "absent" => vm'[n] = vm[n]
        /\ \A n \in Nodes : startup'[n] # None => startup'[n] \in Signed
    BY <1>0, <2>2, <2>3 DEF TypeOK, SignedOnly
  <2>6. CASE Len(todo) > 1
    <3>1. /\ pc' = "create" /\ todo' = Tail(todo) /\ tries' = 0 /\ witnessed' = FALSE
          /\ UNCHANGED <<mode, digest>>
      BY <1>7, <2>6 DEF CreateVm, Advance
    <3> QED BY <2>1, <2>4, <2>5, <2>6, <3>1, NextVmKeeps
  <2>7. CASE ~(Len(todo) > 1)
    <3>1. Idle
      BY <1>7, <2>7 DEF CreateVm, Advance
    <3> QED BY <2>1, <2>4, <2>5, <3>1, IdleKeeps
  <2> QED BY <2>6, <2>7
<1>8. ASSUME Die \/ Abort PROVE FleetInv'
  <2>1. pc # "idle" /\ Idle /\ UNCHANGED <<pin, vm, startup, image, answers, label, stage, before>>
    BY <1>8 DEF Die, Abort
  <2>2. /\ vm' \in [Nodes -> {"absent", "booting", "up"}]
        /\ startup' \in [Nodes -> Digests \cup {None}]
        /\ label' \in [Nodes -> Digests \cup {None}]
    BY <1>0, <2>1 DEF TypeOK
  <2> QED BY <1>0, <2>1, <2>2, IdleKeeps DEF SignedOnly
<1> QED BY <1>1, <1>2, <1>3, <1>4, <1>5, <1>6, <1>7, <1>8
-----------------------------------------------------------------------------
(* The steps beside the script.                                            *)

\* A VM that serves is not booting, so its startup script is not about to run.
LEMMA StartupScriptKeeps ==
    ASSUME FleetInv, NEW n \in Nodes, NEW available \in BOOLEAN, StartupScript(n, available)
    PROVE  FleetInv'
<1>0. Types /\ TypeOK /\ SignedOnly /\ Verified /\ RunsDigest /\ Answered /\ OneReset /\ OthersServe
  BY DEF FleetInv, Types
<1>1. /\ vm[n] = "booting" /\ vm' = [vm EXCEPT ![n] = "up"]
      /\ answers' = [answers EXCEPT ![n] = {}]
      /\ UNCHANGED <<pin, pc, todo, digest, tries, startup, label, witnessed, stage, before>>
  BY DEF StartupScript, script
<1>2. PICK d \in {startup[n], None} : image' = [image EXCEPT ![n] = d]
  BY DEF StartupScript
<1>3. startup[n] \in Digests \cup {None}
  BY <1>0 DEF TypeOK
<1>4. Types'
  BY <1>0, <1>1, <1>2, <1>3 DEF Types, TypeOK
<1>5. /\ vm'[n] = "up" /\ answers'[n] = {} /\ image'[n] = d
      /\ \A x \in Nodes \ {n} : vm'[x] = vm[x] /\ answers'[x] = answers[x] /\ image'[x] = image[x]
  BY <1>0, <1>1, <1>2 DEF TypeOK
<1>6. Rolled' = Rolled /\ (pc = "gate" => Rolled \in Nodes)
  BY <1>0, <1>1, RolledType DEF Rolled
<1>7. SignedOnly' /\ Verified'
  BY <1>0, <1>1, <1>6 DEF SignedOnly, Verified
<1>8. RunsDigest'
  BY <1>0, <1>1, <1>5, <1>6 DEF RunsDigest, Verified
<1>9. Answered' /\ OneReset'
  BY <1>0, <1>1, <1>5, <1>6 DEF Answered, OneReset
<1>10. OthersServe'
  <2>1. \A x \in before : Serving(x) => Serving(x)'
    BY <1>0, <1>1, <1>5 DEF Serving, Types
  <2> QED BY <1>0, <1>1, <1>6, <2>1 DEF OthersServe
<1> QED BY <1>4, <1>7, <1>8, <1>9, <1>10 DEF FleetInv

\* A container of the digest that answers mainnet at the gate is a witness.
LEMMA WarmUpKeeps ==
    ASSUME FleetInv, NEW n \in Nodes, NEW net \in Nets, WarmUp(n, net)
    PROVE  FleetInv'
<1>0. /\ Types /\ TypeOK /\ SignedOnly /\ Verified /\ RunsDigest /\ Answered /\ OneReset
      /\ OthersServe /\ witnessed \in BOOLEAN
  BY DEF FleetInv, Types
<1>1. /\ image[n] # None /\ answers' = [answers EXCEPT ![n] = answers[n] \cup {net}]
      /\ UNCHANGED <<pin, pc, todo, digest, tries, vm, startup, image, label, stage, before>>
  BY DEF WarmUp, script
<1>2. /\ witnessed' \in BOOLEAN
      /\ witnessed => witnessed'
      /\ net = "mainnet" /\ image[n] = digest /\ pc = "gate" /\ n = Rolled => witnessed'
  BY <1>0, Zenon DEF WarmUp, Rolled
<1>3. Types'
  BY <1>0, <1>1, <1>2 DEF Types, TypeOK
<1>4. /\ answers'[n] = answers[n] \cup {net}
      /\ \A x \in Nodes \ {n} : answers'[x] = answers[x]
  BY <1>0, <1>1 DEF TypeOK
<1>5. Rolled' = Rolled /\ (pc = "gate" => Rolled \in Nodes)
  BY <1>0, <1>1, RolledType DEF Rolled
<1>6. SignedOnly' /\ Verified' /\ RunsDigest' /\ OneReset'
  BY <1>0, <1>1, <1>5 DEF SignedOnly, Verified, RunsDigest, OneReset
<1>7. Answered'
  <2>1. pc = "gate" /\ "mainnet" \in answers'[Rolled] =>
            image[Rolled] # None /\ (image[Rolled] = digest => witnessed')
    BY <1>0, <1>1, <1>2, <1>4, <1>5 DEF Answered
  <2> QED BY <1>0, <1>1, <1>2, <1>5, <2>1 DEF Answered
<1>8. OthersServe'
  <2>1. \A x \in before : Serving(x) => Serving(x)'
    BY <1>0, <1>1, <1>4 DEF Serving, Types
  <2> QED BY <1>0, <1>1, <2>1 DEF OthersServe
<1> QED BY <1>3, <1>6, <1>7, <1>8 DEF FleetInv

\* A VM that restarts by itself is not the roll's to answer for.
LEMMA RebootKeeps ==
    ASSUME FleetInv, NEW n \in Nodes, Reboot(n)
    PROVE  FleetInv'
<1>0. Types /\ TypeOK /\ SignedOnly /\ Verified /\ RunsDigest /\ Answered /\ OneReset /\ OthersServe
  BY DEF FleetInv, Types
<1>1. /\ vm' = [vm EXCEPT ![n] = "booting"] /\ answers' = [answers EXCEPT ![n] = {}]
      /\ before' = before \ {n}
      /\ UNCHANGED <<pin, pc, todo, digest, tries, startup, image, label, witnessed, stage>>
  BY DEF Reboot, script
<1>2. Types'
  BY <1>0, <1>1 DEF Types, TypeOK
<1>3. /\ vm'[n] = "booting" /\ answers'[n] = {}
      /\ \A x \in Nodes \ {n} : vm'[x] = vm[x] /\ answers'[x] = answers[x]
  BY <1>0, <1>1 DEF TypeOK
<1>4. Rolled' = Rolled /\ (pc = "gate" => Rolled \in Nodes)
  BY <1>0, <1>1, RolledType DEF Rolled
<1>5. SignedOnly' /\ Verified' /\ RunsDigest'
  BY <1>0, <1>1, <1>3, <1>4 DEF SignedOnly, Verified, RunsDigest
<1>6. Answered' /\ OneReset'
  BY <1>0, <1>1, <1>3, <1>4 DEF Answered, OneReset
<1>7. OthersServe'
  <2>1. \A x \in before' : x \in before /\ (Serving(x) => Serving(x)')
    BY <1>0, <1>1, <1>3 DEF Serving, Types
  <2> QED BY <1>0, <1>1, <1>4, <2>1 DEF OthersServe
<1> QED BY <1>2, <1>5, <1>6, <1>7 DEF FleetInv

\* The pin may move at any time.
LEMMA CommitKeeps ==
    ASSUME FleetInv, pin' \in Digests,
           UNCHANGED <<script, fleet, witnessed, stage, before>>
    PROVE  FleetInv'
<1> USE DEF script, fleet
<1>1. Types'
  BY DEF FleetInv, Types, TypeOK
<1>2. SignedOnly' /\ Verified' /\ RunsDigest' /\ Answered' /\ OneReset' /\ OthersServe'
  BY DEF FleetInv, SignedOnly, Verified, RunsDigest, Answered, OneReset, OthersServe, Serving, Rolled
<1> QED BY <1>1, <1>2 DEF FleetInv

\* Every step keeps the invariant.
LEMMA FleetNext == FleetInv /\ [Next]_vars => FleetInv'
<1> SUFFICES ASSUME FleetInv, [Next]_vars PROVE FleetInv'
  OBVIOUS
<1>1. ASSUME NEW d \in Digests, Commit(d) PROVE FleetInv'
  BY <1>1, CommitKeeps DEF Commit
<1>2. ASSUME UNCHANGED vars PROVE FleetInv'
  <2>1. pin' \in Digests /\ UNCHANGED <<script, fleet, witnessed, stage, before>>
    BY <1>2 DEF vars, script, fleet, FleetInv, Types, TypeOK
  <2> QED BY <2>1, CommitKeeps
<1> QED BY <1>1, <1>2, ScriptKeeps, StartupScriptKeeps, WarmUpKeeps, RebootKeeps DEF Next
-----------------------------------------------------------------------------
\* The invariant is one of the specification.
LEMMA FleetInvHolds == Spec => []FleetInv
BY FleetInit, FleetNext, PTL DEF Spec

\* The script's list of VMs is empty exactly when it does not run, and the gate
\* tries at most GATE_TRIES times.
THEOREM FleetTypeCorrect == Spec => []TypeOK
<1>1. FleetInv => TypeOK
  BY DEF FleetInv, Types
<1> QED BY <1>1, FleetInvHolds, PTL

\* In every roll, however large the fleet and wherever the roll stops, the VMs
\* that answered when it began go on answering, but for one between its reset and
\* the gate and for those the gate let pass on an answer of a container that was
\* yet to be replaced.
THEOREM OthersKeepAnsweringHolds == Spec => []OthersKeepAnswering
<1>1. FleetInv => OthersKeepAnswering
  <2> SUFFICES ASSUME FleetInv PROVE OthersKeepAnswering
    OBVIOUS
  <2>1. before \subseteq Nodes /\ stage \in [Nodes -> Stages]
    BY DEF FleetInv, Types, TypeOK
  <2>2. \A n \in before : "mainnet" \notin answers[n] => stage[n] \in {"reset", "early", "old"}
    BY <2>1 DEF FleetInv, OthersServe, Serving, Stages
  <2>3. \A m, n \in before : stage[m] = "reset" /\ stage[n] = "reset" => m = n
    BY <2>1 DEF FleetInv, OneReset
  <2> QED BY <2>2, <2>3 DEF OthersKeepAnswering
<1> QED BY <1>1, FleetInvHolds, PTL

\* No VM is ever told to run an image without a signature, though the pin may move
\* between the verification and any later VM of the roll.
THEOREM SignedOnlyHolds == Spec => []SignedOnly
<1>1. FleetInv => SignedOnly
  BY DEF FleetInv
<1> QED BY <1>1, FleetInvHolds, PTL

\* In every roll an existing VM's label is moved only after the gate has passed it,
\* and unless a container of another image has answered the gate, only after the
\* VM has answered mainnet with the image of the label.
THEOREM LabelWitnessedHolds == Spec => LabelWitnessed
<1> DEFINE Labelled(n) == /\ label'[n] = digest
                          /\ stage[n] \in {"passed", "early", "old"}
                          /\ stage[n] # "old" => witnessed
<1>1. ASSUME FleetInv, [Next]_vars
      PROVE  [\A n \in Nodes : label'[n] # label[n] /\ vm[n] # "absent" => Labelled(n)]_vars
  <2> SUFFICES ASSUME NEW n \in Nodes, label'[n] # label[n], vm[n] # "absent"
               PROVE  Labelled(n)
    OBVIOUS
  <2>1. CASE AddLabel
    <3>1. pc = "label" /\ label' = [label EXCEPT ![Rolled] = digest]
      BY <2>1 DEF AddLabel, Rolled
    <3>2. n = Rolled /\ label'[n] = digest
      BY <1>1, <3>1 DEF FleetInv, Types, TypeOK
    <3> QED BY <1>1, <3>1, <3>2 DEF FleetInv, Answered
  <2>2. CASE CreateVm
    <3>1. n # Rolled \/ vm[Rolled] # "absent"
      OBVIOUS
    <3> QED BY <1>1, <2>2, <3>1 DEF CreateVm, Rolled, FleetInv, Types, TypeOK
  <2>3. CASE label' = label
    BY <2>3
  <2> QED BY <1>1, <2>1, <2>2, <2>3
          DEF Next, Start, Audit, VerifyImage, AddMetadata, Reset, Gate, Die, Abort,
              StartupScript, WarmUp, Reboot, Commit, fleet, vars
<1> QED BY <1>1, FleetInvHolds, PTL DEF Spec, LabelWitnessed
=============================================================================
