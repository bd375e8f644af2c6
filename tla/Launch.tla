------------------------------- MODULE Launch -------------------------------
(***************************************************************************)
(* What happens before the seeder serves: src/main.rs loads the .env file, *)
(* src/commands.rs sets up logging and dispatches the command, and         *)
(* src/config.rs layers defaults, the configuration file and the           *)
(* environment, per key, and validates the result.  Between launches an    *)
(* operator edits the three sources or takes the output of print-config    *)
(* as the configuration file.  Names of DNS zones are compared for         *)
(* equality only; the module Zones has the rest of their validation.       *)
(***************************************************************************)
EXTENDS Integers, FiniteSets

CONSTANTS
    Keys,          \* configuration keys, e.g. "metrics.endpoint_addr"
    SectionOf,     \* Keys -> the section or zone a key belongs to
    ZoneSections,  \* sections that are zones, present only if some key names them
    Always,        \* sections present by default: dns and rate_limit
    Domain,        \* zone -> the key of the zone's domain
    Unknown,       \* keys no section has, refused by deny_unknown_fields
    Default,       \* Keys -> the default of the key's section
    Values,        \* values a key accepts
    Malformed,     \* a value its key does not accept: wrong type, zero rate, no name
    Unset,         \* the source does not mention the key
    Broken,        \* a source that exists and cannot be parsed
    MaxSet         \* bound: names the operator sets in all sources together

RUST_LOG == "RUST_LOG"
Names    == Keys \cup {RUST_LOG}
Sections == {SectionOf[k] : k \in Keys}

ASSUME LaunchAssumption ==
    /\ Unset \notin Values \cup {Malformed} /\ Malformed \notin Values
    /\ ZoneSections \cup Always \subseteq Sections /\ ZoneSections \cap Always = {}
    /\ Unknown \subseteq Keys /\ Domain \in [ZoneSections -> Keys]
    /\ \A z \in ZoneSections : SectionOf[Domain[z]] = z
    /\ \A k \in Unknown : SectionOf[k] \notin ZoneSections \cup Always
    /\ Default \in [Keys -> Values \cup {Malformed}]
    /\ RUST_LOG \notin Keys /\ MaxSet \in Nat

\* What a source says: a value for some names.
NoSource == [n \in Names |-> Unset]
Size(s)  == IF s = Broken THEN 0 ELSE Cardinality({n \in Names : s[n] # Unset})

VARIABLES
    environment,   \* the variables the service manager passes
    dotenv,        \* .env in the working directory, or Broken
    file,          \* the file of --config, or Broken (also: missing)
    printed,       \* what print-config wrote last, as a source
    pc, command,   \* the process
    env,           \* its environment
    config,        \* the resolved configuration: a function on some of Keys
    recorder,      \* whether the Prometheus recorder is installed
    started,       \* networks whose crawler has been spawned
    exported       \* those whose start-up gauges reached the recorder

sources == <<environment, dotenv, file, printed>>
process == <<pc, command, env, config, recorder, started, exported>>
vars == <<environment, dotenv, file, printed, pc, command, env, config,
          recorder, started, exported>>

NoConfig == [k \in {} |-> Unset]

Down ==
    /\ pc' = "down" /\ command' = "none" /\ env' = NoSource /\ config' = NoConfig
    /\ recorder' = FALSE /\ started' = {} /\ exported' = {}

Init ==
    /\ environment = NoSource /\ dotenv = NoSource /\ file = NoSource /\ printed = NoSource
    /\ pc = "down" /\ command = "none" /\ env = NoSource /\ config = NoConfig
    /\ recorder = FALSE /\ started = {} /\ exported = {}
-----------------------------------------------------------------------------
(* The configuration.                                                      *)

\* The environment over the file, per key.
Merged(s, e) == [k \in Keys |-> IF e[k] # Unset THEN e[k] ELSE s[k]]

\* A section that is None by default exists once a key of it is named; the rest
\* of it then has the section's defaults.
Present(m) == Always \cup {SectionOf[k] : k \in {k \in Keys : m[k] # Unset}}

Resolved(m) ==
    [k \in {k \in Keys : \/ k \in Unknown /\ m[k] # Unset
                         \/ k \notin Unknown /\ SectionOf[k] \in Present(m)} |->
        IF m[k] = Unset THEN Default[k] ELSE m[k]]

HasSection(c, s) == \E k \in DOMAIN c : SectionOf[k] = s

\* What a section's type and its validate function accept.
Accepted(c) == \A k \in DOMAIN c : k \notin Unknown /\ c[k] \in Values

\* Variant of Valid: each key is validated by itself.
ValidKeys(c) ==
    /\ Accepted(c)
    /\ \E z \in ZoneSections : HasSection(c, z)

\* Deserialisation and SeederConfig::validate, of the merged values alone.
Valid(c) ==
    /\ Accepted(c)
    /\ \E z \in ZoneSections : HasSection(c, z)
    /\ \A y, z \in ZoneSections :
          y # z /\ HasSection(c, y) /\ HasSection(c, z) => c[Domain[y]] # c[Domain[z]]

\* Variant of Rendered: values that equal the default are left out.
RenderedDifferences(c) ==
    [n \in Names |-> IF n \in DOMAIN c /\ c[n] # Default[n] THEN c[n] ELSE Unset]

\* toml::to_string_pretty: every key of every section that is Some.
Rendered(c) == [n \in Names |-> IF n \in DOMAIN c THEN c[n] ELSE Unset]
-----------------------------------------------------------------------------
(* The process.                                                            *)

Run(c) ==
    /\ pc = "down"
    /\ pc' = "dotenv" /\ command' = c /\ env' = environment
    /\ UNCHANGED <<sources, config, recorder, started, exported>>

\* Variant of LoadDotenv: the file overrides the environment.
LoadDotenvOverrides ==
    /\ pc = "dotenv" /\ dotenv # Broken
    /\ env' = [n \in Names |-> IF dotenv[n] # Unset THEN dotenv[n] ELSE env[n]]
    /\ pc' = "logging"
    /\ UNCHANGED <<sources, command, config, recorder, started, exported>>

\* load_dotenv_from_path: a variable that is set already keeps its value.
LoadDotenv ==
    /\ pc = "dotenv" /\ dotenv # Broken
    /\ env' = [n \in Names |-> IF env[n] # Unset THEN env[n] ELSE dotenv[n]]
    /\ pc' = "logging"
    /\ UNCHANGED <<sources, command, config, recorder, started, exported>>

\* log_filter_from_env, and the dispatch.
InitLogging ==
    /\ pc = "logging" /\ env[RUST_LOG] # Malformed
    /\ pc' = IF command = "attest-activation" THEN "attest" ELSE "config"
    /\ UNCHANGED <<sources, command, env, config, recorder, started, exported>>

LoadConfig ==
    /\ pc = "config" /\ file # Broken
    /\ config' = Resolved(Merged(file, env))
    /\ Valid(config')
    /\ pc' = IF command = "start" THEN "metrics" ELSE "print"
    /\ UNCHANGED <<sources, command, env, recorder, started, exported>>

\* Variant of InitMetrics: the recorder is installed by a task that starts later.
InitMetricsLater ==
    /\ pc = "metrics"
    /\ recorder' = FALSE
    /\ pc' = "crawlers"
    /\ UNCHANGED <<sources, command, env, config, started, exported>>

\* metrics::init, when the section is Some.
InitMetrics ==
    /\ pc = "metrics"
    /\ recorder' = HasSection(config, "metrics")
    /\ pc' = "crawlers"
    /\ UNCHANGED <<sources, command, env, config, started, exported>>

\* spawn_network_crawler, network after network (in an order that does not
\* matter here): the build and floor gauges are set once; without a recorder
\* they are lost.
SpawnNetworkCrawler(z) ==
    /\ pc = "crawlers" /\ HasSection(config, z) /\ z \notin started
    /\ started' = started \cup {z}
    /\ exported' = IF recorder THEN exported \cup {z} ELSE exported
    /\ UNCHANGED <<sources, pc, command, env, config, recorder>>

Serve ==
    /\ pc = "crawlers" /\ \A z \in ZoneSections : HasSection(config, z) => z \in started
    /\ pc' = "serving"
    /\ UNCHANGED <<sources, command, env, config, recorder, started, exported>>

PrintConfig ==
    /\ pc = "print"
    /\ printed' = Rendered(config)
    /\ Down
    /\ UNCHANGED <<environment, dotenv, file>>

\* Any step of a launch may fail, for the reasons the steps name or for those of
\* the system (an address in use, stdout closed), a serving process may be
\* stopped, and attest-activation ends.
End ==
    /\ pc # "down"
    /\ Down
    /\ UNCHANGED sources

\* The operator, between launches; once a configuration has been printed (bound)
\* the sources only shrink.
Edit(n, v) ==
    /\ pc = "down"
    /\ v # Unset => /\ printed = NoSource
                     /\ Size(environment) + Size(dotenv) + Size(file) < MaxSet
    /\ \/ environment' = [environment EXCEPT ![n] = v] /\ UNCHANGED <<dotenv, file>>
       \/ dotenv # Broken /\ dotenv' = [dotenv EXCEPT ![n] = v] /\ UNCHANGED <<environment, file>>
       \/ /\ file # Broken /\ n # RUST_LOG
          /\ file' = [file EXCEPT ![n] = v] /\ UNCHANGED <<environment, dotenv>>
    /\ UNCHANGED <<printed, process>>

Damage ==
    /\ pc = "down"
    /\ \/ dotenv' = Broken /\ UNCHANGED file
       \/ file' = Broken /\ UNCHANGED dotenv
    /\ UNCHANGED <<environment, printed, process>>

Adopt ==
    /\ pc = "down" /\ printed # NoSource
    /\ file' = printed
    /\ UNCHANGED <<environment, dotenv, printed, process>>

Next ==
    \/ \E c \in {"start", "print-config", "attest-activation"} : Run(c)
    \/ LoadDotenv
    \/ InitLogging
    \/ LoadConfig
    \/ InitMetrics
    \/ \E z \in ZoneSections : SpawnNetworkCrawler(z)
    \/ Serve
    \/ PrintConfig
    \/ End
    \/ \E n \in Names, v \in Values \cup {Malformed, Unset} : Edit(n, v)
    \/ Damage
    \/ Adopt

Spec == Init /\ [][Next]_vars
-----------------------------------------------------------------------------
(* Properties.                                                             *)

Loaded == pc \in {"metrics", "crawlers", "serving", "print"}

\* Every variable has its type, and a process past validation has a
\* configuration with a zone, zones that differ, no malformed value, and (there
\* being no way to say None) a DNS listener and a rate limit.
TypeOK ==
    /\ environment \in [Names -> Values \cup {Malformed, Unset}]
    /\ pc \in {"down", "dotenv", "logging", "attest", "config"} \/ Loaded
    /\ started \subseteq ZoneSections /\ exported \subseteq started
    /\ Loaded => /\ \A k \in DOMAIN config : config[k] \in Values
                 /\ \A s \in Always : HasSection(config, s)
                 /\ \A y, z \in ZoneSections :
                       y # z /\ HasSection(config, y) /\ HasSection(config, z)
                          => config[Domain[y]] # config[Domain[z]]

\* The precedence main and load_with_env build between them: a variable of the
\* process's real environment wins over .env, and .env over the file.
Precedence ==
    Loaded => \A k \in Keys :
        /\ environment[k] # Unset => config[k] = environment[k]
        /\ environment[k] = Unset /\ dotenv[k] # Unset => config[k] = dotenv[k]

\* What print-config writes is the configuration: taken as the file, in an
\* environment that says nothing else, it resolves to itself, with no section
\* lost or gained.
PrintedReproduces ==
    Loaded /\ file = printed /\ printed # NoSource
        /\ (\A k \in Keys : env[k] \in {Unset, printed[k]})
      => /\ DOMAIN config = {k \in Keys : printed[k] # Unset}
         /\ \A k \in DOMAIN config : config[k] = printed[k]

\* With a metrics section, the gauges that are set only while a network starts
\* are all in the recorder once the seeder serves.
StartupGaugesExported ==
    pc = "serving" /\ HasSection(config, "metrics") => exported = started
=============================================================================
