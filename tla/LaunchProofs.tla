---------------------------- MODULE LaunchProofs ----------------------------
(* Theorems about Launch for every set of keys, sections and values.       *)
EXTENDS Launch, TLAPS

-----------------------------------------------------------------------------
(* The inductive invariant.                                                *)

Sources == [Names -> Values \cup {Malformed, Unset}]

SourceTypes ==
    /\ environment \in Sources /\ printed \in Sources
    /\ dotenv \in Sources \cup {Broken} /\ file \in Sources \cup {Broken}
    /\ pc \in {"down", "dotenv", "logging", "attest", "config"} \/ Loaded

\* A source that says of every section either nothing or everything, and only what
\* is accepted, with the default sections there.
Complete(s) ==
    \A k \in Keys :
        /\ s[k] # Unset => k \notin Unknown /\ s[k] \in Values
        /\ k \notin Unknown =>
              (s[k] # Unset <=> SectionOf[k] \in Present(s))

PrintedComplete == printed # NoSource => Complete(printed)

\* The process's environment: the real one, and from then on .env beneath it.
Layered == [n \in Names |-> IF environment[n] # Unset THEN environment[n] ELSE dotenv[n]]

EnvLayered ==
    /\ pc = "dotenv" => env = environment
    /\ pc \in {"logging", "attest", "config"} \/ Loaded
          => dotenv \in Sources /\ env = Layered

\* The configuration in use is the one the sources resolve to, and is valid.
ConfigResolved ==
    Loaded => /\ file \in Sources
              /\ config = Resolved(Merged(file, env)) /\ Valid(config)

\* The recorder is there before the first crawler, and loses nothing.
Recorded ==
    /\ pc \notin {"crawlers", "serving"} => started = {} /\ exported = {}
    /\ pc \in {"crawlers", "serving"} /\ HasSection(config, "metrics") => recorder
    /\ recorder /\ pc \in {"crawlers", "serving"} => exported = started
    /\ started \subseteq ZoneSections /\ exported \subseteq started

LaunchInv == SourceTypes /\ PrintedComplete /\ EnvLayered /\ ConfigResolved /\ Recorded
-----------------------------------------------------------------------------
(* What the layering resolves to.                                          *)

\* A key that some source names is in the configuration with the value of the
\* highest of them.
LEMMA NamedKey ==
    ASSUME NEW m, NEW k \in Keys, m[k] # Unset
    PROVE  k \in DOMAIN Resolved(m) /\ Resolved(m)[k] = m[k]
<1>1. SectionOf[k] \in Present(m)
  BY DEF Present
<1>2. k \in DOMAIN Resolved(m)
  BY <1>1 DEF Resolved
<1> QED BY <1>2 DEF Resolved

\* The keys of a configuration are the known ones of the sections present.
LEMMA ResolvedKeys ==
    ASSUME NEW m, Accepted(Resolved(m)), NEW k \in Keys
    PROVE  /\ k \in DOMAIN Resolved(m) <=> k \notin Unknown /\ SectionOf[k] \in Present(m)
           /\ m[k] # Unset => k \notin Unknown
           /\ k \in DOMAIN Resolved(m) => Resolved(m)[k] \in Values
<1>1. \A j \in DOMAIN Resolved(m) : j \notin Unknown /\ Resolved(m)[j] \in Values
  BY DEF Accepted
<1>2. k \in DOMAIN Resolved(m) <=> \/ k \in Unknown /\ m[k] # Unset
                                   \/ k \notin Unknown /\ SectionOf[k] \in Present(m)
  BY DEF Resolved
<1>3. m[k] # Unset => k \notin Unknown
  BY <1>1, NamedKey
<1> QED BY <1>1, <1>2, <1>3

\* The sections that are present by default are in every configuration.
LEMMA AlwaysThere ==
    ASSUME NEW m, Accepted(Resolved(m)), NEW sec \in Always
    PROVE  HasSection(Resolved(m), sec)
<1>1. PICK k \in Keys : SectionOf[k] = sec
  BY LaunchAssumption DEF Sections
<1>2. k \notin Unknown /\ SectionOf[k] \in Present(m)
  BY <1>1, LaunchAssumption DEF Present
<1>3. k \in DOMAIN Resolved(m)
  BY <1>2, ResolvedKeys
<1> QED BY <1>1, <1>3 DEF HasSection

\* What a valid configuration renders to is complete.
LEMMA RenderedComplete ==
    ASSUME NEW m, Accepted(Resolved(m))
    PROVE  Rendered(Resolved(m)) \in Sources /\ Complete(Rendered(Resolved(m)))
<1> DEFINE c == Resolved(m)
           s == Rendered(c)
<1>1. DOMAIN c \subseteq Keys /\ \A k \in DOMAIN c : c[k] \in Values /\ k \notin Unknown
  BY DEF Resolved, Accepted
<1> HIDE DEF c
<1>2. \A n \in Names : s[n] = IF n \in DOMAIN c THEN c[n] ELSE Unset
  BY DEF Rendered
<1>3. s \in Sources
  BY <1>1 DEF Rendered, Sources
<1>4. \A k \in Keys : k \in Names
  BY DEF Names
<1>5. \A k \in Keys : s[k] # Unset <=> k \in DOMAIN c
  BY <1>1, <1>2, <1>4, LaunchAssumption
<1>6. \A k \in Keys : s[k] # Unset => k \notin Unknown /\ s[k] \in Values
  BY <1>1, <1>2, <1>4, <1>5
<1>7. ASSUME NEW k \in Keys, k \notin Unknown
      PROVE  s[k] # Unset <=> SectionOf[k] \in Present(s)
  <2>1. ASSUME s[k] # Unset PROVE SectionOf[k] \in Present(s)
    BY <2>1 DEF Present
  <2>2. ASSUME SectionOf[k] \in Present(s) PROVE SectionOf[k] \in Present(m)
    <3>1. CASE SectionOf[k] \in Always
      BY <3>1 DEF Present
    <3>2. ASSUME NEW j \in Keys, s[j] # Unset, SectionOf[j] = SectionOf[k]
          PROVE  SectionOf[k] \in Present(m)
      <4>1. j \in DOMAIN Resolved(m)
        BY <1>5, <3>2 DEF c
      <4> QED BY <3>2, <4>1, ResolvedKeys
    <3>3. \/ SectionOf[k] \in Always
          \/ \E j \in Keys : s[j] # Unset /\ SectionOf[j] = SectionOf[k]
      BY <2>2 DEF Present
    <3> QED BY <3>1, <3>2, <3>3
  <2>3. ASSUME SectionOf[k] \in Present(m) PROVE s[k] # Unset
    BY <1>5, <1>7, <2>3, ResolvedKeys DEF c
  <2> QED BY <2>1, <2>2, <2>3
<1> QED BY <1>3, <1>6, <1>7 DEF Complete, c

\* A complete source resolves to itself, under an environment that says nothing
\* else.
LEMMA CompleteReproduces ==
    ASSUME NEW s, Complete(s), NEW e, \A k \in Keys : e[k] \in {Unset, s[k]}
    PROVE  LET c == Resolved(Merged(s, e))
           IN  /\ DOMAIN c = {k \in Keys : s[k] # Unset}
               /\ \A k \in DOMAIN c : c[k] = s[k]
<1> DEFINE m == Merged(s, e)
<1>1. \A k \in Keys : m[k] = s[k]
  BY DEF Merged
<1>2. Present(m) = Present(s)
  BY <1>1 DEF Present
<1> HIDE DEF m
<1>3. \A k \in Keys : k \in DOMAIN Resolved(m) <=> s[k] # Unset
  BY <1>1, <1>2 DEF Resolved, Complete
<1>4. DOMAIN Resolved(m) \subseteq Keys
  BY DEF Resolved
<1>5. DOMAIN Resolved(m) = {k \in Keys : s[k] # Unset}
  BY <1>3, <1>4
<1>6. \A k \in DOMAIN Resolved(m) : Resolved(m)[k] = s[k]
  BY <1>1, <1>5, NamedKey
<1> QED BY <1>5, <1>6 DEF m
-----------------------------------------------------------------------------
(* The invariant holds.                                                    *)

\* Before the first launch no source says anything.
LEMMA LaunchInit == Init => LaunchInv
<1> SUFFICES ASSUME Init PROVE LaunchInv
  OBVIOUS
<1>1. NoSource \in Sources
  BY DEF NoSource, Sources
<1>2. SourceTypes
  BY <1>1 DEF Init, SourceTypes
<1>3. PrintedComplete /\ EnvLayered /\ ConfigResolved /\ Recorded
  BY DEF Init, PrintedComplete, EnvLayered, ConfigResolved, Recorded, Loaded
<1> QED BY <1>2, <1>3 DEF LaunchInv

\* A process that is down leaves nothing to keep but the sources.
LEMMA DownKeeps ==
    ASSUME pc' = "down", started' = {}, exported' = {},
           environment' \in Sources, printed' \in Sources,
           dotenv' \in Sources \cup {Broken}, file' \in Sources \cup {Broken},
           PrintedComplete'
    PROVE  LaunchInv'
<1>1. ~Loaded'
  BY DEF Loaded
<1>2. SourceTypes'
  BY DEF SourceTypes
<1>3. EnvLayered' /\ ConfigResolved' /\ Recorded'
  BY <1>1 DEF EnvLayered, ConfigResolved, Recorded
<1> QED BY <1>2, <1>3 DEF LaunchInv

\* Every step keeps the invariant.
LEMMA LaunchNext ==
    ASSUME LaunchInv, [Next]_vars
    PROVE  LaunchInv'
<1> USE DEF sources, process
<1>0. /\ SourceTypes /\ PrintedComplete /\ EnvLayered /\ ConfigResolved /\ Recorded
      /\ environment \in Sources /\ printed \in Sources
      /\ dotenv \in Sources \cup {Broken} /\ file \in Sources \cup {Broken}
  BY DEF LaunchInv, SourceTypes
\* A step of the process leaves the sources alone.
<1>a. ASSUME UNCHANGED sources, pc' \in {"down", "dotenv", "logging", "attest", "config"} \/ Loaded'
      PROVE  SourceTypes' /\ PrintedComplete'
  BY <1>0, <1>a DEF SourceTypes, PrintedComplete, Complete, Present
<1>1. ASSUME NEW c \in {"start", "print-config", "attest-activation"}, Run(c) PROVE LaunchInv'
  <2>1. /\ pc = "down" /\ pc' = "dotenv" /\ env' = environment
        /\ UNCHANGED <<sources, config, recorder, started, exported>>
    BY <1>1 DEF Run
  <2>2. SourceTypes' /\ PrintedComplete'
    BY <1>a, <2>1
  <2>3. EnvLayered' /\ ConfigResolved' /\ Recorded'
    BY <1>0, <2>1 DEF EnvLayered, ConfigResolved, Recorded, Loaded
  <2> QED BY <2>2, <2>3 DEF LaunchInv
<1>2. ASSUME LoadDotenv PROVE LaunchInv'
  <2>1. /\ pc = "dotenv" /\ pc' = "logging" /\ dotenv # Broken
        /\ env' = [n \in Names |-> IF env[n] # Unset THEN env[n] ELSE dotenv[n]]
        /\ UNCHANGED <<sources, config, recorder, started, exported>>
    BY <1>2 DEF LoadDotenv
  <2>2. SourceTypes' /\ PrintedComplete'
    BY <1>a, <2>1
  <2>3. env' = Layered' /\ dotenv' \in Sources
    BY <1>0, <2>1 DEF EnvLayered, Layered
  <2>4. EnvLayered' /\ ConfigResolved' /\ Recorded'
    BY <1>0, <2>1, <2>3 DEF EnvLayered, ConfigResolved, Recorded, Loaded
  <2> QED BY <2>2, <2>4 DEF LaunchInv
<1>3. ASSUME InitLogging PROVE LaunchInv'
  <2>1. /\ pc = "logging" /\ pc' \in {"attest", "config"}
        /\ UNCHANGED <<sources, env, config, recorder, started, exported>>
    BY <1>3 DEF InitLogging
  <2>2. SourceTypes' /\ PrintedComplete'
    BY <1>a, <2>1
  <2>3. EnvLayered' /\ ConfigResolved' /\ Recorded'
    BY <1>0, <2>1 DEF EnvLayered, ConfigResolved, Recorded, Loaded, Layered
  <2> QED BY <2>2, <2>3 DEF LaunchInv
<1>4. ASSUME LoadConfig PROVE LaunchInv'
  <2>1. /\ pc = "config" /\ pc' \in {"metrics", "print"} /\ file # Broken
        /\ config' = Resolved(Merged(file, env)) /\ Valid(config')
        /\ UNCHANGED <<sources, env, recorder, started, exported>>
    BY <1>4 DEF LoadConfig
  <2>2. SourceTypes' /\ PrintedComplete'
    BY <1>a, <2>1 DEF Loaded
  <2>3. EnvLayered' /\ Recorded'
    BY <1>0, <2>1 DEF EnvLayered, Recorded, Loaded, Layered
  <2>4. ConfigResolved'
    BY <1>0, <2>1 DEF ConfigResolved, Valid, Accepted, HasSection
  <2> QED BY <2>2, <2>3, <2>4 DEF LaunchInv
<1>5. ASSUME InitMetrics PROVE LaunchInv'
  <2>1. /\ pc = "metrics" /\ pc' = "crawlers"
        /\ UNCHANGED <<sources, env, config, started, exported>>
    BY <1>5 DEF InitMetrics
  <2>2. HasSection(config, "metrics") => recorder'
    BY <1>5, Zenon DEF InitMetrics
  <2>3. SourceTypes' /\ PrintedComplete'
    BY <1>a, <2>1 DEF Loaded
  <2>4. EnvLayered' /\ ConfigResolved'
    BY <1>0, <2>1 DEF EnvLayered, ConfigResolved, Loaded, Layered, Valid, Accepted, HasSection
  <2>5. Recorded'
    BY <1>0, <2>1, <2>2 DEF Recorded, HasSection
  <2> QED BY <2>3, <2>4, <2>5 DEF LaunchInv
<1>6. ASSUME NEW z \in ZoneSections, SpawnNetworkCrawler(z) PROVE LaunchInv'
  <2>1. /\ pc = "crawlers" /\ started' = started \cup {z}
        /\ exported' = IF recorder THEN exported \cup {z} ELSE exported
        /\ UNCHANGED <<sources, pc, env, config, recorder>>
    BY <1>6 DEF SpawnNetworkCrawler
  <2>2. SourceTypes' /\ PrintedComplete'
    BY <1>a, <2>1 DEF Loaded
  <2>3. EnvLayered' /\ ConfigResolved'
    BY <1>0, <2>1 DEF EnvLayered, ConfigResolved, Loaded, Layered, Valid, Accepted, HasSection
  <2>4. Recorded'
    BY <1>0, <2>1 DEF Recorded, HasSection
  <2> QED BY <2>2, <2>3, <2>4 DEF LaunchInv
<1>7. ASSUME Serve PROVE LaunchInv'
  <2>1. /\ pc = "crawlers" /\ pc' = "serving"
        /\ UNCHANGED <<sources, env, config, recorder, started, exported>>
    BY <1>7 DEF Serve
  <2>2. SourceTypes' /\ PrintedComplete'
    BY <1>a, <2>1 DEF Loaded
  <2>3. EnvLayered' /\ ConfigResolved' /\ Recorded'
    BY <1>0, <2>1 DEF EnvLayered, ConfigResolved, Recorded, Loaded, Layered, Valid, Accepted,
       HasSection
  <2> QED BY <2>2, <2>3 DEF LaunchInv
<1>8. ASSUME PrintConfig PROVE LaunchInv'
  <2>1. /\ pc = "print" /\ printed' = Rendered(config) /\ pc' = "down"
        /\ started' = {} /\ exported' = {} /\ UNCHANGED <<environment, dotenv, file>>
    BY <1>8 DEF PrintConfig, Down
  <2>2. config = Resolved(Merged(file, env)) /\ Accepted(config)
    BY <1>0, <2>1 DEF ConfigResolved, Loaded, Valid
  <2>3. Rendered(config) \in Sources /\ Complete(Rendered(config))
    BY <2>2, RenderedComplete
  <2>4. PrintedComplete'
    BY <2>1, <2>3 DEF PrintedComplete, Complete, Present
  <2> QED BY <1>0, <2>1, <2>3, <2>4, DownKeeps
<1>9. ASSUME End PROVE LaunchInv'
  <2>1. pc' = "down" /\ started' = {} /\ exported' = {} /\ UNCHANGED sources
    BY <1>9 DEF End, Down
  <2>2. PrintedComplete'
    BY <1>a, <2>1
  <2> QED BY <1>0, <2>1, <2>2, DownKeeps
\* Between launches.
<1>b. ASSUME pc = "down", UNCHANGED <<process, printed>>, environment' \in Sources,
             dotenv' \in Sources \cup {Broken}, file' \in Sources \cup {Broken}
      PROVE  LaunchInv'
  <2>1. pc' = "down" /\ started' = {} /\ exported' = {} /\ printed' \in Sources
    BY <1>0, <1>b DEF Recorded
  <2>2. PrintedComplete'
    BY <1>0, <1>b DEF PrintedComplete, Complete, Present
  <2> QED BY <1>b, <2>1, <2>2, DownKeeps
<1>10. ASSUME NEW n \in Names, NEW v \in Values \cup {Malformed, Unset}, Edit(n, v) PROVE LaunchInv'
  <2>1. pc = "down" /\ UNCHANGED <<process, printed>>
    BY <1>10 DEF Edit
  <2>2. \A s \in Sources : [s EXCEPT ![n] = v] \in Sources
    BY DEF Sources
  <2>3. /\ environment' \in Sources
        /\ dotenv' \in Sources \cup {Broken} /\ file' \in Sources \cup {Broken}
    BY <1>0, <1>10, <2>2 DEF Edit
  <2> QED BY <1>b, <2>1, <2>3
<1>11. ASSUME Damage PROVE LaunchInv'
  BY <1>0, <1>11, <1>b DEF Damage
<1>12. ASSUME Adopt PROVE LaunchInv'
  BY <1>0, <1>12, <1>b DEF Adopt
<1>13. ASSUME UNCHANGED vars PROVE LaunchInv'
  <2>1. UNCHANGED <<sources, pc, env, config, recorder, started, exported>>
    BY <1>13 DEF vars
  <2>2. SourceTypes' /\ PrintedComplete'
    BY <1>0, <1>a, <2>1 DEF SourceTypes, Loaded
  <2>3. EnvLayered' /\ ConfigResolved' /\ Recorded'
    BY <1>0, <2>1 DEF EnvLayered, ConfigResolved, Recorded, Loaded, Layered, Valid, Accepted,
       HasSection
  <2> QED BY <2>2, <2>3 DEF LaunchInv
<1> QED BY <1>1, <1>2, <1>3, <1>4, <1>5, <1>6, <1>7, <1>8, <1>9, <1>10, <1>11, <1>12, <1>13
        DEF Next
-----------------------------------------------------------------------------
\* The invariant is one of the specification.
LEMMA LaunchInvHolds == Spec => []LaunchInv
BY LaunchInit, LaunchNext, PTL DEF Spec

\* A process past validation has the sections that cannot be absent, zones that
\* differ, and no value its key does not accept.
THEOREM LaunchTypeCorrect == Spec => []TypeOK
<1>1. LaunchInv => TypeOK
  <2> SUFFICES ASSUME LaunchInv PROVE TypeOK
    OBVIOUS
  <2>1. /\ environment \in [Names -> Values \cup {Malformed, Unset}]
        /\ pc \in {"down", "dotenv", "logging", "attest", "config"} \/ Loaded
        /\ started \subseteq ZoneSections /\ exported \subseteq started
    BY DEF LaunchInv, SourceTypes, Sources, Recorded
  <2>2. ASSUME Loaded
        PROVE  /\ \A k \in DOMAIN config : config[k] \in Values
               /\ \A s \in Always : HasSection(config, s)
               /\ \A y, z \in ZoneSections :
                     y # z /\ HasSection(config, y) /\ HasSection(config, z)
                        => config[Domain[y]] # config[Domain[z]]
    <3>1. config = Resolved(Merged(file, env)) /\ Valid(config) /\ Accepted(config)
      BY <2>2 DEF LaunchInv, ConfigResolved, Valid
    <3>2. \A s \in Always : HasSection(config, s)
      BY <3>1, AlwaysThere
    <3> QED BY <3>1, <3>2 DEF Valid, Accepted
  <2> QED BY <2>1, <2>2 DEF TypeOK
<1> QED BY <1>1, LaunchInvHolds, PTL

\* The environment wins over .env and .env over the file, key by key, also where
\* the three disagree about which sections there are.
THEOREM PrecedenceHolds == Spec => []Precedence
<1>1. LaunchInv => Precedence
  <2> SUFFICES ASSUME LaunchInv, Loaded, NEW k \in Keys
               PROVE  /\ environment[k] # Unset => config[k] = environment[k]
                      /\ environment[k] = Unset /\ dotenv[k] # Unset => config[k] = dotenv[k]
    BY DEF Precedence
  <2>1. config = Resolved(Merged(file, env)) /\ env = Layered
    BY DEF LaunchInv, ConfigResolved, EnvLayered
  <2>2. env[k] = IF environment[k] # Unset THEN environment[k] ELSE dotenv[k]
    BY <2>1 DEF Layered, Names
  <2>3. env[k] # Unset => Merged(file, env)[k] = env[k]
    BY DEF Merged
  <2>4. env[k] # Unset => config[k] = env[k]
    BY <2>1, <2>3, NamedKey
  <2> QED BY <2>2, <2>4
<1> QED BY <1>1, LaunchInvHolds, PTL

\* The output of print-config is a fixed point of the loading.
THEOREM PrintedReproducesHolds == Spec => []PrintedReproduces
<1>1. LaunchInv => PrintedReproduces
  <2> SUFFICES ASSUME LaunchInv, Loaded, file = printed, printed # NoSource,
                      \A k \in Keys : env[k] \in {Unset, printed[k]}
               PROVE  /\ DOMAIN config = {k \in Keys : printed[k] # Unset}
                      /\ \A k \in DOMAIN config : config[k] = printed[k]
    BY DEF PrintedReproduces
  <2>1. config = Resolved(Merged(printed, env)) /\ Complete(printed)
    BY DEF LaunchInv, ConfigResolved, PrintedComplete
  <2> QED BY <2>1, CompleteReproduces
<1> QED BY <1>1, LaunchInvHolds, PTL

\* The recorder is installed before any crawler sets a gauge it sets only once.
THEOREM StartupGaugesExportedHolds == Spec => []StartupGaugesExported
<1>1. LaunchInv => StartupGaugesExported
  BY DEF LaunchInv, Recorded, StartupGaugesExported
<1> QED BY <1>1, LaunchInvHolds, PTL
=============================================================================
