--------------------------- MODULE SettingsProofs ----------------------------
(***************************************************************************)
(* Theorems about Settings, for any secrets and names and any number of    *)
(* writes, resets and failed calls.                                        *)
(***************************************************************************)
EXTENDS Settings, TLAPS

-----------------------------------------------------------------------------
(* Documents and configurations. *)

\* What a document may say of each setting.
LEMMA DocumentValues ==
  ASSUME NEW d \in Document
  PROVE  /\ DOMAIN d \subseteq Fields
         /\ "lock" \in DOMAIN d => d["lock"] \in BOOLEAN
         /\ "key" \in DOMAIN d => d["key"] \in Keys \cup {Mask}
         /\ "name" \in DOMAIN d => d["name"] \in Names
<1>1. PICK S \in SUBSET Fields :
        d \in {x \in [S -> UNION {Typed[f] : f \in S}] : \A f \in S : x[f] \in Typed[f]}
  BY DEF Document
<1>2. DOMAIN d = S /\ \A f \in S : d[f] \in Typed[f]
  BY <1>1
<1>3. Typed["lock"] = BOOLEAN /\ Typed["key"] = Keys \cup {Mask} /\ Typed["name"] = Names
  BY DEF Typed
<1> QED BY <1>1, <1>2, <1>3

\* A function that gives settings values of their types is a document.
LEMMA IsDocument ==
  ASSUME NEW S \in SUBSET Fields, NEW d, d = [f \in S |-> d[f]],
         \A f \in S : d[f] \in Typed[f]
  PROVE  d \in Document
<1>1. d \in [S -> UNION {Typed[f] : f \in S}]
  OBVIOUS
<1> QED BY <1>1 DEF Document

\* The three settings of what a document makes of a configuration.
LEMMA MergeFields ==
  ASSUME NEW c \in Config, NEW d \in Document
  PROVE  /\ Merge(c, d) \in Config
         /\ Merge(c, d).lock = IF "lock" \in DOMAIN d THEN d["lock"] ELSE c.lock
         /\ Merge(c, d).key = IF "key" \in DOMAIN d /\ d["key"] # Mask THEN d["key"] ELSE c.key
         /\ Merge(c, d).name = IF "name" \in DOMAIN d THEN d["name"] ELSE c.name
  BY DocumentValues DEF Merge, Says, Config, Fields

\* Configurations that agree on their settings are equal.
LEMMA SameConfig ==
  ASSUME NEW a \in Config, NEW b \in Config, a.lock = b.lock, a.key = b.key, a.name = b.name
  PROVE  a = b
  BY DEF Config

\* What an export shows, setting by setting.
LEMMA ExportedFields ==
  ASSUME NEW c \in Config, NEW secrets \in BOOLEAN
  PROVE  /\ Exported(c, secrets) \in Document
         /\ DOMAIN Exported(c, secrets) = IF c.name = NoName THEN {"lock", "key"} ELSE Fields
         /\ Exported(c, secrets)["lock"] = c.lock
         /\ Exported(c, secrets)["key"] = IF secrets THEN c.key ELSE Masked(c.key)
         /\ c.name # NoName => Exported(c, secrets)["name"] = c.name
<1> DEFINE S == IF c.name = NoName THEN Fields \ {"name"} ELSE Fields
<1>1. S \in SUBSET Fields /\ S = IF c.name = NoName THEN {"lock", "key"} ELSE Fields
  BY DEF Fields
<1>2. /\ Exported(c, secrets) = [f \in S |-> Exported(c, secrets)[f]]
      /\ DOMAIN Exported(c, secrets) = S
  BY DEF Exported
<1>3. /\ Exported(c, secrets)["lock"] = c.lock
      /\ Exported(c, secrets)["key"] = IF secrets THEN c.key ELSE Masked(c.key)
      /\ c.name # NoName => Exported(c, secrets)["name"] = c.name
  BY <1>1 DEF Exported, Fields
<1>4. c.lock \in BOOLEAN /\ c.key \in Keys /\ c.name \in Names
  BY DEF Config
<1>5. \A f \in S : Exported(c, secrets)[f] \in Typed[f]
  BY <1>1, <1>3, <1>4 DEF Typed, Masked, Fields
<1>6. Exported(c, secrets) \in Document
  BY <1>1, <1>2, <1>5, IsDocument
<1> QED BY <1>1, <1>2, <1>3, <1>6

\* Writing back what was read changes nothing and stores no mask, although secrets are shown
\* as "***" (gw_api_config_to_json, merge_secret).
THEOREM ReadBackKeeps ==
  ASSUME NEW c \in Config
  PROVE  Merge(c, Exported(c, FALSE)) = c
<1> DEFINE d == Exported(c, FALSE)
<1>1. /\ d \in Document
      /\ DOMAIN d = IF c.name = NoName THEN {"lock", "key"} ELSE Fields
      /\ d["lock"] = c.lock /\ d["key"] = Masked(c.key)
      /\ c.name # NoName => d["name"] = c.name
  BY ExportedFields
<1>2. /\ Merge(c, d) \in Config
      /\ Merge(c, d).lock = c.lock /\ Merge(c, d).key = c.key /\ Merge(c, d).name = c.name
  BY <1>1, MergeFields DEF Masked, Fields
<1> QED BY <1>2, SameConfig

\* An export with its secrets, imported anywhere, brings the exported configuration back,
\* but for a name that it does not have and the other gateway keeps (config_to_json leaves
\* empty names out, merge_labels keeps what a document does not name).
THEOREM ImportRestores ==
  ASSUME NEW c \in Config, NEW e \in Config
  PROVE  Merge(e, Exported(c, TRUE)) = IF c.name = NoName THEN [c EXCEPT !.name = e.name] ELSE c
<1> DEFINE d == Exported(c, TRUE)
<1>1. /\ d \in Document
      /\ DOMAIN d = IF c.name = NoName THEN {"lock", "key"} ELSE Fields
      /\ d["lock"] = c.lock /\ d["key"] = c.key
      /\ c.name # NoName => d["name"] = c.name
  BY ExportedFields
<1>2. c.key # Mask
  BY ValuesAssumption DEF Config
<1>3. /\ Merge(e, d) \in Config
      /\ Merge(e, d).lock = c.lock /\ Merge(e, d).key = c.key
      /\ Merge(e, d).name = IF c.name = NoName THEN e.name ELSE c.name
  BY <1>1, <1>2, MergeFields DEF Fields
<1>4. [c EXCEPT !.name = e.name] \in Config
  BY DEF Config
<1>5. /\ [c EXCEPT !.name = e.name].lock = c.lock /\ [c EXCEPT !.name = e.name].key = c.key
      /\ [c EXCEPT !.name = e.name].name = e.name
  BY DEF Config
<1> QED BY <1>3, <1>4, <1>5, SameConfig

-----------------------------------------------------------------------------
(* Types. *)

LEMMA DefaultIsConfig == Default \in Config /\ Valid(Default)
  BY DEF Default, Config, Keys, Names, Valid

LEMMA LoadedIsConfig ==
  ASSUME NEW blob \in Config \cup {Absent}
  PROVE  Loaded(blob) \in Config /\ Valid(Loaded(blob))
  BY DefaultIsConfig DEF Loaded

LEMMA NoJobIsJob == NoJob \in Job
<1>1. NoJob.doc \in Document
  <2> DEFINE d == [f \in {} |-> NoKey]
  <2>1. {} \in SUBSET Fields /\ d = [f \in {} |-> d[f]] /\ \A f \in {} : d[f] \in Typed[f]
    OBVIOUS
  <2>2. d \in Document
    BY <2>1, IsDocument
  <2> QED BY <2>2 DEF NoJob
<1> QED BY <1>1, DefaultIsConfig DEF NoJob, Job, Place

\* A request to rename is the document that says no more than the name.
LEMMA NameIsDocument ==
  ASSUME NEW n \in Names
  PROVE  [f \in {"name"} |-> n] \in Document
<1> DEFINE d == [f \in {"name"} |-> n]
<1>1. {"name"} \in SUBSET Fields /\ d = [f \in {"name"} |-> d[f]]
      /\ \A f \in {"name"} : d[f] \in Typed[f]
  BY DEF Fields, Typed
<1> QED BY <1>1, IsDocument

LEMMA RestartPartType ==
  ASSUME NEW c \in Config
  PROVE  RestartPart(c) \in BOOLEAN \X Keys
  BY DEF RestartPart, Config

LEMMA InitTypes == Init => TypeOK
<1> SUFFICES ASSUME Init PROVE TypeOK
  OBVIOUS
<1>1. flash \in Config \cup {Absent} /\ live \in Config
  BY LoadedIsConfig DEF Init
<1>2. job \in [Writer -> Job]
  BY NoJobIsJob DEF Init
<1>3. boot \in BOOLEAN \X Keys
  BY <1>1, RestartPartType DEF Init
<1>4. writes \in 0..MaxWrites /\ boots \in 0..MaxBoots /\ faults \in 0..MaxFaults
  BY BoundsAssumption DEF Init
<1> QED BY <1>1, <1>2, <1>3, <1>4 DEF Init, TypeOK

\* What a request changes when it begins.
LEMMA BeginTypes ==
  ASSUME TypeOK, NEW w \in Writer, NEW d \in Document, NEW at \in Place, NEW copy \in Config,
         Begin(w, d, at, copy), live' \in Config
  PROVE  TypeOK'
<1>1. [at |-> at, doc |-> d, copy |-> copy, told |-> FALSE] \in Job
  BY DEF Job
<1>2. job' \in [Writer -> Job]
  BY <1>1 DEF TypeOK, Begin
<1>3. writes' \in 0..MaxWrites
  BY BoundsAssumption DEF TypeOK, Begin
<1> QED BY <1>2, <1>3 DEF TypeOK, Begin

LEMMA GotoTypes ==
  ASSUME TypeOK, NEW w \in Writer, NEW p \in Place, Goto(w, p) \/ Leave(w)
  PROVE  job' \in [Writer -> Job]
<1>1. [job[w] EXCEPT !.at = p] \in Job
  BY DEF TypeOK, Job
<1> QED BY <1>1, NoJobIsJob DEF TypeOK, Goto, Leave

LEMMA FaultTypes ==
  ASSUME TypeOK, Works \/ Fails
  PROVE  faults' \in 0..MaxFaults
  BY BoundsAssumption DEF TypeOK, Works, Fails

LEMMA NextTypes == TypeOK /\ [Next]_vars => TypeOK'
<1> SUFFICES ASSUME TypeOK, [Next]_vars PROVE TypeOK'
  OBVIOUS
<1>0. /\ flash \in Config \cup {Absent} /\ live \in Config /\ job \in [Writer -> Job]
      /\ acked \in Config /\ ackedBoot \in Config
  BY DEF TypeOK
<1>1. ASSUME NEW w \in Writer, NEW d \in Document, Clone(w, d) PROVE TypeOK'
  BY <1>0, <1>1, BeginTypes DEF Clone, Place
<1>2. ASSUME NEW w \in Writer, NEW n \in Names, Rename(w, n) PROVE TypeOK'
  <2>1. live' \in Config
    BY <1>0, <1>2 DEF Rename, Config
  <2>2. (IF live.name = n THEN "reply" ELSE "store") \in Place
    BY DEF Place
  <2> QED BY <1>0, <1>2, <2>1, <2>2, NameIsDocument, BeginTypes DEF Rename
<1>3. ASSUME NEW w \in Writer, MergeDocument(w) PROVE TypeOK'
  <2> DEFINE merged == Unmask(Merge(job[w].copy, job[w].doc), live)
  <2>1. merged \in Config
    <3>1. job[w].copy \in Config /\ job[w].doc \in Document
      BY <1>0 DEF Job
    <3> QED BY <1>0, <3>1, MergeFields DEF Unmask, Config
  <2>2. AsksForRestart(live, merged) \in BOOLEAN
    BY DEF AsksForRestart
  <2>3. [job[w] EXCEPT !.at = "save", !.copy = merged, !.told = AsksForRestart(live, merged)] \in Job
    BY <1>0, <2>1, <2>2 DEF Job, Place
  <2>4. job' \in [Writer -> Job]
    BY <1>0, <1>3, <2>3, NoJobIsJob DEF MergeDocument, Leave
  <2> QED BY <1>3, <2>4 DEF MergeDocument, TypeOK, historyVars, bounds
<1>4. ASSUME NEW w \in Writer, Save(w) PROVE TypeOK'
  <2>1. job' \in [Writer -> Job]
    BY <1>4, GotoTypes DEF Save, Place
  <2>2. flash' \in Config \cup {Absent}
    BY <1>0, <1>4 DEF Save, Blob, Job
  <2>3. faults' \in 0..MaxFaults
    BY <1>4, FaultTypes DEF Save
  <2> QED BY <1>4, <2>1, <2>2, <2>3 DEF Save, TypeOK, historyVars
<1>5. ASSUME NEW w \in Writer, AdoptFirst(w) \/ AdoptRest(w) PROVE TypeOK'
  <2>1. job' \in [Writer -> Job]
    BY <1>5, GotoTypes DEF AdoptFirst, AdoptRest, Place
  <2>2. live' \in Config
    <3>1. job[w].copy \in Config
      BY <1>0 DEF Job
    <3> QED BY <1>0, <1>5, <3>1 DEF AdoptFirst, AdoptRest, Config
  <2> QED BY <1>5, <2>1, <2>2 DEF AdoptFirst, AdoptRest, TypeOK, historyVars, bounds
<1>6. ASSUME NEW w \in Writer, Reply(w) PROVE TypeOK'
  <2>1. job' \in [Writer -> Job]
    BY <1>6, GotoTypes DEF Reply, Place
  <2>2. acked' \in Config /\ ackedBoot' \in Config
    <3>1. job[w].doc \in Document
      BY <1>0 DEF Job
    <3> QED BY <1>0, <1>6, <3>1, MergeFields DEF Reply
  <2>3. asked' \in BOOLEAN
    BY <1>0, <1>6 DEF Reply, TypeOK, Job
  <2>4. faults' \in 0..MaxFaults
    BY <1>6, FaultTypes DEF Reply
  <2> QED BY <1>6, <2>1, <2>2, <2>3, <2>4 DEF Reply, TypeOK
<1>7. ASSUME NEW w \in Writer, StoreLabel(w) PROVE TypeOK'
  <2>1. job' \in [Writer -> Job]
    BY <1>7, GotoTypes DEF StoreLabel, Place
  <2>2. live' \in Config /\ flash' \in Config \cup {Absent}
    BY <1>0, <1>7 DEF StoreLabel, RestoreLabel, Blob, Config, Job
  <2>3. faults' \in 0..MaxFaults
    BY <1>7, FaultTypes DEF StoreLabel
  <2> QED BY <1>7, <2>1, <2>2, <2>3 DEF StoreLabel, TypeOK, historyVars
<1>8. ASSUME FactoryReset, job' \in [Writer -> Job] PROVE TypeOK'
  <2>1. faults' \in 0..MaxFaults
    BY <1>8, FaultTypes DEF FactoryReset, Erase, EraseFails
  <2> QED BY <1>8, <2>1, DefaultIsConfig DEF FactoryReset, Erase, EraseFails, TypeOK
<1>9. CASE HttpErases \/ ButtonErases
  BY <1>0, <1>8, <1>9 DEF HttpErases, ButtonErases
<1>10. CASE WorkerErases
  <2>1. job' \in [Writer -> Job]
    BY <1>0, <1>10, GotoTypes DEF WorkerErases, Writer, Place
  <2> QED BY <1>8, <1>10, <2>1 DEF WorkerErases
<1>11. ASSUME NEW blob \in Config \cup {Absent}, NEW config \in Config, NEW why \in SUBSET {"blind"},
              Restart(blob, config, why), Works \/ Fails
       PROVE TypeOK'
  <2>1. job' \in [Writer -> Job]
    BY <1>11, NoJobIsJob DEF Restart
  <2>2. boot' \in BOOLEAN \X Keys /\ acked' \in Config /\ ackedBoot' \in Config
    BY <1>11, RestartPartType, LoadedIsConfig DEF Restart
  <2>3. faults' \in 0..MaxFaults /\ boots' \in 0..MaxBoots
    BY <1>11, FaultTypes, BoundsAssumption DEF Restart, TypeOK
  <2> QED BY <1>11, <2>1, <2>2, <2>3 DEF Restart, TypeOK
<1>12. CASE Reset \/ ResetBlind \/ ResetErasing
  BY <1>0, <1>11, <1>12, LoadedIsConfig, DefaultIsConfig DEF Reset, ResetBlind, ResetErasing
<1>13. CASE UNCHANGED vars
  BY <1>13 DEF TypeOK, vars, historyVars, bounds
<1> QED BY <1>1, <1>2, <1>3, <1>4, <1>5, <1>6, <1>7, <1>9, <1>10, <1>12, <1>13 DEF Next

\* Every state of the store and its writers is well typed: in particular what runs and what
\* is in flash is always a configuration, whoever wrote it (s_cfg, store_save).
THEOREM TypeCorrect == Spec => []TypeOK
  BY InitTypes, NextTypes, PTL DEF Spec

-----------------------------------------------------------------------------
(* Whether a restart was asked for. *)

Evidence == asked \/ \E w \in Writer : job[w].told /\ job[w].at \in {"half", "reply"}

\* A writer that found nothing to tell holds what was live when it looked, and if that was
\* not what was booted with somebody else has told or is telling.
TellsInTime ==
  "untold" \notin excuse =>
    /\ RestartPart(live) # boot => Evidence
    /\ \A w \in Writer :
         job[w].at \in {"save", "adopt", "half"} /\ ~job[w].told /\ RestartPart(job[w].copy) # boot
           => Evidence

\* What is evidence stays evidence through a step of a writer that is not telling yet.
LEMMA EvidenceStays ==
  ASSUME TypeOK, Evidence, NEW w \in Writer, asked' = asked,
         \A v \in Writer \ {w} : job'[v] = job[v],
         job[w].at \in {"half", "reply"} => job'[w].at \in {"half", "reply"} /\ job'[w].told = job[w].told
  PROVE  Evidence'
  BY DEF Evidence

LEMMA InitTells == Init => TellsInTime
  BY DEF Init, TellsInTime, NoJob

LEMMA NextTells == TypeOK /\ TellsInTime /\ [Next]_vars => TellsInTime'
<1> SUFFICES ASSUME TypeOK, TellsInTime, [Next]_vars, "untold" \notin excuse'
             PROVE  /\ RestartPart(live)' # boot' => Evidence'
                    /\ \A v \in Writer :
                         job'[v].at \in {"save", "adopt", "half"} /\ ~job'[v].told
                            /\ RestartPart(job'[v].copy) # boot' => Evidence'
  BY DEF TellsInTime
<1>0. /\ live \in Config /\ job \in [Writer -> Job]
      /\ \A v \in Writer : job[v].copy \in Config /\ job[v].doc \in Document /\ job[v].told \in BOOLEAN
  BY DEF TypeOK, Job
<1>1. ASSUME NEW w \in Writer, NEW d \in Document, NEW at \in {"merge", "reply", "store"},
             Begin(w, d, at, live), live'.lock = live.lock, live'.key = live.key
      PROVE  TellsInTime'
  <2>1. /\ job'[w] = [at |-> at, doc |-> d, copy |-> live, told |-> FALSE]
        /\ \A v \in Writer \ {w} : job'[v] = job[v]
        /\ job[w].at = "idle" /\ asked' = asked /\ boot' = boot /\ excuse \subseteq excuse'
    BY <1>0, <1>1 DEF Begin
  <2>2. Evidence => Evidence'
    BY <2>1, EvidenceStays
  <2> QED BY <1>1, <2>1, <2>2 DEF TellsInTime, RestartPart
<1>2. ASSUME NEW w \in Writer, NEW d \in Document, Clone(w, d) PROVE TellsInTime'
  BY <1>1, <1>2 DEF Clone
<1>3. ASSUME NEW w \in Writer, NEW n \in Names, Rename(w, n) PROVE TellsInTime'
  <2>1. live'.lock = live.lock /\ live'.key = live.key
    BY <1>0, <1>3 DEF Rename, Config
  <2> QED BY <1>1, <1>3, <2>1, NameIsDocument DEF Rename
<1>4. ASSUME NEW w \in Writer, MergeDocument(w) PROVE TellsInTime'
  <2> DEFINE merged == Unmask(Merge(job[w].copy, job[w].doc), live)
  <2>1. /\ job[w].at = "merge" /\ live' = live /\ asked' = asked /\ boot' = boot /\ excuse' = excuse
        /\ \A v \in Writer \ {w} : job'[v] = job[v]
        /\ \/ /\ job'[w].at = "save" /\ job'[w].copy = merged
              /\ job'[w].told = AsksForRestart(live, merged)
           \/ job'[w] = NoJob
    BY <1>0, <1>4 DEF MergeDocument, Leave, historyVars, Job
  <2>2. Evidence => Evidence'
    BY <2>1, EvidenceStays
  <2>3. job'[w].at = "save" /\ ~job'[w].told => RestartPart(job'[w].copy) = RestartPart(live)
    <3>1. CASE job'[w] = NoJob
      BY <3>1 DEF NoJob
    <3>2. CASE job'[w].copy = merged /\ job'[w].told = AsksForRestart(live, merged)
      BY <3>2, Zenon DEF AsksForRestart
    <3> QED BY <2>1, <3>1, <3>2
  <2>4. job'[w].at \in {"idle", "save"}
    BY <2>1 DEF NoJob
  <2> QED BY <2>1, <2>2, <2>3, <2>4 DEF TellsInTime
<1>5. ASSUME NEW w \in Writer, Save(w) \/ StoreLabel(w) PROVE TellsInTime'
  <2>1. /\ job[w].at \in {"save", "store"} /\ live'.lock = live.lock /\ live'.key = live.key
        /\ asked' = asked /\ boot' = boot /\ excuse' = excuse
        /\ \A v \in Writer \ {w} : job'[v] = job[v]
        /\ \/ job[w].at = "save" /\ job'[w].at = "adopt" /\ job'[w].copy = job[w].copy
              /\ job'[w].told = job[w].told
           \/ job'[w].at \in {"reply", "idle"}
    BY <1>0, <1>5 DEF Save, StoreLabel, Goto, Leave, NoJob, historyVars, Job, RestoreLabel, Config
  <2>2. Evidence => Evidence'
    BY <2>1, EvidenceStays
  <2> QED BY <2>1, <2>2 DEF TellsInTime, RestartPart
<1>6. ASSUME NEW w \in Writer, AdoptFirst(w) \/ AdoptRest(w) PROVE TellsInTime'
  <2>1. /\ job[w].at \in {"adopt", "half"} /\ job'[w].at \in {"half", "reply"}
        /\ job'[w].told = job[w].told /\ job'[w].copy = job[w].copy
        /\ asked' = asked /\ boot' = boot /\ excuse' = excuse
        /\ \A v \in Writer \ {w} : job'[v] = job[v]
    BY <1>0, <1>6 DEF AdoptFirst, AdoptRest, Goto, historyVars, Job
  <2>2. \/ live'.lock = job[w].copy.lock /\ live'.key = live.key
        \/ live'.lock = live.lock /\ live'.key = job[w].copy.key
    BY <1>0, <1>6 DEF AdoptFirst, AdoptRest, Config
  <2>3. Evidence => Evidence'
    BY <2>1, EvidenceStays
  <2>4. job[w].told => Evidence'
    BY <2>1 DEF Evidence
  <2>5. RestartPart(live') # boot => RestartPart(live) # boot \/ RestartPart(job[w].copy) # boot
    BY <2>2 DEF RestartPart, TypeOK
  <2> QED BY <2>1, <2>3, <2>4, <2>5 DEF TellsInTime
<1>7. ASSUME NEW w \in Writer, Reply(w) PROVE TellsInTime'
  <2>1. /\ job[w].at = "reply" /\ job'[w] = NoJob /\ \A v \in Writer \ {w} : job'[v] = job[v]
        /\ live' = live /\ boot' = boot
        /\ excuse' = excuse /\ asked' = (asked \/ job[w].told)
    BY <1>0, <1>7 DEF Reply, Leave
  <2>2. Evidence => Evidence'
    BY <2>1 DEF Evidence
  <2> QED BY <2>1, <2>2 DEF TellsInTime, NoJob
<1>8. ASSUME HttpErases \/ ButtonErases \/ WorkerErases PROVE TellsInTime'
  <2>1. /\ live' = live /\ boot' = boot /\ asked' = asked /\ "untold" \notin excuse
        /\ job' = job \/ (Goto("mqtt", "halted") /\ job["mqtt"].at = "idle")
    BY <1>8 DEF HttpErases, ButtonErases, WorkerErases, FactoryReset, Erase, EraseFails
  <2>2. /\ \A v \in Writer \ {"mqtt"} : job'[v] = job[v]
        /\ job'["mqtt"] = job["mqtt"]
             \/ (job["mqtt"].at = "idle" /\ job'["mqtt"].at = "halted")
    BY <1>0, <2>1 DEF Goto, Job, Writer
  <2>3. Evidence => Evidence'
    BY <2>1, <2>2, EvidenceStays DEF Writer
  <2> QED BY <2>1, <2>2, <2>3 DEF TellsInTime
<1>9. CASE Reset \/ ResetBlind \/ ResetErasing
  <2>1. RestartPart(live)' = boot' /\ \A v \in Writer : job'[v] = NoJob
    BY <1>9 DEF Reset, ResetBlind, ResetErasing, Restart, RestartPart
  <2> QED BY <2>1 DEF NoJob
<1>10. CASE UNCHANGED vars
  BY <1>10 DEF TellsInTime, Evidence, vars, historyVars, RestartPart
<1> QED BY <1>2, <1>3, <1>4, <1>5, <1>6, <1>7, <1>8, <1>9, <1>10 DEF Next, TellsInTime

\* A client that never read reboot_required runs with nothing that needs a reboot, whichever
\* of the two writers changed what, and however their steps met (app_config_set looks at the
\* configuration that runs).
THEOREM RestartIsTold == Spec => []RestartTold
<1>1. TellsInTime => RestartTold
  BY DEF TellsInTime, RestartTold, Evidence
<1> QED BY <1>1, InitTypes, NextTypes, InitTells, NextTells, PTL DEF Spec

-----------------------------------------------------------------------------
(* RAM, flash and what was acknowledged. *)

\* What the document of a writer makes of what was acknowledged.
Promised(w) == Merge(acked, job[w].doc)

\* How far a writer that is alone has brought it.
Progress(w) ==
  \/ job[w].at = "merge" /\ live = acked /\ job[w].copy = acked /\ Loaded(flash) = acked
  \/ /\ job[w].at = "save" /\ live = acked /\ job[w].copy = Promised(w) /\ Loaded(flash) = acked
     /\ Valid(Promised(w))
  \/ /\ job[w].at = "adopt" /\ live = acked /\ job[w].copy = Promised(w)
     /\ Loaded(flash) = Promised(w)
  \/ /\ job[w].at = "half" /\ live = [acked EXCEPT !.lock = Promised(w).lock]
     /\ job[w].copy = Promised(w) /\ Loaded(flash) = Promised(w)
  \/ /\ job[w].at = "store" /\ live = Promised(w) /\ job[w].copy = acked /\ Loaded(flash) = acked
     /\ Valid(Promised(w)) /\ RestoreLabel(w) = acked
  \/ job[w].at = "reply" /\ live = Promised(w) /\ Loaded(flash) = Promised(w)

Story ==
  excuse = {} =>
    /\ \A v, w \in Writer : Inside(v) /\ Inside(w) => v = w
    /\ ~erased => acked = ackedBoot
    /\ (\A w \in Writer : ~Inside(w)) => live = acked /\ Loaded(flash) = ackedBoot
    /\ \A w \in Writer : Inside(w) => ~erased /\ Progress(w)

LEMMA NameMerge ==
  ASSUME NEW c \in Config, NEW n \in Names
  PROVE  /\ Merge(c, [f \in {"name"} |-> n]) = [c EXCEPT !.name = n]
         /\ Valid(c) => Valid([c EXCEPT !.name = n])
         /\ c.name = n => [c EXCEPT !.name = n] = c
         /\ [[c EXCEPT !.name = n] EXCEPT !.name = c.name] = c
<1> DEFINE d == [f \in {"name"} |-> n]
           e == [c EXCEPT !.name = n]
<1>1. e \in Config /\ e.lock = c.lock /\ e.key = c.key /\ e.name = n
  BY DEF Config
<1>2. d \in Document /\ DOMAIN d = {"name"} /\ d["name"] = n
  BY NameIsDocument
<1>3. Merge(c, d) \in Config /\ Merge(c, d).lock = c.lock /\ Merge(c, d).key = c.key /\ Merge(c, d).name = n
  BY <1>2, MergeFields
<1>4. Merge(c, d) = e
  BY <1>1, <1>3, SameConfig
<1>5. Valid(c) => Valid(e)
  BY <1>1 DEF Valid
<1>6. c.name = n => e = c
  BY <1>1, SameConfig
<1>7. [e EXCEPT !.name = c.name] = c
  <2>1. /\ [e EXCEPT !.name = c.name] \in Config /\ [e EXCEPT !.name = c.name].lock = c.lock
        /\ [e EXCEPT !.name = c.name].key = c.key /\ [e EXCEPT !.name = c.name].name = c.name
    BY <1>1 DEF Config
  <2> QED BY <2>1, SameConfig
<1> QED BY <1>4, <1>5, <1>6, <1>7

\* A valid configuration survives the way through flash.
LEMMA LoadedBlob ==
  ASSUME NEW c \in Config, Valid(c)
  PROVE  Loaded(c) = c
  BY ValuesAssumption DEF Loaded

LEMMA InitStory == Init => Story
  BY DEF Init, Story, Inside, NoJob

\* A step of the writer that is alone leaves the invariant to its own progress.
LEMMA StepOfOne ==
  ASSUME Story, NEW w \in Writer, excuse' = {} => excuse = {} /\ Inside(w), erased' = erased,
         \A v \in Writer \ {w} : job'[v] = job[v],
         excuse' = {} /\ ~erased =>
           /\ acked' = ackedBoot'
           /\ IF Inside(w)' THEN Progress(w)' ELSE live' = acked' /\ Loaded(flash') = ackedBoot'
  PROVE  Story'
  BY DEF Story, Inside

\* A request that begins alone finds RAM, flash and history in agreement.
LEMMA BeginsInPeace ==
  ASSUME TypeOK, Story, NEW w \in Writer, NEW d \in Document, NEW at \in {"merge", "store", "reply"},
         Begin(w, d, at, live), excuse' = {} /\ live = acked /\ Loaded(flash) = acked => Progress(w)'
  PROVE  Story'
<1>1. /\ \A v \in Writer \ {w} : job'[v] = job[v]
      /\ job[w].at = "idle" /\ job'[w].at = at
      /\ erased' = erased /\ acked' = acked /\ ackedBoot' = ackedBoot
      /\ excuse' = {} => excuse = {} /\ ~erased /\ \A v \in Writer : ~Inside(v)
  BY DEF Begin, TypeOK, Inside
<1> QED BY <1>1 DEF Story, Inside

LEMMA NextStory == TypeOK /\ Story /\ [Next]_vars => Story'
<1> SUFFICES ASSUME TypeOK, Story, [Next]_vars PROVE Story'
  OBVIOUS
<1>0. /\ flash \in Config \cup {Absent} /\ live \in Config /\ job \in [Writer -> Job] /\ acked \in Config
      /\ \A v \in Writer : job[v].copy \in Config /\ job[v].doc \in Document /\ job[v].told \in BOOLEAN
  BY DEF TypeOK, Job
<1>p. ASSUME NEW w \in Writer PROVE Promised(w) \in Config
  BY <1>0, MergeFields DEF Promised
<1>1. ASSUME NEW w \in Writer, NEW d \in Document, Clone(w, d) PROVE Story'
  <2>1. /\ live' = live /\ flash' = flash /\ acked' = acked
        /\ job'[w].at = "merge" /\ job'[w].copy = live
    BY <1>0, <1>1 DEF Clone, Begin
  <2>2. live = acked /\ Loaded(flash) = acked => Progress(w)'
    BY <2>1 DEF Progress
  <2> QED BY <1>1, <2>2, BeginsInPeace DEF Clone
<1>2. ASSUME NEW w \in Writer, NEW n \in Names, Rename(w, n) PROVE Story'
  <2> DEFINE d == [f \in {"name"} |-> n]
             at == IF live.name = n THEN "reply" ELSE "store"
  <2>1. /\ live' = [live EXCEPT !.name = n] /\ flash' = flash /\ acked' = acked
        /\ job'[w].at = at /\ job'[w].copy = live /\ job'[w].doc = d
    BY <1>0, <1>2 DEF Rename, Begin
  <2>2. d \in Document /\ at \in {"merge", "store", "reply"} /\ Begin(w, d, at, live)
    BY <1>2, NameIsDocument DEF Rename
  <2>3. ASSUME live = acked, Loaded(flash) = acked PROVE Progress(w)'
    <3>0. live' = [acked EXCEPT !.name = n] /\ Merge(acked, d) = live' /\ Valid(acked)
      <4>1. live' = [acked EXCEPT !.name = n]
        BY <2>1, <2>3
      <4>2. Merge(acked, d) = [acked EXCEPT !.name = n]
        BY <1>0, NameMerge
      <4>3. Valid(acked)
        BY <1>0, <2>3, LoadedIsConfig
      <4> QED BY <4>1, <4>2, <4>3
    <3>1. Promised(w)' = live' /\ Valid(live')
      <4>1. Promised(w)' = Merge(acked, d)
        BY <2>1 DEF Promised
      <4>2. Valid(live')
        BY <1>0, <3>0, NameMerge
      <4> QED BY <3>0, <4>1, <4>2
    <3>2. RestoreLabel(w)' = acked
      BY <1>0, <2>1, <2>3, NameMerge DEF RestoreLabel
    <3>3. live.name = n => live' = acked
      BY <1>0, <2>1, <2>3, NameMerge
    <3> QED BY <2>1, <2>3, <3>1, <3>2, <3>3 DEF Progress
  <2> HIDE DEF d, at
  <2> QED BY <2>2, <2>3, BeginsInPeace
<1>3. ASSUME NEW w \in Writer, MergeDocument(w) PROVE Story'
  <2> DEFINE merged == Unmask(Merge(job[w].copy, job[w].doc), live)
  <2>1. /\ job[w].at = "merge" /\ live' = live /\ flash' = flash /\ acked' = acked
        /\ ackedBoot' = ackedBoot /\ erased' = erased /\ excuse' = excuse
        /\ \A v \in Writer \ {w} : job'[v] = job[v]
        /\ \/ /\ job'[w].at = "save" /\ job'[w].copy = merged /\ job'[w].doc = job[w].doc
              /\ Valid(merged)
           \/ job'[w] = NoJob
    BY <1>0, <1>3 DEF MergeDocument, Leave, historyVars, Job
  <2>2. merged = Merge(job[w].copy, job[w].doc)
    <3>1. Merge(job[w].copy, job[w].doc) \in Config
      BY <1>0, MergeFields
    <3>2. Merge(job[w].copy, job[w].doc).key # Mask
      BY <3>1, ValuesAssumption DEF Config
    <3> QED BY <3>2 DEF Unmask
  <2> HIDE DEF merged
  <2>3. Inside(w)
    BY <2>1 DEF Inside
  <2>4. ASSUME excuse = {}, ~erased
        PROVE  /\ acked' = ackedBoot'
               /\ IF Inside(w)' THEN Progress(w)' ELSE live' = acked' /\ Loaded(flash') = ackedBoot'
    <3>1. acked = ackedBoot /\ live = acked /\ job[w].copy = acked /\ Loaded(flash) = acked
      BY <2>1, <2>3, <2>4 DEF Story, Progress
    <3>2. CASE job'[w] = NoJob
      BY <2>1, <3>1, <3>2 DEF Inside, NoJob
    <3>3. CASE job'[w].at = "save" /\ job'[w].copy = merged /\ job'[w].doc = job[w].doc /\ Valid(merged)
      BY <2>1, <2>2, <3>1, <3>3 DEF Inside, Progress, Promised
    <3> QED BY <2>1, <3>2, <3>3
  <2> QED BY <2>1, <2>3, <2>4, StepOfOne
<1>4. ASSUME NEW w \in Writer, Save(w) \/ StoreLabel(w) PROVE Story'
  <2>1. /\ acked' = acked /\ ackedBoot' = ackedBoot /\ erased' = erased /\ excuse' = excuse
        /\ \A v \in Writer \ {w} : job'[v] = job[v]
        /\ job[w].at \in {"save", "store"} /\ Inside(w)
    BY <1>0, <1>4 DEF Save, StoreLabel, Goto, Leave, historyVars, Job, Inside
  <2>2. ASSUME excuse = {}, ~erased
        PROVE  /\ acked' = ackedBoot'
               /\ IF Inside(w)' THEN Progress(w)' ELSE live' = acked' /\ Loaded(flash') = ackedBoot'
    <3>0. acked = ackedBoot /\ Progress(w)
      BY <2>1, <2>2 DEF Story
    <3>1. CASE Save(w)
      <4>1. /\ live = acked /\ job[w].copy = Promised(w) /\ Loaded(flash) = acked /\ Valid(Promised(w))
            /\ live' = live
        BY <3>0, <3>1 DEF Save, Progress
      <4>2. CASE Leave(w) /\ flash' = flash
        BY <1>0, <2>1, <3>0, <4>1, <4>2 DEF Leave, Inside, NoJob
      <4>3. CASE Goto(w, "adopt") /\ flash' = Blob(job[w].copy)
        <5>1. job'[w].at = "adopt" /\ job'[w].doc = job[w].doc /\ job'[w].copy = job[w].copy
          BY <1>0, <4>3 DEF Goto, Job
        <5>2. Loaded(flash') = Promised(w) /\ Promised(w)' = Promised(w)
          BY <1>p, <2>1, <4>1, <4>3, <5>1, LoadedBlob DEF Blob, Promised
        <5> QED BY <2>1, <3>0, <4>1, <5>1, <5>2 DEF Inside, Progress
      <4> QED BY <3>1, <4>2, <4>3 DEF Save
    <3>2. CASE StoreLabel(w)
      <4>1. /\ live = Promised(w) /\ job[w].copy = acked /\ Loaded(flash) = acked /\ Valid(Promised(w))
            /\ RestoreLabel(w) = acked
        BY <3>0, <3>2 DEF StoreLabel, Progress
      <4>2. CASE Leave(w) /\ flash' = flash /\ live' = RestoreLabel(w)
        BY <1>0, <2>1, <3>0, <4>1, <4>2 DEF Leave, Inside, NoJob
      <4>3. CASE Goto(w, "reply") /\ flash' = Blob(live) /\ live' = live
        <5>1. job'[w].at = "reply" /\ job'[w].doc = job[w].doc
          BY <1>0, <4>3 DEF Goto, Job
        <5>2. Loaded(flash') = Promised(w) /\ Promised(w)' = Promised(w)
          BY <1>p, <2>1, <4>1, <4>3, <5>1, LoadedBlob DEF Blob, Promised
        <5> QED BY <2>1, <3>0, <4>1, <4>3, <5>1, <5>2 DEF Inside, Progress
      <4> QED BY <3>2, <4>2, <4>3 DEF StoreLabel
    <3> QED BY <1>4, <3>1, <3>2
  <2> QED BY <2>1, <2>2, StepOfOne
<1>5. ASSUME NEW w \in Writer, AdoptFirst(w) \/ AdoptRest(w) PROVE Story'
  <2>1. /\ acked' = acked /\ ackedBoot' = ackedBoot /\ erased' = erased /\ excuse' = excuse
        /\ flash' = flash /\ \A v \in Writer \ {w} : job'[v] = job[v]
        /\ job[w].at \in {"adopt", "half"} /\ Inside(w)
        /\ job'[w].doc = job[w].doc /\ job'[w].copy = job[w].copy
    BY <1>0, <1>5 DEF AdoptFirst, AdoptRest, Goto, historyVars, bounds, Job, Inside
  <2>2. ASSUME excuse = {}, ~erased PROVE acked = ackedBoot /\ Inside(w)' /\ Progress(w)'
    <3>0. acked = ackedBoot /\ Progress(w) /\ Promised(w)' = Promised(w)
      BY <2>1, <2>2 DEF Story, Promised
    <3>1. CASE AdoptFirst(w)
      BY <1>0, <2>1, <3>0, <3>1 DEF AdoptFirst, Goto, Progress, Inside, Job
    <3>2. CASE AdoptRest(w)
      <4>1. /\ live = [acked EXCEPT !.lock = Promised(w).lock] /\ job[w].copy = Promised(w)
            /\ Loaded(flash) = Promised(w) /\ live' = [job[w].copy EXCEPT !.lock = live.lock]
            /\ job'[w].at = "reply"
        BY <1>0, <3>0, <3>2 DEF AdoptRest, Goto, Progress, Job
      <4>2. live.lock = Promised(w).lock
        BY <1>0, <4>1 DEF Config
      <4>3. /\ live' \in Config /\ live'.lock = Promised(w).lock /\ live'.key = Promised(w).key
            /\ live'.name = Promised(w).name
        BY <1>p, <4>1, <4>2 DEF Config
      <4>4. live' = Promised(w)
        BY <1>p, <4>3, SameConfig
      <4> QED BY <2>1, <3>0, <4>1, <4>4 DEF Progress, Inside
    <3> QED BY <1>5, <3>0, <3>1, <3>2
  <2> QED BY <2>1, <2>2, StepOfOne
<1>6. ASSUME NEW w \in Writer, Reply(w) PROVE Story'
  <2>1. /\ erased' = erased /\ live' = live /\ flash' = flash /\ job[w].at = "reply" /\ Inside(w)
        /\ \A v \in Writer \ {w} : job'[v] = job[v]
        /\ ~Inside(w)'
    BY <1>0, <1>6 DEF Reply, Leave, Inside, NoJob
  <2>2. excuse' = {} => excuse = {} /\ acked' = Promised(w) /\ ackedBoot' = acked'
    BY <1>6 DEF Reply, Promised
  <2>3. excuse = {} => Progress(w)
    BY <2>1 DEF Story
  <2>4. excuse = {} => live = Promised(w) /\ Loaded(flash) = Promised(w)
    BY <2>1, <2>3 DEF Progress
  <2> QED BY <2>1, <2>2, <2>4, StepOfOne
<1>7. CASE HttpErases \/ ButtonErases \/ WorkerErases
  <2>1. /\ live' = live /\ acked' = acked
        /\ \/ /\ flash' = Absent /\ ackedBoot' = Default /\ erased' = TRUE
              /\ excuse' = {} => excuse = {} /\ \A w \in Writer : ~Inside(w)
           \/ UNCHANGED <<flash, ackedBoot, erased, excuse>>
    BY <1>7 DEF HttpErases, ButtonErases, WorkerErases, FactoryReset, Erase, EraseFails
  <2>2. \A v \in Writer :
           \/ job'[v] = job[v]
           \/ job[v].at = "idle" /\ job'[v].at = "halted"
    BY <1>0, <1>7 DEF HttpErases, ButtonErases, WorkerErases, Goto, Job
  <2>3. \A v \in Writer : Inside(v)' <=> Inside(v)
    BY <2>2 DEF Inside
  <2>4. Loaded(Absent) = Default
    BY DEF Loaded
  <2>5. ASSUME NEW v \in Writer, Inside(v), Progress(v), live' = live, acked' = acked, flash' = flash
        PROVE Progress(v)'
    BY <2>2, <2>5 DEF Inside, Progress, Promised, RestoreLabel
  <2>6. CASE UNCHANGED <<flash, ackedBoot, erased, excuse>>
    BY <2>1, <2>3, <2>5, <2>6 DEF Story
  <2>7. CASE flash' = Absent /\ ackedBoot' = Default /\ erased' = TRUE
             /\ (excuse' = {} => excuse = {} /\ \A w \in Writer : ~Inside(w))
    BY <2>1, <2>3, <2>4, <2>7 DEF Story
  <2> QED BY <2>1, <2>6, <2>7
<1>8. CASE Reset \/ ResetBlind \/ ResetErasing
  <2>1. \A w \in Writer : ~Inside(w)'
    BY <1>8 DEF Reset, ResetBlind, ResetErasing, Restart, Inside, NoJob
  <2>2. excuse' = {} => live' = acked' /\ Loaded(flash') = ackedBoot' /\ acked' = ackedBoot'
    BY <1>8 DEF Reset, ResetBlind, ResetErasing, Restart, Loaded
  <2> QED BY <2>1, <2>2 DEF Story
<1>9. CASE UNCHANGED vars
  BY <1>9 DEF Story, Inside, Progress, Promised, RestoreLabel, vars, historyVars
<1> QED BY <1>1, <1>2, <1>3, <1>4, <1>5, <1>6, <1>7, <1>8, <1>9 DEF Next

\* Once nobody writes, what was acknowledged is what runs and what the next boot loads, after
\* failed saves and factory resets too (label_set, app_config_set).
THEOREM AcknowledgedIsKept == Spec => []AcknowledgedHolds
<1>1. Story => AcknowledgedHolds
  BY DEF Story, AcknowledgedHolds
<1> QED BY <1>1, InitTypes, NextTypes, InitStory, NextStory, PTL DEF Spec

\* The step of a reset, from wherever it finds a writer.
LEMMA ResetFinds ==
  TypeOK /\ Story /\ [Next]_vars
    => [boots' # boots /\ faults' = faults /\ excuse = {} =>
          \/ live' = ackedBoot
          \/ \E w \in Writer : Inside(w) /\ live' = Merge(acked, job[w].doc)]_vars
<1> SUFFICES ASSUME TypeOK, Story, [Next]_vars, boots' # boots, faults' = faults, excuse = {}
             PROVE  \/ live' = ackedBoot
                    \/ \E w \in Writer : Inside(w) /\ live' = Merge(acked, job[w].doc)
  OBVIOUS
<1>1. Reset
  <2>1. ~ResetBlind /\ ~ResetErasing
    BY DEF ResetBlind, ResetErasing, Fails, TypeOK
  <2> QED BY <2>1 DEF Next, vars, bounds, historyVars, Clone, Begin, Rename, MergeDocument, Save,
       AdoptFirst, AdoptRest, Reply, StoreLabel, HttpErases, ButtonErases, WorkerErases, FactoryReset
<1>2. live' = Loaded(flash)
  BY <1>1 DEF Reset, Restart
<1>3. CASE \A w \in Writer : ~Inside(w)
  BY <1>2, <1>3 DEF Story
<1>4. ASSUME NEW w \in Writer, Inside(w)
      PROVE  live' = ackedBoot \/ live' = Merge(acked, job[w].doc)
  <2>1. acked = ackedBoot /\ Progress(w)
    BY <1>4 DEF Story
  <2> QED BY <1>2, <2>1 DEF Progress, Promised
<1> QED BY <1>3, <1>4

\* A power cut between any two steps of a write leaves the configuration before it or the one
\* after it (store_save).
THEOREM ResetSurvived == Spec => SurvivesReset
  BY InitTypes, NextTypes, InitStory, NextStory, ResetFinds, PTL DEF Spec, SurvivesReset
=============================================================================
