------------------------------ MODULE Settings -------------------------------
(***************************************************************************)
(* components/app_config and its writers: the live configuration s_cfg and *)
(* the blob in flash, the merge of a document, the renames, the factory    *)
(* reset and the boot.  Nothing locks s_cfg: the HTTP server, the MQTT     *)
(* worker and the button each take their steps when they come.  A          *)
(* configuration is cut down to three settings: lock and key, http.auth,   *)
(* stand for all those that a restart is asked for, key for the secrets,   *)
(* and name for the rest, a gear's label.                                  *)
(***************************************************************************)
EXTENDS Naturals

CONSTANTS
  Secret, NoKey, Mask,   \* keys, the empty one, and the "***" shown in their place
  Name, NoName,          \* labels, and the empty one
  Absent,                \* no blob in the namespace
  MaxWrites, MaxBoots, MaxFaults   \* bounds: requests, resets, failed calls

Writer == {"http", "mqtt"}
Keys == Secret \cup {NoKey}
Names == Name \cup {NoName}
Config == [lock : BOOLEAN, key : Keys, name : Names]
Default == [lock |-> FALSE, key |-> NoKey, name |-> NoName]

ASSUME ValuesAssumption == Mask \notin Keys /\ Absent \notin Config
ASSUME BoundsAssumption == MaxWrites \in Nat /\ MaxBoots \in Nat /\ MaxFaults \in Nat

VARIABLES
  flash,      \* the blob under dali_gw/cfg
  live,       \* s_cfg
  job,        \* what each writer is at
  boot,       \* lock and key as they were at boot
  acked,      \* what the replies given so far make of the configuration
  ackedBoot,  \* and of the one to boot with
  asked,      \* a reply asked for a restart
  erased,     \* the namespace was erased, a restart is under way
  excuse,     \* "crossed": two writers met; "untold": a write was done and reported failed;
              \* "blind": the boot did not look at the blob
  writes, boots, faults

historyVars == <<boot, acked, ackedBoot, asked, erased, excuse>>
bounds == <<writes, boots, faults>>
vars == <<flash, live, job, historyVars, bounds>>

Works == UNCHANGED faults
Fails == faults < MaxFaults /\ faults' = faults + 1

-----------------------------------------------------------------------------
(* app_config_logic: one configuration to another. *)

\* app_config_validate: whoever locks the door has a key.
Valid(c) == c.lock => c.key # NoKey

RestartPart(c) == <<c.lock, c.key>>
\* app_config_diff_impact
AsksForLockOnly(cur, new) == cur.lock # new.lock  \* mutant: a new key is not looked at
AsksForRestart(cur, new) == RestartPart(cur) # RestartPart(new)

\* Documents are partial; gw_api_config_from_json keeps what they leave out, and a secret
\* that comes back masked.
Fields == {"lock", "key", "name"}
Typed == [lock |-> BOOLEAN, key |-> Keys \cup {Mask}, name |-> Names]
Document ==
  UNION {{d \in [S -> UNION {Typed[f] : f \in S}] : \A f \in S : d[f] \in Typed[f]} :
           S \in SUBSET Fields}
Says(d, f) == f \in DOMAIN d /\ (f = "key" => d[f] # Mask)
Merge(c, d) == [f \in Fields |-> IF Says(d, f) THEN d[f] ELSE c[f]]

\* gw_api_config_to_json: what a client reads, and an export that has the secrets in it.  An
\* empty secret is not masked, an empty name is not there.
Masked(k) == IF k = NoKey THEN NoKey ELSE Mask
Exported(c, secrets) ==
  [f \in IF c.name = NoName THEN Fields \ {"name"} ELSE Fields |->
     IF f = "key" /\ ~secrets THEN Masked(c.key) ELSE c[f]]

\* app_config_merge_secrets
Unmask(c, stored) == IF c.key = Mask THEN [c EXCEPT !.key = stored.key] ELSE c

\* store_load, migrate and validate: what a boot makes of the flash.
Loaded(blob) == IF blob # Absent /\ Valid(blob) THEN blob ELSE Default

-----------------------------------------------------------------------------
\* Of a writer: where it is, its request, its copy of the configuration, the impact.
Place == {"idle", "merge", "save", "adopt", "half", "store", "reply", "halted"}
Job == [at : Place, doc : Document, copy : Config, told : BOOLEAN]
NoJob == [at |-> "idle", doc |-> [f \in {} |-> NoKey], copy |-> Default, told |-> FALSE]
Inside(w) == job[w].at \notin {"idle", "halted"}

TypeOK ==
  /\ flash \in Config \cup {Absent} /\ live \in Config
  /\ job \in [Writer -> Job]
  /\ boot \in BOOLEAN \X Keys /\ acked \in Config /\ ackedBoot \in Config
  /\ asked \in BOOLEAN /\ erased \in BOOLEAN /\ excuse \subseteq {"crossed", "untold", "blind"}
  /\ writes \in 0..MaxWrites /\ boots \in 0..MaxBoots /\ faults \in 0..MaxFaults

Init ==
  /\ flash \in Config \cup {Absent} /\ live = Loaded(flash)
  /\ job = [w \in Writer |-> NoJob]
  /\ boot = RestartPart(live) /\ acked = live /\ ackedBoot = live
  /\ asked = FALSE /\ erased = FALSE /\ excuse = {}
  /\ writes = 0 /\ boots = 0 /\ faults = 0

\* A request begins: nothing asks whether another is under way.
Begin(w, d, at, copy) ==
  /\ job[w].at = "idle" /\ writes < MaxWrites /\ writes' = writes + 1
  /\ job' = [job EXCEPT ![w] = [at |-> at, doc |-> d, copy |-> copy, told |-> FALSE]]
  /\ excuse' = excuse \cup
       (IF erased \/ \E v \in Writer \ {w} : Inside(v) THEN {"crossed"} ELSE {})
  /\ UNCHANGED <<flash, boot, acked, ackedBoot, asked, erased, boots, faults>>

Goto(w, place) == job' = [job EXCEPT ![w].at = place]
Leave(w) == job' = [job EXCEPT ![w] = NoJob]

-----------------------------------------------------------------------------
(* apply_config and cmd_set_config, step by step. *)

Clone(w, d) == Begin(w, d, "merge", live) /\ UNCHANGED live

\* A document that does not parse or validate is refused before anything is touched; the
\* impact is against what is live.
MergeDocument(w) ==
  /\ job[w].at = "merge"
  /\ LET merged == Unmask(Merge(job[w].copy, job[w].doc), live)
     IN \/ /\ Valid(merged)
           /\ job' = [job EXCEPT ![w].at = "save", ![w].copy = merged,
                                 ![w].told = AsksForRestart(live, merged)]
        \/ Leave(w)
  /\ UNCHANGED <<flash, live, historyVars, bounds>>

\* store_save: one blob, one commit.
BlobMasked(c) == [c EXCEPT !.key = IF @ = NoKey THEN NoKey ELSE Mask]  \* mutant: the masked copy
Blob(c) == c

Save(w) ==
  /\ job[w].at = "save"
  /\ \/ flash' = Blob(job[w].copy) /\ Goto(w, "adopt") /\ Works
     \/ UNCHANGED flash /\ Leave(w) /\ Fails
  /\ UNCHANGED <<live, historyVars, writes, boots>>

\* s_cfg = *next, which another task may interrupt.
AdoptFirst(w) ==
  /\ job[w].at = "adopt" /\ Goto(w, "half")
  /\ live' = [live EXCEPT !.lock = job[w].copy.lock]
  /\ UNCHANGED <<flash, historyVars, bounds>>

AdoptRest(w) ==
  /\ job[w].at = "half" /\ Goto(w, "reply")
  /\ live' = [job[w].copy EXCEPT !.lock = live.lock]
  /\ UNCHANGED <<flash, historyVars, bounds>>

\* The reply, or the error in its place when there is no memory for it.
Reply(w) ==
  /\ job[w].at = "reply" /\ Leave(w)
  /\ \/ /\ acked' = Merge(acked, job[w].doc) /\ ackedBoot' = acked'
        /\ asked' = (asked \/ job[w].told) /\ UNCHANGED excuse /\ Works
     \/ excuse' = excuse \cup {"untold"} /\ UNCHANGED <<acked, ackedBoot, asked>> /\ Fails
  /\ UNCHANGED <<flash, live, boot, erased, writes, boots>>

-----------------------------------------------------------------------------
(* label_set, of a rename over HTTP or MQTT; the copy keeps the previous label. *)

\* A name that is there already is not saved.
Rename(w, n) ==
  /\ Begin(w, [f \in {"name"} |-> n], IF live.name = n THEN "reply" ELSE "store", live)
  /\ live' = [live EXCEPT !.name = n]

LeaveLabel(w) == live  \* mutant: RAM keeps the name that flash refused
RestoreLabel(w) == [live EXCEPT !.name = job[w].copy.name]
StoreLabel(w) ==
  /\ job[w].at = "store"
  /\ \/ flash' = Blob(live) /\ Goto(w, "reply") /\ UNCHANGED live /\ Works
     \/ live' = RestoreLabel(w) /\ Leave(w) /\ UNCHANGED flash /\ Fails
  /\ UNCHANGED <<historyVars, writes, boots>>

-----------------------------------------------------------------------------
(* Factory reset, restart, boot. *)

\* By a writer or the button.  The server goes on serving until reboot_later restarts; the
\* worker and the button wait for that themselves.
Erase ==
  /\ flash' = Absent /\ ackedBoot' = Default /\ erased' = TRUE /\ Works
  /\ excuse' = excuse \cup (IF \E w \in Writer : Inside(w) THEN {"crossed"} ELSE {})
EraseFails == Fails /\ UNCHANGED <<flash, ackedBoot, erased, excuse>>

FactoryReset ==
  /\ ~erased /\ (Erase \/ EraseFails)
  /\ UNCHANGED <<live, boot, acked, asked, writes, boots>>
HttpErases == job["http"].at = "idle" /\ FactoryReset /\ UNCHANGED job
ButtonErases == FactoryReset /\ UNCHANGED job
WorkerErases ==
  /\ job["mqtt"].at = "idle" /\ FactoryReset
  /\ IF erased' THEN Goto("mqtt", "halted") ELSE UNCHANGED job

\* A restart, asked for or not, at any point; every RAM variable starts over.
Restart(blob, config, why) ==
  /\ boots < MaxBoots /\ boots' = boots + 1
  /\ flash' = blob /\ live' = config /\ job' = [w \in Writer |-> NoJob]
  /\ boot' = RestartPart(config) /\ acked' = config /\ ackedBoot' = Loaded(blob)
  /\ asked' = FALSE /\ erased' = FALSE /\ excuse' = why /\ UNCHANGED writes

Reset == Restart(flash, Loaded(flash), {}) /\ Works
\* No memory to load with; or nvs_init found the partition unusable and erased it.
ResetBlind == Restart(flash, Default, {"blind"}) /\ Fails
ResetErasing == Restart(Absent, Default, {}) /\ Fails

Next ==
  \/ \E w \in Writer :
       \/ \E d \in Document : Clone(w, d)
       \/ \E n \in Names : Rename(w, n)
       \/ MergeDocument(w) \/ Save(w) \/ AdoptFirst(w) \/ AdoptRest(w) \/ Reply(w)
       \/ StoreLabel(w)
  \/ HttpErases \/ ButtonErases \/ WorkerErases
  \/ Reset \/ ResetBlind \/ ResetErasing

Spec == Init /\ [][Next]_vars

-----------------------------------------------------------------------------
(* What the store promises. *)

\* Once nobody writes, what was acknowledged is what runs and what the next boot loads:
\* RAM and flash tell the same story (label_set), provided writers did not meet, which
\* nothing prevents (apply_config, cmd_set_config), and no reply was lost to want of memory.
AcknowledgedHolds ==
  (\A w \in Writer : ~Inside(w)) /\ excuse = {}
    => live = acked /\ Loaded(flash) = ackedBoot

\* A power cut between any two steps leaves the configuration before the write under way
\* or the one after it (store_save: "one blob, one commit").
SurvivesReset ==
  [][boots' # boots /\ faults' = faults /\ excuse = {} =>
       \/ live' = ackedBoot
       \/ \E w \in Writer : Inside(w) /\ live' = Merge(acked, job[w].doc)]_vars

\* What runs differs from what was booted with in a setting that needs a restart only if
\* a reply said so or is about to, even when writers meet (app_config_set).
RestartTold ==
  "untold" \notin excuse /\ RestartPart(live) # boot
    => asked \/ \E w \in Writer : job[w].told /\ job[w].at \in {"half", "reply"}
=============================================================================
