-------------------------- MODULE MqttIfaceProofs ---------------------------
(***************************************************************************)
(* Theorems about MqttIface, for any lights, prefixes, queue depths and    *)
(* number of changes: what the adapter's masks let it remove and what they *)
(* account for, that a saved configuration reaches the client, and that    *)
(* the copy retained at the broker follows the registry.                   *)
(***************************************************************************)
EXTENDS MqttIface, TLAPS

-----------------------------------------------------------------------------
(* Types of what discovery is about. *)

Drafts == [Writer -> Content(Nat \cup {Differs})]

Discovery ==
  /\ conf \in Content(Nat) /\ draft \in Drafts /\ (swept => synced)
  /\ haPrefix \in Prefix \cup {Off} /\ haMask \subseteq Light /\ present \subseteq Light
  /\ docs \subseteq Prefix \X Light /\ scanned \in BOOLEAN

-----------------------------------------------------------------------------
(* What publishing does to the documents at the broker. *)

\* Nothing arrives that was not published.
LEMMA Arrived ==
  ASSUME NEW messages, NEW got \in Delivered(messages)
  PROVE  got \subseteq messages
<1>1. CASE client = NoClient \/ link \in {"off", "connecting"}
  BY <1>1 DEF Delivered
<1>2. CASE ~(client = NoClient \/ link \in {"off", "connecting"}) /\ link = "up"
  BY <1>2 DEF Delivered
<1>3. CASE ~(client = NoClient \/ link \in {"off", "connecting"}) /\ link # "up"
  BY <1>3 DEF Delivered
<1> QED BY <1>1, <1>2, <1>3

LEMMA Applied ==
  ASSUME NEW D, NEW p, NEW got, NEW d
  PROVE  d \in Apply(D, p, got) <=>
           \/ d \in D /\ ~ \E c \in got : c[1] = "clear" /\ d = <<p, c[2]>>
           \/ \E c \in got : c[1] = "doc" /\ d = <<p, c[2]>>
  BY DEF Apply

LEMMA Sent ==
  ASSUME NEW S \in SUBSET Light, NEW mask \in SUBSET Light, NEW sweep \in BOOLEAN,
         NEW c \in Documents(S, mask, sweep)
  PROVE  \/ c[1] = "doc" /\ c[2] \in S \cap present
         \/ c[1] = "clear" /\ c[2] \in S \ present /\ (c[2] \in mask \/ sweep)
  BY DEF Documents

LEMMA AppliedTypes ==
  ASSUME NEW D \in SUBSET (Prefix \X Light), NEW p \in Prefix, NEW got,
         \A c \in got : c[1] = "doc" => c[2] \in Light
  PROVE  Apply(D, p, got) \subseteq Prefix \X Light
  BY Applied

\* One light brought up to date, whether it has gone, come or stayed.
SyncedOne(l, was) ==
  LET sent == {<<"doc", k>> : k \in {l} \cap was} \cup {<<"clear", k>> : k \in ({l} \ was) \cap haMask}
  IN \E got \in SUBSET sent :
       /\ docs' = Apply(docs, haPrefix, got)
       /\ haMask' = (haMask \ {l}) \cup ({l} \cap was)
       /\ blind' = (blind \/ LosesClear(docs, haPrefix, sent, got))

LEMMA NotLost ==
  ASSUME NEW D, NEW p, NEW sent, NEW got, NEW l,
         ~LosesClear(D, p, sent, got), <<p, l>> \in D, <<"clear", l>> \in sent
  PROVE  <<"clear", l>> \in got
<1>1. <<"clear", l>>[1] = "clear" /\ <<"clear", l>>[2] = l
  OBVIOUS
<1> QED BY <1>1 DEF LosesClear

LEMMA NoOff == Off \notin Prefix
  BY LightAssumption

LEMMA SyncOne ==
  ASSUME Discovery, NEW l \in Light, NEW was \in SUBSET Light, haPrefix # Off,
         SyncedOne(l, was), UNCHANGED <<haPrefix, swept, synced>>
  PROVE  /\ docs' \subseteq Prefix \X Light /\ haMask' \subseteq Light
         /\ \A d \in docs \ docs' : d[2] \in haMask
         /\ NoOrphan => NoOrphan'
<1> DEFINE sent == {<<"doc", k>> : k \in {l} \cap was}
                     \cup {<<"clear", k>> : k \in ({l} \ was) \cap haMask}
<1>1. PICK got \in SUBSET sent :
        /\ docs' = Apply(docs, haPrefix, got)
        /\ haMask' = (haMask \ {l}) \cup ({l} \cap was)
        /\ blind' = (blind \/ LosesClear(docs, haPrefix, sent, got))
  BY DEF SyncedOne
<1>2. \A c \in sent : \/ c[1] = "doc" /\ c[2] = l /\ l \in was
                      \/ c[1] = "clear" /\ c[2] = l /\ l \notin was /\ l \in haMask
  OBVIOUS
<1>3. l \in haMask /\ l \notin was => <<"clear", l>> \in sent /\ <<"clear", l>>[1] = "clear"
                                      /\ <<"clear", l>>[2] = l
  OBVIOUS
<1>4. docs \in SUBSET (Prefix \X Light) /\ haPrefix \in Prefix /\ haMask \subseteq Light
  BY DEF Discovery
<1> HIDE DEF sent
<1>5. docs' \subseteq Prefix \X Light
  <2>1. \A c \in got : c[1] = "doc" => c[2] \in Light
    BY <1>2
  <2> QED BY <1>1, <1>4, <2>1, AppliedTypes
<1>6. \A d : d \in docs' <=> \/ d \in docs /\ ~ \E c \in got : c[1] = "clear" /\ d = <<haPrefix, c[2]>>
                             \/ \E c \in got : c[1] = "doc" /\ d = <<haPrefix, c[2]>>
  BY <1>1, Applied
<1>7. ASSUME NEW d \in docs \ docs' PROVE d[2] \in haMask
  <2>1. PICK c \in got : c[1] = "clear" /\ d = <<haPrefix, c[2]>>
    BY <1>6
  <2> QED BY <1>2, <2>1
<1>8. ASSUME NoOrphan, synced', ~blind', NEW d \in docs'
      PROVE  d[1] = haPrefix' /\ (swept' => d[2] \in haMask')
  <2>1. synced /\ ~blind /\ ~LosesClear(docs, haPrefix, sent, got)
    BY <1>1, <1>8
  <2>2. CASE d \in docs
    <3>1. d[1] = haPrefix /\ (swept => d[2] \in haMask) /\ d = <<d[1], d[2]>>
      BY <1>4, <1>8, <2>1, <2>2 DEF NoOrphan
    <3>2. CASE swept /\ d[2] = l /\ l \notin was
      <4>1. <<"clear", l>> \in got
        BY <1>3, <2>1, <2>2, <3>1, <3>2 DEF LosesClear
      <4>2. d \notin docs \/ (\E c \in got : c[1] = "doc" /\ d = <<haPrefix, c[2]>>)
        BY <1>3, <1>6, <3>1, <3>2, <4>1
      <4> QED BY <1>2, <2>2, <3>2, <4>2
    <3> QED BY <1>1, <3>1, <3>2
  <2>3. CASE \E c \in got : c[1] = "doc" /\ d = <<haPrefix, c[2]>>
    BY <1>1, <1>2, <2>3
  <2> QED BY <1>6, <2>2, <2>3
<1> QED BY <1>1, <1>4, <1>5, <1>7, <1>8 DEF NoOrphan

LEMMA SyncLightIs ==
  ASSUME NEW l, SyncLight(l), haPrefix # Off
  PROVE  SyncedOne(l, present)
  BY Arrived DEF SyncLight, SyncedOne, Documents

LEMMA SyncLightKeeps ==
  ASSUME Discovery, NEW l \in Light, SyncLight(l), UNCHANGED <<haPrefix, swept, synced>>
  PROVE  /\ docs' \subseteq Prefix \X Light /\ haMask' \subseteq Light
         /\ \A d \in docs \ docs' : d[2] \in haMask
         /\ NoOrphan => NoOrphan'
<1>1. CASE haPrefix = Off
  BY <1>1 DEF SyncLight, Discovery, NoOrphan
<1>2. CASE haPrefix # Off
  BY <1>2, SyncLightIs, SyncOne DEF Discovery
<1> QED BY <1>1, <1>2

LEMMA HaSyncKeeps ==
  ASSUME Discovery, scanned \in BOOLEAN, HaSync
  PROVE  /\ docs' \subseteq Prefix \X Light /\ haMask' \subseteq Light /\ haPrefix' = conf.prefix
         /\ synced'
         /\ \A d \in docs \ docs' : scanned \/ d[2] \in haMask
         /\ NoOrphan => NoOrphan'
<1> DEFINE cleared == IF GivesUpPrefix THEN ClearAll ELSE {}
           known   == IF GivesUpPrefix THEN {} ELSE haMask
           sweep   == SweepDue(GivesUpPrefix \/ ~swept)
           sent    == IF conf.prefix = Off THEN {} ELSE Documents(Light, known, sweep)
           unknown == {d \in docs : d[1] # conf.prefix /\ ~(d[1] = haPrefix /\ d[2] \in haMask)}
           left(gone) == Apply(docs, haPrefix, gone)
<1>1. PICK gone \in Delivered(cleared), got \in Delivered(sent) :
        /\ docs' = Apply(left(gone), conf.prefix, got)
        /\ blind' = (blind \/ unknown # {} \/ LosesClear(docs, haPrefix, cleared, gone)
                           \/ LosesClear(left(gone), conf.prefix, sent, got))
  BY DEF HaSync, Emptied
<1>2. /\ haPrefix' = conf.prefix /\ synced' = TRUE
      /\ haMask' = IF conf.prefix = Off THEN known ELSE Light \cap present
      /\ swept' = IF conf.prefix = Off THEN swept /\ ~GivesUpPrefix
                  ELSE sweep \/ (swept /\ ~GivesUpPrefix)
  BY DEF HaSync
<1>3. gone \subseteq cleared /\ got \subseteq sent
  BY <1>1, Arrived
<1>4. /\ docs \in SUBSET (Prefix \X Light) /\ haMask \subseteq Light /\ known \subseteq Light
      /\ conf.prefix \in Prefix \cup {Off} /\ haPrefix \in Prefix \cup {Off}
  BY DEF Discovery, Content
<1>5. sweep \in BOOLEAN /\ (sweep => scanned)
  BY DEF SweepDue
<1>6. \A c \in sent : /\ conf.prefix # Off
                      /\ \/ c[1] = "doc" /\ c[2] \in Light \cap present
                         \/ c[1] = "clear" /\ c[2] \in Light \ present /\ (c[2] \in known \/ sweep)
  BY <1>4, <1>5, Sent
<1>7. \A c \in cleared : GivesUpPrefix /\ c[1] = "clear" /\ c[2] \in haMask
  BY DEF ClearAll
<1>8. \A l \in Light \ present : conf.prefix # Off /\ (l \in known \/ sweep) => <<"clear", l>> \in sent
  BY DEF Documents
<1>9. \A l \in haMask : GivesUpPrefix => <<"clear", l>> \in cleared
  BY DEF ClearAll
<1>10. GivesUpPrefix => haPrefix \in Prefix
  BY <1>4 DEF GivesUpPrefix
<1>11. conf.prefix # haPrefix /\ ~GivesUpPrefix => haPrefix = Off
  BY DEF GivesUpPrefix
<1>12. known = IF GivesUpPrefix THEN {} ELSE haMask
  OBVIOUS
<1> HIDE DEF cleared, known, sweep, sent, left
<1>13. \A d : d \in left(gone) <=> d \in docs /\ ~ \E c \in gone : c[1] = "clear" /\ d = <<haPrefix, c[2]>>
  <2>1. \A c \in gone : c[1] # "doc"
    BY <1>3, <1>7
  <2> QED BY <2>1, Applied DEF left
<1>14. \A d : d \in docs' <=>
         \/ d \in left(gone) /\ ~ \E c \in got : c[1] = "clear" /\ d = <<conf.prefix, c[2]>>
         \/ \E c \in got : c[1] = "doc" /\ d = <<conf.prefix, c[2]>>
  BY <1>1, Applied
<1>15. docs' \subseteq Prefix \X Light
  <2>1. CASE got = {}
    BY <1>4, <1>13, <1>14, <2>1
  <2>2. CASE got # {}
    <3>1. conf.prefix \in Prefix /\ \A c \in got : c[1] = "doc" => c[2] \in Light
      BY <1>3, <1>4, <1>6, <2>2
    <3> QED BY <1>4, <1>13, <1>14, <3>1
  <2> QED BY <2>1, <2>2
<1>16. haMask' \subseteq Light
  BY <1>2, <1>4
<1>17. ASSUME NEW d \in docs \ docs' PROVE scanned \/ d[2] \in haMask
  <2>1. CASE \E c \in gone : c[1] = "clear" /\ d = <<haPrefix, c[2]>>
    BY <1>3, <1>7, <2>1
  <2>2. CASE \E c \in got : c[1] = "clear" /\ d = <<conf.prefix, c[2]>>
    <3>1. PICK c \in got : c[1] = "clear" /\ d = <<conf.prefix, c[2]>>
      BY <2>2
    <3>2. c[2] \in known \/ sweep
      BY <1>3, <1>6, <3>1
    <3> QED BY <1>5, <1>12, <3>1, <3>2
  <2> QED BY <1>13, <1>14, <1>17, <2>1, <2>2
<1>18. ASSUME NoOrphan, ~blind', NEW d \in docs'
       PROVE  d[1] = haPrefix' /\ (swept' => d[2] \in haMask')
  <2>1. /\ ~blind /\ unknown = {} /\ ~LosesClear(docs, haPrefix, cleared, gone)
        /\ ~LosesClear(left(gone), conf.prefix, sent, got)
    BY <1>1, <1>18
  <2>2. CASE \E c \in got : c[1] = "doc" /\ d = <<conf.prefix, c[2]>>
    BY <1>2, <1>3, <1>6, <2>2
  <2>3. CASE /\ d \in left(gone)
             /\ ~ \E c \in got : c[1] = "clear" /\ d = <<conf.prefix, c[2]>>
    <3>1. d \in docs /\ d = <<d[1], d[2]>> /\ d[2] \in Light /\ d[1] \in Prefix
      BY <1>4, <1>13, <2>3
    <3>2. d[1] = conf.prefix
      <4> SUFFICES ASSUME d[1] # conf.prefix PROVE FALSE
        OBVIOUS
      <4>1. d[1] = haPrefix /\ d[2] \in haMask
        BY <2>1, <3>1
      <4>2. GivesUpPrefix
        BY <1>11, <3>1, <4>1, NoOff
      <4>3. <<"clear", d[2]>> \in cleared
        BY <1>9, <4>1, <4>2
      <4>4. <<"clear", d[2]>> \in gone
        BY <2>1, <3>1, <4>1, <4>3, NotLost
      <4> QED BY <1>13, <2>3, <3>1, <4>1, <4>4
    <3>3. conf.prefix # Off /\ haMask' = Light \cap present
      BY <1>2, <3>1, <3>2, NoOff
    <3>4. CASE d[2] \in present
      BY <1>2, <3>1, <3>2, <3>3, <3>4
    <3>5. CASE swept' /\ d[2] \notin present
      <4>1. d[2] \in known \/ sweep
        <5>1. CASE sweep
          BY <5>1
        <5>2. CASE ~sweep
          <6>1. swept /\ ~GivesUpPrefix
            BY <1>2, <3>3, <3>5, <5>2
          <6>2. d[2] \in haMask
            BY <1>18, <2>1, <3>1, <6>1 DEF Discovery, NoOrphan
          <6> QED BY <1>12, <6>1, <6>2
        <5> QED BY <5>1, <5>2
      <4>2. <<"clear", d[2]>> \in sent
        BY <1>8, <3>1, <3>3, <3>5, <4>1
      <4>3. <<"clear", d[2]>> \in got
        BY <2>1, <2>3, <3>1, <3>2, <4>2, NotLost
      <4> QED BY <2>3, <3>1, <3>2, <4>3
    <3> QED BY <1>2, <3>2, <3>4, <3>5
  <2> QED BY <1>14, <2>2, <2>3
<1> QED BY <1>2, <1>15, <1>16, <1>17, <1>18 DEF NoOrphan

-----------------------------------------------------------------------------
(* Every step keeps the types, removes what it may and accounts for what it leaves. *)

Careful ==
  /\ Discovery'
  /\ \A d \in docs \ docs' : scanned \/ d[2] \in haMask
  /\ NoOrphan => NoOrphan'

LEMMA Elsewhere ==
  ASSUME Discovery, UNCHANGED <<docs, haPrefix, haMask, swept, synced, blind>>,
         conf' \in Content(Nat), draft' \in Drafts, present' \subseteq Light, scanned' \in BOOLEAN
  PROVE  Careful
  BY DEF Careful, Discovery, NoOrphan

LEMMA Compared ==
  ASSUME Discovery, NEW w \in Writer, Compare(w)
  PROVE  draft' \in Drafts
<1>1. PICK d \in {conf} \cup Content({Differs}) : draft' = [draft EXCEPT ![w] = d]
  BY DEF Compare
<1>2. d \in Content(Nat \cup {Differs})
  BY <1>1 DEF Discovery, Content
<1> QED BY <1>1, <1>2 DEF Discovery, Drafts

\* Where a save leaves the configuration, and where its writer goes on.
LEMMA SavedTo ==
  ASSUME Discovery, NEW w \in Writer, NEW next, Saved(w, next)
  PROVE  /\ conf' \in Content(Nat) /\ draft' \in Drafts
         /\ lost \subseteq lost' /\ lost' \subseteq lost \cup {"crossed"}
         /\ \/ conf' = conf /\ next = "idle"
            \/ conf'.rev = conf.rev + 1 /\ (next = "saved" \/ "crossed" \in lost')
<1>1. NoDraft \in Content(Nat \cup {Differs}) /\ draft[w] \in Content(Nat \cup {Differs})
  BY DEF Discovery, Drafts, NoDraft, Content
<1>2. draft' \in Drafts
  BY <1>1 DEF Discovery, Drafts, Saved
<1>3. conf \in Content(Nat) /\ conf.rev \in Nat /\ conf.rev # Differs
  BY DEF Discovery, Content, Differs
<1>4. CASE Adopt(w) /\ next = (IF draft[w].rev = Differs THEN "saved" ELSE "idle")
  <2>1. CASE draft[w].rev = conf.rev
    BY <1>2, <1>3, <1>4, <2>1 DEF Adopt
  <2>2. CASE draft[w].rev # conf.rev
    <3>1. /\ conf' = [draft[w] EXCEPT !.rev = conf.rev + 1]
          /\ lost' = IF draft[w].rev = Differs THEN lost ELSE lost \cup {"crossed"}
      BY <1>4, <2>2 DEF Adopt
    <3>2. conf' \in Content(Nat) /\ conf'.rev = conf.rev + 1
      BY <1>1, <1>3, <3>1 DEF Content
    <3> QED BY <1>2, <1>4, <3>1, <3>2
  <2> QED BY <2>1, <2>2
<1>5. CASE next = "idle" /\ UNCHANGED <<conf, lost>>
  BY <1>2, <1>3, <1>5
<1> QED BY <1>4, <1>5 DEF Saved

LEMMA WorkerStep == Discovery /\ Worker => Careful
<1> SUFFICES ASSUME Discovery, Worker PROVE Careful
  OBVIOUS
<1>1. CASE WorkStart \/ BeginStop \/ EndStop \/ EndRestart \/ WorkPublish \/ RestartOwn \/ Tick
  <2>1. UNCHANGED <<docs, haPrefix, haMask, swept, synced, blind, conf, draft, present, scanned>>
    BY <1>1 DEF WorkStart, BeginStop, EndStop, EndRestart, WorkPublish, RestartOwn, Tick,
                SameDiscovery, configVars, busVars
  <2> QED BY <2>1, Elsewhere DEF Discovery
<1>2. CASE WorkConnected \/ WorkResult
  <2>1. HaSync /\ UNCHANGED <<conf, draft, present, scanned>>
    BY <1>2 DEF WorkConnected, WorkResult, configVars, busVars
  <2>2. scanned \in BOOLEAN
    BY DEF Discovery
  <2>3. conf.prefix \in Prefix \cup {Off}
    BY DEF Discovery, Content
  <2>4. /\ docs' \subseteq Prefix \X Light /\ haMask' \subseteq Light /\ haPrefix' = conf.prefix
        /\ synced'
        /\ \A d \in docs \ docs' : scanned \/ d[2] \in haMask
        /\ NoOrphan => NoOrphan'
    BY <2>1, <2>2, HaSyncKeeps
  <2>5. Discovery'
    BY <2>1, <2>3, <2>4 DEF Discovery
  <2> QED BY <2>4, <2>5 DEF Careful
<1>3. ASSUME NEW g \in Gear, WorkGear(g) \/ RenameGear(g) PROVE Careful
  <2>1. UNCHANGED <<haPrefix, swept, synced, conf, draft, present, scanned>>
    BY <1>3 DEF WorkGear, RenameGear, configVars, busVars
  <2>2. SyncLight(g) \/ UNCHANGED <<docs, haMask, blind>>
    BY <1>3 DEF WorkGear, RenameGear
  <2>3. CASE SyncLight(g)
    BY <2>1, <2>3, SyncLightKeeps DEF Careful, Discovery, Light
  <2>4. CASE UNCHANGED <<docs, haMask, blind>>
    BY <2>1, <2>4, Elsewhere DEF Discovery
  <2> QED BY <2>2, <2>3, <2>4
<1>4. ASSUME NEW k \in Group, Rename(k) PROVE Careful
  <2>1. UNCHANGED <<haPrefix, swept, synced, conf, draft, scanned>> /\ present' \subseteq Light /\ k \in Light
    BY <1>4 DEF Rename, configVars, Discovery, Light
  <2>2. CASE haPrefix = Off
    BY <1>4, <2>1, <2>2, Elsewhere DEF Rename, Discovery
  <2>3. CASE haPrefix # Off
    <3> DEFINE was == present'
    <3> DEFINE listed == IF k \in was THEN {<<"doc", k>>} ELSE {<<"clear", k>>} \cap ClearAll
               sent == {<<"doc", l>> : l \in {k} \cap was} \cup {<<"clear", l>> : l \in ({k} \ was) \cap haMask}
    <3>1. SyncedOne(k, was)
      <4>1. listed = sent
        BY DEF ClearAll
      <4>2. PICK got \in Delivered(listed) :
              /\ docs' = Apply(docs, haPrefix, got)
              /\ haMask' = (haMask \ {k}) \cup ({k} \cap was)
              /\ blind' = (blind \/ LosesClear(docs, haPrefix, listed, got))
        BY <1>4, <2>3 DEF Rename
      <4>3. got \in SUBSET listed
        BY <4>2, Arrived
      <4> HIDE DEF listed, was
      <4> QED BY <4>1, <4>2, <4>3 DEF SyncedOne
    <3> QED BY <2>1, <2>3, <3>1, SyncOne DEF Careful, Discovery
  <2> QED BY <2>2, <2>3
<1>5. CASE SetConfig \/ SaveOwn
  <2>1. UNCHANGED <<docs, haPrefix, haMask, swept, synced, blind, present, scanned>>
    BY <1>5 DEF SetConfig, SaveOwn, SameDiscovery, busVars
  <2>2. "worker" \in Writer
    BY DEF Writer
  <2>3. conf' \in Content(Nat) /\ draft' \in Drafts
    BY <1>5, <2>2, Compared, SavedTo DEF SetConfig, SaveOwn, Discovery
  <2> QED BY <2>1, <2>3, Elsewhere DEF Discovery
<1> QED BY <1>1, <1>2, <1>3, <1>4, <1>5 DEF Worker

LEMMA NoDrafts == [w \in Writer |-> NoDraft] \in Drafts
  BY DEF Drafts, NoDraft, Content

LEMMA RebootStep ==
  ASSUME Discovery, Reboots
  PROVE  Careful
  BY NoDrafts DEF Reboots, Blank, retained, Careful, Discovery, NoOrphan

LEMMA NextStep == Discovery /\ [Next]_vars => Careful
<1> SUFFICES ASSUME Discovery, [Next]_vars PROVE Careful
  OBVIOUS
<1>1. CASE Worker
  BY <1>1, WorkerStep
<1>2. CASE Reboot \/ Reset
  BY <1>2, RebootStep DEF Reboot, Reset
<1>3. CASE \/ Connected \/ Disconnected \/ (\E c \in Commands : Message(c)) \/ DeliverEvent
           \/ HttpRestart \/ HttpPublishAll \/ LinkDies \/ Will
  <2>1. UNCHANGED <<docs, haPrefix, haMask, swept, synced, blind, conf, draft, present, scanned>>
    BY <1>3 DEF Connected, Disconnected, Message, DeliverEvent, HttpRestart, HttpPublishAll, LinkDies,
                Will, World, configVars, busVars, retained
  <2> QED BY <2>1, Elsewhere DEF Discovery
<1>4. CASE HttpSave \/ HttpAdopt
  <2>1. UNCHANGED <<docs, haPrefix, haMask, swept, synced, blind, present, scanned>>
    BY <1>4 DEF HttpSave, HttpAdopt, World, busVars, retained
  <2>2. "http" \in Writer
    BY DEF Writer
  <2>3. conf' \in Content(Nat) /\ draft' \in Drafts
    BY <1>4, <2>2, Compared, SavedTo DEF HttpSave, HttpAdopt, Discovery
  <2> QED BY <2>1, <2>3, Elsewhere DEF Discovery
<1>5. CASE \/ \E g \in Gear : GearChanges(g)
           \/ \E S \in SUBSET Gear : ScanEnds(S)
           \/ \E k \in Group : GroupListed(k)
  <2>1. Registry /\ present' \subseteq Light /\ scanned' \in BOOLEAN
    BY <1>5 DEF GearChanges, ScanEnds, GroupListed, Discovery, Light
  <2>2. UNCHANGED <<docs, haPrefix, haMask, swept, synced, blind, conf, draft>>
    BY <2>1 DEF Registry, World, configVars, retained
  <2> QED BY <2>1, <2>2, Elsewhere DEF Discovery
<1>6. CASE UNCHANGED vars
  <2>1. UNCHANGED <<docs, haPrefix, haMask, swept, synced, blind, conf, draft, present, scanned>>
    BY <1>6 DEF vars, configVars, workerVars, busVars, retained
  <2> QED BY <2>1, Elsewhere DEF Discovery
<1> QED BY <1>1, <1>2, <1>3, <1>4, <1>5, <1>6 DEF Next

LEMMA InitDiscovery == Init => Discovery /\ NoOrphan
<1> SUFFICES ASSUME Init PROVE Discovery /\ NoOrphan
  OBVIOUS
<1>1. docs \subseteq Prefix \X Light
  BY DEF Init, Content
<1>2. conf \in Content(Nat) /\ draft \in Drafts
  <2>1. conf \in Content({0}) /\ draft = [w \in Writer |-> NoDraft]
    BY DEF Init
  <2>2. Content({0}) \subseteq Content(Nat)
    BY DEF Content
  <2> QED BY <2>1, <2>2, NoDrafts
<1>3. haPrefix = Off /\ haMask = {} /\ swept = FALSE /\ synced = FALSE /\ present = {} /\ scanned = FALSE
  BY DEF Init
<1> QED BY <1>1, <1>2, <1>3 DEF Discovery, NoOrphan

LEMMA DiscoveryAlways == Spec => []Discovery
<1>1. Discovery /\ [Next]_vars => Discovery'
  BY NextStep DEF Careful
<1> QED BY <1>1, InitDiscovery, PTL DEF Spec

-----------------------------------------------------------------------------
(* Types of the rest. *)

LostKinds == {"start", "restart", "overtaken", "crossed", "connected", "gear", "result", "message",
              "other"}
Event == {<<"result">>} \cup {<<"gear", g>> : g \in Gear}

QueueTypes ==
  /\ queue \in Seq(Work) /\ Len(queue) <= WorkDepth
  /\ loop \in Seq(Event) /\ Len(loop) <= LoopDepth
  /\ lost \subseteq LostKinds

WorkerTypes ==
  setup \in {"none", "queue", "bound"} /\ worker \in BOOLEAN /\ (setup = "none" => ~worker)

ClientTypes ==
  /\ http \in {"idle", "saving", "saved", "restart", "stop"}
  /\ WorkerTypes
  /\ pc \in {"idle", "stopping", "restarting", "saving", "saved", "restart", "stop"}
  /\ client \in Nat \cup {NoClient}
  /\ connected \in BOOLEAN
  /\ link \in {"off", "connecting", "up", "dying"}
  /\ session \in {"none", "live", "zombie"} /\ filters \in BOOLEAN

ViewTypes ==
  /\ dirty \in BOOLEAN /\ swept \in BOOLEAN /\ synced \in BOOLEAN /\ blind \in BOOLEAN
  /\ level \in [Gear -> 0..1]
  /\ status \in {"none", "online", "offline"} /\ states \in [Gear -> {None, 0, 1}]
  /\ list \subseteq Gear

Types == QueueTypes /\ ClientTypes /\ ViewTypes /\ moves \in 0..MaxMoves

LEMMA Events == Event \subseteq Work
BY DEF Event, Work

LEMMA Posted ==
  ASSUME NEW q \in Seq(Work), Len(q) <= WorkDepth, NEW w \in Work, NEW k \in LostKinds,
         NEW missing \in SUBSET LostKinds, Post(q, w, k, missing)
  PROVE  /\ queue' \in Seq(Work) /\ Len(queue') <= WorkDepth /\ lost' \subseteq LostKinds
         /\ missing \subseteq lost'
         /\ queue' = Append(q, w) \/ (queue' = q /\ k \in lost')
<1>1. WorkDepth \in Nat
  BY DepthAssumption
<1> QED BY <1>1 DEF Post

LEMMA Taken ==
  ASSUME QueueTypes, NEW w, Done(w)
  PROVE  /\ queue # <<>> /\ Head(queue) = w /\ queue' = Tail(queue)
         /\ queue' \in Seq(Work) /\ Len(queue') <= WorkDepth
         /\ worker /\ pc = "idle"
<1>1. WorkDepth \in Nat
  BY DepthAssumption
<1> QED BY <1>1 DEF QueueTypes, Done, Take

LEMMA Announced ==
  ASSUME QueueTypes, NEW w \in Event, NEW k \in LostKinds, Announce(w, k)
  PROVE  /\ loop' \in Seq(Event) /\ Len(loop') <= LoopDepth /\ lost' \subseteq LostKinds
         /\ \/ loop' = Append(loop, w) /\ lost' = lost
            \/ loop' = loop /\ lost' = lost \cup {k}
<1>1. LoopDepth \in Nat
  BY DepthAssumption
<1>2. \/ Len(loop) < LoopDepth /\ loop' = Append(loop, w) /\ lost' = lost
      \/ loop' = loop /\ lost' = lost \cup {k}
  BY DEF Announce
<1> QED BY <1>1, <1>2 DEF QueueTypes

\* Whatever arrives, what was current at the broker still is.
LEMMA Arrival ==
  ASSUME ViewTypes, NEW got, Arrives(got)
  PROVE  /\ status' \in {"none", "online", "offline"} /\ states' \in [Gear -> {None, 0, 1}]
         /\ list' \subseteq Gear
         /\ status = "online" => status' = "online"
         /\ \A g \in Gear : states[g] = level[g] => states'[g] = level[g]
         /\ list = present \cap Gear => list' = present \cap Gear
  BY DEF ViewTypes, Arrives

LEMMA StartedTypes ==
  ASSUME NEW on \in BOOLEAN
  PROVE  Started(on) \in Seq(Work) /\ Len(Started(on)) <= WorkDepth
<1>1. WorkDepth \in Nat /\ WorkDepth >= 1
  BY DepthAssumption
<1>2. PICK w \in Work : w = <<"start">>
  BY DEF Work
<1>3. <<w>> \in Seq(Work) /\ Len(<<w>>) = 1 /\ <<>> \in Seq(Work) /\ Len(<<>>) = 0
  OBVIOUS
<1>4. CASE on
  BY <1>1, <1>2, <1>3, <1>4 DEF Started
<1>5. CASE ~on
  BY <1>1, <1>3, <1>5 DEF Started
<1> QED BY <1>4, <1>5

\* mqtt_iface_init makes everything or nothing.
LEMMA SetUpTypes ==
  ASSUME NEW on \in BOOLEAN
  PROVE  SetUp(on) \in {"none", "bound"} /\ (SetUp(on) = "none" => ~on)
<1>1. CASE on
  BY <1>1 DEF SetUp
<1>2. CASE ~on
  BY <1>2 DEF SetUp
<1> QED BY <1>1, <1>2

LEMMA InitTypes == Init => Types
<1> SUFFICES ASSUME Init PROVE Types
  OBVIOUS
<1>1. conf.on \in BOOLEAN /\ WorkDepth >= 1 /\ LoopDepth \in Nat /\ MaxMoves \in Nat
  BY DepthAssumption, MovesAssumption DEF Init, Content
<1>2. queue = Started(conf.on) /\ loop = <<>> /\ lost = {}
  BY DEF Init
<1>3. QueueTypes
  <2>1. queue \in Seq(Work) /\ Len(queue) <= WorkDepth
    BY <1>1, <1>2, StartedTypes
  <2> QED BY <1>1, <1>2, <2>1 DEF QueueTypes
<1>4. ClientTypes
  <2>1. worker = conf.on /\ setup = SetUp(conf.on)
    BY DEF Init
  <2>2. worker \in BOOLEAN /\ setup \in {"none", "queue", "bound"} /\ (setup = "none" => ~worker)
    BY <1>1, <2>1, SetUpTypes
  <2> QED BY <2>2 DEF Init, ClientTypes, WorkerTypes
<1>5. ViewTypes
  <2>1. /\ dirty = FALSE /\ swept = FALSE /\ synced = FALSE /\ blind = FALSE /\ status = "none" /\ list = {}
        /\ level = [g \in Gear |-> 0] /\ states = [g \in Gear |-> None]
    BY DEF Init
  <2>2. level \in [Gear -> 0..1] /\ states \in [Gear -> {None, 0, 1}]
    BY <2>1
  <2> QED BY <2>1, <2>2 DEF ViewTypes
<1> QED BY <1>1, <1>3, <1>4, <1>5 DEF Init, Types

LEMMA MovesTypes == Types /\ [Next]_vars => moves' \in 0..MaxMoves
<1> SUFFICES ASSUME Types, [Next]_vars PROVE moves' \in 0..MaxMoves
  OBVIOUS
<1>1. MaxMoves \in Nat /\ moves \in 0..MaxMoves
  BY MovesAssumption DEF Types
<1>2. Move \/ UNCHANGED moves
  <2>1. CASE Worker
    BY <2>1 DEF Worker, WorkStart, BeginStop, EndStop, EndRestart, StartClient, WorkConnected,
                WorkPublish, WorkGear, RenameGear, WorkResult, Rename, SetConfig, SaveOwn,
                RestartOwn, Tick
  <2>2. CASE ~Worker
    BY <2>2 DEF Next, vars, Reboot, Connected, Disconnected, Message, DeliverEvent, HttpSave,
                HttpAdopt, HttpRestart, HttpPublishAll, GearChanges, ScanEnds, GroupListed, Registry, LinkDies,
                Will, Reset
  <2> QED BY <2>1, <2>2
<1> QED BY <1>1, <1>2 DEF Move

LEMMA WorkerClient == Discovery /\ ClientTypes /\ Worker => ClientTypes'
<1> SUFFICES ASSUME Discovery, ClientTypes, Worker PROVE ClientTypes'
  OBVIOUS
<1>0. WorkerTypes' /\ conf.rev \in Nat
  <2>1. UNCHANGED <<setup, worker>>
    BY DEF Worker, WorkStart, BeginStop, EndStop, EndRestart, WorkConnected, WorkPublish, WorkResult,
           WorkGear, RenameGear, Rename, SetConfig, SaveOwn, RestartOwn, Tick, Quiet, configVars
  <2> QED BY <2>1 DEF Discovery, Content, ClientTypes, WorkerTypes
<1>1. CASE WorkStart \/ BeginStop \/ EndStop \/ EndRestart
  BY <1>0, <1>1 DEF ClientTypes, WorkStart, BeginStop, EndStop, EndRestart, StartClient,
                    Farewell, Quiet, configVars, linkVars
<1>2. CASE WorkConnected
  BY <1>0, <1>2 DEF ClientTypes, WorkConnected, Quiet, configVars
<1>3. CASE WorkPublish \/ WorkResult \/ Tick
  BY <1>0, <1>3 DEF ClientTypes, WorkPublish, WorkResult, Tick, Quiet, configVars, linkVars
<1>4. ASSUME NEW l, WorkGear(l) \/ RenameGear(l) \/ Rename(l) PROVE ClientTypes'
  BY <1>0, <1>4 DEF ClientTypes, WorkGear, RenameGear, Rename, Quiet, configVars, linkVars
<1>5. CASE SetConfig \/ SaveOwn \/ RestartOwn
  BY <1>0, <1>5 DEF ClientTypes, SetConfig, SaveOwn, RestartOwn, Decision, configVars, linkVars
<1> QED BY <1>1, <1>2, <1>3, <1>4, <1>5 DEF Worker

LEMMA ClientStep == Discovery /\ ClientTypes /\ [Next]_vars => ClientTypes'
<1> SUFFICES ASSUME Discovery, ClientTypes, [Next]_vars PROVE ClientTypes'
  OBVIOUS
<1>1. CASE Worker
  BY <1>1, WorkerClient
<1>2. CASE Reboot \/ Reset
  <2>1. worker' = conf.on /\ setup' = SetUp(conf.on) /\ conf.on \in BOOLEAN
    BY <1>2 DEF Reboot, Reset, Reboots, Discovery, Content
  <2>2. WorkerTypes'
    BY <2>1, SetUpTypes DEF WorkerTypes
  <2> QED BY <1>2, <2>2 DEF Reboot, Reset, Reboots, Blank, ClientTypes
<1>0. ASSUME UNCHANGED <<setup, worker>> PROVE WorkerTypes'
  BY <1>0 DEF ClientTypes, WorkerTypes
<1>3. CASE Connected \/ Disconnected \/ LinkDies \/ Will
  BY <1>0, <1>3 DEF Connected, Disconnected, LinkDies, Will, World, ClientTypes, configVars
<1>4. CASE (\E c \in Commands : Message(c)) \/ DeliverEvent \/ HttpPublishAll
  BY <1>0, <1>4 DEF Message, DeliverEvent, HttpPublishAll, World, ClientTypes, configVars, linkVars
<1>5. CASE HttpSave \/ HttpAdopt \/ HttpRestart
  <2>1. UNCHANGED <<pc, client, connected, linkVars>> /\ http' \in {"idle", "saving", "saved", "restart", "stop"}
    BY <1>5 DEF HttpSave, HttpAdopt, HttpRestart, Decision, World, linkVars
  <2>2. \/ UNCHANGED <<setup, worker>>
        \/ setup' = SetUp(conf.on) /\ worker' = conf.on
        \/ StartFails
    BY <1>5 DEF HttpSave, HttpAdopt, HttpRestart, StartWorker, World
  <2>3. WorkerTypes'
    <3>1. CASE UNCHANGED <<setup, worker>>
      BY <1>0, <3>1
    <3>2. CASE setup' = SetUp(conf.on) /\ worker' = conf.on
      BY <3>2, SetUpTypes DEF Discovery, Content, WorkerTypes
    <3>3. CASE StartFails
      BY <3>3 DEF StartFails, WorkerTypes
    <3> QED BY <2>2, <3>1, <3>2, <3>3
  <2> QED BY <2>1, <2>3 DEF ClientTypes, linkVars
<1>6. CASE Registry \/ UNCHANGED vars
  BY <1>0, <1>6 DEF Registry, World, ClientTypes, vars, configVars, workerVars, linkVars
<1> QED BY <1>1, <1>2, <1>3, <1>4, <1>5, <1>6 DEF Next, GearChanges, ScanEnds, GroupListed

LEMMA SyncBlind ==
  ASSUME ViewTypes, NEW l, SyncLight(l) \/ HaSync
  PROVE  blind' \in BOOLEAN
<1>1. CASE SyncLight(l)
  BY <1>1 DEF ViewTypes, SyncLight, LosesClear
<1>2. CASE HaSync
  BY <1>2 DEF ViewTypes, HaSync, LosesClear
<1> QED BY <1>1, <1>2

LEMMA WorkerView == ViewTypes /\ Discovery /\ Worker => ViewTypes'
<1> SUFFICES ASSUME ViewTypes, Discovery, Worker PROVE ViewTypes'
  OBVIOUS
<1>1. CASE WorkStart \/ BeginStop \/ EndStop \/ EndRestart \/ RestartOwn \/ SetConfig \/ SaveOwn
  BY <1>1 DEF ViewTypes, WorkStart, BeginStop, EndStop, EndRestart, RestartOwn, SetConfig, SaveOwn,
              SameDiscovery, SameTopics, busVars
<1>2. CASE WorkConnected \/ WorkResult
  <2>1. HaSync /\ level' = level /\ dirty' \in BOOLEAN /\ \E got : Arrives(got)
    BY <1>2 DEF WorkConnected, WorkResult, PublishAll, PublishGears, busVars
  <2>2. swept' \in BOOLEAN /\ synced' \in BOOLEAN
    BY <2>1 DEF HaSync, ViewTypes, SweepDue, Discovery
  <2> QED BY <2>1, <2>2, Arrival, SyncBlind DEF ViewTypes
<1>3. CASE WorkPublish \/ Tick
  <2>1. /\ UNCHANGED <<level, swept, synced, blind>>
        /\ SameTopics \/ (dirty' \in BOOLEAN /\ \E got : Arrives(got))
    BY <1>3 DEF WorkPublish, Tick, StatusTick, ListTick, PublishAll, PublishGears, SameDiscovery,
                busVars, ViewTypes
  <2> QED BY <2>1, Arrival DEF ViewTypes, SameTopics
<1>4. ASSUME NEW g \in Gear, WorkGear(g) \/ RenameGear(g) PROVE ViewTypes'
  <2>1. /\ UNCHANGED <<level, swept, synced>>
        /\ SyncLight(g) \/ blind' = blind
        /\ dirty' = TRUE /\ \E got : Arrives(got)
    BY <1>4 DEF WorkGear, RenameGear, PublishGear, busVars
  <2> QED BY <2>1, Arrival, SyncBlind DEF ViewTypes
<1>5. ASSUME NEW k \in Group, Rename(k) PROVE ViewTypes'
  <2>1. blind' \in BOOLEAN
    BY <1>5 DEF Rename, LosesClear, ViewTypes
  <2> QED BY <1>5, <2>1 DEF Rename, SameTopics, ViewTypes
<1> QED BY <1>1, <1>2, <1>3, <1>4, <1>5 DEF Worker

LEMMA ViewStep == Discovery /\ ViewTypes /\ [Next]_vars => ViewTypes'
<1> SUFFICES ASSUME Discovery, ViewTypes, [Next]_vars PROVE ViewTypes'
  OBVIOUS
<1>1. CASE Worker
  BY <1>1, WorkerView
<1>2. CASE Reboot \/ Reset
  BY <1>2 DEF Reboot, Reset, Reboots, Blank, ViewTypes, retained
<1>3. CASE Connected \/ Disconnected \/ LinkDies \/ Will
  BY <1>3 DEF Connected, Disconnected, LinkDies, Will, World, ViewTypes, busVars, retained
<1>4. CASE (\E c \in Commands : Message(c)) \/ DeliverEvent \/ HttpPublishAll
  BY <1>4 DEF Message, DeliverEvent, HttpPublishAll, World, ViewTypes, busVars, retained
<1>5. CASE HttpSave \/ HttpAdopt \/ HttpRestart
  BY <1>5 DEF HttpSave, HttpAdopt, HttpRestart, World, ViewTypes, busVars, retained
<1>6. CASE \/ \E g \in Gear : GearChanges(g)
           \/ \E S \in SUBSET Gear : ScanEnds(S)
           \/ \E k \in Group : GroupListed(k)
  <2>1. /\ Registry
        /\ level' = level \/ \E g \in Gear : level' = [level EXCEPT ![g] = 1 - @]
    BY <1>6 DEF GearChanges, ScanEnds, GroupListed
  <2>2. level' \in [Gear -> 0..1]
    BY <2>1 DEF ViewTypes
  <2> QED BY <2>1, <2>2 DEF Registry, World, ViewTypes, retained
<1>7. CASE UNCHANGED vars
  BY <1>7 DEF vars, workerVars, busVars, retained, ViewTypes
<1> QED BY <1>1, <1>2, <1>3, <1>4, <1>5, <1>6, <1>7 DEF Next

LEMMA WorkKinds ==
  /\ {<<"start">>, <<"stop">>, <<"restart">>, <<"connected">>, <<"disconnected">>,
      <<"publish_all">>, <<"result">>} \subseteq Work
  /\ \A c \in Commands : <<"message", c>> \in Work
  /\ \A g \in Gear : <<"gear", g>> \in Work /\ <<"gear", g>> \in Event
  /\ <<"result">> \in Event
BY DEF Work, Event

LEMMA QueueStep == Discovery /\ ClientTypes /\ QueueTypes /\ [Next]_vars => QueueTypes'
<1> SUFFICES ASSUME Discovery, ClientTypes, QueueTypes, [Next]_vars PROVE QueueTypes'
  OBVIOUS
<1>0. /\ queue \in Seq(Work) /\ Len(queue) <= WorkDepth /\ lost \in SUBSET LostKinds
      /\ WorkDepth >= 1 /\ LoopDepth \in Nat /\ conf.on \in BOOLEAN
  BY DepthAssumption DEF QueueTypes, Discovery, Content
<1>1. ASSUME NEW w, Done(w), UNCHANGED loop, lost' \subseteq LostKinds PROVE QueueTypes'
  BY <1>1, Taken DEF QueueTypes
<1>2. CASE WorkStart \/ WorkConnected \/ WorkPublish \/ WorkResult \/ BeginStop \/ SetConfig
  <2>1. (\E w : Done(w)) /\ UNCHANGED loop
    BY <1>2 DEF WorkStart, WorkConnected, WorkPublish, WorkResult, BeginStop, SetConfig, Routed
  <2>2. lost' \subseteq LostKinds
    BY <1>2 DEF WorkStart, StartClient, WorkConnected, WorkPublish, WorkResult, BeginStop, SetConfig,
                QueueTypes, LostKinds
  <2> QED BY <1>1, <2>1, <2>2
<1>3. ASSUME NEW l, WorkGear(l) \/ Rename(l) PROVE QueueTypes'
  <2>1. (\E w : Done(w)) /\ UNCHANGED <<loop, lost>>
    BY <1>3 DEF WorkGear, Rename, Routed
  <2> QED BY <1>0, <1>1, <2>1
<1>4. ASSUME NEW g \in Gear, RenameGear(g) PROVE QueueTypes'
  <2>1. Done(<<"message", "rename">>) /\ Announce(<<"gear", g>>, "gear")
    BY <1>4 DEF RenameGear, Routed
  <2> QED BY <2>1, Taken, Announced, WorkKinds DEF QueueTypes, LostKinds
<1>5. CASE EndStop \/ EndRestart \/ Tick
  BY <1>5 DEF EndStop, EndRestart, Tick, StartClient, QueueTypes, LostKinds
<1>6. ASSUME NEW w \in Work, NEW k \in LostKinds, NEW missing \in SUBSET LostKinds,
             Post(queue, w, k, missing), UNCHANGED loop
      PROVE  QueueTypes'
  BY <1>0, <1>6, Posted DEF QueueTypes
<1>7. ASSUME NEW d \in {"restart", "stop"}, PostDecided(d), UNCHANGED loop PROVE QueueTypes'
  <2>1. <<d>> \in Work /\ lost \cup Overtaken(d) \in SUBSET LostKinds /\ "restart" \in LostKinds
    BY <1>0, WorkKinds DEF Overtaken, LostKinds
  <2> QED BY <1>6, <1>7, <2>1 DEF PostDecided
<1>8. CASE RestartOwn \/ SaveOwn
  <2>1. CASE RestartOwn
    <3>1. CASE pc = "saved"
      BY <2>1, <3>1 DEF RestartOwn, QueueTypes
    <3>2. CASE pc # "saved"
      BY <1>7, <2>1, <3>2 DEF RestartOwn
    <3> QED BY <3>1, <3>2
  <2>2. CASE SaveOwn
    <3>1. lost' \subseteq lost \cup {"crossed"}
      BY <2>2, SavedTo DEF SaveOwn, Writer
    <3> QED BY <1>0, <2>2, <3>1 DEF SaveOwn, QueueTypes, LostKinds
  <2> QED BY <1>8, <2>1, <2>2
<1>9. CASE Connected \/ Disconnected \/ HttpPublishAll \/ \E c \in Commands : Message(c)
  BY <1>0, <1>6, <1>9, WorkKinds DEF Connected, Disconnected, HttpPublishAll, Message, LostKinds
<1>10. CASE DeliverEvent
  <2>1. Head(loop) \in Event /\ Tail(loop) \in Seq(Event) /\ Len(Tail(loop)) <= LoopDepth
    BY <1>0, <1>10 DEF DeliverEvent, QueueTypes
  <2>2. Head(loop) \in Work /\ Head(loop)[1] \in LostKinds
    BY <2>1, Events DEF Event, LostKinds
  <2>3. CASE connected /\ setup = "bound"
    BY <1>0, <1>10, <2>1, <2>2, <2>3, Posted DEF DeliverEvent, QueueTypes
  <2>4. CASE ~(connected /\ setup = "bound")
    BY <1>10, <2>1, <2>2, <2>4 DEF DeliverEvent, QueueTypes
  <2> QED BY <2>3, <2>4
<1>11. CASE HttpSave \/ LinkDies \/ Will \/ UNCHANGED vars
  <2>1. UNCHANGED <<queue, loop, lost>>
    BY <1>11 DEF HttpSave, LinkDies, Will, vars
  <2> QED BY <2>1 DEF QueueTypes
<1>12. Started(conf.on) \in Seq(Work) /\ Len(Started(conf.on)) <= WorkDepth
  BY <1>0, StartedTypes
<1>13. CASE HttpRestart \/ HttpAdopt
  <2>1. CASE HttpRestart /\ http = "saved"
    <3>1. /\ loop' = loop
          /\ \/ UNCHANGED <<queue, lost>>
             \/ queue' = Started(conf.on) /\ lost' = lost
             \/ queue' = <<>> /\ lost' = lost \cup {"start"}
      BY <2>1 DEF HttpRestart, StartWorker, StartFails
    <3>2. <<>> \in Seq(Work) /\ Len(<<>>) = 0
      OBVIOUS
    <3>3. queue' \in Seq(Work) /\ Len(queue') <= WorkDepth
      <4>1. 0 <= WorkDepth
        BY DepthAssumption
      <4> QED BY <1>0, <1>12, <3>1, <3>2, <4>1
    <3>4. lost' \subseteq LostKinds
      BY <1>0, <3>1 DEF LostKinds
    <3> QED BY <3>1, <3>3, <3>4 DEF QueueTypes
  <2>2. CASE HttpRestart /\ http # "saved"
    BY <1>7, <2>2 DEF HttpRestart
  <2>3. CASE HttpAdopt
    <3>1. lost' \subseteq lost \cup {"crossed"}
      BY <2>3, SavedTo DEF HttpAdopt, Writer
    <3> QED BY <1>0, <2>3, <3>1 DEF HttpAdopt, QueueTypes, LostKinds
  <2> QED BY <1>13, <2>1, <2>2, <2>3
<1>14. CASE Reboot \/ Reset
  <2>1. queue' = Started(conf.on) /\ loop' = <<>> /\ lost' = {}
    BY <1>14 DEF Reboot, Reset, Reboots, Blank
  <2> QED BY <1>0, <1>12, <2>1 DEF QueueTypes
<1>15. ASSUME NEW w \in Event, NEW k \in LostKinds, Announce(w, k), UNCHANGED queue
       PROVE  QueueTypes'
  BY <1>15, Announced DEF QueueTypes
<1>16. CASE \/ \E g \in Gear : GearChanges(g)
            \/ \E S \in SUBSET Gear : ScanEnds(S)
            \/ \E k \in Group : GroupListed(k)
  BY <1>0, <1>15, <1>16, WorkKinds DEF GearChanges, ScanEnds, GroupListed, Registry, LostKinds, QueueTypes
<1> QED BY <1>2, <1>3, <1>4, <1>5, <1>8, <1>9, <1>10, <1>11, <1>13, <1>14, <1>16 DEF Next, Worker

LEMMA TypesAlways == Spec => [](Discovery /\ Types)
<1>1. Discovery /\ Types /\ [Next]_vars => Types'
  BY ClientStep, ViewStep, QueueStep, MovesTypes DEF Types
<1> QED BY <1>1, InitDiscovery, InitTypes, DiscoveryAlways, PTL DEF Spec

-----------------------------------------------------------------------------
(* The configuration reaches the client: what the last order on the queue says. *)

Order(w) == w[1] \in {"start", "stop", "restart"}
NoOrder(q) == \A i \in 1..Len(q) : ~Order(q[i])
LastOrder(q, i) == Order(q[i]) /\ \A j \in (i + 1)..Len(q) : ~Order(q[j])

\* The last order asks for what the configuration says.
Right(w) == IF conf.on THEN w[1] \in {"start", "restart"} ELSE w[1] = "stop"
RightLast(q) == \A i \in 1..Len(q) : LastOrder(q, i) => Right(q[i])

\* Nobody is on the way to post an order, and none that was posted is lost.
Heeded ==
  /\ lost \cap {"start", "restart", "overtaken", "crossed"} = {}
  /\ http \in {"idle", "saving"} /\ pc \notin {"saved", "restart", "stop"}

Adopting ==
  /\ RightLast(queue)
  /\ NoOrder(queue) => /\ pc \notin {"stopping", "restarting"}
                            => client = IF conf.on THEN conf.rev ELSE NoClient
                       /\ pc = "restarting" => conf.on
                       /\ pc = "stopping" => ~conf.on

\* The order to start is the first, and comes when there is no client.
StartsFirst(q) ==
  \A i \in 1..Len(q) : q[i][1] = "start" => i = 1 /\ client = NoClient /\ pc = "idle"

ConfigInv ==
  /\ StartsFirst(queue)
  /\ ~worker => client = NoClient /\ pc = "idle"
  /\ client <= conf.rev
  /\ pc \in {"stopping", "restarting"} => client = NoClient
  /\ worker /\ Heeded => Adopting

LEMMA OrderAppend ==
  ASSUME NEW q \in Seq(Work), NEW w \in Work
  PROVE  /\ StartsFirst(q) /\ w[1] # "start" => StartsFirst(Append(q, w))
         /\ ~Order(w) /\ NoOrder(Append(q, w)) => NoOrder(q)
         /\ ~Order(w) /\ RightLast(q) => RightLast(Append(q, w))
         /\ Order(w) => ~NoOrder(Append(q, w))
         /\ Order(w) /\ Right(w) => RightLast(Append(q, w))
<1>1. /\ Len(q) \in Nat /\ Len(Append(q, w)) = Len(q) + 1 /\ Append(q, w)[Len(q) + 1] = w
      /\ \A i \in 1..Len(q) : Append(q, w)[i] = q[i]
  OBVIOUS
<1> HIDE DEF Right
<1>2. StartsFirst(q) /\ w[1] # "start" => StartsFirst(Append(q, w))
  BY <1>1 DEF StartsFirst
<1>3. ~Order(w) /\ NoOrder(Append(q, w)) => NoOrder(q)
  BY <1>1 DEF NoOrder
<1>4. ASSUME ~Order(w), RightLast(q) PROVE RightLast(Append(q, w))
  BY <1>1, <1>4 DEF RightLast, LastOrder
<1>5. Order(w) => ~NoOrder(Append(q, w))
  BY <1>1 DEF NoOrder
<1>6. ASSUME Order(w), Right(w) PROVE RightLast(Append(q, w))
  BY <1>1, <1>6 DEF RightLast, LastOrder
<1> QED BY <1>2, <1>3, <1>4, <1>5, <1>6

LEMMA OrderTail ==
  ASSUME NEW q \in Seq(Work), q # <<>>
  PROVE  /\ StartsFirst(q) => \A i \in 1..Len(Tail(q)) : Tail(q)[i][1] # "start"
         /\ RightLast(q) => RightLast(Tail(q))
         /\ ~Order(Head(q)) /\ NoOrder(Tail(q)) => NoOrder(q)
         /\ Order(Head(q)) /\ NoOrder(Tail(q)) /\ RightLast(q) => Right(Head(q))
<1>1. /\ Len(q) \in Nat /\ Len(q) > 0 /\ Head(q) = q[1] /\ Len(Tail(q)) = Len(q) - 1
      /\ \A i \in 1..Len(Tail(q)) : Tail(q)[i] = q[i + 1]
  OBVIOUS
<1>2. \A j \in 2..Len(q) : j - 1 \in 1..Len(Tail(q)) /\ Tail(q)[j - 1] = q[j]
  BY <1>1
<1>3. StartsFirst(q) => \A i \in 1..Len(Tail(q)) : Tail(q)[i][1] # "start"
  BY <1>1 DEF StartsFirst
<1>4. ASSUME RightLast(q), NEW i \in 1..Len(Tail(q)), LastOrder(Tail(q), i) PROVE Right(Tail(q)[i])
  <2>1. i + 1 \in 1..Len(q) /\ Tail(q)[i] = q[i + 1]
    BY <1>1
  <2>2. \A j \in (i + 2)..Len(q) : j - 1 \in (i + 1)..Len(Tail(q)) /\ Tail(q)[j - 1] = q[j]
    BY <1>1, <1>2
  <2>3. LastOrder(q, i + 1)
    <3>1. Order(q[i + 1]) /\ \A j \in (i + 1)..Len(Tail(q)) : ~Order(Tail(q)[j])
      BY <1>4, <2>1 DEF LastOrder
    <3>2. \A j \in ((i + 1) + 1)..Len(q) : ~Order(q[j])
      <4> SUFFICES ASSUME NEW j \in ((i + 1) + 1)..Len(q) PROVE ~Order(q[j])
        OBVIOUS
      <4>1. j \in (i + 2)..Len(q)
        BY <1>1
      <4> QED BY <2>2, <3>1, <4>1
    <3> QED BY <3>1, <3>2 DEF LastOrder
  <2> QED BY <1>4, <2>1, <2>3 DEF RightLast
<1>5. ~Order(Head(q)) /\ NoOrder(Tail(q)) => NoOrder(q)
  BY <1>1, <1>2 DEF NoOrder
<1>6. ASSUME Order(Head(q)), NoOrder(Tail(q)), RightLast(q) PROVE Right(Head(q))
  <2>1. LastOrder(q, 1)
    BY <1>1, <1>2, <1>6 DEF LastOrder, NoOrder
  <2> QED BY <1>1, <1>6, <2>1 DEF RightLast
<1> QED BY <1>3, <1>4, <1>5, <1>6 DEF RightLast

LEMMA NotOrders ==
  /\ \A w \in Event : ~Order(w)
  /\ \A c \in Commands : ~Order(<<"message", c>>)
  /\ ~Order(<<"connected">>) /\ ~Order(<<"disconnected">>) /\ ~Order(<<"publish_all">>)
  /\ ~Order(<<"result">>) /\ \A g \in Gear : ~Order(<<"gear", g>>)
BY DEF Order, Event

\* A step that leaves the client and the configuration alone and moves no order.
LEMMA ConfigKept ==
  ASSUME QueueTypes, ConfigInv, UNCHANGED <<client, worker, conf>>, Heeded' => Heeded,
         \/ pc' = pc
         \/ /\ worker /\ pc \in {"idle", "saving"} /\ pc' \in {"idle", "saving"}
            /\ \A i \in 1..Len(queue') : queue'[i][1] # "start",
         \/ queue' = queue
         \/ \E w \in Work : ~Order(w) /\ queue' = Append(queue, w)
         \/ queue # <<>> /\ ~Order(Head(queue)) /\ queue' = Tail(queue)
  PROVE  ConfigInv'
<1>0. queue \in Seq(Work)
  BY DEF QueueTypes
<1> DEFINE q == queue'
<1>1. StartsFirst(q) /\ (RightLast(queue) => RightLast(q)) /\ (NoOrder(q) => NoOrder(queue))
  <2>1. CASE queue' = queue
    BY <2>1 DEF ConfigInv
  <2>2. ASSUME NEW w \in Work, ~Order(w), queue' = Append(queue, w)
        PROVE  StartsFirst(q) /\ (RightLast(queue) => RightLast(q)) /\ (NoOrder(q) => NoOrder(queue))
    <3>1. w[1] # "start"
      BY <2>2 DEF Order
    <3> QED BY <1>0, <2>2, <3>1, OrderAppend DEF ConfigInv
  <2>3. CASE queue # <<>> /\ ~Order(Head(queue)) /\ queue' = Tail(queue)
    BY <1>0, <2>3, OrderTail DEF ConfigInv, StartsFirst
  <2> QED BY <2>1, <2>2, <2>3
<1>2. (RightLast(queue) => RightLast(queue)') /\ (NoOrder(queue)' => NoOrder(queue))
  BY <1>1 DEF RightLast, Right, LastOrder, NoOrder
<1>3. StartsFirst(queue)'
  BY <1>1 DEF StartsFirst
<1>4. Adopting /\ Heeded => Adopting'
  BY <1>2 DEF Adopting
<1>5. (~worker' => client' = NoClient /\ pc' = "idle")
      /\ (pc' \in {"stopping", "restarting"} => client' = NoClient)
  BY DEF ConfigInv
<1> QED BY <1>3, <1>4, <1>5 DEF ConfigInv

LEMMA StartedOrder ==
  ASSUME NEW on \in BOOLEAN
  PROVE  /\ \A i \in 1..Len(Started(on)) : i = 1 /\ Started(on)[i][1] = "start"
         /\ on => ~NoOrder(Started(on))
<1>1. PICK w : w = <<"start">>
  OBVIOUS
<1>2. w[1] = "start" /\ Len(<<w>>) = 1 /\ <<w>>[1] = w /\ Len(<<>>) = 0
  BY <1>1
<1>3. CASE on
  BY <1>1, <1>2, <1>3 DEF Started, NoOrder, Order
<1>4. CASE ~on
  BY <1>2, <1>4 DEF Started
<1> QED BY <1>3, <1>4

\* The worker starts anew.
LEMMA ConfigAnew ==
  ASSUME Discovery, client' = NoClient, pc' = "idle", worker' = conf.on,
         queue' = Started(conf.on), conf' = conf
  PROVE  ConfigInv'
<1>1. conf.on \in BOOLEAN /\ conf.rev \in Nat
  BY DEF Discovery, Content
<1>2. StartsFirst(queue)' /\ (client <= conf.rev)'
  BY <1>1, StartedOrder DEF StartsFirst, NoClient
<1>3. ASSUME worker' PROVE Adopting'
  <2>1. conf.on /\ conf'.on
    BY <1>3
  <2>2. ~NoOrder(queue') /\ \A i \in 1..Len(queue') : queue'[i][1] = "start"
    BY <1>1, <2>1, StartedOrder
  <2>3. RightLast(queue)'
    BY <2>1, <2>2 DEF RightLast, Right
  <2> QED BY <2>2, <2>3 DEF Adopting, NoOrder
<1> QED BY <1>2, <1>3 DEF ConfigInv

LEMMA RevTypes ==
  ASSUME Discovery, ClientTypes
  PROVE  conf.rev \in Nat /\ conf.on \in BOOLEAN /\ NoClient <= conf.rev /\ client \in Int
  BY DEF Discovery, Content, ClientTypes, NoClient

LEMMA StartConfig == Discovery /\ QueueTypes /\ ClientTypes /\ ConfigInv /\ WorkStart => ConfigInv'
<1> SUFFICES ASSUME Discovery, QueueTypes, ClientTypes, ConfigInv, WorkStart PROVE ConfigInv'
  OBVIOUS
<1>1. /\ queue # <<>> /\ Head(queue) = <<"start">> /\ queue' = Tail(queue) /\ queue \in Seq(Work)
      /\ worker /\ pc = "idle" /\ UNCHANGED <<worker, pc, conf, http>>
  BY Taken DEF WorkStart, QueueTypes, Quiet, configVars
<1>2. 1 \in 1..Len(queue) /\ Head(queue) = queue[1] /\ queue[1][1] = "start"
  BY <1>1
<1>3. client = NoClient
  BY <1>2 DEF ConfigInv, StartsFirst
<1>4. \/ client' = conf.rev /\ lost' = lost
      \/ client' = NoClient /\ "start" \in lost'
  BY <1>3 DEF WorkStart, StartClient
<1>5. /\ \A i \in 1..Len(queue') : queue'[i][1] # "start"
      /\ RightLast(queue) => RightLast(queue')
      /\ NoOrder(queue') /\ RightLast(queue) => Right(Head(queue))
  BY <1>1, <1>2, OrderTail DEF ConfigInv, Order
<1>6. Heeded' => Adopting'
  <2> SUFFICES ASSUME Heeded' PROVE Adopting'
    OBVIOUS
  <2>1. Heeded /\ client' = conf.rev
    BY <1>1, <1>4 DEF Heeded
  <2>2. RightLast(queue')
    BY <1>1, <1>5, <2>1 DEF ConfigInv, Adopting
  <2>3. NoOrder(queue') => conf.on
    BY <1>1, <1>2, <1>5, <2>1 DEF ConfigInv, Adopting, Right
  <2> QED BY <1>1, <2>1, <2>2, <2>3 DEF Adopting, RightLast, LastOrder, NoOrder, Right
<1>7. client' <= conf'.rev /\ StartsFirst(queue)'
  BY <1>1, <1>4, <1>5, RevTypes DEF StartsFirst
<1> QED BY <1>1, <1>6, <1>7 DEF ConfigInv

LEMMA BeginConfig == Discovery /\ QueueTypes /\ ClientTypes /\ ConfigInv /\ BeginStop => ConfigInv'
<1> SUFFICES ASSUME Discovery, QueueTypes, ClientTypes, ConfigInv, BeginStop PROVE ConfigInv'
  OBVIOUS
<1>1. /\ queue # <<>> /\ queue' = Tail(queue) /\ queue \in Seq(Work)
      /\ worker /\ pc = "idle" /\ UNCHANGED <<worker, conf, http, lost>> /\ client' = NoClient
      /\ \/ Head(queue) = <<"stop">> /\ pc' = "stopping"
         \/ Head(queue) = <<"restart">> /\ pc' = "restarting"
  BY Taken DEF BeginStop, QueueTypes, configVars
<1>2. Order(Head(queue)) /\ (pc' = "stopping" => Head(queue)[1] = "stop")
      /\ (pc' = "restarting" => Head(queue)[1] = "restart")
  BY <1>1 DEF Order
<1>3. /\ \A i \in 1..Len(queue') : queue'[i][1] # "start"
      /\ RightLast(queue) => RightLast(queue')
      /\ NoOrder(queue') /\ RightLast(queue) => Right(Head(queue))
  BY <1>1, <1>2, OrderTail DEF ConfigInv
<1>4. Heeded' => Adopting'
  <2> SUFFICES ASSUME Heeded' PROVE Adopting'
    OBVIOUS
  <2>1. RightLast(queue)
    BY <1>1 DEF Heeded, ConfigInv, Adopting
  <2>2. NoOrder(queue') => (pc' = "restarting" => conf.on) /\ (pc' = "stopping" => ~conf.on)
    BY <1>2, <1>3, <2>1 DEF Right
  <2> QED BY <1>1, <1>3, <2>1, <2>2 DEF Adopting, RightLast, LastOrder, NoOrder, Right
<1>5. client' <= conf'.rev /\ StartsFirst(queue)'
  BY <1>1, <1>3, RevTypes DEF StartsFirst
<1> QED BY <1>1, <1>4, <1>5 DEF ConfigInv

LEMMA EndConfig ==
  Discovery /\ QueueTypes /\ ClientTypes /\ ConfigInv /\ (EndStop \/ EndRestart) => ConfigInv'
<1> SUFFICES ASSUME Discovery, QueueTypes, ClientTypes, ConfigInv, EndStop \/ EndRestart
             PROVE  ConfigInv'
  OBVIOUS
<1>1. /\ pc \in {"stopping", "restarting"} /\ pc' = "idle" /\ client = NoClient
      /\ UNCHANGED <<worker, conf, http, queue>> /\ worker
  BY DEF EndStop, EndRestart, configVars, ConfigInv
<1>2. \/ pc = "stopping" /\ client' = NoClient /\ lost' = lost
      \/ pc = "restarting" /\ client' = conf.rev /\ lost' = lost
      \/ pc = "restarting" /\ client' = NoClient /\ "start" \in lost'
  BY <1>1 DEF EndStop, EndRestart, StartClient
<1>3. \A i \in 1..Len(queue') : queue'[i][1] # "start"
  BY <1>1 DEF ConfigInv, StartsFirst
<1>4. Heeded' => Adopting'
  <2> SUFFICES ASSUME Heeded' PROVE Adopting'
    OBVIOUS
  <2>1. Adopting /\ (pc = "restarting" => client' = conf.rev) /\ (pc = "stopping" => client' = NoClient)
    BY <1>1, <1>2 DEF Heeded, ConfigInv
  <2> QED BY <1>1, <2>1 DEF Adopting, RightLast, LastOrder, NoOrder, Right
<1>5. client' <= conf'.rev /\ StartsFirst(queue)'
  BY <1>1, <1>2, <1>3, RevTypes DEF StartsFirst
<1> QED BY <1>1, <1>4, <1>5 DEF ConfigInv

\* An order reaches the queue as the configuration wants it, or is counted as lost.
LEMMA PostConfig ==
  ASSUME Discovery, QueueTypes, ClientTypes, ConfigInv, NEW d \in {"restart", "stop"},
         PostDecided(d), UNCHANGED <<worker, client, conf>>,
         \/ pc' = pc
         \/ worker /\ pc \in {"restart", "stop"} /\ pc' = "idle"
  PROVE  ConfigInv'
<1>1. queue \in Seq(Work) /\ <<d>> \in Work /\ <<d>>[1] = d /\ Order(<<d>>)
  BY DEF QueueTypes, Work, Order
<1>2. \/ queue' = Append(queue, <<d>>) /\ lost' = lost \cup Overtaken(d)
      \/ queue' = queue /\ "restart" \in lost'
  BY DEF PostDecided, Post
<1>3. StartsFirst(queue)' /\ client' <= conf'.rev /\ (~worker' => client' = NoClient /\ pc' = "idle")
      /\ (pc' \in {"stopping", "restarting"} => client' = NoClient)
  <2>1. StartsFirst(queue')
    BY <1>1, <1>2, OrderAppend DEF ConfigInv
  <2> QED BY <2>1 DEF StartsFirst, ConfigInv
<1>4. Heeded' => Adopting'
  <2> SUFFICES ASSUME Heeded' PROVE Adopting'
    OBVIOUS
  <2>1. queue' = Append(queue, <<d>>) /\ Overtaken(d) = {}
    BY <1>2 DEF Heeded, Overtaken
  <2>2. Right(<<d>>)
    BY <1>1, <2>1 DEF Overtaken, Decision, Right
  <2>3. ~NoOrder(queue') /\ RightLast(queue')
    BY <1>1, <2>1, <2>2, OrderAppend
  <2> QED BY <2>3 DEF Adopting, RightLast, LastOrder, NoOrder, Right
<1> QED BY <1>3, <1>4 DEF ConfigInv

\* While the restart that follows it is under way, a new configuration is nobody's yet.
LEMMA SaveConfig ==
  ASSUME Discovery, QueueTypes, ClientTypes, ConfigInv, UNCHANGED <<worker, client, queue>>, ~Heeded',
         conf'.rev \in {conf.rev, conf.rev + 1},
         \/ pc' = pc
         \/ worker /\ pc # "idle" /\ pc' \notin {"stopping", "restarting"}
  PROVE  ConfigInv'
<1>1. StartsFirst(queue)'
  BY DEF ConfigInv, StartsFirst
<1>2. client' <= conf'.rev
  BY RevTypes DEF ConfigInv
<1>3. (~worker' => client' = NoClient /\ pc' = "idle")
      /\ (pc' \in {"stopping", "restarting"} => client' = NoClient)
  BY DEF ConfigInv
<1> QED BY <1>1, <1>2, <1>3 DEF ConfigInv

\* A save of either writer: it changes nothing, a restart follows it, or it is counted as
\* one that another save crossed.
LEMMA AdoptConfig ==
  ASSUME Discovery, QueueTypes, ClientTypes, ConfigInv, UNCHANGED <<worker, client, queue>>,
         NEW w \in Writer, NEW next, Saved(w, next),
         \/ pc' = pc /\ http = "saving" /\ http' = next
         \/ worker /\ pc = "saving" /\ pc' = next /\ next \in {"idle", "saved"} /\ http' = http
  PROVE  ConfigInv'
<1>1. /\ lost \subseteq lost'
      /\ \/ conf' = conf /\ next = "idle"
         \/ conf'.rev = conf.rev + 1 /\ (next = "saved" \/ "crossed" \in lost')
  BY SavedTo
<1>2. CASE conf' = conf /\ next = "idle"
  <2>1. Heeded' => Heeded
    BY <1>1, <1>2 DEF Heeded
  <2>2. pc = "saving" => \A i \in 1..Len(queue') : queue'[i][1] # "start"
    BY DEF ConfigInv, StartsFirst
  <2> QED BY <1>2, <2>1, <2>2, ConfigKept
<1>3. CASE conf'.rev = conf.rev + 1 /\ (next = "saved" \/ "crossed" \in lost')
  <2>1. ~Heeded'
    BY <1>3 DEF Heeded
  <2> QED BY <1>3, <2>1, SaveConfig
<1> QED BY <1>1, <1>2, <1>3

LEMMA WorkerConfig == Discovery /\ QueueTypes /\ ClientTypes /\ ConfigInv /\ Worker => ConfigInv'
<1> SUFFICES ASSUME Discovery, QueueTypes, ClientTypes, ConfigInv, Worker PROVE ConfigInv'
  OBVIOUS
<1>1. CASE WorkStart \/ BeginStop \/ EndStop \/ EndRestart
  BY <1>1, StartConfig, BeginConfig, EndConfig
<1>2. ASSUME UNCHANGED <<client, pc, worker, conf, http>>,
             lost \cap {"start", "restart", "overtaken", "crossed"} \subseteq lost',
             NEW w, Done(w), ~Order(w)
      PROVE  ConfigInv'
  <2>1. queue # <<>> /\ ~Order(Head(queue)) /\ queue' = Tail(queue)
    BY <1>2, Taken
  <2>2. Heeded' => Heeded
    BY <1>2 DEF Heeded
  <2> QED BY <1>2, <2>1, <2>2, ConfigKept
<1>3. CASE WorkConnected \/ WorkResult
  <2>1. /\ UNCHANGED <<client, pc, worker, conf, http>>
        /\ lost \cap {"start", "restart", "overtaken", "crossed"} \subseteq lost'
        /\ \E w \in {<<"connected">>, <<"result">>} : Done(w)
    BY <1>3 DEF WorkConnected, WorkResult, Quiet, configVars
  <2> QED BY <1>2, <2>1, NotOrders
<1>4. CASE WorkPublish
  <2>1. /\ UNCHANGED <<client, pc, worker, conf, http, lost>>
        /\ \E w : Done(w) /\ (\/ w \in {<<"publish_all">>, <<"disconnected">>}
                              \/ w \in {<<"message", "other">>, <<"message", "get_gears">>})
    BY <1>4 DEF WorkPublish, Quiet, configVars, Routed
  <2>2. \A c : ~Order(<<"message", c>>)
    BY DEF Order
  <2> QED BY <1>2, <2>1, <2>2, NotOrders
<1>5. ASSUME NEW g \in Gear, WorkGear(g) PROVE ConfigInv'
  <2>1. UNCHANGED <<client, pc, worker, conf, http, lost>> /\ Done(<<"gear", g>>)
    BY <1>5 DEF WorkGear, Quiet, configVars
  <2> QED BY <1>2, <2>1, NotOrders
<1>6. ASSUME NEW l, RenameGear(l) \/ Rename(l) PROVE ConfigInv'
  <2>1. /\ UNCHANGED <<client, pc, worker, conf, http>> /\ Done(<<"message", "rename">>)
        /\ lost \subseteq lost'
    BY <1>6 DEF RenameGear, Rename, Routed, Announce, Quiet, configVars
  <2>2. ~Order(<<"message", "rename">>)
    BY DEF Order
  <2> QED BY <1>2, <2>1, <2>2
<1>7. CASE SetConfig \/ SaveOwn
  <2>1. CASE SetConfig
    <3>1. /\ UNCHANGED <<worker, client, conf, http, lost>> /\ worker /\ pc = "idle" /\ pc' = "saving"
          /\ queue # <<>> /\ Head(queue) = <<"message", "set_config">> /\ queue' = Tail(queue)
      BY <2>1, Taken DEF SetConfig, Routed
    <3>2. ~Order(Head(queue))
      BY <3>1 DEF Order
    <3>3. \A i \in 1..Len(queue') : queue'[i][1] # "start"
      BY <3>1, OrderTail DEF ConfigInv, QueueTypes
    <3>4. Heeded' => Heeded
      BY <3>1 DEF Heeded
    <3> QED BY <3>1, <3>2, <3>3, <3>4, ConfigKept
  <2>2. CASE SaveOwn
    <3>1. PICK next \in {"idle", "saved"} : Saved("worker", next) /\ pc' = next
      BY <2>2 DEF SaveOwn
    <3>2. UNCHANGED <<worker, client, queue, http>> /\ pc = "saving" /\ worker /\ "worker" \in Writer
      BY <2>2 DEF SaveOwn, ConfigInv, Writer
    <3> QED BY <3>1, <3>2, AdoptConfig
  <2> QED BY <1>7, <2>1, <2>2
<1>8. CASE RestartOwn
  <2>1. UNCHANGED <<worker, client, conf, http>> /\ worker
    BY <1>8 DEF RestartOwn, configVars, ConfigInv
  <2>2. CASE pc = "saved"
    <3>1. pc' \in {"restart", "stop"} /\ queue' = queue
      BY <1>8, <2>2 DEF RestartOwn, Decision
    <3> QED BY <2>1, <2>2, <3>1, SaveConfig DEF Heeded
  <2>3. CASE pc \in {"restart", "stop"} /\ PostDecided(pc) /\ pc' = "idle"
    BY <2>1, <2>3, PostConfig
  <2> QED BY <1>8, <2>2, <2>3 DEF RestartOwn
<1>9. CASE Tick
  BY <1>9, ConfigKept DEF Tick, Heeded, Quiet, configVars
<1> QED BY <1>1, <1>3, <1>4, <1>5, <1>6, <1>7, <1>8, <1>9 DEF Worker

LEMMA NextConfig == Discovery /\ Types /\ ConfigInv /\ [Next]_vars => ConfigInv'
<1> SUFFICES ASSUME Discovery, QueueTypes, ClientTypes, ConfigInv, [Next]_vars PROVE ConfigInv'
  BY DEF Types
<1>0. queue \in Seq(Work) /\ lost \in SUBSET LostKinds
  BY DEF QueueTypes
<1>1. CASE Worker
  BY <1>1, WorkerConfig
<1>2. CASE Reboot \/ Reset
  BY <1>2, ConfigAnew DEF Reboot, Reset, Reboots, Blank
<1>3. ASSUME UNCHANGED <<client, pc, worker, conf, http>>, lost \subseteq lost',
             queue' = queue \/ \E w \in Work : ~Order(w) /\ queue' = Append(queue, w)
      PROVE  ConfigInv'
  <2>1. Heeded' => Heeded
    BY <1>3 DEF Heeded
  <2> QED BY <1>3, <2>1, ConfigKept
<1>4. CASE Connected \/ Disconnected \/ HttpPublishAll \/ \E c \in Commands : Message(c)
  <2>1. /\ UNCHANGED <<client, pc, worker, conf, http>>
        /\ \E k : \E w \in Work : ~Order(w) /\ Post(queue, w, k, lost)
    BY <1>4, WorkKinds, NotOrders
       DEF Connected, Disconnected, HttpPublishAll, Message, World, configVars
  <2> QED BY <1>3, <2>1 DEF Post
<1>5. CASE DeliverEvent
  <2>1. UNCHANGED <<client, pc, worker, conf, http>> /\ Head(loop) \in Event
    BY <1>5 DEF DeliverEvent, World, configVars, QueueTypes
  <2>2. Head(loop) \in Work /\ ~Order(Head(loop))
    BY <2>1, Events, NotOrders
  <2>3. \/ queue' = queue /\ lost \subseteq lost'
        \/ Post(queue, Head(loop), Head(loop)[1], lost)
    BY <1>5 DEF DeliverEvent
  <2> QED BY <1>3, <2>1, <2>2, <2>3 DEF Post
<1>6. CASE LinkDies \/ Will \/ UNCHANGED vars
  BY <1>3, <1>6 DEF LinkDies, Will, World, vars, configVars, workerVars
<1>7. ASSUME NEW w, NEW k, Announce(w, k), Registry PROVE ConfigInv'
  BY <1>3, <1>7 DEF Announce, Registry, World, configVars
<1>8. CASE \/ \E g \in Gear : GearChanges(g)
           \/ \E S \in SUBSET Gear : ScanEnds(S)
  BY <1>7, <1>8 DEF GearChanges, ScanEnds
<1>9. CASE \E k \in Group : GroupListed(k)
  BY <1>3, <1>9 DEF GroupListed, Registry, World, configVars
<1>10. CASE HttpSave \/ HttpAdopt
  <2>1. CASE HttpSave
    <3>1. UNCHANGED <<worker, client, pc, queue, conf>> /\ (Heeded' => Heeded)
      BY <2>1 DEF HttpSave, World, Heeded
    <3> QED BY <3>1, ConfigKept
  <2>2. CASE HttpAdopt
    <3>1. PICK next \in {"idle", "saved"} : Saved("http", next) /\ http' = next
      BY <2>2 DEF HttpAdopt
    <3>2. UNCHANGED <<worker, client, pc, queue>> /\ http = "saving" /\ "http" \in Writer
      BY <2>2 DEF HttpAdopt, World, Writer
    <3> QED BY <3>1, <3>2, AdoptConfig
  <2> QED BY <1>10, <2>1, <2>2
<1>11. CASE HttpRestart
  <2>1. CASE http = "saved" /\ setup # "none"
    <3>1. UNCHANGED <<worker, client, pc, queue, conf>> /\ ~Heeded'
      BY <1>11, <2>1 DEF HttpRestart, Decision, Heeded
    <3> QED BY <3>1, SaveConfig
  <2>2. CASE http = "saved" /\ setup = "none"
    <3>1. UNCHANGED <<client, pc, conf>> /\ StartWorker
      BY <1>11, <2>2 DEF HttpRestart
    <3>2. client' = NoClient /\ pc' = "idle"
      BY <2>2, <3>1 DEF ConfigInv, ClientTypes, WorkerTypes
    <3>3. CASE worker' = conf.on /\ queue' = Started(conf.on)
      BY <3>1, <3>2, <3>3, ConfigAnew
    <3>4. CASE StartFails
      <4>1. queue' = <<>> /\ Len(<<>>) = 0 /\ ~Heeded'
        BY <3>4 DEF StartFails, Heeded
      <4>2. StartsFirst(queue)' /\ client' <= conf'.rev
        BY <3>1, <3>2, <4>1, RevTypes DEF StartsFirst, ConfigInv
      <4> QED BY <3>2, <4>1, <4>2 DEF ConfigInv
    <3> QED BY <3>1, <3>3, <3>4 DEF StartWorker
  <2>3. CASE http # "saved"
    BY <1>11, <2>3, PostConfig DEF HttpRestart
  <2> QED BY <2>1, <2>2, <2>3
<1> QED BY <1>1, <1>2, <1>4, <1>5, <1>6, <1>8, <1>9, <1>10, <1>11 DEF Next

LEMMA ConfigAlways == Spec => []ConfigInv
<1>1. Init => ConfigInv
  <2> SUFFICES ASSUME Init PROVE ConfigInv
    OBVIOUS
  <2>1. /\ client = NoClient /\ pc = "idle" /\ worker = conf.on /\ queue = Started(conf.on)
        /\ conf.on \in BOOLEAN /\ conf.rev = 0
    BY DEF Init, Content
  <2>2. StartsFirst(queue) /\ client <= conf.rev
    BY <2>1, StartedOrder DEF StartsFirst, NoClient
  <2>3. ASSUME worker PROVE Adopting
    <3>1. conf.on /\ ~NoOrder(queue) /\ \A i \in 1..Len(queue) : queue[i][1] = "start"
      BY <2>1, <2>3, StartedOrder
    <3> QED BY <3>1 DEF Adopting, RightLast, Right
  <2> QED BY <2>1, <2>2, <2>3 DEF ConfigInv
<1> QED BY <1>1, NextConfig, TypesAlways, PTL DEF Spec

-----------------------------------------------------------------------------
(* The broker's copy follows the registry. *)

In(q, w) == \E i \in 1..Len(q) : q[i] = w

\* The client is up and on_connected has run for this connection.
Live == /\ worker /\ client # NoClient /\ link = "up"
        /\ ~In(queue, <<"connected">>) /\ "connected" \notin lost

\* A change that the worker has still to look at, or that was dropped on its way to it.
Awaited(w) == In(queue, w) \/ In(loop, w)
Stale == Awaited(<<"result">>) \/ lost \cap {"gear", "result"} # {}
Due(g) == Awaited(<<"gear", g>>) \/ Stale

StatesCurrent == \A g \in present \cap Gear : states[g] = level[g] \/ Due(g)
ListCurrent == list = present \cap Gear \/ dirty \/ Stale \/ \E g \in Gear : Awaited(<<"gear", g>>)
EntitiesCurrent ==
  haPrefix # Off => /\ \A g \in present \cap Gear : g \in haMask \/ Due(g)
                    /\ \A l \in haMask : <<haPrefix, l>> \in docs
Prefixed == client = conf.rev => haPrefix = conf.prefix
Linked == link = "up" => session = "live" /\ (client # NoClient => connected)

ViewInv ==
  /\ Linked
  /\ Live => /\ filters /\ status = "online" /\ Prefixed
             /\ StatesCurrent /\ ListCurrent /\ EntitiesCurrent

LEMMA InAppend ==
  ASSUME NEW S, NEW q \in Seq(S), NEW w \in S, NEW x
  PROVE  In(Append(q, w), x) <=> In(q, x) \/ x = w
<1>1. /\ Len(q) \in Nat /\ Len(Append(q, w)) = Len(q) + 1 /\ Append(q, w)[Len(q) + 1] = w
      /\ \A i \in 1..Len(q) : Append(q, w)[i] = q[i]
  OBVIOUS
<1> QED BY <1>1 DEF In

LEMMA InTail ==
  ASSUME NEW S, NEW q \in Seq(S), q # <<>>, NEW x
  PROVE  In(q, x) <=> In(Tail(q), x) \/ x = Head(q)
<1>1. /\ Len(q) \in Nat /\ Len(q) > 0 /\ Head(q) = q[1] /\ Len(Tail(q)) = Len(q) - 1
      /\ \A i \in 1..Len(Tail(q)) : Tail(q)[i] = q[i + 1]
  OBVIOUS
<1>2. \A j \in 2..Len(q) : j - 1 \in 1..Len(Tail(q)) /\ Tail(q)[j - 1] = q[j]
  BY <1>1
<1>3. \A i \in 1..Len(Tail(q)) : i + 1 \in 1..Len(q) /\ q[i + 1] = Tail(q)[i]
  BY <1>1
<1>4. \A i \in 1..Len(q) : i = 1 \/ i \in 2..Len(q)
  BY <1>1
<1>5. 1 \in 1..Len(q)
  BY <1>1
<1> QED BY <1>1, <1>2, <1>3, <1>4, <1>5 DEF In

\* An item taken from the queue: no other one goes with it.
LEMMA TakenOne ==
  ASSUME QueueTypes, NEW w, Done(w)
  PROVE  /\ \A x : x # w => (In(queue', x) <=> In(queue, x))
         /\ \A x : x # w /\ Awaited(x) /\ UNCHANGED loop => Awaited(x)'
<1>0. queue \in Seq(Work) /\ queue # <<>> /\ Head(queue) = w /\ queue' = Tail(queue)
  BY Taken DEF QueueTypes
<1>1. \A x : In(queue, x) <=> In(queue', x) \/ x = w
  <2>1. \A x : In(queue, x) <=> In(Tail(queue), x) \/ x = Head(queue)
    BY <1>0, InTail
  <2> QED BY <1>0, <2>1
<1> QED BY <1>1 DEF Awaited

\* What was due still is.
Carried ==
  /\ \A w \in Event : Awaited(w) => Awaited(w)' \/ Stale'
  /\ lost \cap {"gear", "result"} # {} => Stale'

LEMMA CarriedDue ==
  ASSUME Carried
  PROVE  (Stale => Stale') /\ \A g \in Gear : /\ Due(g) => Due(g)'
                                              /\ Awaited(<<"gear", g>>) => Awaited(<<"gear", g>>)' \/ Stale'
BY WorkKinds DEF Carried, Stale, Due

LEMMA CarriedOn ==
  ASSUME QueueTypes, UNCHANGED loop, lost \cap {"gear", "result"} \subseteq lost',
         \/ queue' = queue
         \/ \E w \in Work : queue' = Append(queue, w)
         \/ \E w : Done(w) /\ w \notin Event
  PROVE  Carried
<1>1. \A w \in Event : Awaited(w) => Awaited(w)'
  <2>1. CASE queue' = queue
    BY <2>1 DEF Awaited
  <2>2. CASE \E w \in Work : queue' = Append(queue, w)
    BY <2>2, InAppend DEF Awaited, QueueTypes
  <2>3. CASE \E w : Done(w) /\ w \notin Event
    BY <2>3, TakenOne
  <2> QED BY <2>1, <2>2, <2>3
<1> QED BY <1>1 DEF Carried, Stale

LEMMA CarriedAnnounced ==
  ASSUME QueueTypes, NEW w \in Event, NEW k \in {"gear", "result"}, Announce(w, k),
         \/ queue' = queue
         \/ \E x : Done(x) /\ x \notin Event
  PROVE  Carried /\ (Awaited(w)' \/ Stale')
<1>1. \A x \in Event : In(queue, x) => In(queue', x)
  BY TakenOne
<1>2. /\ \A x : In(loop, x) => In(loop', x)
      /\ In(loop', w) \/ k \in lost'
      /\ lost \subseteq lost'
  <2>1. loop \in Seq(Event) /\ k \in LostKinds
    BY DEF QueueTypes, LostKinds
  <2>2. \A x : In(Append(loop, w), x) <=> In(loop, x) \/ x = w
    BY <2>1, InAppend
  <2>3. \/ loop' = Append(loop, w) /\ lost' = lost
        \/ loop' = loop /\ lost' = lost \cup {k}
    BY <2>1, Announced
  <2> QED BY <2>2, <2>3
<1> QED BY <1>1, <1>2 DEF Carried, Awaited, Stale

\* Steps that publish nothing and change nothing that is published.
LEMMA ViewKept ==
  ASSUME ViewInv, Linked',
         Live' => /\ Live /\ Carried
                  /\ UNCHANGED <<filters, status, states, level, present, list, dirty,
                                 haPrefix, haMask, docs>>
                  /\ client' = conf'.rev => client = conf.rev /\ conf'.prefix = conf.prefix
  PROVE  ViewInv'
<1> SUFFICES ASSUME Live' PROVE /\ filters' /\ status' = "online" /\ Prefixed'
                                /\ StatesCurrent' /\ ListCurrent' /\ EntitiesCurrent'
  BY DEF ViewInv
<1>1. /\ Live /\ Carried
      /\ UNCHANGED <<filters, status, states, level, present, list, dirty, haPrefix, haMask, docs>>
      /\ client' = conf'.rev => client = conf.rev /\ conf'.prefix = conf.prefix
  OBVIOUS
<1>2. (Stale => Stale') /\ \A g \in Gear : /\ Due(g) => Due(g)'
                                           /\ Awaited(<<"gear", g>>) => Awaited(<<"gear", g>>)' \/ Stale'
  BY <1>1, CarriedDue
<1>3. filters' /\ status' = "online" /\ Prefixed'
  BY <1>1 DEF ViewInv, Prefixed
<1>4. StatesCurrent'
  BY <1>1, <1>2 DEF ViewInv, StatesCurrent
<1>5. ListCurrent'
  BY <1>1, <1>2 DEF ViewInv, ListCurrent
<1>6. EntitiesCurrent'
  BY <1>1, <1>2 DEF ViewInv, EntitiesCurrent
<1> QED BY <1>3, <1>4, <1>5, <1>6

\* On a connection that is up everything that is published arrives.
LEMMA AllArrives ==
  ASSUME client # NoClient, link = "up", NEW messages, NEW got \in Delivered(messages)
  PROVE  got = messages
BY DEF Delivered

LEMMA ListArrives ==
  ASSUME ViewTypes, client # NoClient, link = "up", PublishAll \/ PublishGears
  PROVE  list' = present \cap Gear /\ \A g \in present \cap Gear : states'[g] = level[g]
<1>1. PICK got : Arrives(got) /\ <<"list">> \in got /\ EveryState \subseteq got
  BY AllArrives DEF PublishAll, PublishGears
<1>2. \A g \in present \cap Gear : <<"state", g>> \in got
  BY <1>1 DEF EveryState
<1> QED BY <1>1, <1>2 DEF Arrives

LEMMA SyncArrives ==
  ASSUME Discovery, client # NoClient, link = "up", HaSync
  PROVE  /\ haPrefix' = conf.prefix
         /\ haPrefix' # Off => /\ haMask' = Light \cap present
                               /\ \A l \in haMask' : <<haPrefix', l>> \in docs'
<1>1. haPrefix' = conf.prefix /\ (conf.prefix # Off => haMask' = Light \cap present)
  BY DEF HaSync
<1>2. ASSUME conf.prefix # Off, NEW l \in Light \cap present PROVE <<conf.prefix, l>> \in docs'
  <2> DEFINE cleared == IF GivesUpPrefix THEN ClearAll ELSE {}
             sent == IF conf.prefix = Off THEN {}
                     ELSE Documents(Light, IF GivesUpPrefix THEN {} ELSE haMask,
                                    SweepDue(GivesUpPrefix \/ ~swept))
  <2>1. PICK gone \in Delivered(cleared), got \in Delivered(sent) :
          docs' = Apply(Apply(docs, haPrefix, gone), conf.prefix, got)
    BY DEF HaSync, Emptied
  <2>2. <<"doc", l>> \in sent
    BY <1>2 DEF Documents
  <2> HIDE DEF cleared, sent
  <2>3. <<"doc", l>> \in got /\ <<"doc", l>>[1] = "doc" /\ <<"doc", l>>[2] = l
    BY <2>1, <2>2, AllArrives
  <2> QED BY <2>1, <2>3, Applied
<1> QED BY <1>1, <1>2

\* One light's document, when it arrives, agrees with the mask.
LEMMA OneArrives ==
  ASSUME NEW l, NEW was, NEW sent, docs' = Apply(docs, haPrefix, sent),
         haMask' = (haMask \ {l}) \cup ({l} \cap was),
         l \in was => <<"doc", l>> \in sent,
         \A c \in sent : c[1] = "clear" => c[2] = l /\ l \notin was,
         \A k \in haMask : <<haPrefix, k>> \in docs
  PROVE  \A k \in haMask' : <<haPrefix, k>> \in docs'
<1> SUFFICES ASSUME NEW k \in haMask' PROVE <<haPrefix, k>> \in docs'
  OBVIOUS
<1>1. CASE k = l
  <2>1. <<"doc", l>> \in sent /\ <<"doc", l>>[1] = "doc" /\ <<"doc", l>>[2] = l
    BY <1>1
  <2> QED BY <1>1, <2>1, Applied
<1>2. CASE k # l
  <2>1. <<haPrefix, k>> \in docs /\ \A c \in sent : c[1] = "clear" => <<haPrefix, k>> # <<haPrefix, c[2]>>
    BY <1>2
  <2> QED BY <2>1, Applied
<1> QED BY <1>1, <1>2

LEMMA SyncLightArrives ==
  ASSUME client # NoClient, link = "up", NEW l \in Light, SyncLight(l), haPrefix # Off,
         \A k \in haMask : <<haPrefix, k>> \in docs
  PROVE  /\ haMask' = (haMask \ {l}) \cup ({l} \cap present)
         /\ \A k \in haMask' : <<haPrefix, k>> \in docs'
<1>1. PICK sent : sent = Documents({l}, haMask, FALSE)
  OBVIOUS
<1>2. docs' = Apply(docs, haPrefix, sent) /\ haMask' = (haMask \ {l}) \cup ({l} \cap present)
  BY <1>1, AllArrives DEF SyncLight
<1>3. /\ l \in present => <<"doc", l>> \in sent
      /\ \A c \in sent : c[1] = "clear" => c[2] = l /\ l \notin present
  BY <1>1 DEF Documents
<1> QED BY <1>2, <1>3, OneArrives

\* The parts to be shown of a step on which the client and its connection stay.
LEMMA ViewParts ==
  ASSUME ViewInv, UNCHANGED <<worker, client, connected, link, session>>,
         Live' => /\ filters' /\ status' = "online" /\ Prefixed'
                  /\ StatesCurrent' /\ ListCurrent' /\ EntitiesCurrent'
  PROVE  ViewInv'
BY DEF ViewInv, Linked

\* The same client on the same connection, and no connected item taken.
LEMMA LiveBefore ==
  ASSUME QueueTypes, UNCHANGED <<worker, client, link>>, lost \cap {"connected"} \subseteq lost',
         \/ queue' = queue
         \/ \E w \in Work : queue' = Append(queue, w)
         \/ \E w : Done(w) /\ w # <<"connected">>
  PROVE  Live' => Live
<1>1. In(queue, <<"connected">>) => In(queue', <<"connected">>)
  <2>1. CASE \E w \in Work : queue' = Append(queue, w)
    BY <2>1, InAppend DEF QueueTypes
  <2>2. CASE \E w : Done(w) /\ w # <<"connected">>
    BY <2>2, TakenOne
  <2> QED BY <2>1, <2>2
<1> QED BY <1>1 DEF Live

\* Work that leaves the broker's copy alone.
LEMMA ViewIdle ==
  ASSUME QueueTypes, ViewInv, UNCHANGED <<worker, client, connected, link, session, filters, loop>>,
         UNCHANGED <<level, present, status, states, list, dirty, docs, haPrefix, haMask>>,
         lost \cap {"connected", "gear", "result"} \subseteq lost',
         client = conf'.rev => client = conf.rev /\ conf'.prefix = conf.prefix,
         \/ queue' = queue
         \/ \E w \in Work : queue' = Append(queue, w)
         \/ \E w : Done(w) /\ w \notin Event /\ w # <<"connected">>
  PROVE  ViewInv'
<1>1. (Live' => Live) /\ Carried
  BY LiveBefore, CarriedOn
<1>2. Linked'
  BY DEF ViewInv, Linked
<1> QED BY <1>1, <1>2, ViewKept

LEMMA StartView == QueueTypes /\ ViewInv /\ WorkStart => ViewInv'
<1> SUFFICES ASSUME QueueTypes, ViewInv, WorkStart PROVE ViewInv'
  OBVIOUS
<1>1. CASE client = NoClient
  <2>1. link' # "up"
    BY <1>1 DEF WorkStart, StartClient
  <2> QED BY <2>1, ViewKept DEF Linked, Live
<1>2. CASE client # NoClient
  <2>1. Done(<<"start">>) /\ <<"start">> \notin Event /\ <<"start">> # <<"connected">>
    BY DEF WorkStart, Event
  <2>2. /\ UNCHANGED <<worker, client, connected, link, session, filters, loop, lost, conf>>
        /\ UNCHANGED <<level, present, status, states, list, dirty, docs, haPrefix, haMask>>
    BY <1>2 DEF WorkStart, Quiet, SameDiscovery, SameTopics, busVars, configVars
  <2> QED BY <2>1, <2>2, ViewIdle
<1> QED BY <1>1, <1>2

LEMMA StopView == ViewInv /\ (BeginStop \/ EndStop \/ EndRestart) => ViewInv'
<1> SUFFICES ASSUME ViewInv, BeginStop \/ EndStop \/ EndRestart PROVE ViewInv'
  OBVIOUS
<1>1. \/ client' = NoClient /\ UNCHANGED <<link, session>>
      \/ link' # "up"
  BY DEF BeginStop, EndStop, EndRestart, StartClient, linkVars
<1> QED BY <1>1, ViewKept DEF ViewInv, Linked, Live

LEMMA ConnectedView ==
  Discovery /\ QueueTypes /\ ViewTypes /\ ViewInv /\ WorkConnected => ViewInv'
<1> SUFFICES ASSUME Discovery, QueueTypes, ViewTypes, ViewInv, WorkConnected PROVE ViewInv'
  OBVIOUS
<1>1. /\ UNCHANGED <<worker, client, connected, link, session, conf, level, present>>
      /\ PublishAll /\ HaSync
      /\ \E got \in Delivered({<<"subscribe">>}) : filters' = (filters \/ got # {})
  BY DEF WorkConnected, Quiet, configVars, busVars
<1>2. ASSUME Live' PROVE /\ filters' /\ status' = "online" /\ Prefixed'
                         /\ StatesCurrent' /\ ListCurrent' /\ EntitiesCurrent'
  <2>1. client # NoClient /\ link = "up"
    BY <1>1, <1>2 DEF Live
  <2>2. filters'
    BY <1>1, <2>1, AllArrives
  <2>3. status' = "online"
    BY <1>1, <2>1, AllArrives DEF PublishAll, Arrives
  <2>4. list' = present \cap Gear /\ \A g \in present \cap Gear : states'[g] = level[g]
    BY <1>1, <2>1, ListArrives
  <2>5. /\ haPrefix' = conf.prefix
        /\ haPrefix' # Off => /\ haMask' = Light \cap present
                              /\ \A l \in haMask' : <<haPrefix', l>> \in docs'
    BY <1>1, <2>1, SyncArrives
  <2> QED BY <1>1, <2>2, <2>3, <2>4, <2>5
          DEF Prefixed, StatesCurrent, ListCurrent, EntitiesCurrent, Light
<1> QED BY <1>1, <1>2, ViewParts

LEMMA ResultView ==
  Discovery /\ QueueTypes /\ ViewTypes /\ ViewInv /\ WorkResult => ViewInv'
<1> SUFFICES ASSUME Discovery, QueueTypes, ViewTypes, ViewInv, WorkResult PROVE ViewInv'
  OBVIOUS
<1>1. /\ UNCHANGED <<worker, client, connected, link, session, filters, conf, level, present>>
      /\ PublishGears /\ HaSync /\ Done(<<"result">>) /\ lost' = lost \ {"gear", "result"}
  BY DEF WorkResult, Quiet, configVars, busVars, linkVars
<1>2. ASSUME Live' PROVE /\ filters' /\ status' = "online" /\ Prefixed'
                         /\ StatesCurrent' /\ ListCurrent' /\ EntitiesCurrent'
  <2>1. Live
    <3>1. <<"result">> # <<"connected">>
      OBVIOUS
    <3> QED BY <1>1, <1>2, <3>1, LiveBefore
  <2>2. client # NoClient /\ link = "up" /\ filters'
    BY <1>1, <2>1 DEF Live, ViewInv
  <2>3. status' = "online"
    BY <1>1, <2>1, Arrival DEF ViewInv, PublishGears
  <2>4. list' = present \cap Gear /\ \A g \in present \cap Gear : states'[g] = level[g]
    BY <1>1, <2>2, ListArrives
  <2>5. /\ haPrefix' = conf.prefix
        /\ haPrefix' # Off => /\ haMask' = Light \cap present
                              /\ \A l \in haMask' : <<haPrefix', l>> \in docs'
    BY <1>1, <2>2, SyncArrives
  <2> QED BY <1>1, <2>2, <2>3, <2>4, <2>5
          DEF Prefixed, StatesCurrent, ListCurrent, EntitiesCurrent, Light
<1> QED BY <1>1, <1>2, ViewParts

\* The list or the status again: nothing that was current is undone.
LEMMA AgainView ==
  ASSUME QueueTypes, ViewTypes, ViewInv,
         UNCHANGED <<worker, client, connected, link, session, filters, conf, level, present>>,
         UNCHANGED <<haPrefix, haMask, docs, lost, loop>>,
         NEW messages, NEW got \in Delivered(messages), Arrives(got),
         dirty' = dirty \/ <<"list">> \in messages,
         queue' = queue \/ \E w : Done(w) /\ w \notin Event /\ w # <<"connected">>
  PROVE  ViewInv'
<1>1. (Live' => Live) /\ Carried
  BY LiveBefore, CarriedOn
<1>2. (Stale => Stale') /\ \A g \in Gear : /\ Due(g) => Due(g)'
                                           /\ Awaited(<<"gear", g>>) => Awaited(<<"gear", g>>)' \/ Stale'
  BY <1>1, CarriedDue
<1>3. ASSUME Live' PROVE /\ filters' /\ status' = "online" /\ Prefixed'
                         /\ StatesCurrent' /\ ListCurrent' /\ EntitiesCurrent'
  <2>1. Live /\ filters' /\ status' = "online" /\ Prefixed'
    BY <1>1, <1>3, Arrival DEF ViewInv, Prefixed
  <2>2. StatesCurrent'
    BY <1>2, <2>1, Arrival DEF ViewInv, StatesCurrent
  <2>3. ListCurrent'
    <3>1. CASE dirty' = dirty
      BY <1>2, <2>1, <3>1, Arrival DEF ViewInv, ListCurrent
    <3>2. CASE <<"list">> \in messages
      BY <2>1, <3>2, AllArrives DEF Live, Arrives, ListCurrent
    <3> QED BY <3>1, <3>2
  <2>4. EntitiesCurrent'
    BY <1>2, <2>1 DEF ViewInv, EntitiesCurrent
  <2> QED BY <2>1, <2>2, <2>3, <2>4
<1> QED BY <1>3, ViewParts

LEMMA PublishView == QueueTypes /\ ViewTypes /\ ViewInv /\ (WorkPublish \/ Tick) => ViewInv'
<1> SUFFICES ASSUME QueueTypes, ViewTypes, ViewInv, WorkPublish \/ Tick PROVE ViewInv'
  OBVIOUS
<1>1. /\ UNCHANGED <<worker, client, connected, link, session, filters, conf, level, present>>
      /\ UNCHANGED <<haPrefix, haMask, docs, lost, loop>>
  BY DEF WorkPublish, Tick, Quiet, SameDiscovery, configVars, linkVars, busVars
<1>2. queue' = queue \/ \E w : Done(w) /\ w \notin Event /\ w # <<"connected">>
  <2>1. \A w \in {<<"publish_all">>, <<"disconnected">>} : w \notin Event /\ w # <<"connected">>
    BY DEF Event
  <2>2. \A c : <<"message", c>> \notin Event /\ <<"message", c>> # <<"connected">>
    BY DEF Event
  <2> QED BY <2>1, <2>2 DEF WorkPublish, Routed, Tick
<1>3. CASE SameTopics
  BY <1>1, <1>2, <1>3, ViewIdle DEF SameTopics
<1>4. CASE ~SameTopics
  <2>1. \E messages : \E got \in Delivered(messages) :
          Arrives(got) /\ (dirty' = dirty \/ <<"list">> \in messages)
    BY <1>4 DEF WorkPublish, Tick, StatusTick, ListTick, PublishAll, PublishGears
  <2> QED BY <1>1, <1>2, <2>1, AgainView
<1> QED BY <1>3, <1>4

LEMMA GearArrives ==
  ASSUME ViewTypes, NEW g \in Gear, PublishGear(g)
  PROVE  /\ dirty' = TRUE /\ (status = "online" => status' = "online")
         /\ \A h \in Gear : states[h] = level[h] => states'[h] = level[h]
         /\ client # NoClient /\ link = "up" => states'[g] = level[g]
<1>1. PICK got \in Delivered({<<"state", g>>}) : Arrives(got)
  BY DEF PublishGear
<1>2. client # NoClient /\ link = "up" => states'[g] = level[g]
  BY <1>1, AllArrives DEF Arrives
<1> QED BY <1>1, <1>2, Arrival DEF PublishGear

LEMMA GearView ==
  ASSUME QueueTypes, ViewTypes, ViewInv, NEW g \in Gear, WorkGear(g)
  PROVE  ViewInv'
<1>1. /\ UNCHANGED <<worker, client, connected, link, session, filters, conf, level, present>>
      /\ UNCHANGED <<haPrefix, lost, loop>> /\ PublishGear(g) /\ Done(<<"gear", g>>)
      /\ IF g \notin haMask THEN SyncLight(g) ELSE UNCHANGED <<docs, haMask>>
  BY DEF WorkGear, Quiet, configVars, linkVars, busVars
<1>2. <<"gear", g>> # <<"connected">> /\ <<"result">> # <<"gear", g>>
      /\ \A h \in Gear : h # g => <<"gear", h>> # <<"gear", g>>
  OBVIOUS
<1>3. Live' => Live
  BY <1>1, <1>2, LiveBefore
<1>4. (Stale => Stale') /\ \A h \in Gear : h # g /\ Due(h) => Due(h)'
  BY <1>1, <1>2, TakenOne DEF Stale, Due
<1>5. ASSUME Live' PROVE /\ filters' /\ status' = "online" /\ Prefixed'
                         /\ StatesCurrent' /\ ListCurrent' /\ EntitiesCurrent'
  <2>1. /\ Live /\ client # NoClient /\ link = "up" /\ filters' /\ status' = "online" /\ Prefixed'
        /\ StatesCurrent /\ EntitiesCurrent
    BY <1>1, <1>3, <1>5, GearArrives DEF ViewInv, Live, Prefixed
  <2>2. StatesCurrent'
    BY <1>1, <1>4, <2>1, GearArrives DEF StatesCurrent
  <2>3. ListCurrent'
    BY <1>1, GearArrives DEF ListCurrent
  <2>4. EntitiesCurrent'
    <3> SUFFICES ASSUME haPrefix # Off
                 PROVE  /\ \A h \in present \cap Gear : h \in haMask' \/ Due(h)'
                        /\ \A l \in haMask' : <<haPrefix, l>> \in docs'
      BY <1>1 DEF EntitiesCurrent
    <3>1. CASE g \in haMask
      BY <1>1, <1>4, <2>1, <3>1 DEF EntitiesCurrent
    <3>2. CASE g \notin haMask
      <4>1. /\ haMask' = (haMask \ {g}) \cup ({g} \cap present)
            /\ \A l \in haMask' : <<haPrefix, l>> \in docs'
        BY <1>1, <2>1, <3>2, SyncLightArrives DEF EntitiesCurrent, Light
      <4> QED BY <1>4, <2>1, <4>1 DEF EntitiesCurrent
    <3> QED BY <3>1, <3>2
  <2> QED BY <2>1, <2>2, <2>3, <2>4
<1> QED BY <1>1, <1>5, ViewParts

LEMMA RenameGearView ==
  ASSUME QueueTypes, ViewTypes, ViewInv, NEW g \in Gear, RenameGear(g)
  PROVE  ViewInv'
<1>1. /\ UNCHANGED <<worker, client, connected, link, session, filters, conf, level, present>>
      /\ haPrefix' = haPrefix /\ PublishGear(g) /\ SyncLight(g)
      /\ Done(<<"message", "rename">>) /\ Announce(<<"gear", g>>, "gear")
  BY DEF RenameGear, Routed, Quiet, configVars, linkVars, busVars
<1>2. <<"message", "rename">> \notin Event /\ <<"message", "rename">> # <<"connected">>
  BY DEF Event
<1>3. (Live' => Live) /\ Carried
  <2>1. Carried
    BY <1>1, <1>2, CarriedAnnounced, WorkKinds
  <2>2. lost \cap {"connected"} \subseteq lost'
    BY <1>1 DEF Announce
  <2> QED BY <1>1, <1>2, <2>1, <2>2, LiveBefore
<1>4. (Stale => Stale') /\ \A h \in Gear : Due(h) => Due(h)'
  BY <1>3, CarriedDue
<1>5. ASSUME Live' PROVE /\ filters' /\ status' = "online" /\ Prefixed'
                         /\ StatesCurrent' /\ ListCurrent' /\ EntitiesCurrent'
  <2>1. /\ Live /\ client # NoClient /\ link = "up" /\ filters' /\ status' = "online" /\ Prefixed'
        /\ StatesCurrent /\ EntitiesCurrent
    BY <1>1, <1>3, <1>5, GearArrives DEF ViewInv, Live, Prefixed
  <2>2. StatesCurrent'
    BY <1>1, <1>4, <2>1, GearArrives DEF StatesCurrent
  <2>3. ListCurrent'
    BY <1>1, GearArrives DEF ListCurrent
  <2>4. EntitiesCurrent'
    <3> SUFFICES ASSUME haPrefix # Off
                 PROVE  /\ \A h \in present \cap Gear : h \in haMask' \/ Due(h)'
                        /\ \A l \in haMask' : <<haPrefix, l>> \in docs'
      BY <1>1 DEF EntitiesCurrent
    <3>1. /\ haMask' = (haMask \ {g}) \cup ({g} \cap present)
          /\ \A l \in haMask' : <<haPrefix, l>> \in docs'
      BY <1>1, <2>1, SyncLightArrives DEF EntitiesCurrent, Light
    <3> QED BY <1>4, <2>1, <3>1 DEF EntitiesCurrent
  <2> QED BY <2>1, <2>2, <2>3, <2>4
<1> QED BY <1>1, <1>5, ViewParts

LEMMA RenameView ==
  ASSUME QueueTypes, ViewTypes, ViewInv, NEW k \in Group, Rename(k)
  PROVE  ViewInv'
<1>1. /\ UNCHANGED <<worker, client, connected, link, session, filters, conf, level>>
      /\ UNCHANGED <<haPrefix, lost, loop, status, states, list, dirty>>
      /\ Done(<<"message", "rename">>) /\ present' \in {present \cup {k}, present \ {k}}
  BY DEF Rename, Routed, Quiet, SameTopics, configVars, linkVars
<1>2. <<"message", "rename">> \notin Event /\ <<"message", "rename">> # <<"connected">>
  BY DEF Event
<1>3. (Live' => Live) /\ Carried
  BY <1>1, <1>2, CarriedOn, LiveBefore
<1>4. (Stale => Stale') /\ \A h \in Gear : /\ Due(h) => Due(h)'
                                           /\ Awaited(<<"gear", h>>) => Awaited(<<"gear", h>>)' \/ Stale'
  BY <1>3, CarriedDue
<1>5. present' \cap Gear = present \cap Gear /\ k \notin Gear
  BY <1>1, LightAssumption
<1>6. ASSUME Live' PROVE /\ filters' /\ status' = "online" /\ Prefixed'
                         /\ StatesCurrent' /\ ListCurrent' /\ EntitiesCurrent'
  <2>1. /\ Live /\ client # NoClient /\ link = "up" /\ filters' /\ status' = "online" /\ Prefixed'
        /\ StatesCurrent /\ ListCurrent /\ EntitiesCurrent
    BY <1>1, <1>3, <1>6 DEF ViewInv, Live, Prefixed
  <2>2. StatesCurrent' /\ ListCurrent'
    BY <1>1, <1>4, <1>5, <2>1 DEF StatesCurrent, ListCurrent
  <2>3. EntitiesCurrent'
    <3> SUFFICES ASSUME haPrefix # Off
                 PROVE  /\ \A h \in present' \cap Gear : h \in haMask' \/ Due(h)'
                        /\ \A l \in haMask' : <<haPrefix, l>> \in docs'
      BY <1>1 DEF EntitiesCurrent
    <3>1. PICK was : was = present'
      OBVIOUS
    <3>2. PICK sent : sent = IF k \in was THEN {<<"doc", k>>} ELSE {<<"clear", k>>} \cap ClearAll
      OBVIOUS
    <3>3. docs' = Apply(docs, haPrefix, sent) /\ haMask' = (haMask \ {k}) \cup ({k} \cap was)
      BY <2>1, <3>1, <3>2, AllArrives DEF Rename
    <3>4. /\ k \in was => <<"doc", k>> \in sent
          /\ \A c \in sent : c[1] = "clear" => c[2] = k /\ k \notin was
      BY <3>2
    <3>5. \A l \in haMask' : <<haPrefix, l>> \in docs'
      BY <2>1, <3>3, <3>4, OneArrives DEF EntitiesCurrent
    <3>6. \A h \in present' \cap Gear : h \in haMask' \/ Due(h)'
      BY <1>4, <1>5, <2>1, <3>3 DEF EntitiesCurrent
    <3> QED BY <3>5, <3>6
  <2> QED BY <2>1, <2>2, <2>3
<1> QED BY <1>1, <1>6, ViewParts

\* What the registry tells of itself.
LEMMA RegistryView ==
  ASSUME QueueTypes, ViewTypes, ViewInv, Registry, NEW w \in Event, Announce(w, w[1]),
         \A g \in Gear : \/ level'[g] = level[g] /\ (g \in present' <=> g \in present)
                         \/ w \in {<<"gear", g>>, <<"result">>}
  PROVE  ViewInv'
<1>1. /\ UNCHANGED <<worker, client, connected, link, session, filters, conf, queue>>
      /\ UNCHANGED <<haPrefix, haMask, docs, status, states, list, dirty>>
  BY DEF Registry, World, configVars, linkVars, retained
<1>2. w[1] \in {"gear", "result"} /\ (w = <<"result">> \/ \E g \in Gear : w = <<"gear", g>>)
  BY DEF Event
<1>3. Carried /\ (Awaited(w)' \/ Stale')
  BY <1>1, <1>2, CarriedAnnounced
<1>4. Live' => Live
  <2>1. lost \cap {"connected"} \subseteq lost'
    BY DEF Announce
  <2> QED BY <1>1, <2>1, LiveBefore
<1>5. (Stale => Stale') /\ \A h \in Gear : /\ Due(h) => Due(h)'
                                           /\ Awaited(<<"gear", h>>) => Awaited(<<"gear", h>>)' \/ Stale'
  BY <1>3, CarriedDue
<1>6. \A g \in Gear : w \in {<<"gear", g>>, <<"result">>} => Due(g)'
  BY <1>3 DEF Due, Stale
<1>7. Stale' \/ \E g \in Gear : Awaited(<<"gear", g>>)'
  BY <1>2, <1>3 DEF Stale
<1>8. ASSUME Live' PROVE /\ filters' /\ status' = "online" /\ Prefixed'
                         /\ StatesCurrent' /\ ListCurrent' /\ EntitiesCurrent'
  <2>1. /\ Live /\ filters' /\ status' = "online" /\ Prefixed'
        /\ StatesCurrent /\ EntitiesCurrent
    BY <1>1, <1>4, <1>8 DEF ViewInv, Prefixed
  <2>2. StatesCurrent'
    BY <1>1, <1>5, <1>6, <2>1 DEF StatesCurrent
  <2>3. ListCurrent'
    BY <1>7 DEF ListCurrent
  <2>4. EntitiesCurrent'
    BY <1>1, <1>5, <1>6, <2>1 DEF EntitiesCurrent
  <2> QED BY <2>1, <2>2, <2>3, <2>4
<1> QED BY <1>1, <1>8, ViewParts

LEMMA WorkerViewInv ==
  Discovery /\ Types /\ ConfigInv /\ ViewInv /\ Worker => ViewInv'
<1> SUFFICES ASSUME Discovery, QueueTypes, ClientTypes, ViewTypes, ConfigInv, ViewInv, Worker
             PROVE  ViewInv'
  BY DEF Types
<1>1. CASE WorkStart \/ BeginStop \/ EndStop \/ EndRestart
  BY <1>1, StartView, StopView
<1>2. CASE WorkConnected \/ WorkResult \/ WorkPublish \/ Tick
  BY <1>2, ConnectedView, ResultView, PublishView
<1>3. ASSUME NEW g \in Gear, WorkGear(g) \/ RenameGear(g) PROVE ViewInv'
  BY <1>3, GearView, RenameGearView
<1>4. ASSUME NEW k \in Group, Rename(k) PROVE ViewInv'
  BY <1>4, RenameView
<1>5. CASE SetConfig \/ SaveOwn
  <2>1. /\ UNCHANGED <<worker, client, connected, link, session, filters, loop>>
        /\ UNCHANGED <<level, present, status, states, list, dirty, docs, haPrefix, haMask>>
    BY <1>5 DEF SetConfig, SaveOwn, SameDiscovery, SameTopics, busVars, linkVars
  <2>2. CASE SetConfig
    <3>1. Done(<<"message", "set_config">>) /\ UNCHANGED <<conf, lost>>
      BY <2>2 DEF SetConfig, Routed
    <3>2. <<"message", "set_config">> \notin Event /\ <<"message", "set_config">> # <<"connected">>
      BY DEF Event
    <3> QED BY <2>1, <3>1, <3>2, ViewIdle
  <2>3. CASE SaveOwn
    <3>1. queue' = queue /\ "worker" \in Writer /\ \E next : Saved("worker", next)
      BY <2>3 DEF SaveOwn, Writer
    <3>2. lost \subseteq lost' /\ (conf' = conf \/ client # conf'.rev)
      BY <3>1, SavedTo, RevTypes DEF ConfigInv
    <3> QED BY <2>1, <3>1, <3>2, ViewIdle
  <2> QED BY <1>5, <2>2, <2>3
<1>6. CASE RestartOwn
  <2>1. /\ UNCHANGED <<worker, client, connected, link, session, filters, loop, conf>>
        /\ UNCHANGED <<level, present, status, states, list, dirty, docs, haPrefix, haMask>>
        /\ UNCHANGED <<queue, lost>> \/ (pc \in {"restart", "stop"} /\ PostDecided(pc))
    BY <1>6 DEF RestartOwn, SameDiscovery, SameTopics, busVars, linkVars, configVars
  <2>2. /\ lost \subseteq lost'
        /\ queue' = queue \/ \E w \in Work : queue' = Append(queue, w)
    BY <2>1, WorkKinds DEF PostDecided, Post
  <2> QED BY <2>1, <2>2, ViewIdle
<1> QED BY <1>1, <1>2, <1>3, <1>4, <1>5, <1>6 DEF Worker

LEMMA NextView == Discovery /\ Types /\ ConfigInv /\ ViewInv /\ [Next]_vars => ViewInv'
<1> SUFFICES ASSUME Discovery, Types, ConfigInv, ViewInv, [Next]_vars PROVE ViewInv'
  OBVIOUS
<1>0. QueueTypes /\ ClientTypes /\ ViewTypes /\ queue \in Seq(Work)
  BY DEF Types, QueueTypes
<1>1. CASE Worker
  BY <1>1, WorkerViewInv
<1>2. CASE Reboot \/ Reset \/ Disconnected \/ LinkDies
  <2>1. link' # "up"
    BY <1>2 DEF Reboot, Reset, Reboots, Blank, Disconnected, LinkDies
  <2> QED BY <2>1, ViewKept DEF Linked, Live
<1>3. CASE Connected
  <2>1. /\ link' = "up" /\ session' = "live" /\ connected' = TRUE
        /\ Post(queue, <<"connected">>, "connected", lost)
    BY <1>3 DEF Connected
  <2>2. In(queue', <<"connected">>) \/ "connected" \in lost'
    <3>1. <<"connected">> \in Work
      BY WorkKinds
    <3>2. In(Append(queue, <<"connected">>), <<"connected">>)
      BY <1>0, <3>1, InAppend
    <3> QED BY <2>1, <3>2 DEF Post
  <2> QED BY <2>1, <2>2, ViewKept DEF Linked, Live
<1>4. CASE Will
  <2>1. /\ session = "zombie" /\ link' = link
    BY <1>4 DEF Will
  <2> QED BY <2>1, ViewKept DEF ViewInv, Linked, Live
<1>5. CASE HttpPublishAll \/ \E c \in Commands : Message(c)
  <2>1. /\ UNCHANGED <<worker, client, connected, link, session, filters, loop, conf>>
        /\ UNCHANGED <<level, present, status, states, list, dirty, docs, haPrefix, haMask>>
    BY <1>5 DEF HttpPublishAll, Message, World, configVars, busVars, linkVars, retained
  <2>2. \E k : \E w \in Work : Post(queue, w, k, lost)
    BY <1>5, WorkKinds DEF HttpPublishAll, Message
  <2>3. lost \subseteq lost' /\ (queue' = queue \/ \E w \in Work : queue' = Append(queue, w))
    BY <2>2 DEF Post
  <2> QED BY <1>0, <2>1, <2>3, ViewIdle
<1>6. CASE DeliverEvent
  <2>1. /\ UNCHANGED <<worker, client, connected, link, session, filters, conf>>
        /\ UNCHANGED <<level, present, status, states, list, dirty, docs, haPrefix, haMask>>
        /\ loop # <<>> /\ loop' = Tail(loop) /\ loop \in Seq(Event)
    BY <1>0, <1>6 DEF DeliverEvent, World, configVars, busVars, linkVars, retained, QueueTypes
  <2>2. Head(loop) \in Event /\ Head(loop) \in Work /\ Head(loop)[1] \in {"gear", "result"}
    <3>1. Head(loop) \in Event
      BY <2>1
    <3> QED BY <3>1, Events DEF Event
  <2>3. /\ lost \subseteq lost'
        /\ queue' = queue \/ queue' = Append(queue, Head(loop))
    BY <1>6 DEF DeliverEvent, Post
  <2>4. Live' => Live
    BY <1>0, <2>1, <2>2, <2>3, LiveBefore
  <2>5. ASSUME Live' PROVE Carried
    <3>1. connected
      BY <2>1, <2>5 DEF ViewInv, Linked, Live
    <3>2. queue' = Append(queue, Head(loop)) \/ Head(loop)[1] \in lost'
      BY <1>6, <3>1 DEF DeliverEvent, Post
    <3>3. \A x : In(loop, x) => In(loop', x) \/ x = Head(loop)
      BY <2>1, InTail
    <3>4. \A x : In(Append(queue, Head(loop)), x) <=> In(queue, x) \/ x = Head(loop)
      BY <1>0, <2>2, InAppend
    <3>5. /\ \A x : In(queue, x) => In(queue', x)
          /\ In(queue', Head(loop)) \/ Head(loop)[1] \in lost'
      BY <2>3, <3>2, <3>4
    <3> QED BY <2>2, <2>3, <3>3, <3>4, <3>5 DEF Carried, Awaited, Stale
  <2>6. Linked'
    BY <2>1 DEF ViewInv, Linked
  <2> QED BY <2>1, <2>4, <2>5, <2>6, ViewKept
<1>7. CASE HttpSave \/ HttpAdopt
  <2>1. /\ UNCHANGED <<worker, client, connected, link, session, filters, loop, queue>>
        /\ UNCHANGED <<level, present, status, states, list, dirty, docs, haPrefix, haMask>>
    BY <1>7 DEF HttpSave, HttpAdopt, World, busVars, linkVars, retained
  <2>2. lost \subseteq lost' /\ (conf' = conf \/ client # conf'.rev)
    <3>1. CASE HttpSave
      BY <3>1 DEF HttpSave
    <3>2. CASE HttpAdopt
      <4>1. "http" \in Writer /\ \E next : Saved("http", next)
        BY <3>2 DEF HttpAdopt, Writer
      <4> QED BY <1>0, <4>1, SavedTo, RevTypes DEF ConfigInv
    <3> QED BY <1>7, <3>1, <3>2
  <2> QED BY <1>0, <2>1, <2>2, ViewIdle
<1>8. CASE HttpRestart
  <2>1. /\ UNCHANGED <<client, connected, link, session, filters, loop, conf>>
        /\ UNCHANGED <<level, present, status, states, list, dirty, docs, haPrefix, haMask>>
    BY <1>8 DEF HttpRestart, busVars, linkVars, retained
  <2>2. CASE http = "saved" /\ setup = "none"
    <3>1. client' = NoClient
      BY <1>0, <2>1, <2>2 DEF ConfigInv, ClientTypes, WorkerTypes
    <3> QED BY <2>1, <3>1, ViewKept DEF ViewInv, Linked, Live
  <2>3. CASE ~(http = "saved" /\ setup = "none")
    <3>1. /\ worker' = worker /\ lost \subseteq lost'
          /\ queue' = queue \/ \E w \in Work : queue' = Append(queue, w)
      BY <1>8, <2>3, WorkKinds DEF HttpRestart, PostDecided, Post
    <3> QED BY <1>0, <2>1, <3>1, ViewIdle
  <2> QED BY <2>2, <2>3
<1>9. ASSUME NEW g \in Gear, GearChanges(g) PROVE ViewInv'
  <2>1. Registry /\ Announce(<<"gear", g>>, "gear") /\ <<"gear", g>> \in Event /\ <<"gear", g>>[1] = "gear"
    BY <1>9, WorkKinds DEF GearChanges
  <2>2. \A h : h # g => (h \in present <=> h \in present')
    BY <1>9 DEF GearChanges
  <2>3. \A h \in Gear : level'[h] # level[h] => h = g
    BY <1>0, <1>9 DEF GearChanges, ViewTypes
  <2> QED BY <1>0, <2>1, <2>2, <2>3, RegistryView
<1>10. ASSUME NEW S \in SUBSET Gear, ScanEnds(S) PROVE ViewInv'
  <2>1. Registry /\ Announce(<<"result">>, "result") /\ <<"result">> \in Event /\ <<"result">>[1] = "result"
    BY <1>10, WorkKinds DEF ScanEnds
  <2> QED BY <1>0, <2>1, RegistryView
<1>11. ASSUME NEW k \in Group, GroupListed(k) PROVE ViewInv'
  <2>1. /\ UNCHANGED <<worker, client, connected, link, session, filters, loop, lost, queue, conf>>
        /\ UNCHANGED <<level, status, states, list, dirty, docs, haPrefix, haMask>>
        /\ present' \in {present \cup {k}, present \ {k}}
    BY <1>11 DEF GroupListed, Registry, World, configVars, linkVars, retained
  <2>2. present' \cap Gear = present \cap Gear
    BY <2>1, LightAssumption
  <2>3. (Live' <=> Live) /\ \A x : Awaited(x)' <=> Awaited(x)
    BY <2>1 DEF Live, Awaited
  <2> QED BY <2>1, <2>2, <2>3
          DEF ViewInv, Linked, Prefixed, StatesCurrent, ListCurrent, EntitiesCurrent, Due, Stale
<1>12. CASE UNCHANGED vars
  BY <1>0, <1>12, ViewIdle DEF vars, configVars, workerVars, busVars, linkVars, retained
<1> QED BY <1>1, <1>2, <1>3, <1>4, <1>5, <1>6, <1>7, <1>8, <1>9, <1>10, <1>11, <1>12 DEF Next

LEMMA ViewAlways == Spec => []ViewInv
<1>1. Init => ViewInv
  BY DEF Init, ViewInv, Linked, Live
<1> QED BY <1>1, NextView, ConfigAlways, TypesAlways, PTL DEF Spec

-----------------------------------------------------------------------------
(* The theorems. *)

\* Every variable of the adapter keeps its type: the work queue and the event loop never
\* hold more than they are deep, and the masks name lights only.
THEOREM TypeCorrect == Spec => []TypeOK
<1>1. Discovery /\ Types => TypeOK
  <2> SUFFICES ASSUME Discovery, Types PROVE TypeOK
    OBVIOUS
  <2>1. loop \in Seq(Work)
    BY Events DEF Types, QueueTypes
  <2> QED BY <2>1
          DEF Discovery, Drafts, Types, QueueTypes, ClientTypes, WorkerTypes, ViewTypes, TypeOK, LostKinds
<1> QED BY <1>1, TypesAlways, PTL

\* A gateway that merely rebooted drops none of its Home Assistant entities: a document goes
\* only for a light the registry lost since, after a scan, or with its prefix (ha_sync).
THEOREM EntitiesSurvive == Spec => KeepsEntities
<1>1. Discovery /\ [Next]_vars => [\A d \in docs \ docs' : scanned \/ d[2] \in haMask]_vars
  BY NextStep DEF Careful
<1> QED BY <1>1, DiscoveryAlways, PTL DEF Spec, KeepsEntities

\* Once the gateway has looked at the broker's copy every document there is under the prefix
\* in force, and after the blind pass the masks account for it, unless a removal was lost or
\* a prefix was given up before the pass (ha_sync, ha_sync_gear, ha_sync_group).
THEOREM MasksAccount == Spec => []NoOrphan
<1>1. Discovery /\ NoOrphan /\ [Next]_vars => NoOrphan'
  BY NextStep DEF Careful
<1> QED BY <1>1, InitDiscovery, DiscoveryAlways, PTL DEF Spec

\* Whoever changed the configuration, from whichever task and however many saves and
\* restarts are on their way at once, finds the client on it when the work is done, unless
\* a start failed, a restart was dropped or overtaken, or two saves crossed between the
\* comparison and the adoption (app_config_set, mqtt_iface_restart, client_start, client_stop).
THEOREM ConfigReached == Spec => []ConfigAdopted
<1>1. QueueTypes /\ ConfigInv => ConfigAdopted
  <2> SUFFICES ASSUME QueueTypes, ConfigInv, Idle,
                      lost \cap {"start", "restart", "overtaken", "crossed"} = {}
               PROVE  client = IF conf.on THEN conf.rev ELSE NoClient
    BY DEF ConfigAdopted
  <2>1. Heeded /\ worker /\ NoOrder(queue) /\ pc = "idle"
    BY DEF Idle, Heeded, NoOrder
  <2> QED BY <2>1 DEF ConfigInv, Adopting
<1> QED BY <1>1, ConfigAlways, TypesAlways, PTL DEF Types

\* With the work done and nothing dropped, what is retained at the broker is the registry:
\* levels, list, entities and prefix, whatever order events, reconnections and new
\* configurations came in (on_connected, gw_event_handler, ha_sync).
THEOREM CopyCurrent == Spec => []RetainedIsCurrent
<1>1. QueueTypes /\ ConfigInv /\ ViewInv /\ ConfigAdopted => RetainedIsCurrent
  <2> SUFFICES ASSUME QueueTypes, ConfigInv, ViewInv, ConfigAdopted, Settled, lost = {}
               PROVE  /\ filters /\ status = "online"
                      /\ \A g \in present \cap Gear : states[g] = level[g]
                      /\ list = present \cap Gear \/ dirty
                      /\ haPrefix = conf.prefix
                      /\ haPrefix # Off => /\ present \cap Gear \subseteq haMask
                                           /\ \A l \in haMask : <<haPrefix, l>> \in docs
    BY DEF RetainedIsCurrent
  <2>1. queue = <<>> /\ loop = <<>> /\ client # NoClient /\ link = "up" /\ worker
    BY DEF Settled, Idle
  <2>2. \A w : ~In(queue, w) /\ ~In(loop, w)
    BY <2>1 DEF In
  <2>3. Live /\ ~Stale /\ \A g : ~Due(g) /\ ~Awaited(<<"gear", g>>)
    BY <2>1, <2>2 DEF Live, Stale, Due, Awaited
  <2>4. client = conf.rev
    BY <2>1 DEF ConfigAdopted, Settled
  <2> QED BY <2>3, <2>4
          DEF ViewInv, Prefixed, StatesCurrent, ListCurrent, EntitiesCurrent
<1> QED BY <1>1, ConfigAlways, ViewAlways, ConfigReached, TypesAlways, PTL DEF Types
=============================================================================
