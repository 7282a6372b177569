--------------------------- MODULE RegistryProofs ---------------------------
(***************************************************************************)
(* Theorems about Registry, for any gears, size of the registry and number *)
(* of blinks: the scan, re-addressing and the identify blink keep what     *)
(* they promise when commands are served between their steps, which leave  *)
(* an operation less and less to do.                                       *)
(***************************************************************************)
EXTENDS Registry, FiniteSetTheorems, WellFoundedInduction, TLAPS

-----------------------------------------------------------------------------
(* Replies. *)

LEMMA Names ==
  /\ NoAddr \notin Address /\ Group \notin Address /\ Broadcast \notin Address /\ Unknown \notin Level /\ Silence \notin Level /\ Clash \notin Level
  /\ Silence \notin BOOLEAN /\ Clash \notin BOOLEAN
  BY NamesAssumption

LEMMA HeardFrom ==
  ASSUME NEW S, NEW v, NEW reply \in Heard(S, v)
  PROVE  Valid(reply) => \E g \in S : reply = v[g]
  BY DEF Heard, Valid

LEMMA HeardLevel ==
  ASSUME NEW S \in SUBSET Gear, level \in [Gear -> Level], NEW reply \in Heard(S, level), Valid(reply)
  PROVE  reply \in Level
  BY HeardFrom

\* A device alone at its address is heard, and nobody when there is none.
LEMMA HeardAlone ==
  ASSUME NEW S \in SUBSET Gear, \A g, h \in S : g = h, NEW reply \in Heard(S, Yes)
  PROVE  Valid(reply) <=> S # {}
<1>1. CASE S = {}
  BY <1>1 DEF Heard, Valid
<1>2. CASE S # {}
  <2>1. PICK g \in S : S = {g}
    BY <1>2
  <2>2. Cardinality(S) = 1
    BY <2>1, FS_Singleton
  <2>3. reply = TRUE
    BY <1>2, <2>1, <2>2 DEF Heard, Yes
  <2>4. TRUE # Silence /\ TRUE # Clash
    BY Names
  <2> QED BY <1>2, <2>3, <2>4 DEF Valid
<1> QED BY <1>1, <1>2

-----------------------------------------------------------------------------
(* Types. *)

\* The cursor counts gears or frames, according to what runs.
Types ==
  /\ TypeOK
  /\ op \in {"scan", "poll_all"} => cursor <= MaxGears
  /\ op = "identify" => cursor <= BlinkFrames

LEMMA Numbers ==
  ASSUME Types
  PROVE  MaxGears \in Nat /\ MaxGears > 0 /\ BlinkFrames \in Nat /\ MaxTypes \in Nat /\ cursor \in Nat
         /\ types \in [Address -> 0..MaxTypes]
  BY SizesAssumption DEF Types, TypeOK

LEMMA PolledIs ==
  ASSUME Types, op = "poll_all"
  PROVE  Polled \in cursor..MaxGears
<1> DEFINE S == {a \in cursor..MaxGears : a = MaxGears \/ present[a]}
<1>1. cursor \in Nat /\ MaxGears \in Nat /\ cursor <= MaxGears
  BY Numbers DEF Types
<1>2. MaxGears \in S /\ S \subseteq Nat
  BY <1>1
<1> HIDE DEF S
<1>3. \E x \in S : \A y \in S : ~ (<<y, x>> \in OpToRel(<, Nat))
  BY <1>2, NatLessThanWellFounded, WFMin
<1> DEFINE R == OpToRel(<, Nat)
<1>6. \A x, y \in Nat : y < x => <<y, x>> \in R
  BY ZenonT(30) DEF OpToRel
<1> HIDE DEF R
<1>7. \E x \in S : \A y \in S : ~ (<<y, x>> \in R)
  BY <1>3 DEF R
<1>4. \E x \in S : \A y \in S : x =< y
  <2>1. PICK x \in S : \A y \in S : ~ (<<y, x>> \in R)
    BY <1>7
  <2>2. ASSUME NEW y \in S PROVE x =< y
    <3>1. x \in Nat /\ y \in Nat
      BY <1>2
    <3>2. ~ (y < x)
      BY <1>6, <2>1, <3>1, Zenon
    <3> QED BY <3>1, <3>2
  <2> QED BY <2>2
<1>5. Min(S) \in S
  BY <1>4 DEF Min
<1> QED BY <1>5 DEF Polled, S

LEMMA CacheTypes ==
  ASSUME TypeOK, NEW a, NEW reply, CacheLevel(a, reply), Valid(reply) => reply \in Level
  PROVE  cache' \in [Address -> Level \cup {Unknown}]
  BY DEF TypeOK, CacheLevel

LEMMA RestoredTypes ==
  ASSUME TypeOK, NEW t
  PROVE  RestoredLevel(t) \in Level
  BY DEF TypeOK, RestoredLevel, Level, MaxLevel

LEMMA DriveTypes ==
  ASSUME TypeOK, NEW S, NEW l \in Level, Drive(S, l)
  PROVE  level' \in [Gear -> Level]
  BY DEF TypeOK, Drive

LEMMA OrderTypes ==
  ASSUME TypeOK, NEW S, NEW l \in Level, Order(S, l)
  PROVE  level' \in [Gear -> Level] /\ wanted' \in [Gear -> Level \cup {Unknown}]
  BY DriveTypes DEF TypeOK, Order

LEMMA InitTypes == Init => Types
<1> SUFFICES ASSUME Init PROVE Types
  OBVIOUS
<1>1. cursor = 0 /\ 0 \in Address /\ 0 \in 0..(MaxGears + BlinkFrames) /\ 0 \in 0..MaxTypes
      /\ MaxGears \in Nat /\ BlinkFrames \in Nat
  BY SizesAssumption DEF Init, Address
<1>2. short \in [Gear -> Address \cup {NoAddr}] /\ level \in [Gear -> Level] /\ alive \subseteq Gear
  BY DEF Init, Level, MaxLevel
<1>3. powered \in BOOLEAN /\ present \in [Address -> BOOLEAN] /\ dali2 \in [Address -> BOOLEAN]
      /\ types \in [Address -> 0..MaxTypes]
  BY FlagAssumption, <1>1 DEF Init
<1>4. cache \in [Address -> Level \cup {Unknown}]
  <2>1. \A g \in Gear : level[g] \in Level
    BY <1>2
  <2>2. ASSUME NEW a \in Address, present[a] PROVE level[CHOOSE g \in At(a) : TRUE] \in Level
    <3>1. Cardinality(At(a)) = 1
      BY <2>2 DEF Init
    <3>2. At(a) # {}
      BY <3>1, FS_EmptySet
    <3>3. At(a) \subseteq Gear
      BY <1>2 DEF At
    <3> QED BY <2>1, <3>2, <3>3
  <2> QED BY <2>2 DEF Init
<1>5. wanted \in [Gear -> Level \cup {Unknown}] /\ excused \subseteq Gear /\ target \in Target
  BY <1>1 DEF Init, Target
<1> QED BY <1>1, <1>2, <1>3, <1>4, <1>5 DEF Init, Types, TypeOK, Substep

\* The three parts of the state, typed one by one.
GearTypes == short \in [Gear -> Address \cup {NoAddr}] /\ level \in [Gear -> Level] /\ alive \subseteq Gear
RegistryTypes ==
  /\ present \in [Address -> BOOLEAN] /\ cache \in [Address -> Level \cup {Unknown}]
  /\ dali2 \in [Address -> BOOLEAN] /\ types \in [Address -> 0..MaxTypes] /\ powered \in BOOLEAN
HistoryTypes ==
  wanted \in [Gear -> Level \cup {Unknown}] /\ excused \subseteq Gear /\ strays \in BOOLEAN
OpTypes ==
  /\ op \in Operation \cup {"none"} /\ cursor \in 0..(MaxGears + BlinkFrames)
  /\ substep \in Substep /\ target \in Target /\ cancel \in BOOLEAN
  /\ op \in {"scan", "poll_all"} => cursor <= MaxGears
  /\ op = "identify" => cursor <= BlinkFrames

LEMMA Parts == Types <=> GearTypes /\ RegistryTypes /\ HistoryTypes /\ OpTypes
  BY DEF Types, TypeOK, GearTypes, RegistryTypes, HistoryTypes, OpTypes

LEMMA Joined == GearTypes' /\ RegistryTypes' /\ HistoryTypes' /\ OpTypes' => Types'
  BY DEF Types, TypeOK, GearTypes, RegistryTypes, HistoryTypes, OpTypes

LEMMA SameGears == GearTypes /\ UNCHANGED gearVars => GearTypes'
  BY DEF GearTypes, gearVars
LEMMA SameRegistry == RegistryTypes /\ UNCHANGED registryVars => RegistryTypes'
  BY DEF RegistryTypes, registryVars
LEMMA SameHistory == HistoryTypes /\ UNCHANGED historyVars => HistoryTypes'
  BY DEF HistoryTypes, historyVars
LEMMA SameOp == OpTypes /\ UNCHANGED opVars => OpTypes'
  BY DEF OpTypes, opVars

LEMMA ReachedGears ==
  ASSUME TypeOK, NEW t
  PROVE  Reached(t) \subseteq Gear
  BY GearAssumption DEF TypeOK, Reached, At

LEMMA ExcuseTypes ==
  ASSUME TypeOK, NEW S, Excuse(S)
  PROVE  excused' \subseteq Gear
  BY ReachedGears DEF TypeOK, Excuse

LEMMA ShortTypes == Types /\ ShortCommand => Types'
<1> SUFFICES ASSUME Types, ShortCommand PROVE Types'
  OBVIOUS
<1>0. TypeOK /\ GearTypes /\ RegistryTypes /\ HistoryTypes /\ OpTypes
  BY Parts DEF Types
<1>1. ASSUME NEW a \in Address, NEW l \in Level, SetLevel(a, l) PROVE Types'
  <2>1. GearTypes' /\ HistoryTypes'
    BY <1>0, <1>1, OrderTypes DEF SetLevel, GearTypes, HistoryTypes
  <2>2. cache' \in [Address -> Level \cup {Unknown}]
    BY <1>0, <1>1, CacheTypes DEF SetLevel
  <2> QED BY <1>0, <1>1, <2>1, <2>2, SameOp, Joined DEF SetLevel, RegistryTypes
<1>2. ASSUME NEW a \in Address, On(a) PROVE Types'
  <2>1. PICK l \in Level : Order(At(a), l)
    BY <1>2 DEF On, Level, MaxLevel
  <2>2. GearTypes' /\ HistoryTypes'
    BY <1>0, <1>2, <2>1, OrderTypes, ExcuseTypes DEF On, GearTypes, HistoryTypes
  <2> QED BY <1>0, <1>2, <2>2, SameOp, SameRegistry, Joined DEF On
<1>3. ASSUME NEW a \in Address, QueryLevel(a) PROVE Types'
  <2>1. PICK reply \in Heard(At(a), level) : NoteReply(reply) /\ CacheLevel(a, reply)
    BY <1>3 DEF QueryLevel
  <2>2. At(a) \in SUBSET Gear
    BY <1>0 DEF At, GearTypes
  <2>3. cache' \in [Address -> Level \cup {Unknown}]
    BY <1>0, <2>1, <2>2, CacheTypes, HeardLevel DEF GearTypes
  <2>4. powered' \in BOOLEAN
    BY <2>1 DEF NoteReply
  <2>5. HistoryTypes'
    BY <1>0, <1>3, ExcuseTypes DEF QueryLevel, HistoryTypes
  <2> QED BY <1>0, <1>3, <2>3, <2>4, <2>5, SameOp, SameGears, Joined DEF QueryLevel, RegistryTypes
<1>4. ASSUME NEW a \in Address, RemoveShortAddress(a) PROVE Types'
  <2>1. GearTypes'
    BY <1>0, <1>4 DEF RemoveShortAddress, GearTypes
  <2>2. HistoryTypes'
    BY <1>0, <1>4 DEF RemoveShortAddress, NoPromise, HistoryTypes
  <2>3. RegistryTypes'
    BY <1>0, <1>4 DEF RemoveShortAddress, Forget, RegistryTypes
  <2> QED BY <1>0, <1>4, <2>1, <2>2, <2>3, SameOp, Joined DEF RemoveShortAddress
<1>5. ASSUME NEW S \in SUBSET alive, NEW l \in Level, LevelToGroup(S, l) PROVE Types'
  <2>1. GearTypes' /\ HistoryTypes'
    BY <1>0, <1>5, OrderTypes, ExcuseTypes DEF LevelToGroup, GearTypes, HistoryTypes
  <2> QED BY <1>0, <1>5, <2>1, SameOp, SameRegistry, Joined DEF LevelToGroup
<1>6. ASSUME NEW a \in Address, NEW b \in Address, SetShortAddress(a, b) PROVE Types'
  <2>1. short' \in [Gear -> Address \cup {NoAddr}] /\ strays' \in BOOLEAN
    BY <1>0, <1>6 DEF SetShortAddress, GearTypes, HistoryTypes, RegistryTypes
  <2>2. MoveEntry(a, b) \/ UNCHANGED <<present, cache, dali2, types>>
    BY <1>6 DEF SetShortAddress
  <2>3. /\ present' \in [Address -> BOOLEAN] /\ cache' \in [Address -> Level \cup {Unknown}]
        /\ dali2' \in [Address -> BOOLEAN] /\ types' \in [Address -> 0..MaxTypes]
    <3>1. 0 \in 0..MaxTypes
      BY Numbers
    <3> QED BY <1>0, <2>2, <3>1 DEF MoveEntry, RegistryTypes
  <2>4. wanted' \in [Gear -> Level \cup {Unknown}] /\ UNCHANGED <<level, alive, powered, opVars, excused>>
    BY <1>0, <1>6 DEF SetShortAddress, NoPromise, HistoryTypes
  <2> QED BY <1>0, <2>1, <2>3, <2>4, SameOp, Joined DEF GearTypes, RegistryTypes, HistoryTypes
<1>7. CASE BusCheck
  <2>1. powered' \in BOOLEAN
    BY <1>7 DEF BusCheck
  <2> QED BY <1>0, <1>7, <2>1, SameOp, SameGears, SameHistory, Joined DEF BusCheck, RegistryTypes
<1> QED BY <1>1, <1>2, <1>3, <1>4, <1>5, <1>6, <1>7 DEF ShortCommand

LEMMA BeginTypes ==
  ASSUME Types, NEW kind, NEW t \in Target, Begin(kind, t)
  PROVE  Types'
<1>0. GearTypes /\ RegistryTypes /\ HistoryTypes /\ OpTypes
  BY Parts
<1>a. TypeOK
  BY DEF Types
<1>1. kind \in Operation
  BY ChoiceAssumption DEF Begin
<1>2. OpTypes'
  <2>1. /\ op' = kind /\ target' = t /\ cursor' = 0 /\ substep' = "present" /\ cancel' = FALSE
    BY DEF Begin
  <2>2. 0 \in 0..(MaxGears + BlinkFrames) /\ 0 <= MaxGears /\ 0 <= BlinkFrames
    BY Numbers
  <2> QED BY <1>1, <2>1, <2>2 DEF OpTypes, Substep
<1>3. HistoryTypes'
  <2>1. wanted' \in [Gear -> Level \cup {Unknown}]
    BY <1>0 DEF Begin, HistoryTypes, GearTypes
  <2>2. UNCHANGED strays
    BY DEF Begin
  <2>3. excused' \subseteq Gear
    BY <1>0, <1>a, ReachedGears DEF Begin, HistoryTypes
  <2> QED BY <1>0, <2>1, <2>2, <2>3 DEF HistoryTypes
<1>4. UNCHANGED gearVars /\ UNCHANGED registryVars
  BY DEF Begin
<1> QED BY <1>0, <1>2, <1>3, <1>4, SameGears, SameRegistry, Joined

LEMMA ScanTypes ==
  ASSUME Types, ScanPresent \/ ScanStatus \/ ScanLevel \/ ScanType \/ ScanNextType \/ ScanVersion
  PROVE  Types'
<1>0. TypeOK /\ GearTypes /\ RegistryTypes /\ HistoryTypes /\ OpTypes
  BY Parts DEF Types
<1>1. /\ op = "scan" /\ cursor < MaxGears /\ UNCHANGED <<gearVars, op, target, cancel, historyVars>>
  BY DEF ScanPresent, ScanStatus, ScanLevel, ScanType, ScanNextType, ScanVersion, Scanning, ScanKeeps
<1>2. GearTypes' /\ HistoryTypes'
  BY <1>0, <1>1, SameGears, SameHistory
<1>3. /\ cursor' \in {cursor, cursor + 1} /\ substep' \in Substep
  BY <1>0 DEF ScanPresent, ScanStatus, ScanLevel, ScanType, ScanNextType, ScanVersion, NextGear, Substep,
              OpTypes
<1>4. types' \in [Address -> 0..MaxTypes]
  <2>1. CASE ScanType
    <3>1. PICK n \in {0, 1} : types' = [types EXCEPT ![cursor] = n]
      BY <2>1 DEF ScanType
    <3>2. n \in 0..MaxTypes
      BY SizesAssumption
    <3> QED BY <1>0, <3>1, <3>2 DEF RegistryTypes
  <2>2. CASE MoreTypes
    <3>1. cursor \in Address
      BY <1>1, Numbers DEF Address
    <3>2. types[cursor] + 1 \in 0..MaxTypes
      BY <2>2, <3>1, Numbers DEF MoreTypes
    <3> QED BY <1>0, <2>2, <3>2 DEF MoreTypes, RegistryTypes
  <2>3. CASE types' = types
    BY <1>0, <2>3 DEF RegistryTypes
  <2> QED BY <2>1, <2>2, <2>3 DEF ScanPresent, ScanStatus, ScanLevel, ScanNextType, ScanVersion,
                                  registryVars
<1>5. cursor' \in 0..(MaxGears + BlinkFrames) /\ cursor' <= MaxGears
  BY <1>1, <1>3, Numbers
<1>6. OpTypes'
  BY <1>0, <1>1, <1>3, <1>5 DEF OpTypes
<1>7. RegistryTypes'
  <2>1. CASE ScanPresent
    <3>1. PICK reply : NoteReply(reply) /\ present' = [present EXCEPT ![cursor] = Valid(reply)]
      BY <2>1 DEF ScanPresent
    <3>2. powered' \in BOOLEAN /\ present' \in [Address -> BOOLEAN]
      BY <1>0, <3>1 DEF NoteReply, RegistryTypes, Valid
    <3> QED BY <1>0, <1>4, <2>1, <3>2 DEF ScanPresent, RegistryTypes
  <2>2. CASE ScanLevel
    <3>1. PICK reply \in Heard(At(cursor), level) : CacheLevel(cursor, reply)
      BY <2>2 DEF ScanLevel
    <3>2. At(cursor) \in SUBSET Gear
      BY <1>0 DEF At, GearTypes
    <3>3. cache' \in [Address -> Level \cup {Unknown}]
      BY <1>0, <3>1, <3>2, CacheTypes, HeardLevel DEF GearTypes
    <3> QED BY <1>0, <1>4, <2>2, <3>3 DEF ScanLevel, RegistryTypes
  <2>3. CASE ScanVersion
    <3> DEFINE two == [g \in Gear |-> g \in Dali2]
    <3>1. PICK reply \in Heard(At(cursor), two) :
            dali2' = IF Valid(reply) THEN [dali2 EXCEPT ![cursor] = reply] ELSE dali2
      BY <2>3 DEF ScanVersion
    <3>2. Valid(reply) => reply \in BOOLEAN
      <4>0. At(cursor) \subseteq Gear
        BY <1>0 DEF At, GearTypes
      <4>5. two \in [Gear -> BOOLEAN]
        OBVIOUS
      <4>1. \A g \in At(cursor) : two[g] \in BOOLEAN
        BY <4>0, <4>5
      <4> HIDE DEF two
      <4>2. Valid(reply) => \E g \in At(cursor) : reply = two[g]
        BY HeardFrom
      <4> QED BY <4>1, <4>2
    <3>3. dali2' \in [Address -> BOOLEAN]
      BY <1>0, <3>1, <3>2 DEF RegistryTypes
    <3> QED BY <1>0, <1>4, <2>3, <3>3 DEF ScanVersion, RegistryTypes
  <2>4. CASE ScanStatus \/ ScanType \/ ScanNextType
    BY <1>0, <1>4, <2>4, SameRegistry DEF ScanStatus, ScanType, ScanNextType, RegistryTypes
  <2> QED BY <2>1, <2>2, <2>3, <2>4
<1> QED BY <1>2, <1>6, <1>7, Joined

LEMMA EndTypes ==
  ASSUME OpTypes, Finish
  PROVE  OpTypes'
<1>1. 0 \in Target /\ 0 \in 0..(MaxGears + BlinkFrames) /\ 0 <= MaxGears /\ 0 <= BlinkFrames
  BY SizesAssumption DEF Target, Address
<1>2. "present" \in Substep
  BY DEF Substep
<1> QED BY <1>1, <1>2 DEF OpTypes, Finish

LEMMA LongTypes == Types /\ LongStep => Types'
<1> SUFFICES ASSUME Types, LongStep PROVE Types'
  OBVIOUS
<1>0. TypeOK /\ GearTypes /\ RegistryTypes /\ HistoryTypes /\ OpTypes
  BY Parts DEF Types
<1>1. CASE ScanEnd \/ PollEnd
  BY <1>0, <1>1, EndTypes, SameGears, SameRegistry, SameHistory, Joined DEF ScanEnd, PollEnd
<1>2. CASE PollLevel
  <2>1. PICK reply \in Heard(At(Polled), level) : CacheLevel(Polled, reply)
    BY <1>2 DEF PollLevel
  <2>2. At(Polled) \in SUBSET Gear
    BY <1>0 DEF At, GearTypes
  <2>3. cache' \in [Address -> Level \cup {Unknown}]
    BY <1>0, <2>1, <2>2, CacheTypes, HeardLevel DEF GearTypes
  <2>4. /\ op = "poll_all" /\ cursor' = Polled /\ substep' = "status"
        /\ UNCHANGED <<op, target, cancel>>
    BY <1>2 DEF PollLevel
  <2>5. cursor' \in 0..(MaxGears + BlinkFrames) /\ cursor' <= MaxGears
    BY <2>4, PolledIs, Numbers
  <2>6. OpTypes'
    BY <1>0, <2>4, <2>5 DEF OpTypes, Substep
  <2>7. RegistryTypes'
    BY <1>0, <1>2, <2>3 DEF PollLevel, RegistryTypes
  <2> QED BY <1>0, <1>2, <2>6, <2>7, SameGears, SameHistory, Joined DEF PollLevel
<1>3. CASE PollStatus
  <2>1. /\ op = "poll_all" /\ cursor' = Polled + 1 /\ Polled < MaxGears /\ substep' = "present"
        /\ UNCHANGED <<op, target, cancel>>
    BY <1>3 DEF PollStatus, PollNext
  <2>2. cursor' \in 0..(MaxGears + BlinkFrames) /\ cursor' <= MaxGears
    BY <2>1, PolledIs, Numbers
  <2>3. OpTypes'
    BY <1>0, <2>1, <2>2 DEF OpTypes, Substep
  <2> QED BY <1>0, <1>3, <2>3, SameGears, SameRegistry, SameHistory, Joined DEF PollStatus
<1>4. CASE Blink
  <2>1. GearTypes'
    BY <1>0, <1>4, DriveTypes DEF Blink, GearTypes, Level, MaxLevel, MinLevel
  <2>2. /\ op = "identify" /\ cursor' = cursor + 1 /\ cursor < BlinkFrames
        /\ UNCHANGED <<op, substep, target, cancel>>
    BY <1>4 DEF Blink
  <2>3. cursor' \in 0..(MaxGears + BlinkFrames) /\ cursor' <= BlinkFrames
    BY <2>2, Numbers
  <2>4. OpTypes'
    BY <1>0, <2>2, <2>3 DEF OpTypes
  <2> QED BY <1>0, <1>4, <2>1, <2>4, SameRegistry, SameHistory, Joined DEF Blink
<1>5. CASE BlinkEnd
  <2>1. RestoredLevel(target) \in Level
    BY <1>0, RestoredTypes DEF OpTypes
  <2>2. GearTypes'
    BY <1>0, <1>5, <2>1, DriveTypes DEF BlinkEnd, GearTypes
  <2>3. HistoryTypes'
    BY <1>0, <1>5 DEF BlinkEnd, HistoryTypes
  <2> QED BY <1>0, <1>5, <2>2, <2>3, EndTypes, SameRegistry, Joined DEF BlinkEnd
<1>6. CASE ScanPresent \/ ScanStatus \/ ScanLevel \/ ScanType \/ ScanNextType \/ ScanVersion
  BY <1>6, ScanTypes
<1> QED BY <1>1, <1>2, <1>3, <1>4, <1>5, <1>6 DEF LongStep

LEMMA NextTypes == Types /\ [Next]_vars => Types'
<1> SUFFICES ASSUME Types, [Next]_vars PROVE Types'
  OBVIOUS
<1>0. GearTypes /\ RegistryTypes /\ HistoryTypes /\ OpTypes
  BY Parts
<1>1. CASE BeginScan \/ \E t \in Target : BeginIdentify(t)
  <2>1. \E kind, t : t \in Target /\ Begin(kind, t)
    BY <1>0, <1>1 DEF BeginScan, BeginIdentify, OpTypes
  <2> QED BY <2>1, BeginTypes
<1>2. CASE PollDue
  <2>1. CASE Begin("poll_all", target)
    BY <1>0, <2>1, BeginTypes DEF OpTypes
  <2>2. CASE BusCheck
    <3>1. powered' \in BOOLEAN
      BY <2>2 DEF BusCheck
    <3> QED BY <1>0, <2>2, <3>1, SameOp, SameGears, SameHistory, Joined DEF BusCheck, RegistryTypes
  <2> QED BY <1>2, <2>1, <2>2 DEF PollDue
<1>3. CASE RequestCancel
  <2>1. OpTypes'
    BY <1>0, <1>3 DEF RequestCancel, OpTypes
  <2> QED BY <1>0, <1>3, <2>1, SameGears, SameRegistry, SameHistory, Joined DEF RequestCancel
<1>4. ASSUME NEW S \in SUBSET Gear, Switch(S) PROVE Types'
  <2>1. GearTypes'
    BY <1>0, <1>4 DEF Switch, GearTypes
  <2> QED BY <1>0, <1>4, <2>1, SameOp, SameRegistry, SameHistory, Joined DEF Switch
<1>5. CASE UNCHANGED vars
  BY <1>0, <1>5, SameOp, SameGears, SameRegistry, SameHistory, Joined DEF vars
<1> QED BY <1>1, <1>2, <1>3, <1>4, <1>5, ShortTypes, LongTypes DEF Next

LEMMA TypesAlways == Spec => []Types
  BY InitTypes, NextTypes, PTL DEF Spec

\* The registry and the operation that runs are well typed; in particular no scan, poll or
\* blink ever steps past the registry, and no gear names more types than there is room for
\* (step_scan, step_poll_all).
THEOREM TypeCorrect == Spec => []TypeOK
<1>1. Types => TypeOK
  BY DEF Types
<1> QED BY <1>1, TypesAlways, PTL

-----------------------------------------------------------------------------
(* The end comes. *)

\* The ways a step leaves less to do: the first of the parts that changes is smaller.
Shrinks ==
  \/ cursor < cursor'
  \/ cursor' = cursor /\ Rank[substep'] < Rank[substep]
  \/ /\ UNCHANGED <<op, cursor, substep>> /\ op = "scan" /\ cursor \in Address
     /\ types[cursor] < types'[cursor]

LEMMA RankIs == \A s \in Substep : Rank[s] \in 0..6
  BY DEF Rank, Substep

LEMMA CloserTo ==
  ASSUME NEW n \in Nat, NEW a \in Nat, NEW b \in Nat, a < b, b <= n
  PROVE  n - b \in 0..((n - a) - 1)
  OBVIOUS

LEMMA TypesLeftIs ==
  ASSUME Types
  PROVE  TypesLeft \in 0..MaxTypes
<1>1. CASE op = "scan" /\ cursor \in Address
  <2>1. types[cursor] \in 0..MaxTypes /\ MaxTypes \in Nat
    BY <1>1, Numbers
  <2> QED BY <1>1, <2>1 DEF TypesLeft
<1>2. CASE ~(op = "scan" /\ cursor \in Address)
  BY <1>2, Numbers DEF TypesLeft
<1> QED BY <1>1, <1>2

LEMMA ShrinksIsLess ==
  ASSUME Types, Types', Shrinks
  PROVE  Less(Remaining', Remaining)
<1> DEFINE n == MaxGears + BlinkFrames
           s == Remaining'
           t == Remaining
<1>0. /\ cursor \in Nat /\ cursor' \in Nat /\ cursor' <= n /\ n \in Nat
      /\ Rank[substep] \in 0..6 /\ Rank[substep'] \in 0..6
  BY Numbers, RankIs DEF Types, TypeOK
<1>a. t = <<n - cursor, Rank[substep], TypesLeft>>
  BY DEF Remaining
<1>b. s = <<n - cursor', Rank[substep'], TypesLeft'>>
  BY DEF Remaining
<1> HIDE DEF n
<1>1. DOMAIN s = 1..3
  BY <1>b
<1>2. SUFFICES \E i \in 1..3 : s[i] \in 0..(t[i] - 1) /\ \A j \in 1..(i - 1) : s[j] = t[j]
  BY <1>1 DEF Less
<1>3. /\ t[1] = n - cursor /\ t[2] = Rank[substep] /\ t[3] = TypesLeft
      /\ s[1] = n - cursor' /\ s[2] = Rank[substep'] /\ s[3] = TypesLeft'
  BY <1>a, <1>b
<1> HIDE DEF s, t
<1>4. CASE cursor < cursor'
  <2>0. cursor \in Nat /\ cursor' \in Nat /\ cursor' <= n /\ n \in Nat
    BY <1>0
  <2>1. n - cursor' \in 0..((n - cursor) - 1)
    BY ONLY <1>4, <2>0, CloserTo
  <2>2. s[1] \in 0..(t[1] - 1)
    BY <1>3, <2>1
  <2> QED BY <2>2
<1>5. CASE cursor' = cursor /\ Rank[substep'] < Rank[substep]
  <2>1. s[2] \in 0..(t[2] - 1) /\ s[1] = t[1]
    BY <1>0, <1>3, <1>5
  <2> QED BY <2>1
<1>6. CASE /\ UNCHANGED <<op, cursor, substep>> /\ op = "scan" /\ cursor \in Address
           /\ types[cursor] < types'[cursor]
  <2> DEFINE m == types[cursor]
             k == types'[cursor]
  <2>0. types' \in [Address -> 0..MaxTypes]
    BY DEF Types, TypeOK
  <2>1. m \in Nat /\ k \in Nat /\ k <= MaxTypes /\ MaxTypes \in Nat /\ m < k
    BY <1>6, <2>0, Numbers
  <2>2. TypesLeft = MaxTypes - m /\ TypesLeft' = MaxTypes - k
    BY <1>6 DEF TypesLeft, Address
  <2> HIDE DEF m, k
  <2>3. MaxTypes - k \in 0..((MaxTypes - m) - 1)
    BY ONLY <2>1, CloserTo
  <2>4. s[3] \in 0..(t[3] - 1) /\ s[1] = t[1] /\ s[2] = t[2]
    BY <1>3, <1>6, <2>2, <2>3
  <2> QED BY <2>4
<1> QED BY <1>4, <1>5, <1>6 DEF Shrinks

LEMMA StepShrinks ==
  ASSUME Types, LongStep, op' # "none"
  PROVE  Shrinks
<1>0. cursor \in Nat
  BY Numbers
<1>1. CASE ScanPresent \/ ScanVersion
  <2>1. \/ cursor' = cursor + 1
        \/ cursor' = cursor /\ substep = "present" /\ substep' = "status"
    BY <1>1 DEF ScanPresent, ScanVersion, NextGear, Scanning
  <2> QED BY <1>0, <2>1 DEF Shrinks, Rank, Substep
<1>2. CASE ScanStatus \/ ScanLevel \/ ScanType
  <2>1. cursor' = cursor
    BY <1>2 DEF ScanStatus, ScanLevel, ScanType
  <2>2. \/ substep = "status" /\ substep' = "level"
        \/ substep = "level" /\ substep' = "type"
        \/ substep = "type" /\ substep' \in {"version", "next_type"}
    BY <1>2 DEF ScanStatus, ScanLevel, ScanType, Scanning
  <2>3. Rank[substep'] < Rank[substep]
    BY <2>2 DEF Rank, Substep
  <2> QED BY <2>1, <2>3 DEF Shrinks
<1>3. CASE ScanNextType
  <2>1. /\ cursor' = cursor /\ op' = op /\ op = "scan" /\ cursor < MaxGears /\ substep = "next_type"
        /\ \/ MoreTypes /\ UNCHANGED substep
           \/ substep' = "version"
    BY <1>3 DEF ScanNextType, Scanning, ScanKeeps
  <2>2. CASE MoreTypes /\ UNCHANGED substep
    <3>1. cursor \in Address
      BY <2>1, Numbers DEF Address
    <3>2. types'[cursor] = types[cursor] + 1 /\ types[cursor] \in Nat
      BY <2>2, <3>1, Numbers DEF MoreTypes
    <3>3. types[cursor] < types'[cursor]
      BY <3>2
    <3> QED BY <2>1, <2>2, <3>1, <3>3 DEF Shrinks
  <2>3. CASE substep' = "version"
    <3>1. Rank[substep'] < Rank[substep]
      BY <2>1, <2>3 DEF Rank, Substep
    <3> QED BY <2>1, <3>1 DEF Shrinks
  <2> QED BY <2>1, <2>2, <2>3
<1>4. CASE PollLevel
  <2>1. cursor' = Polled /\ substep = "present" /\ substep' = "status" /\ Polled \in cursor..MaxGears
    BY <1>4, PolledIs DEF PollLevel
  <2>2. Rank[substep'] < Rank[substep]
    BY <2>1 DEF Rank, Substep
  <2>3. cursor' = cursor \/ cursor < cursor'
    BY <1>0, <2>1, Numbers
  <2> QED BY <2>2, <2>3 DEF Shrinks
<1>5. CASE PollStatus
  <2>1. cursor' = Polled + 1 /\ Polled \in cursor..MaxGears
    BY <1>5, PolledIs DEF PollStatus
  <2>2. cursor < cursor'
    BY <1>0, <2>1, Numbers
  <2> QED BY <2>2 DEF Shrinks
<1>6. CASE Blink
  <2>1. cursor' = cursor + 1
    BY <1>6 DEF Blink
  <2> QED BY <1>0, <2>1 DEF Shrinks
<1>7. ~ScanEnd /\ ~PollEnd /\ ~BlinkEnd
  BY DEF ScanEnd, PollEnd, BlinkEnd, Finish
<1> QED BY <1>1, <1>2, <1>3, <1>4, <1>5, <1>6, <1>7 DEF LongStep

\* Only the steps of an operation, its begin and its cancel touch where it stands.
LEMMA ShortKeeps ==
  ASSUME ShortCommand
  PROVE  UNCHANGED opVars
  BY DEF ShortCommand, SetLevel, On, QueryLevel, RemoveShortAddress, LevelToGroup, SetShortAddress, BusCheck

LEMMA SameRemaining ==
  ASSUME UNCHANGED <<op, cursor, substep>>,
         op = "scan" /\ cursor \in Address => types'[cursor] = types[cursor]
  PROVE  Remaining' = Remaining
<1>1. TypesLeft' = TypesLeft
  BY DEF TypesLeft, Address
<1> QED BY <1>1 DEF Remaining

\* Every step of a scan, a poll or a blink leaves less to do, for any size of the registry and
\* room for types, whatever gears answer, come and go, and although a poll looks for its
\* next gear in a registry that changes under its cursor; nothing else gives it more, but a gear
\* re-addressed onto or off the address a scan is at, whose list of types goes with it
\* (step_scan, step_poll_all, identify_step, op_set_short_address).
THEOREM StepsCountDown == Spec => CountsDown
<1>1. Types /\ Types' /\ [Next]_vars =>
        [op # "none" /\ op' # "none"
           => IF LongStep THEN Less(Remaining', Remaining)
              ELSE Remaining' = Remaining \/ Retyped]_vars
  <2> SUFFICES ASSUME Types, Types', Next, op # "none", op' # "none"
               PROVE  IF LongStep THEN Less(Remaining', Remaining)
                      ELSE Remaining' = Remaining \/ Retyped
    OBVIOUS
  <2>1. CASE LongStep
    BY <2>1, StepShrinks, ShrinksIsLess
  <2>2. CASE ~LongStep
    <3>1. CASE ShortCommand
      <4>1. UNCHANGED <<op, cursor, substep>>
        BY <3>1, ShortKeeps DEF opVars
      <4>2. CASE \E a, b \in Address : SetShortAddress(a, b)
        <5>1. PICK a \in Address, b \in Address : SetShortAddress(a, b)
          BY <4>2
        <5>2. CASE op = "scan" /\ cursor \in {a, b}
          BY <2>2, <4>1, <5>1, <5>2 DEF Retyped
        <5>3. CASE op # "scan"
          BY <2>2, <4>1, <5>3, SameRemaining
        <5>4. CASE cursor \notin {a, b}
          <6>1. MoveEntry(a, b) \/ UNCHANGED types
            BY <5>1 DEF SetShortAddress
          <6>2. cursor \in Address => types'[cursor] = types[cursor]
            BY <5>4, <6>1, Numbers DEF MoveEntry
          <6> QED BY <2>2, <4>1, <6>2, SameRemaining
        <5> QED BY <5>2, <5>3, <5>4
      <4>3. CASE UNCHANGED types
        BY <2>2, <4>1, <4>3, SameRemaining
      <4>4. ShortCommand => UNCHANGED types \/ \E a, b \in Address : SetShortAddress(a, b)
        BY DEF ShortCommand, SetLevel, On, QueryLevel, RemoveShortAddress, LevelToGroup, BusCheck,
               registryVars
      <4> QED BY <3>1, <4>2, <4>3, <4>4
    <3>2. CASE RequestCancel \/ \E S \in SUBSET Gear : Switch(S)
      <4>1. UNCHANGED <<op, cursor, substep, types>>
        BY <3>2 DEF RequestCancel, Switch, opVars, registryVars
      <4> QED BY <2>2, <4>1, SameRemaining
    <3>3. ~(BeginScan \/ PollDue \/ \E t \in Target : BeginIdentify(t))
      BY DEF BeginScan, PollDue, BeginIdentify, Begin, BusCheck
    <3> QED BY <2>2, <3>1, <3>2, <3>3 DEF Next
  <2> QED BY <2>1, <2>2
<1> QED BY <1>1, TypesAlways, PTL DEF Spec, CountsDown

-----------------------------------------------------------------------------
(* An installation whose mains stays on. *)

\* No two gears answer at an address, and the registry lists none nobody answers at.
Orderly ==
  /\ alive = Gear
  /\ \A g, h \in Gear : g # h /\ short[g] = short[h] => short[g] = NoAddr
  /\ \A a \in Address : present[a] => At(a) # {}

\* What the scan has behind it is listed.
Listed(a) == a < cursor \/ (a = cursor /\ substep # "present")
ScanSoFar ==
  op = "scan" /\ ~strays => \A a \in Address : Listed(a) /\ At(a) # {} => present[a]

LEMMA Alone ==
  ASSUME Orderly, NEW a \in Address
  PROVE  At(a) \in SUBSET Gear /\ \A g, h \in At(a) : g = h
  BY Names DEF Orderly, At

\* A gear that is moved goes where there was none.
LEMMA Moves ==
  ASSUME Types, Orderly, NEW a \in Address, NEW b \in Address, SetShortAddress(a, b)
  PROVE  \/ UNCHANGED <<short, present, cache, dali2, types, strays>>
         \/ /\ At(b) = {} /\ short' = [g \in Gear |-> IF g \in At(a) THEN b ELSE short[g]]
            /\ strays' = (strays \/ (At(a) # {} /\ ~present[a]))
            /\ IF At(a) # {} THEN MoveEntry(a, b) ELSE UNCHANGED <<present, cache, dali2, types>>
<1>1. PICK probe \in Heard(At(b), Yes), verify \in Heard(At(a) \cup At(b), Yes) :
        IF Occupied(probe)
        THEN UNCHANGED <<short, present, cache, dali2, types, strays>>
        ELSE /\ short' = [g \in Gear |-> IF g \in At(a) THEN b ELSE short[g]]
             /\ strays' = (strays \/ (At(a) # {} /\ ~present[a]))
             /\ IF Valid(verify) THEN MoveEntry(a, b) ELSE UNCHANGED <<present, cache, dali2, types>>
  BY DEF SetShortAddress
<1>2. Occupied(probe) <=> At(b) # {}
  BY Alone, HeardAlone DEF Occupied
<1>3. CASE At(b) # {}
  BY <1>1, <1>2, <1>3
<1>4. CASE At(b) = {}
  <2>1. At(a) \cup At(b) = At(a)
    BY <1>4
  <2>2. Valid(verify) <=> At(a) # {}
    BY <2>1, Alone, HeardAlone
  <2> QED BY <1>1, <1>2, <1>4, <2>2
<1> QED BY <1>3, <1>4

LEMMA InitOrderly == Init => Orderly /\ ScanSoFar
<1> SUFFICES ASSUME Init PROVE Orderly /\ ScanSoFar
  OBVIOUS
<1>1. \A a \in Address : present[a] => Cardinality(At(a)) = 1
  BY DEF Init
<1>2. \A a \in Address : present[a] => At(a) # {}
  BY <1>1, FS_EmptySet
<1> QED BY <1>2 DEF Init, Orderly, Apart, ScanSoFar

\* What leaves addresses and entries alone.
LEMMA OrderStays ==
  ASSUME Orderly, UNCHANGED <<short, alive, present>>
  PROVE  Orderly'
  BY DEF Orderly, At

LEMMA ScanStays ==
  ASSUME ScanSoFar, UNCHANGED <<short, alive, present, strays>>,
         op' = "scan" => op = "scan" /\ \A a \in Address : Listed(a)' => Listed(a)
  PROVE  ScanSoFar'
  BY DEF ScanSoFar, At

LEMMA MoveOrderly ==
  ASSUME Types, Orderly, ScanSoFar, NEW a \in Address, NEW b \in Address, SetShortAddress(a, b)
  PROVE  Orderly' /\ ScanSoFar'
<1>0. UNCHANGED <<alive, opVars>> /\ a # b
  BY DEF SetShortAddress
<1>1. CASE UNCHANGED <<short, present, strays>>
  BY <1>0, <1>1, OrderStays, ScanStays DEF opVars, Listed
<1>2. CASE /\ At(b) = {} /\ short' = [g \in Gear |-> IF g \in At(a) THEN b ELSE short[g]]
           /\ strays' = (strays \/ (At(a) # {} /\ ~present[a]))
           /\ IF At(a) # {} THEN MoveEntry(a, b) ELSE UNCHANGED <<present, cache, dali2, types>>
  <2>1. short \in [Gear -> Address \cup {NoAddr}] /\ present \in [Address -> BOOLEAN]
    BY DEF Types, TypeOK
  <2>2. CASE At(a) = {}
    <3>1. short' = short /\ strays' = strays /\ present' = present
      <4>1. \A g \in Gear : short'[g] = short[g]
        BY <1>2, <2>2
      <4>2. short' = short
        BY <1>2, <2>1, <4>1
      <4>3. strays' = strays
        BY <1>2, <2>2 DEF Types, TypeOK
      <4> QED BY <1>2, <2>2, <4>2, <4>3
    <3> QED BY <1>0, <3>1, OrderStays, ScanStays DEF opVars, Listed
  <2>3. CASE At(a) # {}
    <3>1. present' = [present EXCEPT ![b] = present[a], ![a] = FALSE]
      BY <1>2, <2>3 DEF MoveEntry
    <3>2. /\ present'[a] = FALSE /\ (present'[b] <=> present[a])
          /\ \A c \in Address \ {a, b} : present'[c] = present[c]
      BY <1>0, <2>1, <3>1
    <3>3. At(a)' = {} /\ At(b)' = At(a) /\ \A c \in Address \ {a, b} : At(c)' = At(c)
      BY <1>0, <1>2 DEF At, Orderly
    <3>4. \A g, h \in Gear : g # h /\ short'[g] = short'[h] => short'[g] = NoAddr
      <4> SUFFICES ASSUME NEW g \in Gear, NEW h \in Gear, g # h, short'[g] = short'[h]
                   PROVE  short'[g] = NoAddr
        OBVIOUS
      <4>1. g \notin At(b) /\ h \notin At(b) /\ alive = Gear
        BY <1>2 DEF Orderly
      <4>2. CASE g \in At(a) /\ h \in At(a)
        BY <4>2, Alone
      <4>3. CASE g \in At(a) /\ h \notin At(a)
        BY <1>2, <4>1, <4>3 DEF At
      <4>4. CASE g \notin At(a) /\ h \in At(a)
        BY <1>2, <4>1, <4>4 DEF At
      <4>5. CASE g \notin At(a) /\ h \notin At(a)
        BY <1>2, <4>5 DEF Orderly
      <4> QED BY <4>2, <4>3, <4>4, <4>5
    <3>5. \A c \in Address : present'[c] => At(c)' # {}
      BY <2>3, <3>2, <3>3 DEF Orderly
    <3>6. Orderly'
      BY <1>0, <3>4, <3>5 DEF Orderly
    <3>7. ASSUME op' = "scan", ~strays', NEW c \in Address, Listed(c)', At(c)' # {} PROVE present'[c]
      <4>1. op = "scan" /\ ~strays /\ present[a] /\ Listed(c)
        BY <1>0, <1>2, <2>3, <3>7 DEF opVars, Listed
      <4> QED BY <3>2, <3>3, <3>7, <4>1 DEF ScanSoFar
    <3> QED BY <3>6, <3>7 DEF ScanSoFar
  <2> QED BY <2>2, <2>3
<1> QED BY <1>1, <1>2, Moves

LEMMA RemoveOrderly ==
  ASSUME Types, Orderly, ScanSoFar, NEW a \in Address, RemoveShortAddress(a)
  PROVE  Orderly' /\ ScanSoFar'
<1>1. /\ short' = [g \in Gear |-> IF g \in At(a) THEN NoAddr ELSE short[g]]
      /\ present' = [present EXCEPT ![a] = FALSE] /\ UNCHANGED <<alive, opVars, strays>>
      /\ present \in [Address -> BOOLEAN]
  BY DEF RemoveShortAddress, Forget, Types, TypeOK
<1>2. At(a)' = {} /\ \A c \in Address \ {a} : At(c)' = At(c)
  BY <1>1, Names DEF At, Orderly
<1>3. ~present'[a] /\ \A c \in Address \ {a} : present'[c] = present[c]
  BY <1>1
<1>4. \A g, h \in Gear : g # h /\ short'[g] = short'[h] => short'[g] = NoAddr
  BY <1>1 DEF Orderly
<1>5. Orderly'
  BY <1>1, <1>2, <1>3, <1>4 DEF Orderly
<1>6. ScanSoFar'
  BY <1>1, <1>2, <1>3 DEF ScanSoFar, opVars, Listed
<1> QED BY <1>5, <1>6

LEMMA PresentOrderly ==
  ASSUME Types, Orderly, ScanSoFar, ScanPresent
  PROVE  Orderly' /\ ScanSoFar'
<1>1. PICK reply \in Heard(At(cursor), Yes) :
        /\ present' = [present EXCEPT ![cursor] = Valid(reply)]
        /\ IF Valid(reply) THEN substep' = "status" /\ UNCHANGED cursor
           ELSE cursor' = cursor + 1 /\ UNCHANGED substep
  BY DEF ScanPresent, NextGear
<1>2. /\ op = "scan" /\ op' = "scan" /\ substep = "present" /\ cursor \in Address
      /\ UNCHANGED <<short, alive, strays>> /\ present \in [Address -> BOOLEAN]
  BY Numbers DEF ScanPresent, Scanning, ScanKeeps, gearVars, historyVars, Types, TypeOK, Address
<1>3. Valid(reply) <=> At(cursor) # {}
  BY <1>2, Alone, HeardAlone
<1>4. \A a \in Address : At(a)' = At(a)
  BY <1>2 DEF At
<1>5. (present'[cursor] <=> At(cursor) # {}) /\ \A a \in Address \ {cursor} : present'[a] = present[a]
  BY <1>1, <1>2, <1>3
<1>6. Orderly'
  BY <1>2, <1>4, <1>5 DEF Orderly
<1>7. ASSUME ~strays, NEW a \in Address, Listed(a)', At(a) # {} PROVE present'[a]
  <2>1. CASE a = cursor
    BY <1>5, <1>7, <2>1
  <2>2. CASE a # cursor
    <3>1. a < cursor
      BY <1>1, <1>2, <1>7, <2>2, Numbers DEF Listed, Address
    <3> QED BY <1>2, <1>5, <1>7, <2>2, <3>1 DEF ScanSoFar, Listed
  <2> QED BY <2>1, <2>2
<1> QED BY <1>2, <1>4, <1>6, <1>7 DEF ScanSoFar

\* What the other short commands, the poll and the blink leave alone.
LEMMA ShortOrderly ==
  ASSUME Types, Orderly, ScanSoFar, ShortCommand
  PROVE  Orderly' /\ ScanSoFar'
<1>1. CASE \E a, b \in Address : SetShortAddress(a, b)
  BY <1>1, MoveOrderly
<1>2. CASE \E a \in Address : RemoveShortAddress(a)
  BY <1>2, RemoveOrderly
<1>3. CASE UNCHANGED <<short, alive, present, strays, opVars>>
  BY <1>3, OrderStays, ScanStays DEF opVars, Listed
<1>4. ASSUME NEW a \in Address, NEW l \in Level, SetLevel(a, l)
      PROVE  UNCHANGED <<short, alive, present, strays, opVars>>
  BY <1>4 DEF SetLevel
<1>5. ASSUME NEW a \in Address, On(a) \/ QueryLevel(a)
      PROVE  UNCHANGED <<short, alive, present, strays, opVars>>
  BY <1>5 DEF On, QueryLevel, registryVars, gearVars, historyVars
<1>6. ASSUME NEW S \in SUBSET alive, NEW l \in Level, LevelToGroup(S, l)
      PROVE  UNCHANGED <<short, alive, present, strays, opVars>>
  BY <1>6 DEF LevelToGroup, registryVars
<1>7. ASSUME BusCheck
      PROVE  UNCHANGED <<short, alive, present, strays, opVars>>
  BY <1>7 DEF BusCheck, gearVars, historyVars
<1> QED BY <1>1, <1>2, <1>3, <1>4, <1>5, <1>6, <1>7 DEF ShortCommand

LEMMA LongOrderly ==
  ASSUME Types, Orderly, ScanSoFar, LongStep
  PROVE  Orderly' /\ ScanSoFar'
<1>1. CASE ScanPresent
  BY <1>1, PresentOrderly
<1>2. CASE ScanStatus \/ ScanLevel \/ ScanType \/ ScanNextType
  <2>1. /\ UNCHANGED <<short, alive, present, strays, op, cursor>> /\ substep # "present"
    BY <1>2 DEF ScanStatus, ScanLevel, ScanType, ScanNextType, Scanning, ScanKeeps, gearVars,
                registryVars, historyVars
  <2> QED BY <2>1, OrderStays, ScanStays DEF Listed
<1>3. CASE ScanVersion
  <2>1. /\ UNCHANGED <<short, alive, present, strays, op>> /\ cursor' = cursor + 1
        /\ substep = "version" /\ substep' = "present"
    BY <1>3 DEF ScanVersion, Scanning, ScanKeeps, NextGear, gearVars, historyVars
  <2>2. ASSUME NEW a \in Address, Listed(a)' PROVE Listed(a)
    BY <2>1, <2>2, Numbers DEF Listed, Address
  <2> QED BY <2>1, <2>2, OrderStays, ScanStays
<1>4. CASE ScanEnd \/ PollEnd \/ PollLevel \/ PollStatus \/ Blink \/ BlinkEnd
  <2>1. UNCHANGED <<short, alive, present, strays>> /\ op' # "scan"
    BY <1>4 DEF ScanEnd, PollEnd, PollLevel, PollStatus, Blink, BlinkEnd, Finish, gearVars,
                registryVars, historyVars
  <2> QED BY <2>1, OrderStays, ScanStays
<1> QED BY <1>1, <1>2, <1>3, <1>4 DEF LongStep

LEMMA NextOrderly ==
  ASSUME ~Unstable, Types, Orderly, ScanSoFar, [Next]_vars
  PROVE  Orderly' /\ ScanSoFar'
<1>1. ASSUME NEW kind, NEW a, Begin(kind, a) PROVE Orderly' /\ ScanSoFar'
  <2>1. UNCHANGED <<short, alive, present, strays>> /\ cursor' = 0 /\ substep' = "present"
    BY <1>1 DEF Begin, gearVars, registryVars
  <2>2. Orderly'
    BY <2>1, OrderStays
  <2>3. \A c \in Address : ~Listed(c)'
    BY <2>1, SizesAssumption DEF Listed, Address
  <2> QED BY <2>2, <2>3 DEF ScanSoFar
<1>2. CASE BeginScan \/ \E t \in Target : BeginIdentify(t)
  BY <1>1, <1>2 DEF BeginScan, BeginIdentify
<1>3. CASE BusCheck \/ RequestCancel \/ UNCHANGED vars
  <2>1. UNCHANGED <<short, alive, present, strays, op, cursor, substep>>
    BY <1>3 DEF BusCheck, RequestCancel, vars, gearVars, registryVars, historyVars, opVars
  <2> QED BY <2>1, OrderStays, ScanStays DEF Listed
<1>4. CASE PollDue
  BY <1>1, <1>3, <1>4 DEF PollDue
<1>5. ASSUME NEW S, Switch(S) PROVE FALSE
  BY <1>5 DEF Switch
<1> QED BY <1>2, <1>3, <1>4, <1>5, ShortOrderly, LongOrderly DEF Next

LEMMA OrderAlways == ~Unstable => (Spec => [](Types /\ Orderly /\ ScanSoFar))
<1> SUFFICES ASSUME ~Unstable PROVE Spec => [](Types /\ Orderly /\ ScanSoFar)
  OBVIOUS
<1>1. Init => Types /\ Orderly /\ ScanSoFar
  BY InitTypes, InitOrderly
<1>2. Types /\ Orderly /\ ScanSoFar /\ [Next]_vars => (Types /\ Orderly /\ ScanSoFar)'
  BY NextTypes, NextOrderly
<1> QED BY <1>1, <1>2, PTL DEF Spec

-----------------------------------------------------------------------------
(* What follows of it. *)

\* A scan that is not cancelled lists exactly the addresses a gear answers on, whatever
\* short commands were served between its frames, as long as the mains stays on and no gear
\* the registry did not know of was given another address meanwhile (step_scan).
THEOREM ScanListsAll == ~Unstable => (Spec => ScanTellsTruth)
<1> SUFFICES ASSUME ~Unstable PROVE Spec => ScanTellsTruth
  OBVIOUS
<1> DEFINE Truth == op = "scan" /\ op' = "none" /\ ~cancel /\ ~strays
                      => \A a \in Address : present[a] <=> At(a) # {}
<1>1. Types /\ Orderly /\ ScanSoFar /\ [Next]_vars => [Truth]_vars
  <2> SUFFICES ASSUME Types, Orderly, ScanSoFar, Next, op = "scan", op' = "none", ~cancel, ~strays,
                      NEW a \in Address
               PROVE  present[a] <=> At(a) # {}
    OBVIOUS
  <2>1. ScanEnd
    <3>1. ASSUME UNCHANGED op PROVE FALSE
      BY <3>1
    <3>2. ~ShortCommand
      BY <3>1 DEF ShortCommand, SetLevel, On, QueryLevel, LevelToGroup, SetShortAddress,
                  RemoveShortAddress, BusCheck, opVars
    <3>3. ~BeginScan /\ ~PollDue /\ (\A t \in Target : ~BeginIdentify(t)) /\ ~RequestCancel
      BY <3>1 DEF BeginScan, PollDue, BeginIdentify, Begin, RequestCancel
    <3>4. \A S : ~Switch(S)
      BY DEF Switch
    <3>5. ~(ScanPresent \/ ScanStatus \/ ScanLevel \/ ScanType \/ ScanNextType \/ ScanVersion)
      BY <3>1 DEF ScanPresent, ScanStatus, ScanLevel, ScanType, ScanNextType, ScanVersion, ScanKeeps
    <3>6. ~(PollLevel \/ PollStatus \/ PollEnd \/ Blink \/ BlinkEnd)
      BY DEF PollLevel, PollStatus, PollEnd, Blink, BlinkEnd
    <3> QED BY <3>2, <3>3, <3>4, <3>5, <3>6 DEF Next, LongStep
  <2>2. cursor = MaxGears
    BY <2>1 DEF ScanEnd
  <2>3. Listed(a)
    BY <2>2, SizesAssumption DEF Listed, Address
  <2> QED BY <2>3 DEF Orderly, ScanSoFar
<1> QED BY <1>1, OrderAlways, PTL DEF Spec, ScanTellsTruth

\* Re-addressing never brings two gears together on one address, as long as the mains stays
\* on: a gear that is dark when its address is probed cannot object (op_set_short_address).
THEOREM NobodyJoined == ~Unstable => (Spec => NeverJoinsOccupied)
<1> SUFFICES ASSUME ~Unstable PROVE Spec => NeverJoinsOccupied
  OBVIOUS
<1> DEFINE Apart2 == \A g, h \in alive : g # h /\ short'[g] = short'[h] /\ short'[g] # NoAddr
                                          => short[g] = short[h]
<1>1. Types /\ Orderly /\ Orderly' => Apart2
  BY DEF Orderly
<1> QED BY <1>1, OrderAlways, PTL DEF Spec, NeverJoinsOccupied

-----------------------------------------------------------------------------
(* The blink. *)

\* While an identify runs, ending it now would leave every gear but the excused where it should be.
Kept(g) == wanted[g] = IF g \in Reached(target) THEN RestoredLevel(target) ELSE level[g]
Promise ==
  op = "identify" =>
    /\ target \notin Address => Reached(target) \subseteq excused
    /\ \A g \in Gear \ excused : wanted[g] # Unknown => Kept(g)

LEMMA ReachedAt ==
  ASSUME NEW a \in Address
  PROVE  Reached(a) = At(a)
  BY Names DEF Reached

LEMMA SameReached ==
  ASSUME UNCHANGED <<short, alive, target>>
  PROVE  Reached(target)' = Reached(target)
  BY DEF Reached, At

LEMMA SameRestored ==
  ASSUME UNCHANGED target, target \in Address => cache'[target] = cache[target]
  PROVE  RestoredLevel(target)' = RestoredLevel(target)
  BY DEF RestoredLevel, Address

\* An order no cache is told of: the gears reached are excused, the others keep the level.
LEMMA OrderKeeps ==
  ASSUME Types, Promise, NEW S, NEW l \in Level, Order(S, l), Excuse(S),
         UNCHANGED <<short, alive, registryVars, opVars>>
  PROVE  Promise'
<1>1. /\ UNCHANGED <<short, alive, cache, op, target>>
      /\ wanted' = [h \in Gear |-> IF h \in S /\ op = "identify" THEN l ELSE wanted[h]]
      /\ level' = [h \in Gear |-> IF h \in S THEN l ELSE level[h]]
  BY DEF Order, Drive, opVars, registryVars
<1>2. SUFFICES ASSUME op = "identify" PROVE Promise'
  BY <1>1 DEF Promise
<1>3. excused' = excused \cup (S \cap Reached(target))
  BY <1>2 DEF Excuse
<1>4. Reached(target)' = Reached(target) /\ RestoredLevel(target)' = RestoredLevel(target)
  BY <1>1, SameReached, SameRestored
<1>5. ASSUME NEW g \in Gear \ excused', wanted'[g] # Unknown PROVE Kept(g)'
  <2>1. CASE g \in S
    <3>1. g \notin Reached(target) /\ wanted'[g] = l /\ level'[g] = l
      BY <1>1, <1>2, <1>3, <1>5, <2>1
    <3> QED BY <1>4, <3>1 DEF Kept
  <2>2. CASE g \notin S
    <3>1. wanted'[g] = wanted[g] /\ level'[g] = level[g] /\ g \notin excused
      BY <1>1, <1>3, <1>5, <2>2
    <3> QED BY <1>2, <1>4, <1>5, <3>1 DEF Kept, Promise
  <2> QED BY <2>1, <2>2
<1> QED BY <1>1, <1>2, <1>3, <1>4, <1>5 DEF Promise

LEMMA SetLevelKeeps ==
  ASSUME Types, Promise, NEW a \in Address, NEW l \in Level, SetLevel(a, l)
  PROVE  Promise'
<1>1. /\ UNCHANGED <<short, alive, op, target>>
      /\ wanted' = [h \in Gear |-> IF h \in At(a) /\ op = "identify" THEN l ELSE wanted[h]]
      /\ level' = [h \in Gear |-> IF h \in At(a) THEN l ELSE level[h]]
      /\ excused' = IF a = target THEN excused \ At(a) ELSE excused
  BY DEF SetLevel, Order, Drive, opVars
<1>2. SUFFICES ASSUME op = "identify" PROVE Promise'
  BY <1>1 DEF Promise
<1>3. cache' = [cache EXCEPT ![a] = l] /\ l # Unknown
  BY Names DEF SetLevel, CacheLevel, Valid
<1>4. cache \in [Address -> Level \cup {Unknown}]
  BY DEF Types, TypeOK
<1>5. Reached(target)' = Reached(target)
  BY <1>1, SameReached
<1>6. ASSUME NEW g \in Gear \ excused', wanted'[g] # Unknown PROVE Kept(g)'
  <2>1. CASE g \in At(a)
    <3>1. wanted'[g] = l /\ level'[g] = l
      BY <1>1, <1>2, <2>1
    <3>2. CASE a = target
      <4>1. RestoredLevel(target)' = l
        BY <1>1, <1>3, <1>4, <3>2 DEF RestoredLevel
      <4> QED BY <3>1, <4>1 DEF Kept
    <3>3. CASE a # target
      <4>1. g \notin excused
        BY <1>1, <1>6, <3>3
      <4>2. g \notin Reached(target)
        <5>1. CASE target \in Address
          BY <2>1, <3>3, <5>1, ReachedAt DEF At
        <5>2. CASE target \notin Address
          BY <1>2, <4>1, <5>2 DEF Promise
        <5> QED BY <5>1, <5>2
      <4> QED BY <1>5, <3>1, <4>2 DEF Kept
    <3> QED BY <3>2, <3>3
  <2>2. CASE g \notin At(a)
    <3>1. wanted'[g] = wanted[g] /\ level'[g] = level[g] /\ g \notin excused
      BY <1>1, <1>6, <2>2
    <3>2. Kept(g)
      BY <1>2, <1>6, <3>1 DEF Promise
    <3>3. CASE g \in Reached(target)
      <4>1. target \in Address => a # target
        BY <2>2, <3>3, ReachedAt
      <4>2. RestoredLevel(target)' = RestoredLevel(target)
        BY <1>1, <1>3, <1>4, <4>1, SameRestored
      <4> QED BY <1>5, <3>1, <3>2, <4>2 DEF Kept
    <3>4. CASE g \notin Reached(target)
      BY <1>5, <3>1, <3>2, <3>4 DEF Kept
    <3> QED BY <3>3, <3>4
  <2> QED BY <2>1, <2>2
<1>7. target \notin Address => Reached(target) \subseteq excused'
  BY <1>1, <1>2 DEF Promise
<1> QED BY <1>1, <1>2, <1>5, <1>6, <1>7 DEF Promise

LEMMA QueryKeeps ==
  ASSUME Types, Promise, NEW a \in Address, QueryLevel(a)
  PROVE  Promise'
<1>1. /\ UNCHANGED <<short, alive, level, op, target, wanted>> /\ Excuse(At(a))
      /\ \A b \in Address : b # a => cache'[b] = cache[b]
  <2>1. cache \in [Address -> Level \cup {Unknown}]
    BY DEF Types, TypeOK
  <2>2. \E reply : CacheLevel(a, reply)
    BY DEF QueryLevel
  <2>3. \A b \in Address : b # a => cache'[b] = cache[b]
    BY <2>1, <2>2 DEF CacheLevel
  <2> QED BY <2>3 DEF QueryLevel, gearVars, opVars
<1>2. SUFFICES ASSUME op = "identify" PROVE Promise'
  BY <1>1 DEF Promise
<1>3. excused' = excused \cup (At(a) \cap Reached(target))
  BY <1>1, <1>2 DEF Excuse
<1>4. Reached(target)' = Reached(target)
  BY <1>1, SameReached
<1>5. ASSUME NEW g \in Gear \ excused', wanted'[g] # Unknown PROVE Kept(g)'
  <2>1. g \notin excused /\ Kept(g)
    BY <1>1, <1>2, <1>3, <1>5 DEF Promise
  <2>2. CASE g \in Reached(target)
    <3>1. target \in Address => a # target
      BY <1>3, <1>5, <2>2, ReachedAt
    <3>2. RestoredLevel(target)' = RestoredLevel(target)
      BY <1>1, <3>1, SameRestored
    <3> QED BY <1>1, <1>4, <2>1, <3>2 DEF Kept
  <2>3. CASE g \notin Reached(target)
    BY <1>1, <1>4, <2>1, <2>3 DEF Kept
  <2> QED BY <2>2, <2>3
<1> QED BY <1>1, <1>2, <1>3, <1>4, <1>5 DEF Promise

\* A gear that leaves its address is owed nothing, and takes nothing from the others.
LEMMA LeaveKeeps ==
  ASSUME Types, Promise, NEW a \in Address, NEW b,
         short' = [h \in Gear |-> IF h \in At(a) THEN b ELSE short[h]],
         wanted' = [h \in Gear |-> IF h \in At(a) THEN Unknown ELSE wanted[h]],
         \A g \in Gear : g \notin At(a) /\ target \in Address /\ g \in At(target)
                          => cache'[target] = cache[target],
         UNCHANGED <<alive, level, op, target, excused>>
  PROVE  Promise'
<1> SUFFICES ASSUME op = "identify" PROVE Promise'
  BY DEF Promise
<1>1. ASSUME NEW g \in Gear \ excused', wanted'[g] # Unknown PROVE Kept(g)'
  <2>1. g \notin At(a) /\ wanted'[g] = wanted[g] /\ short'[g] = short[g] /\ level'[g] = level[g]
    BY <1>1
  <2>2. Kept(g)
    BY <1>1, <2>1 DEF Promise
  <2>3. g \in Reached(target)' <=> g \in Reached(target)
    BY <2>1 DEF Reached, At
  <2>4. CASE g \in Reached(target)
    <3>1. target \in Address => cache'[target] = cache[target]
      BY <2>1, <2>4, ReachedAt
    <3>2. RestoredLevel(target)' = RestoredLevel(target)
      BY <3>1, SameRestored
    <3> QED BY <2>1, <2>2, <2>3, <2>4, <3>2 DEF Kept
  <2>5. CASE g \notin Reached(target)
    BY <2>1, <2>2, <2>3, <2>5 DEF Kept
  <2> QED BY <2>4, <2>5
<1>2. ASSUME target \notin Address PROVE Reached(target)' \subseteq excused'
  <2>1. CASE target \in {Group, Broadcast}
    BY <1>2, <2>1 DEF Promise, Reached
  <2> QED BY <1>2, <2>1 DEF Types, TypeOK, Target
<1> QED BY <1>1, <1>2 DEF Promise

LEMMA MoveKeeps ==
  ASSUME Types, Orderly, Promise, NEW a \in Address, NEW b \in Address, SetShortAddress(a, b)
  PROVE  Promise'
<1>1. /\ UNCHANGED <<alive, level, op, target, excused>>
      /\ wanted' = [h \in Gear |-> IF h \in At(a) THEN Unknown ELSE wanted[h]]
  BY DEF SetShortAddress, NoPromise, opVars
<1>2. cache \in [Address -> Level \cup {Unknown}]
  BY DEF Types, TypeOK
<1>3. CASE UNCHANGED <<short, cache>>
  <2> SUFFICES ASSUME op = "identify" PROVE Promise'
    BY <1>1 DEF Promise
  <2>1. Reached(target)' = Reached(target) /\ RestoredLevel(target)' = RestoredLevel(target)
    BY <1>1, <1>3, SameReached, SameRestored
  <2>2. ASSUME NEW g \in Gear \ excused', wanted'[g] # Unknown PROVE Kept(g)'
    <3>1. wanted'[g] = wanted[g]
      BY <1>1, <2>2
    <3> QED BY <1>1, <2>1, <2>2, <3>1 DEF Promise, Kept
  <2> QED BY <1>1, <2>1, <2>2 DEF Promise
<1>4. CASE /\ At(b) = {} /\ short' = [h \in Gear |-> IF h \in At(a) THEN b ELSE short[h]]
           /\ IF At(a) # {} THEN MoveEntry(a, b) ELSE UNCHANGED cache
  <2>1. ASSUME NEW g \in Gear, g \notin At(a), target \in Address, g \in At(target)
        PROVE  cache'[target] = cache[target]
    <3>1. target # a /\ target # b
      BY <1>4, <2>1
    <3> QED BY <1>2, <1>4, <2>1, <3>1 DEF MoveEntry
  <2> QED BY <1>1, <1>4, <2>1, LeaveKeeps
<1> QED BY <1>3, <1>4, Moves

LEMMA BeginKeeps ==
  ASSUME Types, NEW kind, NEW t \in Target, Begin(kind, t)
  PROVE  Promise'
<1> SUFFICES ASSUME op' = "identify" PROVE Promise'
  BY DEF Promise
<1>1. /\ UNCHANGED <<short, alive, level, cache>> /\ target' = t
      /\ wanted' = [h \in Gear |-> IF Misknown(h, t) THEN Unknown ELSE level[h]]
      /\ excused' = IF t \in Address THEN {} ELSE Reached(t)
  BY DEF Begin, gearVars, registryVars
<1>2. Reached(target)' = Reached(t) /\ RestoredLevel(target)' = RestoredLevel(t)
  BY <1>1 DEF Reached, At, RestoredLevel
<1>3. ASSUME NEW g \in Gear \ excused', wanted'[g] # Unknown PROVE Kept(g)'
  <2>1. wanted'[g] = level[g] /\ ~Misknown(g, t) /\ level'[g] = level[g]
    BY <1>1, <1>3
  <2>2. CASE g \in Reached(t)
    <3>1. t \in Address
      BY <1>1, <1>3, <2>2
    <3>2. level[g] = RestoredLevel(t)
      BY <2>1, <2>2, <3>1, ReachedAt DEF Misknown
    <3> QED BY <1>2, <2>1, <2>2, <3>2 DEF Kept
  <2>3. CASE g \notin Reached(t)
    BY <1>2, <2>1, <2>3 DEF Kept
  <2> QED BY <2>2, <2>3
<1>4. target' \notin Address => Reached(target)' \subseteq excused'
  BY <1>1, <1>2
<1>5. Address' = Address
  BY DEF Address
<1> QED BY <1>3, <1>4, <1>5 DEF Promise

LEMMA BlinkKeeps ==
  ASSUME Types, Promise, Blink
  PROVE  Promise'
<1>1. /\ op = "identify" /\ UNCHANGED <<short, alive, cache, target, wanted, excused>>
      /\ \A h \in Gear \ Reached(target) : level'[h] = level[h]
  BY DEF Blink, Drive, registryVars, historyVars
<1>2. Reached(target)' = Reached(target) /\ RestoredLevel(target)' = RestoredLevel(target)
  BY <1>1, SameReached, SameRestored
<1>3. ASSUME NEW g \in Gear \ excused', wanted'[g] # Unknown PROVE Kept(g)'
  BY <1>1, <1>2, <1>3 DEF Promise, Kept
<1> QED BY <1>1, <1>2, <1>3 DEF Promise

LEMMA NextKeeps ==
  ASSUME ~Unstable, Types, Orderly, Promise, [Next]_vars
  PROVE  Promise'
<1>a. ASSUME UNCHANGED <<short, alive, level, cache, op, target, wanted, excused>> PROVE Promise'
  <2>1. Reached(target)' = Reached(target) /\ RestoredLevel(target)' = RestoredLevel(target)
    BY <1>a, SameReached, SameRestored
  <2> QED BY <1>a, <2>1 DEF Promise, Kept
<1>1. CASE ShortCommand
  <2>1. ASSUME NEW a \in Address, On(a) PROVE Promise'
    <3>1. PICK l \in Level : Order(At(a), l)
      BY <2>1 DEF On, Level, MaxLevel
    <3> QED BY <2>1, <3>1, OrderKeeps DEF On
  <2>2. ASSUME NEW S, NEW l \in Level, LevelToGroup(S, l) PROVE Promise'
    BY <2>2, OrderKeeps DEF LevelToGroup
  <2>3. ASSUME NEW a \in Address, RemoveShortAddress(a) PROVE Promise'
    <3>1. /\ UNCHANGED <<alive, level, cache, op, target, excused>>
          /\ wanted' = [h \in Gear |-> IF h \in At(a) THEN Unknown ELSE wanted[h]]
          /\ short' = [h \in Gear |-> IF h \in At(a) THEN NoAddr ELSE short[h]]
      BY <2>3 DEF RemoveShortAddress, NoPromise, opVars
    <3> QED BY <3>1, LeaveKeeps
  <2>4. CASE BusCheck
    BY <1>a, <2>4 DEF BusCheck, gearVars, opVars, historyVars
  <2> QED BY <1>1, <2>1, <2>2, <2>3, <2>4, SetLevelKeeps, QueryKeeps, MoveKeeps DEF ShortCommand
<1>2. CASE BeginScan \/ \E t \in Target : BeginIdentify(t)
  <2>1. target \in Target
    BY DEF Types, TypeOK
  <2> QED BY <1>2, <2>1, BeginKeeps DEF BeginScan, BeginIdentify
<1>3. CASE BusCheck \/ RequestCancel \/ UNCHANGED vars
  BY <1>a, <1>3 DEF BusCheck, RequestCancel, vars, gearVars, registryVars, historyVars, opVars
<1>4. CASE PollDue
  <2>1. target \in Target
    BY DEF Types, TypeOK
  <2> QED BY <1>3, <1>4, <2>1, BeginKeeps DEF PollDue
<1>5. CASE LongStep
  <2>1. CASE Blink
    BY <2>1, BlinkKeeps
  <2>2. CASE ScanPresent \/ ScanStatus \/ ScanLevel \/ ScanType \/ ScanNextType \/ ScanVersion
    <3>1. op' = "scan"
      BY <2>2 DEF ScanPresent, ScanStatus, ScanLevel, ScanType, ScanNextType, ScanVersion, Scanning,
                  ScanKeeps
    <3> QED BY <3>1 DEF Promise
  <2>3. CASE ScanEnd \/ PollEnd \/ PollLevel \/ PollStatus \/ BlinkEnd
    <3>1. op' # "identify"
      BY <2>3 DEF ScanEnd, PollEnd, PollLevel, PollStatus, BlinkEnd, Finish
    <3> QED BY <3>1 DEF Promise
  <2> QED BY <1>5, <2>1, <2>2, <2>3 DEF LongStep
<1>6. ASSUME NEW S, Switch(S) PROVE FALSE
  BY <1>6 DEF Switch
<1> QED BY <1>1, <1>2, <1>3, <1>4, <1>5, <1>6 DEF Next

\* Identify leaves no trace, however often it is cancelled and whatever is commanded, queried,
\* moved or removed while it blinks, as long as the mains stays on, but on the excused: the
\* gears of a blink of a group or of everyone, and of a blink of one gear the one whose level
\* was changed uncached or read back in the middle of it (identify_step).
THEOREM IdentifyLeavesNoTrace == ~Unstable => (Spec => LevelsAsCommanded)
<1> SUFFICES ASSUME ~Unstable PROVE Spec => LevelsAsCommanded
  OBVIOUS
<1> DEFINE AsWanted == op = "identify" /\ op' = "none"
                         => \A g \in Gear \ excused : wanted[g] \in {Unknown, level'[g]}
<1>1. Init => Promise
  BY DEF Init, Promise
<1>2. Types /\ Orderly /\ Promise /\ [Next]_vars => Promise'
  BY NextKeeps
<1>3. Types /\ Promise /\ [Next]_vars => [AsWanted]_vars
  <2> SUFFICES ASSUME Types, Promise, Next, op = "identify", op' = "none",
                      NEW g \in Gear \ excused, wanted[g] # Unknown
               PROVE  wanted[g] = level'[g]
    OBVIOUS
  <2>1. BlinkEnd
    <3>1. ASSUME UNCHANGED op PROVE FALSE
      BY <3>1
    <3>2. ~ShortCommand
      BY <3>1 DEF ShortCommand, SetLevel, On, QueryLevel, LevelToGroup, SetShortAddress,
                  RemoveShortAddress, BusCheck, opVars
    <3>3. ~BeginScan /\ ~PollDue /\ (\A t \in Target : ~BeginIdentify(t)) /\ ~RequestCancel
      BY <3>1 DEF BeginScan, PollDue, BeginIdentify, Begin, RequestCancel
    <3>4. \A S : ~Switch(S)
      BY <3>1 DEF Switch, opVars
    <3>5. ~(ScanPresent \/ ScanStatus \/ ScanLevel \/ ScanType \/ ScanNextType \/ ScanVersion)
      BY <3>1 DEF ScanPresent, ScanStatus, ScanLevel, ScanType, ScanNextType, ScanVersion, ScanKeeps
    <3>6. ~(ScanEnd \/ PollLevel \/ PollStatus \/ PollEnd \/ Blink)
      BY <3>1 DEF ScanEnd, PollLevel, PollStatus, PollEnd, Blink
    <3> QED BY <3>2, <3>3, <3>4, <3>5, <3>6 DEF Next, LongStep
  <2>2. level' = [h \in Gear |-> IF h \in Reached(target) THEN RestoredLevel(target) ELSE level[h]]
    BY <2>1 DEF BlinkEnd, Drive
  <2> QED BY <2>2 DEF Promise, Kept
<1> QED BY <1>1, <1>2, <1>3, OrderAlways, PTL DEF Spec, LevelsAsCommanded

=============================================================================
