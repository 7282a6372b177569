---------------------------- MODULE DtrOpsProofs ----------------------------
(***************************************************************************)
(* Theorems about DtrOps, for any gears, parameters and values, any number *)
(* of operations and of lost frames and replies: a configure that says ok  *)
(* has written what it lists, and an undisturbed read of the memory bank   *)
(* is right.                                                               *)
(***************************************************************************)
EXTENDS DtrOps, FiniteSetTheorems, WellFoundedInduction, TLAPS

LEMMA Sizes == MaxValue \in Nat /\ Bytes \in Nat /\ Bytes > 0 /\ MaxFaults \in Nat /\ 0 \in Value
  BY SizesAssumption DEF Value, Bytes

\* Every byte read has its place in the bank, and within a block the next one comes next.
LEMMA Locations ==
  /\ \A i \in 1..Bytes : Location(i) \in Value
  /\ \A i \in 1..Bytes : i < Bytes /\ i \notin BlockEnds => Location(i + 1) = Location(i) + 1
<1>1. ASSUME NEW i \in 1..Bytes PROVE Location(i) \in Value
  BY SizesAssumption DEF Bytes, Location, Value
<1>2. ASSUME NEW i \in 1..Bytes, i < Bytes, i \notin BlockEnds
      PROVE  Location(i + 1) = Location(i) + 1
  <2>1. i \in Nat /\ i > 1 /\ i # 1 + GtinBytes
    BY <1>2 DEF BlockEnds
  <2>2. CASE i < 1 + GtinBytes
    BY <2>1, <2>2, SizesAssumption DEF Location
  <2>3. CASE i > 1 + GtinBytes
    BY <2>1, <2>3, SizesAssumption DEF Location
  <2> QED BY <2>1, <2>2, <2>3, SizesAssumption
<1> QED BY <1>1, <1>2

LEMMA Params == Direct \subseteq Param /\ Stored \subseteq Param /\ Ignored \subseteq Param /\ FadeTime \in Param
                /\ Param \subseteq Nat /\ Named \subseteq Param
  BY ParamAssumption DEF Param

\* The list of jobs has a first one: its order is that of numbers.
LEMMA JobIs ==
  ASSUME left \subseteq Nat, left # {}
  PROVE  Job \in left
<1> DEFINE R == OpToRel(<, Nat)
<1>1. \E x \in left : \A y \in left : ~ (<<y, x>> \in R)
  BY NatLessThanWellFounded, WFMin
<1>2. \A x, y \in Nat : y < x => <<y, x>> \in R
  BY ZenonT(30) DEF OpToRel
<1> HIDE DEF R
<1>3. \E x \in left : \A y \in left : x <= y
  <2>1. PICK x \in left : \A y \in left : ~ (<<y, x>> \in R)
    BY <1>1
  <2>2. ASSUME NEW y \in left PROVE x <= y
    <3>1. x \in Nat /\ y \in Nat
      OBVIOUS
    <3>2. ~ (y < x)
      BY <1>2, <2>1, <3>1, Zenon
    <3> QED BY <3>1, <3>2
  <2> QED BY <2>2
<1> QED BY <1>3 DEF Job, Min

LEMMA WritingJob ==
  ASSUME TypeOK, left # {}
  PROVE  Job \in left /\ Job \in DOMAIN want /\ Job \in Param /\ want[Job] \in Value /\ Job \notin verified
<1>1. left \subseteq DOMAIN want /\ left \subseteq Nat /\ left \subseteq Param
  BY Params DEF TypeOK, Jobs
<1>2. Job \in left
  BY <1>1, JobIs
<1> QED BY <1>1, <1>2 DEF TypeOK

-----------------------------------------------------------------------------
(* Types, in two halves: what the bus task holds and what the gears hold. *)

TaskTypes ==
  /\ op \in {"none", "configure", "deep"}
  /\ DOMAIN want \subseteq Named /\ want \in [DOMAIN want -> Value]
  /\ left \subseteq Jobs /\ substep \in 0..2
  /\ verified \subseteq Jobs \ left /\ cancel \in BOOLEAN
  /\ outcome \in Outcome \cup {None} /\ reported \subseteq Jobs
  /\ identity \in Seq(Value) /\ Len(identity) <= Bytes
  /\ touched \subseteq {"dtr", "fade"}

GearTypes ==
  /\ dtr0 \in [Gear -> Value] /\ dtr1 \in [Gear -> {0, 1}]
  /\ param \in [Gear -> [Param -> Value]]
  /\ faults \in 0..MaxFaults

\* While bytes are read there is another one to read.
Types == TypeOK /\ (op = "deep" => Len(identity) < Bytes)

\* No value is asked for.
LEMMA Nothing == DOMAIN <<>> = {} /\ <<>> \in [DOMAIN <<>> -> Value]
  BY SMT

LEMMA Halves ==
  /\ TypeOK <=> TaskTypes /\ GearTypes
  /\ TypeOK' <=> TaskTypes' /\ GearTypes'
  BY DEF TypeOK, TaskTypes, GearTypes

LEMMA LoadTypes ==
  ASSUME GearTypes, NEW v \in Value, NEW D, Load0(v, D)
  PROVE  dtr0' \in [Gear -> Value] /\ dtr1' = dtr1
  BY DEF GearTypes, Load0

LEMMA Load1Types ==
  ASSUME GearTypes, NEW v \in {0, 1}, NEW D, Load1(v, D)
  PROVE  dtr1' \in [Gear -> {0, 1}] /\ dtr0' = dtr0
  BY DEF GearTypes, Load1

LEMMA WriteTypes ==
  ASSUME GearTypes, NEW S, NEW p \in Param, NEW v \in [Gear -> Value], Write(S, p, v)
  PROVE  /\ param' \in [Gear -> [Param -> Value]]
         /\ \A g \in Gear, q \in Param : q # p => param'[g][q] = param[g][q]
<1>1. \A g \in Gear : param[g] \in [Param -> Value] /\ v[g] \in Value
  BY DEF GearTypes
<1>2. param' = [g \in Gear |-> IF g \in S THEN [param[g] EXCEPT ![p] = v[g]] ELSE param[g]]
  BY DEF Write
<1>3. ASSUME NEW g \in Gear
      PROVE  /\ (IF g \in S THEN [param[g] EXCEPT ![p] = v[g]] ELSE param[g]) \in [Param -> Value]
             /\ \A q \in Param : q # p => param'[g][q] = param[g][q]
  BY <1>1, <1>2
<1> QED BY <1>2, <1>3

LEMMA CountTypes ==
  ASSUME faults \in 0..MaxFaults, NEW D, Missed(D), Count(D)
  PROVE  faults' \in 0..MaxFaults
  BY Sizes DEF Missed, Count

LEMMA HearsTypes ==
  ASSUME faults \in 0..MaxFaults, NEW v, NEW reply, Hears(v, reply)
  PROVE  faults' \in 0..MaxFaults
  BY Sizes DEF Hears

\* What configure's steps do to the gears and to the job they are at.
WriteSteps == LoadDtr0 \/ StoreDtr0 \/ WriteDirect \/ ReadBack

LEMMA GearStep ==
  ASSUME Types, [Next]_vars
  PROVE  GearTypes'
<1> USE Sizes, Params
<1>0. TypeOK /\ GearTypes /\ TaskTypes
  BY Halves DEF Types
<1>1. ASSUME NEW S \in SUBSET Gear, NEW v \in Value, LevelWithFade(S, v) PROVE GearTypes'
  <2>1. dtr0' \in [Gear -> Value] /\ dtr1' = dtr1
    BY <1>0, <1>1, LoadTypes DEF LevelWithFade
  <2>2. [g \in Gear |-> v] \in [Gear -> Value]
    OBVIOUS
  <2>3. param' \in [Gear -> [Param -> Value]]
    BY <1>0, <1>1, <2>2, WriteTypes DEF LevelWithFade
  <2> QED BY <1>0, <1>1, <2>1, <2>3 DEF GearTypes, LevelWithFade
<1>2. ASSUME NEW v \in Value, OtherLoad(v) PROVE GearTypes'
  <2>1. dtr0' \in [Gear -> Value] /\ dtr1' \in [Gear -> {0, 1}]
    BY <1>0, <1>2, LoadTypes, Load1Types DEF OtherLoad, GearTypes
  <2> QED BY <1>0, <1>2, <2>1 DEF GearTypes, OtherLoad
<1>3. ASSUME LoadDtr0 PROVE GearTypes'
  <2>1. want[Job] \in Value
    BY <1>0, <1>3, WritingJob DEF LoadDtr0, Writing
  <2>2. dtr0' \in [Gear -> Value] /\ dtr1' = dtr1 /\ faults' \in 0..MaxFaults
    BY <1>0, <1>3, <2>1, LoadTypes, CountTypes DEF LoadDtr0, GearTypes
  <2> QED BY <1>0, <1>3, <2>2 DEF GearTypes, LoadDtr0
<1>4. ASSUME StoreDtr0 PROVE GearTypes'
  <2>1. PICK D \in SUBSET Target : Missed(D) /\ Count(D) /\ Write(Target \ D, Job, dtr0)
    BY <1>4 DEF StoreDtr0
  <2>2. Job \in Param
    BY <1>0, <1>4, WritingJob DEF StoreDtr0, Writing
  <2>3. param' \in [Gear -> [Param -> Value]] /\ faults' \in 0..MaxFaults
    BY <1>0, <2>1, <2>2, WriteTypes, CountTypes DEF GearTypes
  <2> QED BY <1>0, <1>4, <2>3 DEF GearTypes, StoreDtr0, dtrVars
<1>5. ASSUME WriteDirect PROVE GearTypes'
  <2>1. PICK D \in SUBSET Target :
          Missed(D) /\ Count(D) /\ Write(Target \ D, Job, [g \in Gear |-> want[Job]])
    BY <1>5 DEF WriteDirect
  <2>2. Job \in Param /\ [g \in Gear |-> want[Job]] \in [Gear -> Value]
    BY <1>0, <1>5, WritingJob DEF WriteDirect, Writing
  <2>3. param' \in [Gear -> [Param -> Value]] /\ faults' \in 0..MaxFaults
    BY <1>0, <2>1, <2>2, WriteTypes, CountTypes DEF GearTypes
  <2> QED BY <1>0, <1>5, <2>3 DEF GearTypes, WriteDirect, dtrVars
<1>6. ASSUME ReadBack PROVE GearTypes'
  <2>1. faults' \in 0..MaxFaults
    BY <1>0, <1>6, HearsTypes DEF ReadBack, GearTypes
  <2> QED BY <1>0, <1>6, <2>1 DEF GearTypes, ReadBack, dtrVars
<1>7. ASSUME SelectBank PROVE GearTypes'
  <2>1. dtr1' \in [Gear -> {0, 1}] /\ dtr0' = dtr0 /\ faults' \in 0..MaxFaults
    BY <1>0, <1>7, Load1Types, CountTypes DEF SelectBank, GearTypes
  <2> QED BY <1>0, <1>7, <2>1 DEF GearTypes, SelectBank, ReadKeeps
<1>8. ASSUME SetOffset PROVE GearTypes'
  <2>1. dtr0' \in [Gear -> Value] /\ dtr1' = dtr1 /\ faults' \in 0..MaxFaults
    <3>1. Location(Len(identity) + 1) \in Value
      <4>1. Len(identity) \in Nat /\ Len(identity) < Bytes
        BY <1>0, <1>8 DEF SetOffset, Reading, TaskTypes, Types
      <4>2. Len(identity) + 1 \in 1..Bytes
        BY <4>1
      <4> QED BY <4>2, Locations
    <3> QED BY <1>0, <1>8, <3>1, LoadTypes, CountTypes DEF SetOffset, GearTypes
  <2> QED BY <1>0, <1>8, <2>1 DEF GearTypes, SetOffset, ReadKeeps
<1>9. ASSUME ReadByte PROVE GearTypes'
  <2>1. faults' \in 0..MaxFaults
    BY <1>0, <1>9, HearsTypes DEF ReadByte, GearTypes
  <2>2. dtr0' \in [Gear -> Value]
    BY <1>0, <1>9 DEF ReadByte, GearTypes, Value
  <2> QED BY <1>0, <1>9, <2>1, <2>2 DEF GearTypes, ReadByte, ReadKeeps
<1>10. ASSUME NEW P \in SUBSET Named, NEW v \in [P -> Value], BeginConfigure(P, v) PROVE GearTypes'
  BY <1>0, <1>10 DEF GearTypes, BeginConfigure, dtrVars
<1>11. ASSUME BeginDeep \/ RequestCancel \/ FinishConfigure \/ CancelDeep \/ UNCHANGED vars PROVE GearTypes'
  BY <1>0, <1>11 DEF GearTypes, BeginDeep, RequestCancel, FinishConfigure, CancelDeep, dtrVars, vars
<1> QED BY <1>1, <1>2, <1>3, <1>4, <1>5, <1>6, <1>7, <1>8, <1>9, <1>10, <1>11 DEF Next

LEMMA TaskStep ==
  ASSUME Types, [Next]_vars
  PROVE  TaskTypes' /\ (op' = "deep" => Len(identity') < Bytes)
<1> USE Sizes, Params
<1> DEFINE Good == TaskTypes' /\ (op' = "deep" => Len(identity') < Bytes)
<1>0. TypeOK /\ TaskTypes /\ (op = "deep" => Len(identity) < Bytes)
  BY Halves DEF Types
<1>1. ASSUME NEW S \in SUBSET Gear, NEW v \in Value, LevelWithFade(S, v) \/ OtherLoad(v)
      PROVE  Good
  BY <1>0, <1>1 DEF TaskTypes, LevelWithFade, OtherLoad, opVars, Jobs
<1>2. ASSUME NEW P \in SUBSET Named, NEW v \in [P -> Value], BeginConfigure(P, v) PROVE Good
  <2>1. want' = v /\ DOMAIN want' = P /\ left' = Jobs' /\ verified' = {} /\ touched' = {}
        /\ substep' = 0 /\ cancel' = FALSE /\ identity' = <<>> /\ reported' = {}
    BY <1>2 DEF BeginConfigure, Cleared
  <2>2. op' \in {"none", "configure", "deep"} /\ outcome' \in Outcome \cup {None}
    BY <1>2 DEF BeginConfigure, Outcome
  <2>3. op' # "deep" /\ identity' \in Seq(Value) /\ Len(identity') = 0
    BY <1>2, <2>1 DEF BeginConfigure
  <2>4. DOMAIN want' \subseteq Named /\ want' \in [DOMAIN want' -> Value]
    BY <2>1
  <2>5. Len(identity') <= Bytes
    BY <2>3
  <2>6. left' \subseteq Jobs' /\ verified' \subseteq Jobs' \ left' /\ touched' \subseteq {"dtr", "fade"}
        /\ substep' \in 0..2 /\ cancel' \in BOOLEAN /\ reported' \subseteq Jobs'
    <3>1. 0 \in 0..2
      OBVIOUS
    <3> QED BY <2>1, <3>1, Zenon
  <2>7. TaskTypes'
    BY <2>2, <2>3, <2>4, <2>5, <2>6, Zenon DEF TaskTypes
  <2> QED BY <2>3, <2>7
<1>3. ASSUME BeginDeep PROVE Good
  <2>1. /\ op' = "deep" /\ want' = <<>> /\ left' = {} /\ verified' = {} /\ touched' = {}
        /\ substep' = 0 /\ cancel' = FALSE /\ identity' = <<>> /\ outcome' = None
        /\ reported' = {}
    BY <1>3 DEF BeginDeep, Cleared
  <2>2. DOMAIN want' \subseteq Named /\ want' \in [DOMAIN want' -> Value]
    BY <2>1, Nothing
  <2>3. identity' \in Seq(Value) /\ Len(identity') = 0
    BY <2>1
  <2>4. left' \subseteq Jobs' /\ verified' \subseteq Jobs' \ left' /\ touched' \subseteq {"dtr", "fade"}
        /\ substep' \in 0..2 /\ cancel' \in BOOLEAN /\ Len(identity') < Bytes /\ Len(identity') <= Bytes
        /\ op' \in {"none", "configure", "deep"} /\ outcome' \in Outcome \cup {None}
        /\ reported' \subseteq Jobs'
    <3>1. left' \subseteq Jobs' /\ verified' \subseteq Jobs' \ left' /\ touched' \subseteq {"dtr", "fade"}
          /\ op' \in {"none", "configure", "deep"} /\ outcome' \in Outcome \cup {None}
          /\ cancel' \in BOOLEAN /\ reported' \subseteq Jobs'
      BY <2>1, Zenon
    <3>2. substep' \in 0..2
      <4>1. 0 \in 0..2
        OBVIOUS
      <4> QED BY <2>1, <4>1, Zenon
    <3> QED BY <2>3, <3>1, <3>2
  <2>5. TaskTypes'
    BY <2>2, <2>3, <2>4, Zenon DEF TaskTypes
  <2> QED BY <2>4, <2>5
<1>4. ASSUME RequestCancel \/ CancelDeep \/ FinishConfigure PROVE Good
  <2>1. UNCHANGED <<want, left, substep, verified, identity, touched>> /\ cancel' \in BOOLEAN
        /\ Jobs' = Jobs
    BY <1>0, <1>4 DEF RequestCancel, CancelDeep, FinishConfigure, Jobs, TaskTypes
  <2>2. op' \in {op, "none"} /\ outcome' \in Outcome \cup {None}
    BY <1>0, <1>4 DEF RequestCancel, CancelDeep, FinishConfigure, Outcome, TaskTypes
  <2>3. reported' \subseteq Jobs
    BY <1>0, <1>4 DEF RequestCancel, CancelDeep, FinishConfigure, Listing, TaskTypes
  <2> QED BY <1>0, <2>1, <2>2, <2>3 DEF TaskTypes
<1>5. ASSUME LoadDtr0 \/ StoreDtr0 \/ WriteDirect PROVE Good
  BY <1>0, <1>5 DEF TaskTypes, LoadDtr0, StoreDtr0, WriteDirect, Keeps, Jobs
<1>6. ASSUME ReadBack PROVE Good
  <2>1. Job \in left
    BY <1>0, <1>6, WritingJob DEF ReadBack, Writing
  <2>2. left' = left \ {Job} /\ verified' \subseteq verified \cup {Job} /\ substep' = 0
        /\ UNCHANGED <<op, want, cancel, outcome, reported, identity, touched>>
    BY <1>6 DEF ReadBack, Keeps
  <2>3. Jobs' = Jobs
    BY <2>2 DEF Jobs
  <2> QED BY <1>0, <2>1, <2>2, <2>3 DEF TaskTypes
<1>7. ASSUME SelectBank \/ SetOffset PROVE Good
  BY <1>0, <1>7 DEF TaskTypes, SelectBank, SetOffset, ReadKeeps, Jobs
<1>8. ASSUME ReadByte PROVE Good
  <2>1. PICK reply \in Value \cup {Silence} :
          identity' = Append(identity, IF reply = Silence THEN 0 ELSE reply)
    BY <1>8 DEF ReadByte
  <2>2. (IF reply = Silence THEN 0 ELSE reply) \in Value
    OBVIOUS
  <2>3. identity' \in Seq(Value) /\ Len(identity') = Len(identity) + 1
    BY <1>0, <2>1, <2>2 DEF TaskTypes
  <2>4. UNCHANGED <<want, left, verified, cancel, reported, touched>> /\ op = "deep" /\ Jobs' = Jobs
        /\ substep' \in 0..2
    BY <1>8 DEF ReadByte, ReadKeeps, Reading, Jobs
  <2>5. Len(identity) + 1 <= Bytes /\ Len(identity) \in Nat
    BY <1>0, <2>4 DEF TaskTypes
  <2>6. /\ op' \in {"none", "deep"} /\ outcome' \in Outcome \cup {None}
        /\ op' = "deep" => Len(identity) + 1 # Bytes
    BY <1>0, <1>8, <2>4 DEF ReadByte, LastByte, Outcome, TaskTypes
  <2> QED BY <1>0, <2>3, <2>4, <2>5, <2>6 DEF TaskTypes
<1>9. ASSUME UNCHANGED vars PROVE Good
  BY <1>0, <1>9 DEF TaskTypes, vars, opVars, Jobs
<1> QED BY <1>1, <1>2, <1>3, <1>4, <1>5, <1>6, <1>7, <1>8, <1>9 DEF Next

LEMMA TypesInit == Init => Types
<1> SUFFICES ASSUME Init PROVE Types
  OBVIOUS
<1> USE Sizes, Params, Nothing
<1>1. GearTypes
  BY DEF Init, GearTypes
<1>2. /\ op = "none" /\ want = <<>> /\ left = {} /\ verified = {} /\ touched = {} /\ outcome = None
      /\ reported = {}
      /\ substep = 0 /\ identity = <<>> /\ cancel \in BOOLEAN
  BY Zenon DEF Init
<1>3. DOMAIN want \subseteq Named /\ want \in [DOMAIN want -> Value] /\ substep \in 0..2
      /\ identity \in Seq(Value) /\ Len(identity) <= Bytes
  BY <1>2
<1>4. TaskTypes
  BY <1>2, <1>3 DEF TaskTypes
<1> QED BY <1>1, <1>2, <1>4, Halves DEF Types

LEMMA TypesStep == Types /\ [Next]_vars => Types'
  BY GearStep, TaskStep, Halves DEF Types

LEMMA AlwaysTyped == Spec => []Types
<1> QED BY TypesInit, TypesStep, PTL DEF Spec

\* Whatever the queue lets in between two steps and whatever is lost, neither operation
\* steps past its end: a job written is one that was asked for and is not left to do, and no
\* byte is read once the last one was.
THEOREM TypeCorrect == Spec => []TypeOK
  BY AlwaysTyped, PTL DEF Types

-----------------------------------------------------------------------------
(* Configure: what verified is written. *)

Alone == Cardinality(Target) = 1

LEMMA OneTarget ==
  ASSUME Alone
  PROVE  \E t \in Gear : Target = {t}
<1>1. IsFiniteSet(Target) /\ Target \subseteq Gear
  BY GearAssumption, FS_Subset
<1>2. \E t : Target = {t}
  BY <1>1, FS_Singleton DEF Alone
<1> QED BY <1>1, <1>2

\* What gear g holds of parameter p is what was asked for, or somebody set the fade time.
Holds(g, p) == param[g][p] = want[p] \/ (p = FadeTime /\ "fade" \in touched)

Written == op = "configure" => \A g \in Target : \A p \in verified : Holds(g, p)

\* A step that keeps the gears' values of the verified jobs and the operation's request.
LEMMA HoldsKept ==
  ASSUME TypeOK, Written, op = "configure", UNCHANGED <<want, verified, touched>>,
         \A g \in Target, p \in verified : param'[g][p] = param[g][p]
  PROVE  Written'
  BY DEF Written, Holds

LEMMA WrittenStep ==
  ASSUME Types, Alone, Written, [Next]_vars
  PROVE  Written'
<1> USE Params
<1>0. TypeOK /\ GearTypes /\ TaskTypes /\ Target \subseteq Gear /\ verified \subseteq Param
      /\ verified \cap left = {}
  BY Halves, GearAssumption DEF Types, TaskTypes, Jobs
<1>1. ASSUME NEW S \in SUBSET Gear, NEW v \in Value, LevelWithFade(S, v) PROVE Written'
  <2>1. [g \in Gear |-> v] \in [Gear -> Value]
    OBVIOUS
  <2>2. /\ \A g \in Gear, q \in Param : q # FadeTime => param'[g][q] = param[g][q]
        /\ touched' = {"dtr", "fade"} /\ UNCHANGED <<op, want, verified>>
    BY <1>0, <1>1, <2>1, WriteTypes DEF LevelWithFade, opVars
  <2> QED BY <1>0, <2>2 DEF Written, Holds
<1>2. ASSUME NEW v \in Value, OtherLoad(v) PROVE Written'
  BY <1>2 DEF OtherLoad, opVars, Written, Holds
<1>3. ASSUME NEW P \in SUBSET Named, NEW v \in [P -> Value], BeginConfigure(P, v) PROVE Written'
  BY <1>3 DEF BeginConfigure, Cleared, Written
<1>4. ASSUME BeginDeep \/ FinishConfigure PROVE Written'
  BY <1>4 DEF BeginDeep, FinishConfigure, Written
<1>5. ASSUME RequestCancel \/ CancelDeep \/ LoadDtr0 \/ UNCHANGED vars PROVE Written'
  BY <1>5 DEF RequestCancel, CancelDeep, LoadDtr0, Keeps, vars, opVars, Written, Holds
<1>6. ASSUME SelectBank \/ SetOffset \/ ReadByte PROVE Written'
  <2>1. op = "deep" /\ op' \in {"none", "deep"}
    BY <1>6 DEF SelectBank, SetOffset, ReadByte, Reading
  <2> QED BY <2>1 DEF Written
<1>7. ASSUME StoreDtr0 \/ WriteDirect PROVE Written'
  <2>1. op = "configure" /\ Job \in left /\ Job \in Param /\ UNCHANGED <<want, verified, touched>>
    BY <1>0, <1>7, WritingJob DEF StoreDtr0, WriteDirect, Writing, Keeps
  <2>2. \A g \in Gear, q \in Param : q # Job => param'[g][q] = param[g][q]
    <3>1. CASE StoreDtr0
      <4>1. dtr0 \in [Gear -> Value]
        BY <1>0 DEF GearTypes
      <4> QED BY <1>0, <2>1, <3>1, <4>1, WriteTypes DEF StoreDtr0
    <3>2. CASE WriteDirect
      <4>1. [g \in Gear |-> want[Job]] \in [Gear -> Value]
        BY <1>0, <3>2, WritingJob DEF WriteDirect, Writing
      <4> QED BY <1>0, <2>1, <3>2, <4>1, WriteTypes DEF WriteDirect
    <3> QED BY <1>7, <3>1, <3>2
  <2>3. Job \notin verified
    BY <1>0, <2>1
  <2> QED BY <1>0, <2>1, <2>2, <2>3, HoldsKept
<1>8. ASSUME ReadBack PROVE Written'
  <2>1. PICK reply \in Value \cup {Silence} :
          /\ Hears([g \in Gear |-> param[g][Job]], reply)
          /\ verified' = IF VerifyReply(Job, reply) THEN verified \cup {Job} ELSE verified
    BY <1>8 DEF ReadBack
  <2>2. /\ want[Job] \in Value /\ op = "configure" /\ UNCHANGED <<op, want, touched, param>>
    BY <1>0, <1>8, WritingJob DEF ReadBack, Writing, Keeps
  <2>3. CASE VerifyReply(Job, reply)
    <3>1. reply = want[Job] /\ reply # Silence
      BY <2>2, <2>3, NamesAssumption DEF VerifyReply
    <3>2. reply \in {[g \in Gear |-> param[g][Job]][h] : h \in Target}
      BY <2>1, <3>1 DEF Hears, Heard, Alone
    <3>3. PICK t \in Gear : Target = {t}
      BY OneTarget
    <3>4. reply = param[t][Job]
      BY <3>2, <3>3
    <3> QED BY <2>1, <2>2, <2>3, <3>1, <3>3, <3>4 DEF Written, Holds
  <2>4. CASE ~VerifyReply(Job, reply)
    BY <2>1, <2>2, <2>4 DEF Written, Holds
  <2> QED BY <2>3, <2>4
<1> QED BY <1>1, <1>2, <1>3, <1>4, <1>5, <1>6, <1>7, <1>8 DEF Next

\* While an operation runs its outcome is open.
Undecided == op # "none" => outcome = None

LEMMA UndecidedStep ==
  ASSUME Undecided, [Next]_vars
  PROVE  Undecided'
<1>1. ASSUME NEW S \in SUBSET Gear, NEW v \in Value, LevelWithFade(S, v) \/ OtherLoad(v)
      PROVE  Undecided'
  BY <1>1 DEF Undecided, LevelWithFade, OtherLoad, opVars
<1>2. ASSUME NEW P \in SUBSET Named, NEW v \in [P -> Value], BeginConfigure(P, v) PROVE Undecided'
  BY <1>2 DEF Undecided, BeginConfigure
<1>3. ASSUME LoadDtr0 \/ StoreDtr0 \/ WriteDirect \/ ReadBack PROVE Undecided'
  BY <1>3 DEF Undecided, LoadDtr0, StoreDtr0, WriteDirect, ReadBack, Keeps
<1>4. ASSUME SelectBank \/ SetOffset \/ ReadByte \/ BeginDeep PROVE Undecided'
  BY <1>4 DEF Undecided, SelectBank, SetOffset, ReadByte, BeginDeep, Reading
<1>5. ASSUME RequestCancel \/ CancelDeep \/ FinishConfigure \/ UNCHANGED vars PROVE Undecided'
  BY <1>5 DEF Undecided, RequestCancel, CancelDeep, FinishConfigure, vars, opVars
<1> QED BY <1>1, <1>2, <1>3, <1>4, <1>5 DEF Next

LEMMA AlwaysUndecided == Spec => []Undecided
<1>1. Init => Undecided
  BY DEF Init, Undecided
<1> QED BY <1>1, UndecidedStep, PTL DEF Spec

\* Only the end of a configure says ok.
LEMMA FinishedOk ==
  ASSUME Undecided, Next, op = "configure", outcome' = "ok"
  PROVE  FinishConfigure
<1>1. outcome' # outcome
  BY NamesAssumption DEF Undecided, Outcome
<1>2. ASSUME NEW S \in SUBSET Gear, NEW v \in Value, LevelWithFade(S, v) \/ OtherLoad(v)
      PROVE  FALSE
  BY <1>1, <1>2 DEF LevelWithFade, OtherLoad, opVars
<1>3. ASSUME NEW P \in SUBSET Named, NEW v \in [P -> Value], BeginConfigure(P, v) PROVE FALSE
  BY <1>3 DEF BeginConfigure
<1>4. ASSUME LoadDtr0 \/ StoreDtr0 \/ WriteDirect \/ ReadBack \/ RequestCancel PROVE FALSE
  BY <1>1, <1>4 DEF LoadDtr0, StoreDtr0, WriteDirect, ReadBack, Keeps, RequestCancel
<1>5. ASSUME SelectBank \/ SetOffset \/ ReadByte \/ BeginDeep \/ CancelDeep PROVE FALSE
  BY <1>5 DEF SelectBank, SetOffset, ReadByte, BeginDeep, CancelDeep, Reading
<1> QED BY <1>2, <1>3, <1>4, <1>5 DEF Next

\* A configure of one gear that reports ok has written every parameter it was asked to, but
\* for the jobs its result has no memory to list, for any parameters and values, whatever was lost and whatever other commands left in DTR0
\* between a load and its store: an answer is believed only for the job it was asked for, and
\* no later job or command moves that parameter unseen.  The parameters that configure takes
\* and never writes are left out: of those it says ok without a job (verify_reply, finish).
THEOREM OkIsWritten ==
  ASSUME Named \cap Ignored = {}
  PROVE  Spec => OkMeansWritten
<1>1. CASE Alone
  <2>1. Init => Written
    BY DEF Init, Written
  <2>2. Types /\ Written /\ [Next]_vars => Written'
    BY <1>1, WrittenStep
  <2>3. Spec => []Written
    BY <2>1, <2>2, AlwaysTyped, PTL DEF Spec
  <2>4. Types /\ Undecided /\ Written /\ [Next]_vars
          => [op = "configure" /\ outcome' = "ok" /\ Cardinality(Target) = 1
                => \A g \in Target : \A p \in DOMAIN want \ (Jobs \ reported') :
                     param[g][p] = want[p] \/ (p = FadeTime /\ "fade" \in touched)]_vars
    <3> SUFFICES ASSUME Types, Undecided, Written, Next, op = "configure", outcome' = "ok"
                 PROVE  \A g \in Target : \A p \in DOMAIN want \ (Jobs \ reported') : Holds(g, p)
      BY DEF Holds
    <3>1. FinishConfigure
      BY FinishedOk
    <3>2. DOMAIN want \ (Jobs \ reported') \subseteq verified
      <4>1. outcome' # "mismatch" /\ outcome' # "cancelled"
        OBVIOUS
      <4>2. reported' \subseteq verified
        BY <3>1, <4>1 DEF FinishConfigure, AllOk
      <4>3. Jobs = DOMAIN want
        BY DEF Types, TypeOK, Jobs
      <4> QED BY <4>2, <4>3
    <3> QED BY <3>2 DEF Written
  <2> QED BY <2>3, <2>4, AlwaysTyped, AlwaysUndecided, PTL DEF Spec, OkMeansWritten
<1>2. CASE ~Alone
  <2>1. [Next]_vars
          => [op = "configure" /\ outcome' = "ok" /\ Cardinality(Target) = 1
                => \A g \in Target : \A p \in DOMAIN want \ (Jobs \ reported') :
                     param[g][p] = want[p] \/ (p = FadeTime /\ "fade" \in touched)]_vars
    BY <1>2 DEF Alone
  <2> QED BY <2>1, PTL DEF Spec, OkMeansWritten
<1> QED BY <1>1, <1>2

-----------------------------------------------------------------------------
(* The deep scan: what is read is the bank. *)

\* What the addressed gear's registers hold at each place of the read, and what was read.
Quiet == "dtr" \notin touched /\ faults = 0

BankSoFar ==
  op = "deep" /\ Quiet =>
    /\ substep > 0 => \A t \in Target : dtr1[t] = 0
    /\ substep = 2 => \A t \in Target : dtr0[t] = Location(Len(identity) + 1)
    /\ \A i \in 1..Len(identity) : identity[i] = Location(i)

ReadInv == BankSoFar /\ IdentityIsBank0

LEMMA NoFault ==
  ASSUME faults \in Nat, NEW D, Count(D), faults' = 0
  PROVE  D = {} /\ faults = 0
  BY DEF Count

LEMMA ReadStep ==
  ASSUME Types, Undecided, Alone, ReadInv, [Next]_vars
  PROVE  ReadInv'
<1> USE Sizes
<1>0. /\ TypeOK /\ GearTypes /\ TaskTypes /\ Target \subseteq Gear /\ faults \in Nat
      /\ op = "deep" => Len(identity) < Bytes
      /\ identity \in Seq(Value) /\ Len(identity) \in Nat
  BY Halves, GearAssumption DEF Types, TaskTypes, GearTypes
<1>1. ASSUME NEW S \in SUBSET Gear, NEW v \in Value, LevelWithFade(S, v) \/ OtherLoad(v)
      PROVE  ReadInv'
  <2>1. "dtr" \in touched'
    BY <1>1 DEF LevelWithFade, OtherLoad
  <2> QED BY <2>1 DEF ReadInv, BankSoFar, IdentityIsBank0, Quiet
<1>2. ASSUME NEW P \in SUBSET Named, NEW v \in [P -> Value], BeginConfigure(P, v) PROVE ReadInv'
  <2>1. op' # "deep" /\ outcome' # "read"
    BY <1>2, NamesAssumption DEF BeginConfigure, Outcome
  <2> QED BY <2>1 DEF ReadInv, BankSoFar, IdentityIsBank0
<1>3. ASSUME BeginDeep PROVE ReadInv'
  <2>1. substep' = 0 /\ identity' = <<>> /\ outcome' # "read"
    BY <1>3, NamesAssumption DEF BeginDeep, Cleared, Outcome
  <2> QED BY <2>1 DEF ReadInv, BankSoFar, IdentityIsBank0
<1>4. ASSUME LoadDtr0 \/ StoreDtr0 \/ WriteDirect \/ ReadBack PROVE ReadInv'
  <2>1. op = "configure" /\ UNCHANGED <<op, outcome>> /\ outcome # "read"
    BY <1>4, NamesAssumption
    DEF LoadDtr0, StoreDtr0, WriteDirect, ReadBack, Keeps, Writing, Undecided, Outcome
  <2> QED BY <2>1 DEF ReadInv, BankSoFar, IdentityIsBank0
<1>5. ASSUME FinishConfigure \/ CancelDeep PROVE ReadInv'
  <2>1. op' = "none" /\ outcome' # "read"
    BY <1>5 DEF FinishConfigure, CancelDeep
  <2> QED BY <2>1 DEF ReadInv, BankSoFar, IdentityIsBank0
<1>6. ASSUME RequestCancel \/ UNCHANGED vars PROVE ReadInv'
  BY <1>6 DEF RequestCancel, vars, opVars, dtrVars, ReadInv, BankSoFar, IdentityIsBank0, Quiet
<1>7. ASSUME SelectBank \/ SetOffset PROVE ReadInv'
  <2>1. op = "deep" /\ UNCHANGED <<op, outcome, identity, touched>> /\ outcome # "read"
    BY <1>7, NamesAssumption DEF SelectBank, SetOffset, Reading, ReadKeeps, Undecided, Outcome
  <2>2. ASSUME Quiet' PROVE BankSoFar'
    <3>1. CASE SelectBank
      <4>1. PICK D \in SUBSET Gear : Count(D) /\ Load1(0, D)
        BY <3>1 DEF SelectBank
      <4>2. D = {} /\ Quiet
        BY <1>0, <2>1, <2>2, <4>1, NoFault DEF Quiet
      <4>3. \A t \in Target : dtr1'[t] = 0
        BY <1>0, <4>1, <4>2 DEF Load1
      <4>4. substep = 0 /\ substep' = 1
        BY <3>1 DEF SelectBank
      <4> QED BY <2>1, <4>2, <4>3, <4>4 DEF ReadInv, BankSoFar
    <3>2. CASE SetOffset
      <4>1. PICK D \in SUBSET Gear : Count(D) /\ Load0(Location(Len(identity) + 1), D)
        BY <3>2 DEF SetOffset
      <4>2. D = {} /\ Quiet
        BY <1>0, <2>1, <2>2, <4>1, NoFault DEF Quiet
      <4>3. \A t \in Target : dtr0'[t] = Location(Len(identity) + 1) /\ dtr1' = dtr1
        BY <1>0, <4>1, <4>2 DEF Load0
      <4>4. substep = 1 /\ substep' = 2
        BY <3>2 DEF SetOffset
      <4>5. \A t \in Target : dtr1[t] = 0
        BY <2>1, <4>2, <4>4 DEF ReadInv, BankSoFar
      <4> QED BY <2>1, <4>2, <4>3, <4>4, <4>5 DEF ReadInv, BankSoFar
    <3> QED BY <1>7, <3>1, <3>2
  <2> QED BY <2>1, <2>2 DEF ReadInv, BankSoFar, IdentityIsBank0
<1>8. ASSUME ReadByte PROVE ReadInv'
  <2> DEFINE n == Len(identity)
  <2>1. PICK reply \in Value \cup {Silence} :
          /\ Hears([g \in Gear |-> ByteAt(g)], reply)
          /\ identity' = Append(identity, IF reply = Silence THEN 0 ELSE reply)
    BY <1>8 DEF ReadByte
  <2>2. /\ op = "deep" /\ substep = 2 /\ UNCHANGED <<touched, dtr1>>
        /\ substep' = IF Len(identity') \in BlockEnds THEN 1 ELSE 2
        /\ IF n + 1 = Bytes THEN op' = "none" /\ outcome' = "read" ELSE UNCHANGED <<op, outcome>>
        /\ dtr0' = [g \in Gear |-> IF g \in Target /\ dtr1[g] = 0 /\ dtr0[g] < MaxValue
                                   THEN dtr0[g] + 1 ELSE dtr0[g]]
    BY <1>8 DEF ReadByte, Reading, ReadKeeps, LastByte
  <2>3. outcome # "read"
    BY <2>2, NamesAssumption DEF Undecided, Outcome
  <2>4. ASSUME Quiet'
        PROVE  /\ \A t \in Target : dtr1'[t] = 0
               /\ n + 1 < Bytes /\ n + 1 \notin BlockEnds => \A t \in Target : dtr0'[t] = Location(n + 2)
               /\ identity' \in Seq(Value) /\ Len(identity') = n + 1
               /\ \A i \in 1..(n + 1) : identity'[i] = Location(i)
    <3>1. Quiet /\ faults' = faults
      BY <1>0, <2>1, <2>2, <2>4 DEF Quiet, Hears
    <3>2. /\ \A t \in Target : dtr1[t] = 0 /\ dtr0[t] = Location(n + 1)
          /\ \A i \in 1..n : identity[i] = Location(i)
      BY <2>2, <3>1 DEF ReadInv, BankSoFar
    <3>3. PICK t \in Gear : Target = {t}
      BY OneTarget
    <3>4. reply \in {[g \in Gear |-> ByteAt(g)][h] : h \in Target}
      <4>1. reply \in Heard([g \in Gear |-> ByteAt(g)])
        BY <1>0, <2>1, <3>1 DEF Hears
      <4>2. Cardinality(Target) = 1
        BY DEF Alone
      <4> QED BY <4>1, <4>2, Zenon DEF Heard
    <3>5. reply = Location(n + 1)
      BY <3>2, <3>3, <3>4 DEF ByteAt
    <3>6. n < Bytes /\ n \in Nat /\ n + 1 \in 1..Bytes /\ Location(n + 1) \in Value
      BY <1>0, <2>2, Locations
    <3>7. identity' = Append(identity, Location(n + 1))
      BY <2>1, <3>5, <3>6, NamesAssumption
    <3>8. dtr0 \in [Gear -> Value]
      BY <1>0 DEF GearTypes
    <3>9. ASSUME n + 1 < Bytes, n + 1 \notin BlockEnds PROVE dtr0'[t] = Location(n + 2)
      <4>1. n + 2 \in 1..Bytes /\ n + 2 = (n + 1) + 1
        BY <3>6, <3>9
      <4>2. Location(n + 2) = Location(n + 1) + 1 /\ Location(n + 2) \in Value
        BY <3>6, <3>9, <4>1, Locations
      <4>3. Location(n + 1) < MaxValue
        BY <3>6, <4>2 DEF Value
      <4>4. dtr0[t] = Location(n + 1) /\ dtr1[t] = 0 /\ t \in Target
        BY <3>2, <3>3
      <4> HIDE DEF n
      <4> QED BY <2>2, <3>3, <4>2, <4>3, <4>4
    <3>10. identity' \in Seq(Value) /\ Len(identity') = n + 1
      BY <1>0, <3>6, <3>7
    <3>11. \A i \in 1..(n + 1) : identity'[i] = Location(i)
      BY <1>0, <3>2, <3>6, <3>7
    <3> QED BY <2>2, <3>2, <3>3, <3>9, <3>10, <3>11
  <2>5. n + 1 <= Bytes /\ n \in Nat
    BY <1>0, <2>2
  <2>6. CASE n + 1 = Bytes
    <3>1. op' = "none" /\ outcome' = "read"
      BY <2>2, <2>6
    <3>2. ASSUME Quiet' PROVE identity' = [i \in 1..Bytes |-> Location(i)]
      BY <2>4, <2>6, <3>2
    <3> QED BY <3>1, <3>2 DEF ReadInv, BankSoFar, IdentityIsBank0, Quiet
  <2>7. CASE n + 1 < Bytes
    <3>1. UNCHANGED <<op, outcome>>
      BY <2>2, <2>5, <2>7
    <3>2. ASSUME Quiet' PROVE BankSoFar'
      <4>1. /\ \A t \in Target : dtr1'[t] = 0
            /\ n + 1 \notin BlockEnds => \A t \in Target : dtr0'[t] = Location(n + 2)
            /\ Len(identity') = n + 1
            /\ \A i \in 1..(n + 1) : identity'[i] = Location(i)
        BY <2>4, <2>7, <3>2
      <4>2. n + 2 = (n + 1) + 1 /\ (substep' = 2 => n + 1 \notin BlockEnds)
        BY <2>2, <2>5, <4>1
      <4> HIDE DEF n
      <4> QED BY <4>1, <4>2 DEF BankSoFar
    <3> QED BY <2>3, <3>1, <3>2 DEF ReadInv, BankSoFar, IdentityIsBank0
  <2> QED BY <2>5, <2>6, <2>7
<1> QED BY <1>1, <1>2, <1>3, <1>4, <1>5, <1>6, <1>7, <1>8 DEF Next

\* The identity a deep scan of one gear records is that of memory bank 0, for any offsets and
\* lengths of its blocks, if nothing was lost and no other command moved the registers
\* while it was read: what commands left there before, and what an earlier scan that was
\* cancelled in the middle of the bank left there, does no harm (step_scan_deep).
THEOREM IdentityRead ==
  ASSUME Alone
  PROVE  Spec => []IdentityIsBank0
<1>1. Init => ReadInv
  BY NamesAssumption DEF Init, ReadInv, BankSoFar, IdentityIsBank0, Outcome
<1>2. Types /\ Undecided /\ ReadInv /\ [Next]_vars => ReadInv'
  BY ReadStep
<1>3. ReadInv => IdentityIsBank0
  BY DEF ReadInv
<1> QED BY <1>1, <1>2, <1>3, AlwaysTyped, AlwaysUndecided, PTL DEF Spec
=============================================================================
