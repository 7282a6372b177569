------------------------------- MODULE DtrOps -------------------------------
(***************************************************************************)
(* The two long operations of components/dali_bus that keep state in the   *)
(* gears' data transfer registers from one step to the next: configure     *)
(* (dali_configure.c), which loads DTR0, stores it as a parameter and      *)
(* reads the parameter back, and the deep scan's read of memory bank 0     *)
(* (dali_ops.c), which loads DTR1 and DTR0 and reads byte after byte.      *)
(* Between two steps the bus task serves short commands, and several of    *)
(* those load the same registers.  The gears are external.                 *)
(***************************************************************************)
EXTENDS Integers, FiniteSets, FiniteSetsExt, Sequences

CONSTANTS
  Gear,       \* the gears on the bus; all of them hear a DTR load
  Target,     \* those the operation addresses
  Direct,     \* parameters written by one command: groups, cleared scenes
  Stored,     \* parameters written by way of DTR0
  FadeTime,   \* the one of them that set_level may store too
  Ignored,    \* parameters gw_api takes and configure makes no job of
  Named,      \* the parameters requests name
  MaxValue,   \* values are 0..MaxValue, and so are the offsets of the memory bank
  VersionAt,  \* BANK0_VERSION_OFFSET, of one byte
  GtinAt,     \* BANK0_GTIN_OFFSET
  GtinBytes,  \* BANK0_GTIN_BYTES
  SerialAt,   \* BANK0_SERIAL_OFFSET
  SerialBytes,  \* BANK0_SERIAL_BYTES
  Foreign,    \* short commands that load DTR0 or DTR1 are served
  MaxFaults,  \* bound: frames a gear did not hear, replies that were lost
  Silence,    \* no valid reply
  None        \* no outcome yet

Value == 0..MaxValue
Param == Direct \cup Stored \cup Ignored
Bytes == 1 + GtinBytes + SerialBytes

ASSUME GearAssumption == Target \subseteq Gear /\ IsFiniteSet(Gear)
ASSUME ParamAssumption ==
  /\ Direct \cap Stored = {} /\ Ignored \cap (Direct \cup Stored) = {}
  /\ FadeTime \in Stored /\ Param \subseteq Nat /\ Named \subseteq Param
ASSUME SizesAssumption ==
  /\ MaxValue \in Nat /\ GtinBytes \in Nat \ {0} /\ SerialBytes \in Nat \ {0}
  /\ VersionAt \in Nat /\ GtinAt \in Nat /\ SerialAt \in Nat /\ VersionAt <= MaxValue
  /\ GtinAt + GtinBytes <= MaxValue + 1 /\ SerialAt + SerialBytes <= MaxValue + 1
  /\ MaxFaults \in Nat /\ Foreign \in BOOLEAN
Outcome == {"ok", "mismatch", "cancelled", "invalid_arg", "read"}
ASSUME NamesAssumption == Silence \notin Value /\ None \notin Outcome

VARIABLES
  op,        \* "none", "configure" or "deep"
  want,      \* the values asked for, by parameter named
  left,      \* the jobs from cfg->cursor on: the parameters still to be written
  substep,   \* of the current job, or of the deep sequence
  verified,  \* the parameters whose job is ok
  cancel,    \* ctx->op.cancel
  outcome,   \* the result of the last operation
  reported,  \* the jobs a configure's result lists, and its success is about
  identity,  \* the bytes read so far
  dtr0,      \* external: DTR0 of each gear
  dtr1,      \* external: DTR1 of each gear
  param,     \* external: the parameters of each gear
  faults,    \* faults so far
  touched    \* history: what other commands did since the operation began: load a
             \*   register ("dtr"), store FadeTime ("fade")

opVars == <<op, want, left, substep, verified, cancel, outcome, reported, identity>>
dtrVars == <<dtr0, dtr1>>
vars == <<opVars, dtrVars, param, faults, touched>>

\* cfg->jobs: one for each parameter named, in the order of the numbers.
Jobs == DOMAIN want \ Ignored

TypeOK ==
  /\ op \in {"none", "configure", "deep"}
  /\ DOMAIN want \subseteq Named /\ want \in [DOMAIN want -> Value]
  /\ left \subseteq Jobs /\ substep \in 0..2
  /\ verified \subseteq Jobs \ left /\ cancel \in BOOLEAN
  /\ outcome \in Outcome \cup {None} /\ reported \subseteq Jobs
  /\ identity \in Seq(Value) /\ Len(identity) <= Bytes
  /\ dtr0 \in [Gear -> Value] /\ dtr1 \in [Gear -> {0, 1}]
  /\ param \in [Gear -> [Param -> Value]]
  /\ faults \in 0..MaxFaults /\ touched \subseteq {"dtr", "fade"}

Init ==
  /\ op = "none" /\ want = <<>> /\ left = {} /\ substep = 0
  /\ verified = {} /\ cancel = FALSE /\ outcome = None /\ reported = {} /\ identity = <<>>
  /\ dtr0 = [g \in Gear |-> 0] /\ dtr1 = [g \in Gear |-> 0]
  /\ param = [g \in Gear |-> [p \in Param |-> 0]]
  /\ faults = 0 /\ touched = {}

-----------------------------------------------------------------------------
(* The gears (external). *)

Missed(S) == S = {} \/ (faults < MaxFaults)
Count(S) == faults' = faults + (IF S = {} THEN 0 ELSE 1)

\* A DTR load is heard by every gear but those in D.
Load0(v, D) == dtr0' = [g \in Gear |-> IF g \in D THEN dtr0[g] ELSE v] /\ UNCHANGED dtr1
Load1(v, D) == dtr1' = [g \in Gear |-> IF g \in D THEN dtr1[g] ELSE v] /\ UNCHANGED dtr0

Write(S, p, v) ==
  param' = [g \in Gear |-> IF g \in S THEN [param[g] EXCEPT ![p] = v[g]] ELSE param[g]]

\* One gear's answer is heard, several at once may read as one or as none.
Heard(v) == {v[g] : g \in Target} \cup (IF Cardinality(Target) = 1 THEN {} ELSE {Silence})
Hears(v, reply) ==
  \/ reply \in Heard(v) /\ UNCHANGED faults
  \/ reply = Silence /\ faults < MaxFaults /\ faults' = faults + 1

\* READ MEMORY LOCATION: the byte at DTR0 of bank DTR1 is its own offset here.
ByteAt(g) == IF dtr1[g] = 0 THEN dtr0[g] ELSE Silence

-----------------------------------------------------------------------------
(* Short commands that load the registers, served between two steps. *)

\* set_level with a fade time stores it, and set_short_address, remove_short_address,
\* color and raw leave something else in the registers.
LevelWithFade(S, v) ==
  /\ Foreign
  /\ Load0(v, {}) /\ Write(S, FadeTime, [g \in Gear |-> v])
  /\ touched' = {"dtr", "fade"}
  /\ UNCHANGED <<opVars, faults>>

OtherLoad(v) ==
  /\ Foreign
  /\ Load0(v, {}) \/ Load1(1, {})
  /\ touched' = touched \cup {"dtr"}
  /\ UNCHANGED <<opVars, param, faults>>

-----------------------------------------------------------------------------
(* configure. *)

\* An operation begins with its state cleared.
Cleared ==
  /\ substep' = 0 /\ verified' = {} /\ cancel' = FALSE
  /\ reported' = {} /\ identity' = <<>> /\ touched' = {}

\* bus_configure_begin.
BeginConfigure(P, v) ==
  /\ op = "none"
  /\ want' = v /\ left' = Jobs'
  /\ IF left' = {}
     THEN outcome' = "invalid_arg" /\ UNCHANGED op
     ELSE op' = "configure" /\ outcome' = None
  /\ Cleared
  /\ UNCHANGED <<dtrVars, param, faults>>

BeginDeep ==
  /\ op = "none"
  /\ op' = "deep" /\ want' = <<>> /\ left' = {} /\ outcome' = None
  /\ Cleared
  /\ UNCHANGED <<dtrVars, param, faults>>

RequestCancel ==
  /\ op # "none" /\ ~cancel
  /\ cancel' = TRUE
  /\ UNCHANGED <<op, want, left, substep, verified, outcome, reported, identity,
                 dtrVars, param, faults, touched>>

Writing == op = "configure" /\ ~cancel /\ left # {}
Job == Min(left)
Keeps == UNCHANGED <<op, want, cancel, outcome, reported, identity, touched>>

LoadDtr0 ==
  /\ Writing /\ Job \in Stored /\ substep = 0
  /\ \E D \in SUBSET Gear : Missed(D) /\ Count(D) /\ Load0(want[Job], D)
  /\ substep' = 1
  /\ UNCHANGED <<left, verified, param>>
  /\ Keeps

StoreDtr0 ==
  /\ Writing /\ Job \in Stored /\ substep = 1
  /\ \E D \in SUBSET Target :
       Missed(D) /\ Count(D) /\ Write(Target \ D, Job, dtr0)
  /\ substep' = 2
  /\ UNCHANGED <<left, verified, dtrVars>>
  /\ Keeps

WriteDirect ==
  /\ Writing /\ Job \in Direct /\ substep = 0
  /\ \E D \in SUBSET Target :
       Missed(D) /\ Count(D) /\ Write(Target \ D, Job, [g \in Gear |-> want[Job]])
  /\ substep' = 2
  /\ UNCHANGED <<left, verified, dtrVars>>
  /\ Keeps

AnyReply(p, reply) == reply # Silence  \* mutant: any answer verifies
VerifyReply(p, reply) == reply = want[p]

ReadBack ==
  /\ Writing /\ substep = 2
  /\ \E reply \in Value \cup {Silence} :
       /\ Hears([g \in Gear |-> param[g][Job]], reply)
       /\ verified' = IF VerifyReply(Job, reply) THEN verified \cup {Job} ELSE verified
  /\ substep' = 0 /\ left' = left \ {Job}
  /\ UNCHANGED <<dtrVars, param>>
  /\ Keeps

AllOk(listed) == listed \subseteq verified

\* The jobs the result lists: all of them, or those before one there is no memory for.
Listing == {S \in SUBSET Jobs : \A p \in Jobs, q \in S : p < q => p \in S}

FinishConfigure ==
  /\ op = "configure" /\ (cancel \/ left = {})
  /\ op' = "none"
  /\ IF cancel THEN outcome' = "cancelled" /\ reported' = {}
     ELSE \E listed \in Listing :
            reported' = listed /\ outcome' = IF AllOk(listed) THEN "ok" ELSE "mismatch"
  /\ UNCHANGED <<want, left, substep, verified, cancel, identity,
                 dtrVars, param, faults, touched>>

-----------------------------------------------------------------------------
(* The deep scan's memory bank, once every query before it is answered. *)

Reading == op = "deep" /\ ~cancel
ReadKeeps == UNCHANGED <<want, left, verified, cancel, reported, param, touched>>

SelectBank ==
  /\ Reading /\ substep = 0
  /\ \E D \in SUBSET Gear : Missed(D) /\ Count(D) /\ Load1(0, D)
  /\ substep' = 1
  /\ UNCHANGED <<op, outcome, identity>>
  /\ ReadKeeps

SetNoOffset ==  \* mutant: the read starts wherever DTR0 stands
  /\ Reading /\ substep = 1
  /\ substep' = 2
  /\ UNCHANGED <<op, outcome, identity, dtrVars, faults>>
  /\ ReadKeeps

\* Where the bank's version, GTIN and serial number are read one after the other, and
\* after how many bytes the next of them begins.
Location(i) ==
  IF i = 1 THEN VersionAt
  ELSE IF i <= 1 + GtinBytes THEN GtinAt + i - 2 ELSE SerialAt + i - 2 - GtinBytes
BlockEnds == {1, 1 + GtinBytes}

SetOffset ==
  /\ Reading /\ substep = 1
  /\ \E D \in SUBSET Gear : Missed(D) /\ Count(D) /\ Load0(Location(Len(identity) + 1), D)
  /\ substep' = 2
  /\ UNCHANGED <<op, outcome, identity>>
  /\ ReadKeeps

LastByte == Len(identity) + 1 = Bytes

\* A byte that is not answered counts as 0; the last one makes the identity valid.
\* Reading moves DTR0 on, and at the end of the bank leaves it there.
ReadByte ==
  /\ Reading /\ substep = 2
  /\ \E reply \in Value \cup {Silence} :
       /\ Hears([g \in Gear |-> ByteAt(g)], reply)
       /\ identity' = Append(identity, IF reply = Silence THEN 0 ELSE reply)
  /\ dtr0' = [g \in Gear |-> IF g \in Target /\ dtr1[g] = 0 /\ dtr0[g] < MaxValue
                             THEN dtr0[g] + 1 ELSE dtr0[g]]
  /\ IF LastByte THEN op' = "none" /\ outcome' = "read" ELSE UNCHANGED <<op, outcome>>
  /\ substep' = IF Len(identity') \in BlockEnds THEN 1 ELSE 2
  /\ UNCHANGED dtr1
  /\ ReadKeeps

CancelDeep ==
  /\ op = "deep" /\ cancel
  /\ op' = "none" /\ outcome' = "cancelled"
  /\ UNCHANGED <<want, left, substep, verified, cancel, reported, identity,
                 dtrVars, param, faults, touched>>

Next ==
  \/ \E S \in SUBSET Gear, v \in Value : LevelWithFade(S, v)
  \/ \E v \in Value : OtherLoad(v)
  \/ \E P \in SUBSET Named : \E v \in [P -> Value] : BeginConfigure(P, v)
  \/ BeginDeep \/ RequestCancel
  \/ LoadDtr0 \/ StoreDtr0 \/ WriteDirect \/ ReadBack \/ FinishConfigure
  \/ SelectBank \/ SetOffset \/ ReadByte \/ CancelDeep

Spec == Init /\ [][Next]_vars

-----------------------------------------------------------------------------
(* What the two operations promise. *)

\* A configure of one gear that reports ok has written every parameter it was asked to,
\* although other commands overwrote DTR0 between its load and its store and frames and
\* replies were lost; only a fade time somebody set meanwhile may differ, and the jobs
\* the result has no memory to list (verify_reply, finish).
OkMeansWritten ==
  [][op = "configure" /\ outcome' = "ok" /\ Cardinality(Target) = 1
       => \A g \in Target : \A p \in DOMAIN want \ (Jobs \ reported') :
            param[g][p] = want[p] \/ (p = FadeTime /\ "fade" \in touched)]_vars

\* The identity a deep scan records is that of memory bank 0, version, GTIN and serial
\* number each from its own offset, unless another command moved the registers while it was
\* read or the bus lost something; a short command before the read does no harm
\* (step_scan_deep).
IdentityIsBank0 ==
  outcome = "read" /\ "dtr" \notin touched /\ faults = 0
    => identity = [i \in 1..Bytes |-> Location(i)]
=============================================================================
