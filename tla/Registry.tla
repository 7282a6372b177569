------------------------------ MODULE Registry ------------------------------
(***************************************************************************)
(* The gear registry of components/dali_bus and everything dali_ops.c does *)
(* with it: the scan, the poll and the identify blink, which take one      *)
(* frame per step, and the short commands the bus task serves between two  *)
(* of those steps.  The gears are external: they answer the frames they    *)
(* are addressed by, and come and go with their mains supply.              *)
(***************************************************************************)
EXTENDS Integers, FiniteSets, FiniteSetsExt

CONSTANTS
  Gear,         \* the control gears on the bus
  Dali2,        \* those that speak DALI-2
  Members,      \* those in the group that is addressed
  MaxGears,     \* GW_MAX_GEARS
  Operations,   \* the long operations that may be begun
  Commands,     \* the short commands that may be served
  MaxTypes,     \* sizeof(device_types)
  BlinkFrames,  \* IDENTIFY_CYCLES * 2
  Scanned,      \* whether a scan has described the installation before we look: either, or both
  Unstable,     \* gears may be switched off and on
  Group,        \* a group, as the target of an identify
  Broadcast,    \* everyone, as its target
  NoAddr,       \* a gear without a short address
  Unknown,      \* no level cached yet
  Silence,      \* no reply
  Clash         \* replies that collided

Address == 0..(MaxGears - 1)
Target == Address \cup {Group, Broadcast}
Level == 0..2
MinLevel == 1
MaxLevel == 2
Operation == {"scan", "poll_all", "identify"}
Command == {"set_level", "off", "on", "query", "group", "move", "remove", "bus_check"}

ASSUME SizesAssumption ==
  MaxGears \in Nat \ {0} /\ MaxTypes \in Nat \ {0} /\ BlinkFrames \in Nat
ASSUME GearAssumption == Dali2 \subseteq Gear /\ Members \subseteq Gear
ASSUME ChoiceAssumption == Operations \subseteq Operation /\ Commands \subseteq Command
ASSUME FlagAssumption == Scanned \subseteq BOOLEAN /\ Unstable \in BOOLEAN
ASSUME NamesAssumption ==
  /\ {NoAddr, Group, Broadcast} \cap Address = {}
  /\ {Unknown, Silence, Clash} \cap Level = {} /\ {Silence, Clash} \cap BOOLEAN = {}

VARIABLES
  short,    \* external: each gear's short address
  level,    \* external: its level
  alive,    \* external: the gears that have mains
  present,  \* ctx->gears[a].present
  cache,    \* ctx->gears[a].level, Unknown while level_valid is false
  dali2,    \* ctx->gears[a].version_major >= 2
  types,    \* ctx->gears[a].device_type_count
  powered,  \* ctx->powered
  op,       \* ctx->op.kind
  cursor,   \* ctx->op.cursor
  substep,  \* ctx->op.substep
  target,   \* ctx->op.target of an identify
  cancel,   \* ctx->op.cancel
  wanted,   \* history: during an identify, the level each gear should be left at, if any
  excused,  \* history: the gears it reaches and does not put back there
  strays    \* history: a gear the registry did not list was given another address

gearVars == <<short, level, alive>>
registryVars == <<present, cache, dali2, types, powered>>
opVars == <<op, cursor, substep, target, cancel>>
historyVars == <<wanted, excused, strays>>
vars == <<gearVars, registryVars, opVars, historyVars>>

Substep == {"present", "status", "level", "type", "next_type", "version"}

TypeOK ==
  /\ short \in [Gear -> Address \cup {NoAddr}] /\ level \in [Gear -> Level]
  /\ alive \subseteq Gear
  /\ present \in [Address -> BOOLEAN] /\ cache \in [Address -> Level \cup {Unknown}]
  /\ dali2 \in [Address -> BOOLEAN] /\ types \in [Address -> 0..MaxTypes]
  /\ powered \in BOOLEAN
  /\ op \in Operation \cup {"none"} /\ cursor \in 0..(MaxGears + BlinkFrames)
  /\ substep \in Substep
  /\ target \in Target /\ cancel \in BOOLEAN
  /\ wanted \in [Gear -> Level \cup {Unknown}] /\ excused \subseteq Gear /\ strays \in BOOLEAN

-----------------------------------------------------------------------------
(* The bus and the gears on it (external). *)

At(a) == {g \in alive : short[g] = a}

\* The gears a frame to t is for.
Reached(t) == IF t = Broadcast THEN alive ELSE IF t = Group THEN Members \cap alive ELSE At(t)

\* What the master hears of the devices in S when each answers what v says.
Heard(S, v) ==
  IF S = {} THEN {Silence}
  ELSE {v[g] : g \in S} \cup (IF Cardinality(S) = 1 THEN {} ELSE {Clash})

Valid(reply) == reply \notin {Silence, Clash}
Yes == [g \in Gear |-> TRUE]

\* The gears in S take the level l; when it was a command that is what they should keep.
Drive(S, l) == level' = [g \in Gear |-> IF g \in S THEN l ELSE level[g]]
Order(S, l) ==
  /\ Drive(S, l)
  /\ wanted' = [g \in Gear |-> IF g \in S /\ op = "identify" THEN l ELSE wanted[g]]

Apart(s) == \A g, h \in Gear : g # h /\ s[g] = s[h] => s[g] = NoAddr

Init ==
  /\ short \in {s \in [Gear -> Address \cup {NoAddr}] : Apart(s)}
  /\ level = [g \in Gear |-> MaxLevel] /\ alive = Gear
  /\ powered \in Scanned
  /\ present = [a \in Address |-> powered /\ Cardinality(At(a)) = 1]
  /\ cache = [a \in Address |-> IF present[a] THEN level[CHOOSE g \in At(a) : TRUE] ELSE Unknown]
  /\ dali2 = [a \in Address |-> FALSE]
  /\ types = [a \in Address |-> 0]
  /\ op = "none" /\ cursor = 0 /\ substep = "present"
  /\ target = 0 /\ cancel = FALSE
  /\ wanted = [g \in Gear |-> Unknown] /\ excused = {} /\ strays = FALSE

\* Mains is switched: the gears that come back do so at some level of their own.
Switch(S) ==
  /\ Unstable /\ S # alive
  /\ alive' = S
  /\ level' \in [Gear -> Level]
  /\ \A g \in Gear \ (S \ alive) : level'[g] = level[g]
  /\ UNCHANGED <<short, registryVars, opVars, historyVars>>

-----------------------------------------------------------------------------
(* The registry. *)

CacheLevel(a, reply) == cache' = IF Valid(reply) THEN [cache EXCEPT ![a] = reply] ELSE cache
NoteReply(reply) == powered' = (powered \/ Valid(reply))

\* What identify sends last, to put its target back.
LeaveAtMax(t) == MaxLevel  \* mutant
RestoredLevel(t) == IF t \in Address /\ cache[t] # Unknown THEN cache[t] ELSE MaxLevel

\* A blink is not held to put back the gears a command moved without the registry's
\* knowledge, or whose level it read from them in the middle of the blink.
Excuse(S) == excused' = IF op = "identify" THEN excused \cup (S \cap Reached(target)) ELSE excused

-----------------------------------------------------------------------------
(* Short commands, each served whole between two steps. *)

Serves(c) == c \in Commands

\* op_set_level, and op_on_off for OFF: the level sent is also cached.
SetLevel(a, l) ==
  /\ IF l = 0 THEN Serves("set_level") \/ Serves("off") ELSE Serves("set_level")
  /\ Order(At(a), l)
  /\ CacheLevel(a, l)
  /\ excused' = IF a = target THEN excused \ At(a) ELSE excused
  /\ UNCHANGED <<short, alive, present, dali2, types, powered, opVars, strays>>

\* op_on_off for ON: GO TO LAST ACTIVE LEVEL or RECALL MAX LEVEL, and nothing is cached.
On(a) ==
  /\ Serves("on")
  /\ \E l \in IF dali2[a] THEN Level \ {0} ELSE {MaxLevel} : Order(At(a), l)
  /\ Excuse(At(a))
  /\ UNCHANGED <<short, alive, registryVars, opVars, strays>>

\* The same commands to a group or to everyone; neither touches the registry.
LevelToGroup(S, l) ==
  /\ Serves("group")
  /\ Order(S, l)
  /\ Excuse(S)
  /\ UNCHANGED <<short, alive, registryVars, opVars, strays>>

\* op_query for the actual level of one gear.
QueryLevel(a) ==
  /\ Serves("query")
  /\ \E reply \in Heard(At(a), level) : NoteReply(reply) /\ CacheLevel(a, reply)
  /\ Excuse(At(a))
  /\ UNCHANGED <<gearVars, present, dali2, types, opVars, wanted, strays>>

\* An identify cannot put back a gear that has left the address it blinks.
NoPromise(a) == wanted' = [g \in Gear |-> IF g \in At(a) THEN Unknown ELSE wanted[g]]

NeverOccupied(reply) == FALSE  \* mutant: the new address is not probed
Occupied(reply) == Valid(reply)

\* The entry moves as it is, and the old one is wiped but for its address.
MoveEntry(a, b) ==
  /\ present' = [present EXCEPT ![b] = present[a], ![a] = FALSE]
  /\ cache' = [cache EXCEPT ![b] = cache[a], ![a] = Unknown]
  /\ dali2' = [dali2 EXCEPT ![b] = dali2[a], ![a] = FALSE]
  /\ types' = [types EXCEPT ![b] = types[a], ![a] = 0]

\* op_set_short_address: probe, store, verify.
SetShortAddress(a, b) ==
  /\ Serves("move") /\ a # b
  /\ \E probe \in Heard(At(b), Yes), verify \in Heard(At(a) \cup At(b), Yes) :
       IF Occupied(probe)
       THEN UNCHANGED <<short, present, cache, dali2, types, strays>>
       ELSE /\ short' = [g \in Gear |-> IF g \in At(a) THEN b ELSE short[g]]
            /\ strays' = (strays \/ (At(a) # {} /\ ~present[a]))
            /\ IF Valid(verify) THEN MoveEntry(a, b)
               ELSE UNCHANGED <<present, cache, dali2, types>>
  /\ NoPromise(a)
  /\ UNCHANGED <<level, alive, powered, opVars, excused>>

ForgetNothing(a) == UNCHANGED present  \* mutant
Forget(a) == present' = [present EXCEPT ![a] = FALSE]

RemoveShortAddress(a) ==
  /\ Serves("remove")
  /\ short' = [g \in Gear |-> IF g \in At(a) THEN NoAddr ELSE short[g]]
  /\ Forget(a)
  /\ NoPromise(a)
  /\ UNCHANGED <<level, alive, cache, dali2, types, powered, opVars, excused, strays>>

\* op_bus_check: any sound on a broadcast query, and only that, means power.
BusCheck ==
  /\ \E reply \in Heard(alive, Yes) : powered' = (reply # Silence)
  /\ UNCHANGED <<gearVars, present, cache, dali2, types, opVars, historyVars>>

ShortCommand ==
  \/ \E a \in Address, l \in Level : SetLevel(a, l)
  \/ \E a \in Address : On(a) \/ QueryLevel(a) \/ RemoveShortAddress(a)
  \/ \E S \in SUBSET alive, l \in Level : LevelToGroup(S, l)
  \/ \E a, b \in Address : SetShortAddress(a, b)
  \/ Serves("bus_check") /\ BusCheck

-----------------------------------------------------------------------------
(* Long operations: how they begin, and one frame per step. *)

\* The registry would put the gear at another level than the one it has.
Misknown(g, t) == t \in Address /\ g \in At(t) /\ level[g] # RestoredLevel(t)

Begin(kind, t) ==
  /\ op = "none" /\ kind \in Operations
  /\ op' = kind /\ target' = t
  /\ cursor' = 0 /\ substep' = "present" /\ cancel' = FALSE
  /\ IF kind = "identify"
     THEN /\ wanted' = [g \in Gear |-> IF Misknown(g, t) THEN Unknown ELSE level[g]]
          /\ excused' = IF t \in Address THEN {} ELSE Reached(t)
     ELSE UNCHANGED <<wanted, excused>>
  /\ UNCHANGED <<gearVars, registryVars, strays>>

BeginScan == Begin("scan", target)

\* What the poll timer does: poll a powered bus, see whether another one has power.
PollDue ==
  /\ op = "none" /\ "poll_all" \in Operations
  /\ IF powered THEN Begin("poll_all", target) ELSE BusCheck

\* A gear known to be DALI-2 identifies itself and no operation runs.
BeginIdentify(t) == (t \in Address => ~dali2[t]) /\ Begin("identify", t)

RequestCancel ==
  /\ op # "none" /\ ~cancel
  /\ cancel' = TRUE
  /\ UNCHANGED <<gearVars, registryVars, op, cursor, substep, target, historyVars>>

\* What is left in ctx->op is not read: the next operation begins with all of it zero.
Finish ==
  op' = "none" /\ cursor' = 0 /\ substep' = "present" /\ target' = 0 /\ cancel' = FALSE

NextGear == cursor' = cursor + 1

Scanning(s) == op = "scan" /\ ~cancel /\ cursor < MaxGears /\ substep = s
ScanKeeps == UNCHANGED <<gearVars, op, target, cancel, historyVars>>

ScanPresent ==
  /\ Scanning("present")
  /\ \E reply \in Heard(At(cursor), Yes) :
       /\ NoteReply(reply)
       /\ present' = [present EXCEPT ![cursor] = Valid(reply)]
       /\ IF Valid(reply) THEN substep' = "status" /\ UNCHANGED cursor
          ELSE NextGear /\ UNCHANGED substep
  /\ UNCHANGED <<cache, dali2, types>>
  /\ ScanKeeps

ScanStatus ==
  /\ Scanning("status")
  /\ substep' = "level"
  /\ UNCHANGED <<registryVars, cursor>>
  /\ ScanKeeps

ScanLevel ==
  /\ Scanning("level")
  /\ \E reply \in Heard(At(cursor), level) : CacheLevel(cursor, reply)
  /\ substep' = "type"
  /\ UNCHANGED <<present, dali2, types, powered, cursor>>
  /\ ScanKeeps

\* No type, one, or the answer that says there are several.
ScanType ==
  /\ Scanning("type")
  /\ \E n \in {0, 1} :
       /\ types' = [types EXCEPT ![cursor] = n]
       /\ substep' \in IF n = 0 THEN {"version", "next_type"} ELSE {"version"}
  /\ UNCHANGED <<present, cache, dali2, powered, cursor>>
  /\ ScanKeeps

MoreTypesWrapping ==  \* mutant: the index wraps in it
  types' = [types EXCEPT ![cursor] = (types[cursor] + 1) % (MaxTypes + 1)]

MoreTypes ==
  /\ types[cursor] < MaxTypes
  /\ types' = [types EXCEPT ![cursor] = types[cursor] + 1]

\* A gear may name types for ever: the room for them ends the enumeration.
ScanNextType ==
  /\ Scanning("next_type")
  /\ \/ MoreTypes /\ UNCHANGED substep
     \/ UNCHANGED types /\ substep' = "version"
  /\ UNCHANGED <<present, cache, dali2, powered, cursor>>
  /\ ScanKeeps

ScanVersion ==
  /\ Scanning("version")
  /\ \E reply \in Heard(At(cursor), [g \in Gear |-> g \in Dali2]) :
       dali2' = IF Valid(reply) THEN [dali2 EXCEPT ![cursor] = reply] ELSE dali2
  /\ substep' = "present" /\ NextGear
  /\ UNCHANGED <<present, cache, powered, types>>
  /\ ScanKeeps

ScanEnd ==
  /\ op = "scan" /\ (cancel \/ cursor = MaxGears)
  /\ Finish
  /\ UNCHANGED <<gearVars, registryVars, historyVars>>

\* The next gear the poll visits: entries not present are skipped in every step.
Polled == Min({a \in cursor..MaxGears : a = MaxGears \/ present[a]})

StaysAtStatus == substep' = substep  \* mutant: the substep is not reset
PollNext == substep' = "present"

\* substep 0 reads the level, substep 1 the status.
PollLevel ==
  /\ op = "poll_all" /\ ~cancel /\ Polled < MaxGears /\ substep = "present"
  /\ \E reply \in Heard(At(Polled), level) : CacheLevel(Polled, reply)
  /\ cursor' = Polled /\ substep' = "status"
  /\ UNCHANGED <<gearVars, present, dali2, types, powered, op, target, cancel, historyVars>>

PollStatus ==
  /\ op = "poll_all" /\ ~cancel /\ Polled < MaxGears /\ substep = "status"
  /\ cursor' = Polled + 1 /\ PollNext
  /\ UNCHANGED <<gearVars, registryVars, op, target, cancel, historyVars>>

PollEnd ==
  /\ op = "poll_all" /\ (cancel \/ Polled = MaxGears)
  /\ Finish
  /\ UNCHANGED <<gearVars, registryVars, historyVars>>

\* RECALL MAX and RECALL MIN in turn, to one gear, a group or everyone; a wait between them is a step without effect.
Blink ==
  /\ op = "identify" /\ ~cancel /\ cursor < BlinkFrames
  /\ Drive(Reached(target), IF cursor % 2 = 0 THEN MaxLevel ELSE MinLevel)
  /\ cursor' = cursor + 1
  /\ UNCHANGED <<short, alive, registryVars, op, substep, target, cancel, historyVars>>

\* The level that was there, where one gear is the target and its level is known; else RECALL MAX.
BlinkEnd ==
  /\ op = "identify" /\ (cancel \/ cursor = BlinkFrames)
  /\ Drive(Reached(target), RestoredLevel(target))
  /\ wanted' = [g \in Gear |-> Unknown] /\ excused' = {}
  /\ Finish
  /\ UNCHANGED <<short, alive, registryVars, strays>>

LongStep ==
  \/ ScanPresent \/ ScanStatus \/ ScanLevel \/ ScanType \/ ScanNextType \/ ScanVersion
  \/ ScanEnd
  \/ PollLevel \/ PollStatus \/ PollEnd
  \/ Blink \/ BlinkEnd

Next ==
  \/ ShortCommand
  \/ BeginScan \/ PollDue \/ \E t \in Target : BeginIdentify(t)
  \/ RequestCancel
  \/ LongStep
  \/ \E S \in SUBSET Gear : Switch(S)

Spec == Init /\ [][Next]_vars

\* The bus task steps what runs, and its timer falls due again and again.
FairSpec == Spec /\ WF_vars(LongStep) /\ WF_vars(PollDue)

-----------------------------------------------------------------------------
(* What the registry promises. *)

\* A scan that ran to its end lists exactly the addresses a gear answers on, although
\* gears were re-addressed, removed and driven while it ran; only one that moved before
\* the registry knew of it may be missed (step_scan, op_set_short_address).
ScanTellsTruth ==
  [][op = "scan" /\ op' = "none" /\ ~cancel /\ ~strays
       => \A a \in Address : present[a] <=> At(a) # {}]_vars

\* Re-addressing never puts a gear on an address another one answers on
\* (op_set_short_address refuses before it writes).
NeverJoinsOccupied ==
  [][\A g, h \in alive : g # h /\ short'[g] = short'[h] /\ short'[g] # NoAddr
       => short[g] = short[h]]_vars

\* Identify leaves no trace: when it is over, cancelled or not, every gear is at the level
\* it had before, or at the one it was commanded to while it blinked, provided the
\* registry knew its level when it began and it kept its address. It leaves one on the
\* excused: every gear reached by a blink of a group or of everyone, which ends at full
\* level, and the gear whose level the blink itself made the registry read (a query),
\* or a command changed without caching it (`on`, and any to a group), unless a level cached
\* since made that good (identify_step).
LevelsAsCommanded ==
  [][op = "identify" /\ op' = "none"
       => \A g \in Gear \ excused : wanted[g] \in {Unknown, level'[g]}]_vars

\* Once the installation is left alone, the levels the registry shows become and stay
\* those of the gears it lists, whatever commands and losses of mains came before
\* unless polls are cancelled or kept out by one identify after another: the poll
\* repairs what nothing else cached (step_poll_all).
CacheTrue ==
  \A a \in Address : present[a] /\ Cardinality(At(a)) = 1
                       => \A g \in At(a) : cache[a] = level[g]
PollRepairs ==
  <>[][UNCHANGED gearVars /\ ~cancel' /\ op' # "identify"]_vars => <>[]CacheTrue

\* What a running operation has left to do: addresses or frames, substeps, types.
Rank == [s \in Substep |->
  CASE s = "present" -> 6 [] s = "status" -> 5 [] s = "level" -> 4 [] s = "type" -> 3
    [] s = "next_type" -> 2 [] s = "version" -> 1]
TypesLeft == IF op = "scan" /\ cursor \in Address THEN MaxTypes - types[cursor] ELSE 0
Remaining == <<(MaxGears + BlinkFrames) - cursor, Rank[substep], TypesLeft>>
Less(s, t) ==
  \E i \in DOMAIN s : s[i] \in 0..(t[i] - 1) /\ \A j \in 1..(i - 1) : s[j] = t[j]

\* A gear is re-addressed onto or off the address a scan is at.
Retyped ==
  /\ op = "scan" /\ UNCHANGED <<cursor, substep>>
  /\ \E a \in Address : SetShortAddress(a, cursor) \/ SetShortAddress(cursor, a)

\* Every step of a scan, poll or blink leaves less to do, and nothing served between two
\* steps gives it more, with one exception: a gear re-addressed onto or off the address under
\* the cursor of a scan brings or takes its list of types, and those may be asked for anew
\* (step_scan, step_poll_all, identify_step, op_set_short_address).
CountsDown ==
  [][op # "none" /\ op' # "none"
       => IF LongStep THEN Less(Remaining', Remaining)
          ELSE Remaining' = Remaining \/ Retyped]_vars
=============================================================================
