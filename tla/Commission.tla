----------------------------- MODULE Commission -----------------------------
(***************************************************************************)
(* Commissioning as components/dali_bus does it (dali_commission.c): the   *)
(* state machine that, one frame per step, isolates one gear after another *)
(* by its random address, gives it a free short address and takes it out   *)
(* of the search.  The gears, the input devices and the wire are external: *)
(* they are what the code's frames and comments take them to be.           *)
(***************************************************************************)
EXTENDS Integers, FiniteSets, FiniteSetsExt

CONSTANTS
  Gear,            \* the control gears on the bus
  Stubborn,        \* those that may turn out to answer COMPARE but take no address
                   \*   and never withdraw
  MaxGears,        \* GW_MAX_GEARS
  Radix,           \* values of one byte of the search address (three make an address)
  MaxStuckRounds,  \* COMM_MAX_STUCK_ROUNDS
  DistinctRandoms, \* no two gears draw the same random address
  RegistryKnown,   \* a scan has filled the registry before commissioning begins
  MaxFaults,       \* bound: replies misheard and frames lost; Unlimited is no bound
  FramesLost,      \* frames are lost too, not only replies
  Unlimited,
  NoAddr,          \* a gear without a short address
  None             \* no outcome yet, or nothing written yet

Address == 0..(MaxGears - 1)
SEARCH_MAX == Radix * Radix * Radix - 1
Random == 0..SEARCH_MAX

ASSUME SizesAssumption ==
  /\ MaxGears \in Nat \ {0} /\ Radix \in Nat \ {0, 1}
  /\ MaxStuckRounds \in Nat \ {0}
ASSUME GearAssumption == Stubborn \subseteq Gear /\ NoAddr \notin Address
ASSUME FlagAssumption == {DistinctRandoms, RegistryKnown, FramesLost} \subseteq BOOLEAN
ASSUME FaultAssumption == MaxFaults \in Nat \cup {Unlimited} /\ Unlimited \notin Nat

Outcome == {"ok", "invalid_arg", "cancelled", "internal", "address_in_use"}
ASSUME NoneAssumption == None \notin Nat /\ None \notin Outcome

VARIABLES
  state,      \* c->state, "idle" while no commissioning runs
  mode,       \* c->mode
  low, high,  \* the bisection bounds
  search,     \* the value being probed
  written,    \* what the gears' search registers should hold, None before the first write
  byte,       \* c->byte_index
  roundOpen,  \* c->round_open
  rounds,     \* c->rounds > 0, as 0 or 1
  lastFound,  \* c->last_found
  stuck,      \* c->stuck
  nextAddr,   \* c->next_addr
  found,      \* ctx->op.found
  cancel,     \* ctx->op.cancel
  outcome,    \* the result of the last commissioning
  present,    \* ctx->gears[a].present
  short,      \* external: each gear's short address
  random,     \* external: its random address
  init,       \* external: its initialisation state
  regs,       \* external: the gears' search registers
  quiet,      \* external: the input devices are in quiescent mode
  phantom,    \* external: an input device is in its own initialise state
  faults,     \* faults so far
  masked      \* history: several gears answered a VERIFY, and none was counted

searchVars == <<low, high, search, written, byte, roundOpen>>
roundVars == <<rounds, lastFound, stuck, masked>>
resultVars == <<mode, nextAddr, found, outcome, present>>
gearVars == <<short, random, init, regs>>
inputVars == <<quiet, phantom>>
vars == <<state, cancel, searchVars, roundVars, resultVars, gearVars, inputVars, faults>>

State == {"idle", "quiescent", "quiescent_settle", "103_terminate", "103_settle",
          "terminate_start", "initialise", "randomise", "settle", "round_start",
          "write_search", "compare", "program", "verify", "withdraw", "terminate_end"}

TypeOK ==
  /\ state \in State /\ mode \in {"all", "unaddressed"}
  /\ low \in Random /\ high \in Random /\ search \in Random
  /\ written \in Random \cup {None} /\ byte \in 0..3
  /\ roundOpen \in BOOLEAN /\ rounds \in {0, 1}
  /\ lastFound \in 0..MaxGears /\ stuck \in 0..(MaxStuckRounds - 1)
  /\ nextAddr \in 0..MaxGears /\ found \in 0..MaxGears /\ cancel \in BOOLEAN
  /\ outcome \in Outcome \cup {None}
  /\ present \in [Address -> BOOLEAN]
  /\ short \in [Gear -> Address \cup {NoAddr}] /\ random \in [Gear -> Random]
  /\ init \in [Gear -> {"off", "on", "stuck", "withdrawn"}] /\ regs \in Random
  /\ quiet \in BOOLEAN /\ phantom \in BOOLEAN /\ masked \in BOOLEAN

InUse == {short[g] : g \in Gear} \ {NoAddr}
SharesNone(s) == \A g, h \in Gear : g # h /\ s[g] = s[h] => s[g] = NoAddr

\* Any installation without shared addresses, as a scan would have found it or
\* as a registry that was never filled describes it.
Init ==
  /\ state = "idle" /\ mode = "unaddressed"
  /\ low = 0 /\ high = 0 /\ search = 0 /\ written = None /\ byte = 0 /\ roundOpen = FALSE
  /\ rounds = 0 /\ lastFound = 0 /\ stuck = 0
  /\ nextAddr = 0 /\ found = 0 /\ cancel = FALSE /\ outcome = None
  /\ short \in {s \in [Gear -> Address \cup {NoAddr}] : SharesNone(s)}
  /\ present = [a \in Address |-> RegistryKnown /\ a \in InUse]
  /\ random = [g \in Gear |-> SEARCH_MAX] /\ init = [g \in Gear |-> "off"]
  /\ regs = SEARCH_MAX
  /\ quiet = FALSE /\ phantom \in BOOLEAN
  /\ faults = 0 /\ masked = FALSE

-----------------------------------------------------------------------------
(* The wire and what is on it (external). *)

MayFail == MaxFaults # Unlimited => faults < MaxFaults
Fault == MayFail /\ faults' = IF MaxFaults = Unlimited THEN faults ELSE faults + 1

\* A frame takes effect on the gears, or is lost without the code looking.
Sent(effect) ==
  \/ effect /\ UNCHANGED faults
  \/ FramesLost /\ Fault /\ UNCHANGED <<gearVars, inputVars>>

\* What the master hears when the devices in S answer at once: replies that
\* overlap may read as one or as a collision.  Input devices that are not
\* quiescent may talk into the window.
Heard(S) ==
  (IF S = {} THEN {"none"} ELSE IF Cardinality(S) = 1 THEN {"valid"} ELSE {"valid", "collision"})
    \cup (IF quiet THEN {} ELSE {"collision"})

Hears(S, reply) ==
  \/ reply \in Heard(S) /\ UNCHANGED faults
  \/ reply \in {"none", "valid", "collision"} \ Heard(S) /\ Fault

AllOff == init' = [g \in Gear |-> "off"] /\ UNCHANGED <<short, random, regs, inputVars>>

Covers(m, g) == m = "all" \/ short[g] = NoAddr

InitialiseGears ==
  /\ \E T \in SUBSET Stubborn :
       init' = [g \in Gear |-> IF ~Covers(mode, g) THEN init[g]
                               ELSE IF g \in T THEN "stuck" ELSE "on"]
  /\ UNCHANGED <<short, random, regs, inputVars>>

RandomiseGears ==
  LET on == {g \in Gear : init[g] # "off"} IN
  /\ random' \in [Gear -> Random]
  /\ \A g \in Gear \ on : random'[g] = random[g]
  /\ DistinctRandoms => \A g, h \in on : random'[g] = random'[h] => g = h
  /\ UNCHANGED <<short, init, regs, inputVars>>

InSearch == {g \in Gear : init[g] \in {"on", "stuck"}}
Answering == {g \in InSearch : random[g] <= regs} \cup (IF phantom THEN {"input device"} ELSE {})
Selected(g) == init[g] # "off" /\ random[g] = regs

ProgramGears(a) ==
  /\ short' = [g \in Gear |-> IF Selected(g) /\ init[g] # "stuck" THEN a ELSE short[g]]
  /\ UNCHANGED <<random, init, regs, inputVars>>

WithdrawGears ==
  /\ init' = [g \in Gear |-> IF Selected(g) /\ init[g] # "stuck" THEN "withdrawn" ELSE init[g]]
  /\ UNCHANGED <<short, random, regs, inputVars>>

\* Every gear in its initialise state answers for its own short address, withdrawn or not,
\* whatever the search registers hold.
Confirming(a) == {g \in Gear : init[g] # "off" /\ short[g] = a}

\* The weights of the three bytes of a search address, the high one first.
Weight == [i \in 0..2 |-> CASE i = 0 -> Radix * Radix [] i = 1 -> Radix [] i = 2 -> 1]
Digit(s, i) == (s \div Weight[i]) % Radix

SetDigit(i, d) ==
  /\ regs' = regs + (d - Digit(regs, i)) * Weight[i]
  /\ UNCHANGED <<short, random, init, inputVars>>

-----------------------------------------------------------------------------
(* bus_commission_begin and bus_commission_step, one action per state. *)

KeptAlways(m) == present  \* mutant: the registry is not wiped
KeptBy(m) == IF m = "all" THEN [a \in Address |-> FALSE] ELSE present

Begin(m, start, confirm) ==
  /\ state = "idle" /\ outcome = None
  /\ IF m = "all" /\ ~confirm
     THEN /\ outcome' = "invalid_arg"
          /\ UNCHANGED <<state, mode, nextAddr, present>>
     ELSE /\ state' = "quiescent" /\ mode' = m /\ nextAddr' = start
          /\ present' = KeptBy(m)
          /\ UNCHANGED outcome
  /\ UNCHANGED <<cancel, searchVars, roundVars, found, gearVars, inputVars, faults>>

\* dali_bus_cancel, seen by the bus task before a step.
RequestCancel ==
  /\ state # "idle" /\ ~cancel
  /\ cancel' = TRUE
  /\ UNCHANGED <<state, searchVars, roundVars, resultVars, gearVars, inputVars, faults>>

Running(s) == state = s /\ (cancel => s = "terminate_end")

\* Every way out sends TERMINATE and lets the input devices talk again.
ReleaseBus ==
  \/ /\ init' = [g \in Gear |-> "off"] /\ quiet' = FALSE
     /\ UNCHANGED <<short, random, regs, phantom, faults>>
  \/ /\ FramesLost /\ Fault
     /\ init' \in {init, [g \in Gear |-> "off"]} /\ quiet' \in {quiet, FALSE}
     /\ UNCHANGED <<short, random, regs, phantom>>

Finish(o) == state' = "idle" /\ outcome' = o

CancelNowQuietly ==  \* mutant: a cancel is only a loop exit
  /\ cancel /\ state \notin {"idle", "terminate_end"}
  /\ Finish("cancelled")
  /\ UNCHANGED <<cancel, searchVars, roundVars, mode, nextAddr, found, present,
                 gearVars, inputVars, faults>>

CancelNow ==
  /\ cancel /\ state \notin {"idle", "terminate_end"}
  /\ ReleaseBus
  /\ Finish("cancelled")
  /\ UNCHANGED <<cancel, searchVars, roundVars, mode, nextAddr, found, present>>

SearchUntouched == UNCHANGED <<cancel, searchVars, roundVars, resultVars>>

Quiescent ==
  /\ Running("quiescent")
  /\ Sent(quiet' = TRUE /\ UNCHANGED <<gearVars, phantom>>)
  /\ state' = "quiescent_settle"
  /\ SearchUntouched

Settle(from, to) ==
  /\ Running(from)
  /\ state' = to
  /\ UNCHANGED <<cancel, searchVars, roundVars, resultVars, gearVars, inputVars, faults>>

\* The three waits; until its time is up each only sleeps a slice at a time.
Settles ==
  \/ Settle("quiescent_settle", "103_terminate")
  \/ Settle("103_settle", "terminate_start")
  \/ Settle("settle", "round_start")

Terminate103 ==
  /\ Running("103_terminate")
  /\ Sent(phantom' = FALSE /\ UNCHANGED <<gearVars, quiet>>)
  /\ state' = "103_settle"
  /\ SearchUntouched

TerminateStart ==
  /\ Running("terminate_start")
  /\ Sent(AllOff)
  /\ state' = "initialise"
  /\ SearchUntouched

Initialise ==
  /\ Running("initialise")
  /\ Sent(InitialiseGears)
  /\ state' = "randomise"
  /\ SearchUntouched

Randomise ==
  /\ Running("randomise")
  /\ Sent(RandomiseGears)
  /\ state' = "settle"
  /\ SearchUntouched

\* A round that assigned nothing counts; so many in a row end the search.
AnyRound == TRUE  \* mutant: the count starts again in every round
Assigned == rounds = 0 \/ found # lastFound

OpenRound ==
  /\ rounds' = 1 /\ lastFound' = found
  /\ low' = 0 /\ high' = SEARCH_MAX /\ search' = SEARCH_MAX
  /\ byte' = 0 /\ roundOpen' = FALSE
  /\ state' = "write_search"
  /\ UNCHANGED <<cancel, written, masked, resultVars, gearVars, inputVars, faults>>

TooMany == ~Assigned /\ stuck + 1 >= MaxStuckRounds

RoundStart ==
  /\ Running("round_start")
  /\ IF TooMany
     THEN /\ ReleaseBus
          /\ Finish("internal")
          /\ UNCHANGED <<cancel, searchVars, roundVars, mode, nextAddr, found, present>>
     ELSE /\ stuck' = IF Assigned THEN 0 ELSE stuck + 1
          /\ OpenRound

\* write_next_search_byte: one byte that differs is sent, the equal ones before
\* it are skipped; with none left the registers are taken to hold the value.
WriteSearch ==
  /\ Running("write_search")
  /\ LET todo == {i \in byte..2 : written = None \/ Digit(search, i) # Digit(written, i)} IN
     IF todo = {}
     THEN /\ byte' = 3 /\ written' = search
          /\ state' = "compare"
          /\ UNCHANGED <<gearVars, inputVars, faults>>
     ELSE /\ byte' = Min(todo) + 1
          /\ Sent(SetDigit(Min(todo), Digit(search, Min(todo))))
          /\ UNCHANGED <<written, state>>
  /\ UNCHANGED <<cancel, low, high, search, roundOpen, roundVars, resultVars>>

\* Mutant: off by one.
NarrowWrongly(any) == IF any THEN high' = search /\ low' = low
                      ELSE low' = Min({search + 2, high}) /\ high' = high

Narrow(any) == IF any THEN high' = search /\ low' = low
               ELSE low' = search + 1 /\ high' = high

Compare ==
  /\ Running("compare")
  /\ \E reply \in {"none", "valid", "collision"} :
       /\ Hears(Answering, reply)
       /\ LET any == reply # "none" IN
          IF ~roundOpen /\ ~any
          THEN /\ state' = "terminate_end"
               /\ UNCHANGED <<low, high, search, byte, roundOpen>>
          ELSE /\ roundOpen' = TRUE /\ byte' = 0
               /\ IF low < high
                  THEN /\ Narrow(any)
                       /\ search' = low' + (high' - low') \div 2
                       /\ state' = "write_search"
                  ELSE /\ search' = low
                       /\ state' = "program"
                       /\ UNCHANGED <<low, high>>
  /\ UNCHANGED <<cancel, written, roundVars, resultVars, gearVars, inputVars>>

NextAddrAnyway(a) == a  \* mutant: taken addresses are not skipped
NextFree(a) == Min({b \in a..MaxGears : b = MaxGears \/ ~present[b]})

Program ==
  /\ Running("program")
  /\ nextAddr' = NextFree(nextAddr)
  /\ IF nextAddr' = MaxGears
     THEN /\ ReleaseBus
          /\ Finish("address_in_use")
     ELSE /\ Sent(ProgramGears(nextAddr'))
          /\ state' = "verify"
          /\ UNCHANGED outcome
  /\ UNCHANGED <<cancel, searchVars, roundVars, mode, found, present>>

Verify ==
  /\ Running("verify")
  /\ \E reply \in {"none", "valid", "collision"} :
       /\ Hears(Confirming(nextAddr), reply)
       /\ masked' = (masked \/ (reply # "valid" /\ \E g, h \in Confirming(nextAddr) : g # h))
       /\ IF reply = "valid"
          THEN /\ present' = [present EXCEPT ![nextAddr] = TRUE]
               /\ found' = found + 1
               /\ nextAddr' = nextAddr + 1
          ELSE UNCHANGED <<present, found, nextAddr>>
  /\ state' = "withdraw"
  /\ UNCHANGED <<cancel, searchVars, rounds, lastFound, stuck, mode, outcome, gearVars, inputVars>>

Withdraw ==
  /\ Running("withdraw")
  /\ Sent(WithdrawGears)
  /\ state' = "round_start"
  /\ SearchUntouched

TerminateEnd ==
  /\ Running("terminate_end")
  /\ ReleaseBus
  /\ Finish("ok")
  /\ UNCHANGED <<cancel, searchVars, roundVars, mode, nextAddr, found, present>>

Step ==
  \/ CancelNow
  \/ Quiescent \/ Settles \/ Terminate103 \/ TerminateStart \/ Initialise \/ Randomise
  \/ RoundStart \/ WriteSearch \/ Compare \/ Program \/ Verify \/ Withdraw
  \/ TerminateEnd

Next ==
  \/ \E m \in {"all", "unaddressed"}, start \in Address, confirm \in BOOLEAN :
       Begin(m, start, confirm)
  \/ RequestCancel
  \/ Step

Spec == Init /\ [][Next]_vars

\* The bus task steps the operation for as long as it runs.
FairSpec == Spec /\ WF_vars(Step)

-----------------------------------------------------------------------------
(* What commissioning promises. *)

\* When an address is about to be programmed the search registers hold the random
\* address of one gear, the lowest of those still in the search, and of no other:
\* the bisection and the cache of written bytes agree with the gears
\* (write_next_search_byte, COMM_COMPARE).
SearchIsolates ==
  state = "program" =>
    \E g \in InSearch : random[g] = regs /\ \A h \in InSearch \ {g} : random[h] > regs

Addressed ==
  /\ \A g \in Gear : short[g] # NoAddr
  /\ SharesNone(short)
  /\ {a \in Address : present[a]} = InUse

\* A commissioning that reports success has found everyone: each gear has a short
\* address, no two share one, and the registry lists exactly those in use.  When all are
\* addressed anew the old addresses still answer: if a gear's VERIFY was answered by
\* another one too and read as a collision, nothing is promised (COMM_VERIFY).
SuccessMeansAddressed == outcome = "ok" => Addressed \/ (mode = "all" /\ masked)

\* However it ends, gears are out of the initialise state, in which they would ignore
\* ordinary commands for a quarter of an hour, and wall switches may talk again
\* (cancel_now, leave_quiescent).
BusLeftUsable ==
  outcome # None => (\A g \in Gear : init[g] = "off") /\ ~quiet

\* Adding gears to an installation never puts one on top of another (COMM_PROGRAM).
LandsOnFree == mode = "unaddressed" => SharesNone(short)

\* What is left to do: rounds that can still find a gear, rounds that may find none, the
\* states before a round or to the end of one, and in a round the window and the bytes.
Rank == [s \in State |->
  CASE s = "quiescent" -> 13 [] s = "quiescent_settle" -> 12 [] s = "103_terminate" -> 11
    [] s = "103_settle" -> 10 [] s = "terminate_start" -> 9 [] s = "initialise" -> 8
    [] s = "randomise" -> 7 [] s = "settle" -> 6 [] s \in {"write_search", "compare"} -> 5
    [] s = "program" -> 4 [] s = "verify" -> 3 [] s = "withdraw" -> 2
    [] s = "round_start" -> 1 [] OTHER -> 0]
Remaining ==
  <<1 - rounds, MaxGears - lastFound, MaxStuckRounds - stuck, Rank[state],
    IF roundOpen THEN 0 ELSE 1, high - low, IF state = "write_search" THEN 1 ELSE 0, 3 - byte>>
Less(s, t) ==
  \E i \in DOMAIN s : s[i] \in 0..(t[i] - 1) /\ \A j \in 1..(i - 1) : s[j] = t[j]

\* Every step of a commissioning leaves less to do, whatever the gears answer, or fail to, and
\* whatever is lost: the window shrinks although the first probe is its upper end, and
\* rounds that assign nothing are counted (COMM_COMPARE, COMM_MAX_STUCK_ROUNDS).
CountsDown ==
  [][state # "idle" /\ state' # "idle"
       => IF cancel' = cancel THEN Less(Remaining', Remaining) ELSE Remaining' = Remaining]_vars

\* Whatever the gears answer, or fail to, commissioning comes to an end
\* (COMM_MAX_STUCK_ROUNDS).
Terminates == state # "idle" ~> state = "idle"
=============================================================================
