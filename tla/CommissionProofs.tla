-------------------------- MODULE CommissionProofs --------------------------
(***************************************************************************)
(* Theorems about Commission, for any gears, any number of addresses and   *)
(* any width of the search address: the bisection finds one gear, adding   *)
(* gears keeps addresses apart, success means what it says, the bus is     *)
(* released however commissioning ends, and every step is a step nearer to *)
(* that end.                                                               *)
(***************************************************************************)
EXTENDS Commission, FiniteSetTheorems, WellFoundedInduction, TLAPS

-----------------------------------------------------------------------------
(* The three bytes of a search address. *)

LEMMA Sizes == Radix \in Nat /\ Radix > 1 /\ MaxGears \in Nat /\ MaxGears > 0 /\ MaxStuckRounds \in Nat
               /\ MaxStuckRounds > 0
  BY SizesAssumption

LEMMA DivExists ==
  ASSUME NEW x \in Nat, NEW n \in Nat \ {0}
  PROVE  x \div n \in Nat /\ x % n \in 0..(n - 1) /\ x = (x \div n) * n + (x % n)
  BY SMTT(20)

LEMMA Multiples ==
  ASSUME NEW p \in Nat, NEW q \in Nat, NEW n \in Nat \ {0}, p < q
  PROVE  p * n + n <= q * n
  BY SMTT(20)

\* Quotient and remainder are the only ones.
LEMMA DivIs ==
  ASSUME NEW q \in Nat, NEW n \in Nat \ {0}, NEW r \in 0..(n - 1), NEW x \in Nat, x = q * n + r
  PROVE  x \div n = q /\ x % n = r
<1> DEFINE p == x \div n
           s == x % n
<1>1. p \in Nat /\ s \in 0..(n - 1) /\ x = p * n + s
  BY DivExists
<1> HIDE DEF p, s
<1>2. p * n \in Int /\ q * n \in Int /\ n \in Nat
  BY <1>1
<1>3. ASSUME p < q PROVE FALSE
  <2>1. p * n + n <= q * n
    BY <1>1, <1>3, Multiples
  <2> QED BY <1>1, <1>2, <2>1
<1>4. ASSUME q < p PROVE FALSE
  <2>1. q * n + n <= p * n
    BY <1>1, <1>4, Multiples
  <2> QED BY <1>1, <1>2, <2>1
<1>5. p = q
  BY <1>1, <1>3, <1>4
<1> QED BY <1>1, <1>2, <1>5 DEF p, s

LEMMA RemainderIs ==
  ASSUME NEW q \in Nat, NEW n \in Nat \ {0}, NEW r \in 0..(n - 1), NEW x \in Nat, x = q * n + r
  PROVE  x % n = r
  BY DivIs

DigitRange == 0..(Radix - 1)
Compose(a, b, c) == (a * Radix + b) * Radix + c

LEMMA Weights == Weight[0] = Radix * Radix /\ Weight[1] = Radix /\ Weight[2] = 1
  BY DEF Weight

LEMMA Composed ==
  ASSUME NEW a \in DigitRange, NEW b \in DigitRange, NEW c \in DigitRange
  PROVE  /\ Compose(a, b, c) \in Random
         /\ Digit(Compose(a, b, c), 0) = a
         /\ Digit(Compose(a, b, c), 1) = b
         /\ Digit(Compose(a, b, c), 2) = c
<1> DEFINE R == Radix
           q == a * R + b
           x == q * R + c
           S == R * R
<1>0. R \in Nat \ {0} /\ a \in Nat /\ b \in Nat /\ c \in Nat /\ a \in 0..(R - 1) /\ b \in 0..(R - 1)
      /\ c \in 0..(R - 1)
  BY Sizes DEF DigitRange
<1> HIDE DEF R
<1>1. a * R \in Nat /\ b * R \in Nat /\ q \in Nat /\ S \in Nat \ {0} /\ x \in Nat
  <2>1. a * R \in Nat /\ b * R \in Nat /\ S \in Nat \ {0}
    BY <1>0, SMTT(20)
  <2>2. q \in Nat
    BY <1>0, <2>1
  <2>3. q * R \in Nat
    BY <1>0, <2>2, SMTT(20)
  <2> QED BY <1>0, <2>1, <2>2, <2>3
<1>2. x = a * S + (b * R + c)
  BY <1>0, SMTT(20)
<1>3. b * R + c \in 0..(S - 1)
  <2>1. b * R + R <= R * R
    BY <1>0, Multiples
  <2> QED BY <1>0, <1>1, <2>1
<1>4. x <= R * R * R - 1
  <2>1. a * S + S <= R * S
    BY <1>0, <1>1, Multiples
  <2>2. R * S = R * R * R
    BY <1>0, SMTT(20)
  <2>3. a * S \in Int /\ R * S \in Int
    BY <1>0, <1>1, SMTT(20)
  <2> QED BY <1>1, <1>2, <1>3, <2>1, <2>2, <2>3
<1> HIDE DEF q, x, S
<1>5. x \div R = q
  BY <1>0, <1>1, DivIs DEF x
<1>6. x \div S = a
  BY <1>0, <1>1, <1>2, <1>3, DivIs
<1>7. x \div 1 = x
  BY <1>1, DivIs
<1>8. q % R = b /\ x % R = c
  <2>1. q = a * R + b
    BY DEF q
  <2>2. a \in Nat /\ R \in Nat \ {0} /\ b \in 0..(R - 1) /\ q \in Nat
    BY <1>0, <1>1
  <2>3. q % R = b
    BY ONLY <2>1, <2>2, RemainderIs, SMT
  <2>4. x = q * R + c
    BY DEF x
  <2>5. c \in 0..(R - 1) /\ x \in Nat
    BY <1>0, <1>1
  <2>6. x % R = c
    BY ONLY <2>2, <2>4, <2>5, RemainderIs, SMT
  <2> QED BY <2>3, <2>6
<1>9. a % R = a
  <2>1. a = 0 * R + a
    BY <1>0
  <2>2. a \div R = 0 /\ a % R = a
    BY <1>0, <2>1, DivIs
  <2> QED BY <2>2
<1>10. Compose(a, b, c) = x
  BY DEF Compose, x, q, R
<1>11. x \in Random
  BY <1>0, <1>1, <1>4 DEF Random, SEARCH_MAX, R
<1>12. Digit(x, 0) = a /\ Digit(x, 1) = b /\ Digit(x, 2) = c
  BY <1>5, <1>6, <1>7, <1>8, <1>9, Weights DEF Digit, S, R
<1> QED BY <1>10, <1>11, <1>12

LEMMA Decomposed ==
  ASSUME NEW x \in Random
  PROVE  /\ Digit(x, 0) \in DigitRange /\ Digit(x, 1) \in DigitRange /\ Digit(x, 2) \in DigitRange
         /\ x = Compose(Digit(x, 0), Digit(x, 1), Digit(x, 2))
<1> DEFINE R == Radix
           q == x \div R
           c == x % R
           a == q \div R
           b == q % R
<1>0. R \in Nat \ {0} /\ x \in Nat /\ x <= R * R * R - 1
  <2>1. R \in Nat \ {0} /\ R * R * R \in Int
    BY Sizes, SMTT(20)
  <2> QED BY <2>1 DEF Random, SEARCH_MAX, R
<1> HIDE DEF R
<1>1. q \in Nat /\ c \in 0..(R - 1) /\ x = q * R + c
  BY <1>0, DivExists
<1> HIDE DEF q, c
<1>2. a \in Nat /\ b \in 0..(R - 1) /\ q = a * R + b
  BY <1>0, <1>1, DivExists
<1> HIDE DEF a, b
<1>3. x = (a * R + b) * R + c
  BY <1>1, <1>2
<1>4. a < R
  <2> SUFFICES ASSUME R <= a PROVE FALSE
    BY <1>0, <1>2
  <2>1. R * R <= a * R
    BY <1>0, <1>2, SMTT(20)
  <2>2. R * R <= q
    BY <1>0, <1>2, <2>1, SMTT(20)
  <2>3. R * R * R <= q * R
    BY <1>0, <1>1, <2>2, SMTT(20)
  <2>4. q * R \in Int /\ R * R * R \in Int
    BY <1>0, <1>1, SMTT(20)
  <2> QED BY <1>0, <1>1, <2>3, <2>4
<1>5. a \in DigitRange /\ b \in DigitRange /\ c \in DigitRange
  BY <1>0, <1>1, <1>2, <1>4 DEF DigitRange, R
<1>6. x = Compose(a, b, c)
  BY <1>3 DEF Compose, R
<1> QED BY <1>5, <1>6, Composed

LEMMA SameDigits ==
  ASSUME NEW x \in Random, NEW y \in Random, \A i \in 0..2 : Digit(x, i) = Digit(y, i)
  PROVE  x = y
<1>1. Digit(x, 0) = Digit(y, 0) /\ Digit(x, 1) = Digit(y, 1) /\ Digit(x, 2) = Digit(y, 2)
  OBVIOUS
<1> QED BY <1>1, Decomposed

\* Writing one byte of the search address changes that byte only.
LEMMA OneDigit ==
  ASSUME NEW x \in Random, NEW i \in 0..2, NEW d \in DigitRange
  PROVE  LET y == x + (d - Digit(x, i)) * Weight[i] IN
         y \in Random /\ Digit(y, i) = d /\ \A j \in 0..2 \ {i} : Digit(y, j) = Digit(x, j)
<1> DEFINE y == x + (d - Digit(x, i)) * Weight[i]
           a == Digit(x, 0)
           b == Digit(x, 1)
           c == Digit(x, 2)
<1>1. a \in DigitRange /\ b \in DigitRange /\ c \in DigitRange /\ x = Compose(a, b, c)
  BY Decomposed
<1>2. a \in Int /\ b \in Int /\ c \in Int /\ d \in Int /\ Radix \in Int
  BY <1>1, Sizes DEF DigitRange
<1>3. CASE i = 0
  <2> HIDE DEF a, b, c
  <2>1. y = Compose(a, b, c) + (d - a) * (Radix * Radix)
    BY <1>1, <1>3, Weights DEF a
  <2>2. y = Compose(d, b, c)
    BY <1>2, <2>1, SMTT(20) DEF Compose
  <2>3. y \in Random /\ Digit(y, 0) = d /\ Digit(y, 1) = b /\ Digit(y, 2) = c
    BY <1>1, <2>2, Composed
  <2> QED BY <1>3, <2>3 DEF b, c
<1>4. CASE i = 1
  <2> HIDE DEF a, b, c
  <2>1. y = Compose(a, b, c) + (d - b) * Radix
    BY <1>1, <1>4, Weights DEF b
  <2>2. y = Compose(a, d, c)
    BY <1>2, <2>1, SMTT(20) DEF Compose
  <2>3. y \in Random /\ Digit(y, 0) = a /\ Digit(y, 1) = d /\ Digit(y, 2) = c
    BY <1>1, <2>2, Composed
  <2> QED BY <1>4, <2>3 DEF a, c
<1>5. CASE i = 2
  <2> HIDE DEF a, b, c
  <2>1. y = Compose(a, b, c) + (d - c) * 1
    BY <1>1, <1>5, Weights DEF c
  <2>2. y = Compose(a, b, d)
    BY <1>2, <2>1, SMTT(20) DEF Compose
  <2>3. y \in Random /\ Digit(y, 0) = a /\ Digit(y, 1) = b /\ Digit(y, 2) = d
    BY <1>1, <2>2, Composed
  <2> QED BY <1>5, <2>3 DEF a, b
<1> QED BY <1>3, <1>4, <1>5

-----------------------------------------------------------------------------
(* Types. *)

LEMMA LeastIs ==
  ASSUME NEW S \in SUBSET Nat, S # {}
  PROVE  Min(S) \in S /\ \A y \in S : Min(S) <= y
<1> DEFINE R == OpToRel(<, Nat)
<1>1. \E x \in S : \A y \in S : ~ (<<y, x>> \in R)
  BY NatLessThanWellFounded, WFMin
<1>2. \A x, y \in Nat : y < x => <<y, x>> \in R
  BY ZenonT(30) DEF OpToRel
<1> HIDE DEF R
<1>3. \E x \in S : \A y \in S : x =< y
  <2>1. PICK x \in S : \A y \in S : ~ (<<y, x>> \in R)
    BY <1>1
  <2>2. ASSUME NEW y \in S PROVE x =< y
    <3>1. x \in Nat /\ y \in Nat
      OBVIOUS
    <3>2. ~ (y < x)
      BY <1>2, <2>1, <3>1, Zenon
    <3> QED BY <3>1, <3>2
  <2> QED BY <2>2
<1> QED BY <1>3 DEF Min

\* The state, typed part by part; the bounds of the bisection enclose the probe, and no more
\* gears are found than addresses were tried.
SearchTypes ==
  /\ low \in Random /\ high \in Random /\ search \in Random
  /\ written \in Random \cup {None} /\ byte \in 0..3 /\ roundOpen \in BOOLEAN
  /\ low <= search /\ search <= high
RoundTypes ==
  /\ rounds \in {0, 1} /\ lastFound \in 0..MaxGears /\ stuck \in 0..(MaxStuckRounds - 1)
  /\ masked \in BOOLEAN
ResultTypes ==
  /\ mode \in {"all", "unaddressed"} /\ nextAddr \in 0..MaxGears /\ found \in 0..MaxGears
  /\ outcome \in Outcome \cup {None} /\ present \in [Address -> BOOLEAN]
  /\ found <= nextAddr
GearTypes ==
  /\ short \in [Gear -> Address \cup {NoAddr}] /\ random \in [Gear -> Random]
  /\ init \in [Gear -> {"off", "on", "stuck", "withdrawn"}] /\ regs \in Random
InputTypes == quiet \in BOOLEAN /\ phantom \in BOOLEAN
StateTypes ==
  /\ state \in State /\ cancel \in BOOLEAN
  /\ state \in {"write_search", "compare"} /\ roundOpen /\ low < high => search < high
  /\ state = "verify" => nextAddr < MaxGears
  /\ state = "idle" /\ outcome = None => found = 0 /\ mode = "unaddressed"
  /\ outcome # None => state = "idle"

Types == SearchTypes /\ RoundTypes /\ ResultTypes /\ GearTypes /\ InputTypes /\ StateTypes

LEMMA SameSearch == SearchTypes /\ UNCHANGED searchVars => SearchTypes'
  BY DEF SearchTypes, searchVars
LEMMA SameRounds == RoundTypes /\ UNCHANGED roundVars => RoundTypes'
  BY DEF RoundTypes, roundVars
LEMMA SameResult == ResultTypes /\ UNCHANGED resultVars => ResultTypes'
  BY DEF ResultTypes, resultVars
LEMMA SameGears == GearTypes /\ UNCHANGED gearVars => GearTypes'
  BY DEF GearTypes, gearVars
LEMMA SameInput == InputTypes /\ UNCHANGED inputVars => InputTypes'
  BY DEF InputTypes, inputVars

LEMMA Numbers ==
  /\ 0 \in Random /\ SEARCH_MAX \in Random /\ SEARCH_MAX \in Nat /\ 0 < SEARCH_MAX
  /\ \A x \in Random : x \in Nat /\ x <= SEARCH_MAX
<1>1. SEARCH_MAX \in Nat /\ 0 < SEARCH_MAX
  BY Sizes, SMTT(20) DEF SEARCH_MAX
<1> QED BY <1>1 DEF Random

LEMMA Names == None \notin Random /\ NoAddr \notin Address /\ None \notin Outcome
  BY NoneAssumption, GearAssumption, Numbers

LEMMA InitTypes == Init => Types
<1> SUFFICES ASSUME Init PROVE Types
  OBVIOUS
<1>0. /\ low = 0 /\ high = 0 /\ search = 0 /\ written = None /\ byte = 0 /\ roundOpen = FALSE
      /\ rounds = 0 /\ lastFound = 0 /\ stuck = 0 /\ quiet = FALSE /\ phantom \in BOOLEAN /\ masked = FALSE
  BY DEF Init
<1>1. SearchTypes /\ RoundTypes /\ InputTypes
  <2>1. 0 \in Random
    BY Numbers
  <2>2. SearchTypes
    <3>1. roundOpen \in BOOLEAN /\ written \in Random \cup {None}
      BY <1>0
    <3>2. low <= search /\ search <= high /\ byte \in 0..3
      BY <1>0
    <3> QED BY <1>0, <2>1, <3>1, <3>2, Zenon DEF SearchTypes
  <2>3. RoundTypes
    <3>1. masked \in BOOLEAN
      BY <1>0
    <3> QED BY <1>0, <3>1, Sizes DEF RoundTypes
  <2> QED BY <1>0, <2>2, <2>3 DEF InputTypes
<1>2. present \in [Address -> BOOLEAN]
  BY FlagAssumption DEF Init
<1>3. ResultTypes
  BY <1>2, Sizes DEF Init, ResultTypes
<1>4. GearTypes
  BY Numbers DEF Init, GearTypes
<1>5. StateTypes
  BY DEF Init, StateTypes, State
<1> QED BY <1>1, <1>3, <1>4, <1>5 DEF Types

\* What a frame, or the release of the bus, may do to the gears.
LEMMA FrameTypes ==
  ASSUME GearTypes, InputTypes,
         \/ AllOff \/ InitialiseGears \/ RandomiseGears \/ WithdrawGears \/ ReleaseBus
         \/ \E a \in Address : ProgramGears(a)
         \/ \E i \in 0..2, d \in DigitRange : SetDigit(i, d)
         \/ UNCHANGED <<gearVars, inputVars>>
  PROVE  GearTypes' /\ InputTypes'
<1>1. CASE AllOff \/ ReleaseBus
  BY <1>1 DEF AllOff, ReleaseBus, GearTypes, InputTypes, inputVars
<1>2. CASE InitialiseGears \/ WithdrawGears
  <2>1. init' \in [Gear -> {"off", "on", "stuck", "withdrawn"}]
    BY <1>2 DEF InitialiseGears, WithdrawGears, GearTypes
  <2> QED BY <1>2, <2>1 DEF InitialiseGears, WithdrawGears, GearTypes, InputTypes, inputVars
<1>3. CASE RandomiseGears
  BY <1>3 DEF RandomiseGears, GearTypes, InputTypes, inputVars
<1>4. ASSUME NEW a \in Address, ProgramGears(a) PROVE GearTypes' /\ InputTypes'
  BY <1>4 DEF ProgramGears, GearTypes, InputTypes, inputVars
<1>5. ASSUME NEW i \in 0..2, NEW d \in DigitRange, SetDigit(i, d) PROVE GearTypes' /\ InputTypes'
  <2>1. regs' \in Random
    BY <1>5, OneDigit DEF SetDigit, GearTypes
  <2> QED BY <1>5, <2>1 DEF SetDigit, GearTypes, InputTypes, inputVars
<1>6. CASE UNCHANGED <<gearVars, inputVars>>
  BY <1>6, SameGears, SameInput
<1> QED BY <1>1, <1>2, <1>3, <1>4, <1>5, <1>6

\* Steps that touch neither the search nor the results.
LEMMA PlainTypes ==
  ASSUME Types, SearchUntouched, state # "idle", state' \in State,
         state' \notin {"idle", "write_search", "compare", "verify"}, GearTypes', InputTypes'
  PROVE  Types'
<1>1. SearchTypes' /\ RoundTypes' /\ ResultTypes'
  BY SameSearch, SameRounds, SameResult DEF Types, SearchUntouched
<1>2. StateTypes'
  BY DEF Types, StateTypes, SearchUntouched, resultVars
<1> QED BY <1>1, <1>2 DEF Types

\* Steps that end the commissioning.
LEMMA EndTypes ==
  ASSUME Types, ReleaseBus, NEW o \in Outcome, Finish(o),
         UNCHANGED <<cancel, searchVars, roundVars, mode, found, present>>,
         nextAddr' \in 0..MaxGears, nextAddr <= nextAddr'
  PROVE  Types'
<1>1. SearchTypes' /\ RoundTypes' /\ GearTypes' /\ InputTypes'
  BY SameSearch, SameRounds, FrameTypes DEF Types
<1>2. ResultTypes'
  BY DEF Types, ResultTypes, Finish
<1>3. StateTypes'
  BY Names DEF Types, StateTypes, Finish, State
<1> QED BY <1>1, <1>2, <1>3 DEF Types

LEMMA BeginTypes ==
  ASSUME Types, NEW m \in {"all", "unaddressed"}, NEW start \in Address, NEW confirm, Begin(m, start, confirm)
  PROVE  Types'
<1>1. SearchTypes' /\ RoundTypes' /\ GearTypes' /\ InputTypes'
  BY SameSearch, SameRounds, SameGears, SameInput DEF Begin, Types
<1>2. KeptBy(m) \in [Address -> BOOLEAN]
  BY DEF KeptBy, Types, ResultTypes
<1>3. /\ state = "idle" /\ outcome = None /\ found = 0 /\ mode = "unaddressed" /\ found' = 0
      /\ UNCHANGED cancel
  BY DEF Begin, Types, StateTypes
<1>4. start \in 0..MaxGears /\ 0 <= start
  BY Sizes DEF Address
<1>5. \/ outcome' = "invalid_arg" /\ UNCHANGED <<state, mode, nextAddr, present>>
      \/ state' = "quiescent" /\ mode' = m /\ nextAddr' = start /\ present' = KeptBy(m) /\ UNCHANGED outcome
  BY DEF Begin
<1>6. ResultTypes'
  BY <1>2, <1>3, <1>4, <1>5 DEF Types, ResultTypes, Outcome
<1>7. StateTypes'
  BY <1>3, <1>5, Names DEF Types, StateTypes, State, Outcome
<1> QED BY <1>1, <1>6, <1>7 DEF Types

LEMMA FramesTypes ==
  ASSUME Types,
         \/ Quiescent \/ Settles \/ Terminate103 \/ TerminateStart \/ Initialise \/ Randomise \/ Withdraw
  PROVE  Types'
<1>0. GearTypes /\ InputTypes
  BY DEF Types
<1>1. /\ state # "idle" /\ SearchUntouched /\ state' \in State
      /\ state' \notin {"idle", "write_search", "compare", "verify"}
  BY DEF Quiescent, Settles, Settle, Terminate103, TerminateStart, Initialise, Randomise, Withdraw,
         Running, State, SearchUntouched
<1>2. GearTypes' /\ InputTypes'
  <2>1. CASE Quiescent \/ Terminate103
    <3>1. UNCHANGED gearVars
      BY <2>1 DEF Quiescent, Terminate103, Sent
    <3>2. quiet' \in BOOLEAN /\ phantom' \in BOOLEAN
      BY <1>0, <2>1 DEF Quiescent, Terminate103, Sent, InputTypes, inputVars
    <3> QED BY <1>0, <3>1, <3>2, SameGears DEF InputTypes
  <2>2. CASE Settles
    BY <1>0, <2>2, SameGears, SameInput DEF Settles, Settle
  <2>3. CASE TerminateStart \/ Initialise \/ Randomise \/ Withdraw
    <3>1. AllOff \/ InitialiseGears \/ RandomiseGears \/ WithdrawGears \/ UNCHANGED <<gearVars, inputVars>>
      BY <2>3 DEF TerminateStart, Initialise, Randomise, Withdraw, Sent
    <3> QED BY <1>0, <3>1, FrameTypes
  <2> QED BY <2>1, <2>2, <2>3
<1> QED BY <1>1, <1>2, PlainTypes

LEMMA EndsTypes ==
  ASSUME Types,
         \/ CancelNow \/ TerminateEnd
         \/ /\ TooMany
            /\ RoundStart
  PROVE  Types'
<1>1. /\ ReleaseBus /\ (\E o \in Outcome : Finish(o))
      /\ UNCHANGED <<cancel, searchVars, roundVars, mode, nextAddr, found, present>>
  BY DEF CancelNow, TerminateEnd, RoundStart, Outcome
<1>2. nextAddr' \in 0..MaxGears /\ nextAddr <= nextAddr'
  BY <1>1 DEF Types, ResultTypes
<1> QED BY <1>1, <1>2, EndTypes

LEMMA RoundTypesKept ==
  ASSUME Types, RoundStart, ~TooMany
  PROVE  Types'
<1>1. /\ OpenRound /\ stuck' = (IF Assigned THEN 0 ELSE stuck + 1) /\ (~Assigned => ~(stuck + 1 >= MaxStuckRounds))
      /\ state = "round_start"
  BY DEF RoundStart, TooMany, Running
<1>2. RoundTypes'
  <2>1. stuck' \in 0..(MaxStuckRounds - 1)
    BY <1>1, Sizes DEF Types, RoundTypes
  <2> QED BY <1>1, <2>1 DEF OpenRound, RoundTypes, Types, ResultTypes
<1>3. SearchTypes'
  <2>1. low' = 0 /\ high' = SEARCH_MAX /\ search' = SEARCH_MAX /\ byte' = 0 /\ UNCHANGED written
    BY <1>1 DEF OpenRound
  <2>2. roundOpen' \in BOOLEAN
    BY <1>1 DEF OpenRound
  <2>3. low' <= search' /\ search' <= high'
    BY <2>1, Numbers
  <2>4. low' \in Random /\ high' \in Random /\ search' \in Random
    BY <2>1, Numbers
  <2>5. byte' \in 0..3 /\ written' \in Random \cup {None}
    BY <2>1 DEF Types, SearchTypes
  <2> QED BY <2>2, <2>3, <2>4, <2>5 DEF SearchTypes
<1>4. ResultTypes' /\ GearTypes' /\ InputTypes'
  BY <1>1, SameResult, SameGears, SameInput DEF OpenRound, Types
<1>5. StateTypes'
  BY <1>1 DEF OpenRound, Types, StateTypes, State, resultVars
<1> QED BY <1>2, <1>3, <1>4, <1>5 DEF Types

\* The bytes still to be written, and the next of them.
Todo == {i \in byte..2 : written = None \/ Digit(search, i) # Digit(written, i)}

LEMMA NextByte ==
  ASSUME Types, Todo # {}
  PROVE  /\ Min(Todo) \in Todo /\ Min(Todo) \in 0..2 /\ \A i \in Todo : Min(Todo) <= i
         /\ Digit(search, Min(Todo)) \in DigitRange
<1>1. byte \in Nat /\ Todo \subseteq byte..2
  BY DEF Todo, Types, SearchTypes
<1>2. Todo \in SUBSET Nat
  BY <1>1
<1>3. Min(Todo) \in Todo /\ \A i \in Todo : Min(Todo) <= i
  BY <1>2, LeastIs
<1>4. Min(Todo) \in 0..2
  <2>1. Min(Todo) \in byte..2
    BY <1>1, <1>3, Zenon
  <2> QED BY <1>1, <2>1
<1>5. \A i \in 0..2 : Digit(search, i) \in DigitRange
  <2>1. search \in Random
    BY DEF Types, SearchTypes
  <2>2. Digit(search, 0) \in DigitRange /\ Digit(search, 1) \in DigitRange /\ Digit(search, 2) \in DigitRange
    BY <2>1, Decomposed
  <2> QED BY <2>2
<1> QED BY <1>3, <1>4, <1>5

LEMMA WriteIs ==
  ASSUME Types, WriteSearch
  PROVE  \/ /\ Todo = {} /\ byte' = 3 /\ written' = search /\ state' = "compare"
            /\ UNCHANGED <<gearVars, inputVars, faults>>
         \/ /\ Todo # {} /\ byte' = Min(Todo) + 1 /\ UNCHANGED <<written, state>>
            /\ Sent(SetDigit(Min(Todo), Digit(search, Min(Todo))))
  BY DEF WriteSearch, Todo

LEMMA WriteTypes ==
  ASSUME Types, WriteSearch
  PROVE  Types'
<1>1. /\ UNCHANGED <<cancel, low, high, search, roundOpen, roundVars, resultVars>> /\ state = "write_search"
  BY DEF WriteSearch, Running
<1>2. byte' \in 0..3 /\ written' \in Random \cup {None} /\ state' \in {"write_search", "compare"}
  BY <1>1, WriteIs, NextByte DEF Types, SearchTypes
<1>3. SearchTypes'
  BY <1>1, <1>2 DEF Types, SearchTypes
<1>4. GearTypes' /\ InputTypes'
  BY WriteIs, NextByte, FrameTypes DEF Sent, Types
<1>5. StateTypes'
  BY <1>1, <1>2 DEF Types, StateTypes, State, resultVars
<1>6. RoundTypes' /\ ResultTypes'
  BY <1>1, SameRounds, SameResult DEF Types
<1> QED BY <1>3, <1>4, <1>5, <1>6 DEF Types

LEMMA Middle ==
  ASSUME NEW l \in Nat, NEW h \in Nat, l <= h
  PROVE  LET m == l + (h - l) \div 2 IN m \in Nat /\ l <= m /\ m <= h /\ (l < h => m < h) /\ (l = h => m = l)
  OBVIOUS

\* What a comparison does to the bounds: nothing answers and nothing ever did, the half
\* that answers is kept, or there is only one address left.
LEMMA CompareIs ==
  ASSUME Types, Compare
  PROVE  \E reply \in {"none", "valid", "collision"} :
           /\ Hears(Answering, reply)
           /\ \/ /\ ~roundOpen /\ reply = "none" /\ state' = "terminate_end"
                 /\ UNCHANGED <<low, high, search, byte, roundOpen>>
              \/ /\ roundOpen \/ reply # "none"
                 /\ low < high /\ roundOpen' = TRUE /\ byte' = 0 /\ state' = "write_search"
                 /\ Narrow(reply # "none") /\ search' = low' + (high' - low') \div 2
              \/ /\ roundOpen \/ reply # "none"
                 /\ ~(low < high) /\ roundOpen' = TRUE /\ byte' = 0 /\ state' = "program"
                 /\ search' = low /\ UNCHANGED <<low, high>>
<1>1. PICK reply \in {"none", "valid", "collision"} :
       /\ Hears(Answering, reply)
       /\ IF ~roundOpen /\ reply = "none"
          THEN /\ state' = "terminate_end"
               /\ UNCHANGED <<low, high, search, byte, roundOpen>>
          ELSE /\ roundOpen' = TRUE /\ byte' = 0
               /\ IF low < high
                  THEN /\ Narrow(reply # "none")
                       /\ search' = low' + (high' - low') \div 2
                       /\ state' = "write_search"
                  ELSE /\ search' = low
                       /\ state' = "program"
                       /\ UNCHANGED <<low, high>>
  BY DEF Compare
<1>2. CASE ~roundOpen /\ reply = "none"
  BY <1>1, <1>2
<1>3. CASE ~(~roundOpen /\ reply = "none") /\ low < high
  BY <1>1, <1>3
<1>4. CASE ~(~roundOpen /\ reply = "none") /\ ~(low < high)
  BY <1>1, <1>4
<1> QED BY <1>2, <1>3, <1>4

LEMMA NarrowTypes ==
  ASSUME Types, state = "compare", low < high, NEW any \in BOOLEAN, roundOpen \/ any, Narrow(any),
         search' = low' + (high' - low') \div 2
  PROVE  /\ low' \in Random /\ high' \in Random /\ search' \in Random
         /\ low' <= search' /\ search' <= high' /\ (low' < high' => search' < high')
<1>1. /\ low \in Nat /\ high \in Nat /\ search \in Nat /\ high <= SEARCH_MAX /\ SEARCH_MAX \in Nat
      /\ low <= search /\ search <= high /\ search \in Random /\ low \in Random /\ high \in Random
  BY Numbers DEF Types, SearchTypes
<1>2. low' \in Nat /\ high' \in Nat /\ low' <= high' /\ high' <= SEARCH_MAX
  <2>1. CASE any
    BY <1>1, <2>1 DEF Narrow
  <2>2. CASE ~any
    <3>1. search < high
      BY <2>2 DEF Types, StateTypes
    <3> QED BY <1>1, <2>2, <3>1 DEF Narrow
  <2> QED BY <2>1, <2>2
<1>3. /\ search' \in Nat /\ low' <= search' /\ search' <= high' /\ (low' < high' => search' < high')
  BY <1>2, Middle
<1>4. \A x \in Nat : x <= SEARCH_MAX => x \in Random
  BY <1>1 DEF Random
<1>5. low' <= SEARCH_MAX /\ search' <= SEARCH_MAX
  <2>1. SEARCH_MAX \in Nat
    BY <1>1
  <2> QED BY ONLY <1>2, <1>3, <2>1
<1>6. low' \in Random /\ high' \in Random /\ search' \in Random
  BY <1>2, <1>3, <1>4, <1>5
<1> QED BY <1>3, <1>6

LEMMA CompareTypes ==
  ASSUME Types, Compare
  PROVE  Types'
<1>1. /\ UNCHANGED <<cancel, written, roundVars, resultVars, gearVars, inputVars>> /\ state = "compare"
  BY DEF Compare, Running
<1>2. RoundTypes' /\ ResultTypes' /\ GearTypes' /\ InputTypes'
  BY <1>1, SameRounds, SameResult, SameGears, SameInput DEF Types
<1>3. /\ low' \in Random /\ high' \in Random /\ search' \in Random /\ byte' \in 0..3 /\ roundOpen' \in BOOLEAN
      /\ low' <= search' /\ search' <= high'
      /\ state' \in {"terminate_end", "write_search", "program"}
      /\ state' = "write_search" /\ low' < high' => search' < high'
  <2>1. /\ low \in Random /\ high \in Random /\ search \in Random /\ byte \in 0..3 /\ roundOpen \in BOOLEAN
        /\ low <= search /\ search <= high /\ low \in Nat /\ high \in Nat /\ search \in Nat
    BY Numbers DEF Types, SearchTypes
  <2>2. PICK reply \in {"none", "valid", "collision"} :
           \/ /\ state' = "terminate_end"
              /\ UNCHANGED <<low, high, search, byte, roundOpen>>
           \/ /\ roundOpen \/ reply # "none"
              /\ low < high /\ roundOpen' = TRUE /\ byte' = 0 /\ state' = "write_search"
              /\ Narrow(reply # "none") /\ search' = low' + (high' - low') \div 2
           \/ /\ ~(low < high) /\ roundOpen' = TRUE /\ byte' = 0 /\ state' = "program"
              /\ search' = low /\ UNCHANGED <<low, high>>
    BY CompareIs
  <2>3. CASE /\ state' = "terminate_end"
             /\ UNCHANGED <<low, high, search, byte, roundOpen>>
    BY <2>1, <2>3
  <2>4. CASE /\ roundOpen \/ reply # "none"
             /\ low < high /\ roundOpen' = TRUE /\ byte' = 0 /\ state' = "write_search"
             /\ Narrow(reply # "none") /\ search' = low' + (high' - low') \div 2
    <3>1. /\ low' \in Random /\ high' \in Random /\ search' \in Random
          /\ low' <= search' /\ search' <= high' /\ (low' < high' => search' < high')
      BY <1>1, <2>4, NarrowTypes
    <3>2. byte' \in 0..3 /\ roundOpen' \in BOOLEAN
      BY <2>4
    <3> QED BY <2>4, <3>1, <3>2
  <2>5. CASE /\ ~(low < high) /\ roundOpen' = TRUE /\ byte' = 0 /\ state' = "program"
             /\ search' = low /\ UNCHANGED <<low, high>>
    <3>1. byte' \in 0..3 /\ roundOpen' \in BOOLEAN
      BY <2>5
    <3>2. low' <= search' /\ search' <= high'
      BY <2>1, <2>5
    <3> QED BY <2>1, <2>5, <3>1, <3>2
  <2> QED BY <2>2, <2>3, <2>4, <2>5
<1>4. SearchTypes'
  BY <1>1, <1>3 DEF Types, SearchTypes
<1>5. StateTypes'
  BY <1>1, <1>3 DEF Types, StateTypes, State, resultVars
<1> QED BY <1>2, <1>4, <1>5 DEF Types

\* The address to program is free, if there is one.
LEMMA NextFreeIs ==
  ASSUME Types
  PROVE  /\ NextFree(nextAddr) \in nextAddr..MaxGears
         /\ NextFree(nextAddr) # MaxGears
              => NextFree(nextAddr) \in Address /\ ~present[NextFree(nextAddr)]
<1> DEFINE S == {b \in nextAddr..MaxGears : b = MaxGears \/ ~present[b]}
<1>1. nextAddr \in Nat /\ MaxGears \in Nat /\ nextAddr <= MaxGears
  BY Sizes DEF Types, ResultTypes
<1>2. MaxGears \in S /\ S \in SUBSET Nat
  BY <1>1
<1>3. Min(S) \in S
  <2> HIDE DEF S
  <2> QED BY <1>2, LeastIs
<1>4. NextFree(nextAddr) = Min(S)
  BY DEF NextFree
<1>5. Min(S) \in nextAddr..MaxGears /\ (Min(S) = MaxGears \/ ~present[Min(S)])
  BY <1>3
<1> HIDE DEF S
<1>6. Min(S) # MaxGears => Min(S) \in Address
  BY <1>1, <1>5 DEF Address
<1> QED BY <1>4, <1>5, <1>6

LEMMA ProgramTypes ==
  ASSUME Types, Program
  PROVE  Types'
<1>1. /\ nextAddr' = NextFree(nextAddr) /\ state = "program"
      /\ UNCHANGED <<cancel, searchVars, roundVars, mode, found, present>>
  BY DEF Program, Running
<1>2. nextAddr' \in 0..MaxGears /\ nextAddr <= nextAddr' /\ nextAddr \in Nat /\ found \in Nat /\ found <= nextAddr
  BY <1>1, NextFreeIs, Sizes DEF Types, ResultTypes
<1>3. CASE nextAddr' = MaxGears
  <2>1. ReleaseBus /\ Finish("address_in_use") /\ "address_in_use" \in Outcome
    BY <1>3 DEF Program, Outcome
  <2> QED BY <1>1, <1>2, <2>1, EndTypes
<1>4. CASE nextAddr' # MaxGears
  <2>1. Sent(ProgramGears(nextAddr')) /\ state' = "verify" /\ UNCHANGED outcome
    BY <1>4 DEF Program
  <2>2. nextAddr' \in Address /\ nextAddr' < MaxGears
    BY <1>1, <1>2, <1>4, NextFreeIs, Sizes DEF Address
  <2>3. GearTypes' /\ InputTypes'
    BY <2>1, <2>2, FrameTypes DEF Sent, Types
  <2>4. SearchTypes' /\ RoundTypes'
    BY <1>1, SameSearch, SameRounds DEF Types
  <2>5. ResultTypes'
    BY <1>1, <1>2, <2>1 DEF Types, ResultTypes
  <2>6. StateTypes'
    BY <1>1, <2>1, <2>2 DEF Types, StateTypes, State
  <2> QED BY <2>3, <2>4, <2>5, <2>6 DEF Types
<1> QED BY <1>3, <1>4

LEMMA VerifyTypes ==
  ASSUME Types, Verify
  PROVE  Types'
<1>1. /\ state = "verify" /\ state' = "withdraw"
      /\ UNCHANGED <<cancel, searchVars, rounds, lastFound, stuck, mode, outcome, gearVars, inputVars>>
      /\ masked' \in BOOLEAN
      /\ \/ /\ present' = [present EXCEPT ![nextAddr] = TRUE]
            /\ found' = found + 1 /\ nextAddr' = nextAddr + 1
         \/ UNCHANGED <<present, found, nextAddr>>
  BY DEF Verify, Running, Types, RoundTypes
<1>2. SearchTypes' /\ RoundTypes' /\ GearTypes' /\ InputTypes'
  BY <1>1, SameSearch, SameGears, SameInput DEF Types, RoundTypes
<1>3. nextAddr < MaxGears /\ nextAddr \in 0..MaxGears /\ found \in 0..MaxGears /\ found <= nextAddr
      /\ MaxGears \in Nat
  BY <1>1, Sizes DEF Types, StateTypes, ResultTypes
<1>4. nextAddr' \in 0..MaxGears /\ found' \in 0..MaxGears /\ found' <= nextAddr'
  BY <1>1, <1>3
<1>5. present' \in [Address -> BOOLEAN]
  BY <1>1 DEF Types, ResultTypes
<1>6. ResultTypes'
  BY <1>1, <1>4, <1>5 DEF Types, ResultTypes
<1>7. StateTypes'
  BY <1>1 DEF Types, StateTypes, State
<1> QED BY <1>2, <1>6, <1>7 DEF Types

LEMMA NextTypes == Types /\ [Next]_vars => Types'
<1> SUFFICES ASSUME Types, [Next]_vars PROVE Types'
  OBVIOUS
<1>1. CASE RequestCancel
  <2>1. SearchTypes' /\ RoundTypes' /\ ResultTypes' /\ GearTypes' /\ InputTypes'
    BY <1>1, SameSearch, SameRounds, SameResult, SameGears, SameInput DEF RequestCancel, Types
  <2>2. StateTypes'
    BY <1>1 DEF RequestCancel, Types, StateTypes, searchVars, resultVars
  <2> QED BY <2>1, <2>2 DEF Types
<1>2. CASE UNCHANGED vars
  <2>1. SearchTypes' /\ RoundTypes' /\ ResultTypes' /\ GearTypes' /\ InputTypes'
    BY <1>2, SameSearch, SameRounds, SameResult, SameGears, SameInput DEF vars, Types
  <2>2. StateTypes'
    BY <1>2 DEF vars, Types, StateTypes, searchVars, resultVars
  <2> QED BY <2>1, <2>2 DEF Types
<1>3. CASE RoundStart
  BY <1>3, EndsTypes, RoundTypesKept
<1>4. CASE Step /\ ~RoundStart
  <2>1. CASE CancelNow \/ TerminateEnd
    BY <2>1, EndsTypes
  <2>2. CASE Quiescent \/ Settles \/ Terminate103 \/ TerminateStart \/ Initialise \/ Randomise \/ Withdraw
    BY <2>2, FramesTypes
  <2>3. CASE WriteSearch \/ Compare
    BY <2>3, WriteTypes, CompareTypes
  <2>4. CASE Program \/ Verify
    BY <2>4, ProgramTypes, VerifyTypes
  <2> QED BY <1>4, <2>1, <2>2, <2>3, <2>4 DEF Step
<1>5. CASE \E m \in {"all", "unaddressed"}, start \in Address, confirm \in BOOLEAN : Begin(m, start, confirm)
  BY <1>5, BeginTypes
<1> QED BY <1>1, <1>2, <1>3, <1>4, <1>5 DEF Next

LEMMA TypesAlways == Spec => []Types
  BY InitTypes, NextTypes, PTL DEF Spec

\* The commissioning is well typed whatever the gears answer and whatever frames are lost: the
\* bisection never leaves the range of search addresses, no gear is counted beyond
\* the addresses there are, and the fruitless rounds stay under their limit
\* (bus_commission_step).
THEOREM TypeCorrect == Spec => []TypeOK
<1>1. Types => TypeOK
  BY DEF Types, TypeOK, SearchTypes, RoundTypes, ResultTypes, GearTypes, InputTypes, StateTypes
<1> QED BY <1>1, TypesAlways, PTL

-----------------------------------------------------------------------------
(* The end of a commissioning. *)

\* Before a commissioning and after it, nobody is in the initialise state or silenced.
Released == state = "idle" => (\A g \in Gear : init[g] = "off") /\ ~quiet

\* However a commissioning ends, the gears are out of the initialise state and the input
\* devices may talk again, unless the frames that say so are lost: the code sends them once
\* and does not look (cancel_now, leave_quiescent).
THEOREM BusReleased == ~FramesLost => (Spec => []BusLeftUsable)
<1> SUFFICES ASSUME ~FramesLost PROVE Spec => []BusLeftUsable
  OBVIOUS
<1>1. Init => Released
  BY DEF Init, Released
<1>2. Types /\ Released /\ [Next]_vars => Released'
  <2> SUFFICES ASSUME Types, Released, [Next]_vars, state' = "idle"
               PROVE  (\A g \in Gear : init'[g] = "off") /\ ~quiet'
    BY DEF Released
  <2>1. CASE ReleaseBus
    BY <2>1 DEF ReleaseBus
  <2>2. CASE state = "idle" /\ UNCHANGED <<init, quiet>>
    BY <2>2 DEF Released
  <2>3. ReleaseBus \/ (state = "idle" /\ UNCHANGED <<init, quiet>>)
    <3>1. ASSUME NEW m, NEW start, NEW confirm, Begin(m, start, confirm)
          PROVE  state = "idle" /\ UNCHANGED <<init, quiet>>
      BY <3>1 DEF Begin, gearVars, inputVars
    <3>2. ~RequestCancel
      BY DEF RequestCancel
    <3>3. CASE UNCHANGED vars
      BY <3>3 DEF vars, gearVars, inputVars
    <3>4. CASE Step
      <4>1. ~(Quiescent \/ Settles \/ Terminate103 \/ TerminateStart \/ Initialise \/ Randomise)
        BY DEF Quiescent, Settles, Settle, Terminate103, TerminateStart, Initialise, Randomise
      <4>2. ~(Verify \/ Withdraw)
        BY DEF Verify, Withdraw
      <4>3. ~WriteSearch
        BY DEF WriteSearch, Running
      <4>4. ~Compare
        BY DEF Compare
      <4>5. CASE CancelNow \/ TerminateEnd
        BY <4>5 DEF CancelNow, TerminateEnd
      <4>6. CASE RoundStart
        BY <4>6 DEF RoundStart, OpenRound
      <4>7. CASE Program
        BY <4>7 DEF Program
      <4> QED BY <3>4, <4>1, <4>2, <4>3, <4>4, <4>5, <4>6, <4>7 DEF Step
    <3> QED BY <3>1, <3>2, <3>3, <3>4 DEF Next
  <2> QED BY <2>1, <2>2, <2>3
<1>3. Types /\ Released => BusLeftUsable
  BY DEF Types, StateTypes, Released, BusLeftUsable
<1> QED BY <1>1, <1>2, <1>3, TypesAlways, PTL DEF Spec

-----------------------------------------------------------------------------
(* The end comes. *)

counts == <<rounds, lastFound, stuck>>

\* The ways a step leaves less to do: the first of the parts that changes is smaller.
Shrinks ==
  \/ rounds = 0 /\ rounds' = 1
  \/ rounds' = rounds /\ lastFound < lastFound'
  \/ rounds' = rounds /\ lastFound' = lastFound /\ stuck < stuck'
  \/ UNCHANGED counts /\ Rank[state'] < Rank[state]
  \/ /\ UNCHANGED counts /\ Rank[state'] = Rank[state]
     /\ \/ ~roundOpen /\ roundOpen'
        \/ roundOpen' = roundOpen /\ high' - low' < high - low
        \/ UNCHANGED <<roundOpen, low, high>> /\ state = "write_search" /\ state' = "compare"
        \/ UNCHANGED <<roundOpen, low, high, state>> /\ byte < byte'

LEMMA RankIs == \A s \in State : Rank[s] \in 0..13
  BY DEF Rank

LEMMA CloserTo ==
  ASSUME NEW n \in Nat, NEW a \in Nat, NEW b \in Nat, a < b, b <= n
  PROVE  n - b \in 0..((n - a) - 1)
  OBVIOUS

LEMMA NarrowerThan ==
  ASSUME NEW l \in Nat, NEW h \in Nat, NEW m \in Nat, NEW k \in Nat, m <= k, k - m < h - l
  PROVE  k - m \in 0..((h - l) - 1)
  OBVIOUS

LEMMA ShrinksIsLess ==
  ASSUME Types, Types', Shrinks
  PROVE  Less(Remaining', Remaining)
<1> DEFINE s == Remaining'
           t == Remaining
           open == IF roundOpen THEN 0 ELSE 1
           writing == IF state = "write_search" THEN 1 ELSE 0
<1>0. /\ rounds \in {0, 1} /\ lastFound \in 0..MaxGears /\ stuck \in 0..(MaxStuckRounds - 1)
      /\ rounds' \in {0, 1} /\ lastFound' \in 0..MaxGears /\ stuck' \in 0..(MaxStuckRounds - 1)
      /\ MaxGears \in Nat /\ MaxStuckRounds \in Nat
      /\ Rank[state] \in 0..13 /\ Rank[state'] \in 0..13
      /\ roundOpen \in BOOLEAN /\ roundOpen' \in BOOLEAN
      /\ low \in Nat /\ high \in Nat /\ low' \in Nat /\ high' \in Nat
      /\ low <= high /\ low' <= high' /\ byte \in 0..3 /\ byte' \in 0..3
  <2>1. low \in Nat /\ high \in Nat /\ low <= high /\ low' \in Nat /\ high' \in Nat /\ low' <= high'
    BY Numbers DEF Types, SearchTypes
  <2> QED BY <2>1, Sizes, RankIs DEF Types, SearchTypes, RoundTypes, StateTypes
<1>1. /\ t = <<1 - rounds, MaxGears - lastFound, MaxStuckRounds - stuck, Rank[state],
               open, high - low, writing, 3 - byte>>
      /\ s = <<1 - rounds', MaxGears - lastFound', MaxStuckRounds - stuck', Rank[state'],
               open', high' - low', writing', 3 - byte'>>
      /\ DOMAIN s = 1..8
  BY DEF Remaining
<1>2. SUFFICES \E i \in 1..8 : s[i] \in 0..(t[i] - 1) /\ \A j \in 1..(i - 1) : s[j] = t[j]
  BY <1>1 DEF Less
<1>3. /\ t[1] = 1 - rounds /\ t[2] = MaxGears - lastFound /\ t[3] = MaxStuckRounds - stuck
      /\ t[4] = Rank[state] /\ t[5] = open /\ t[6] = high - low /\ t[7] = writing /\ t[8] = 3 - byte
      /\ s[1] = 1 - rounds' /\ s[2] = MaxGears - lastFound' /\ s[3] = MaxStuckRounds - stuck'
      /\ s[4] = Rank[state'] /\ s[5] = open' /\ s[6] = high' - low' /\ s[7] = writing'
      /\ s[8] = 3 - byte'
  BY <1>1
<1> HIDE DEF s, t
<1>4. CASE rounds = 0 /\ rounds' = 1
  <2>1. s[1] \in 0..(t[1] - 1)
    BY <1>3, <1>4
  <2> QED BY <2>1
<1>5. CASE rounds' = rounds /\ lastFound < lastFound'
  <2>0. lastFound \in Nat /\ lastFound' \in Nat /\ lastFound' <= MaxGears /\ MaxGears \in Nat
    BY <1>0
  <2>1. MaxGears - lastFound' \in 0..((MaxGears - lastFound) - 1)
    BY ONLY <1>5, <2>0, CloserTo
  <2>2. s[2] \in 0..(t[2] - 1) /\ s[1] = t[1]
    BY <1>3, <1>5, <2>1
  <2> QED BY <2>2
<1>6. CASE rounds' = rounds /\ lastFound' = lastFound /\ stuck < stuck'
  <2>0. stuck \in Nat /\ stuck' \in Nat /\ stuck' <= MaxStuckRounds /\ MaxStuckRounds \in Nat
    BY <1>0
  <2>1. MaxStuckRounds - stuck' \in 0..((MaxStuckRounds - stuck) - 1)
    BY ONLY <1>6, <2>0, CloserTo
  <2>2. s[3] \in 0..(t[3] - 1) /\ s[1] = t[1] /\ s[2] = t[2]
    BY <1>3, <1>6, <2>1
  <2> QED BY <2>2
<1>7. ASSUME UNCHANGED counts PROVE s[1] = t[1] /\ s[2] = t[2] /\ s[3] = t[3]
  BY <1>3, <1>7 DEF counts
<1>8. CASE UNCHANGED counts /\ Rank[state'] < Rank[state]
  <2>1. s[4] \in 0..(t[4] - 1)
    BY <1>0, <1>3, <1>8
  <2> QED BY <1>7, <1>8, <2>1
<1>9. CASE UNCHANGED counts /\ Rank[state'] = Rank[state] /\ ~roundOpen /\ roundOpen'
  <2>1. s[5] \in 0..(t[5] - 1) /\ s[4] = t[4]
    BY <1>3, <1>9
  <2> QED BY <1>7, <1>9, <2>1
<1>10. CASE UNCHANGED counts /\ Rank[state'] = Rank[state] /\ roundOpen' = roundOpen
            /\ high' - low' < high - low
  <2>0. low \in Nat /\ high \in Nat /\ low' \in Nat /\ high' \in Nat /\ low' <= high'
    BY <1>0
  <2>1. high' - low' < high - low
    BY <1>10
  <2>2. high' - low' \in 0..((high - low) - 1)
    BY ONLY <2>0, <2>1, NarrowerThan
  <2>4. s[6] \in 0..(t[6] - 1) /\ s[4] = t[4] /\ s[5] = t[5]
    BY <1>3, <1>10, <2>2
  <2> QED BY <1>7, <1>10, <2>4
<1>11. CASE UNCHANGED counts /\ Rank[state'] = Rank[state] /\ UNCHANGED <<roundOpen, low, high>>
            /\ state = "write_search" /\ state' = "compare"
  <2>1. s[7] \in 0..(t[7] - 1) /\ s[4] = t[4] /\ s[5] = t[5] /\ s[6] = t[6]
    BY <1>3, <1>11
  <2> QED BY <1>7, <1>11, <2>1
<1>12. CASE UNCHANGED counts /\ UNCHANGED <<roundOpen, low, high, state>> /\ byte < byte'
  <2>0. byte \in Nat /\ byte' \in Nat /\ byte' <= 3
    BY <1>0
  <2>1. 3 - byte' \in 0..((3 - byte) - 1)
    BY ONLY <1>12, <2>0, CloserTo
  <2>2. s[8] \in 0..(t[8] - 1) /\ s[4] = t[4] /\ s[5] = t[5] /\ s[6] = t[6] /\ s[7] = t[7]
    BY <1>3, <1>12, <2>1
  <2> QED BY <1>7, <1>12, <2>2
<1> QED BY <1>4, <1>5, <1>6, <1>8, <1>9, <1>10, <1>11, <1>12 DEF Shrinks

\* Once a round was opened, what it is compared with was no more than is counted now.
Counted == rounds = 1 => lastFound <= found

LEMMA InitCounted == Init => Counted
  BY DEF Init, Counted

LEMMA NextCounted == Types /\ Counted /\ [Next]_vars => Counted'
<1> SUFFICES ASSUME Types, Counted, [Next]_vars PROVE Counted'
  OBVIOUS
<1>0. found \in Nat /\ lastFound \in Nat
  BY Sizes DEF Types, ResultTypes, RoundTypes
<1>1. CASE UNCHANGED <<rounds, lastFound, found>>
  BY <1>1 DEF Counted
<1>2. CASE RoundStart
  BY <1>0, <1>2 DEF RoundStart, OpenRound, resultVars, Counted, roundVars
<1>3. CASE Verify
  BY <1>0, <1>3 DEF Verify, roundVars, Counted
<1>4. RoundStart \/ Verify \/ UNCHANGED <<rounds, lastFound, found>>
  BY DEF Next, Step, Begin, RequestCancel, CancelNow, Quiescent, Settles, Settle, Terminate103,
         TerminateStart, Initialise, Randomise, WriteSearch, Compare, Program, Withdraw,
         TerminateEnd, SearchUntouched, vars, roundVars, resultVars
<1> QED BY <1>1, <1>2, <1>3, <1>4

\* In a round that goes on, either it is now open or the window is smaller than it was.
LEMMA NarrowShrinks ==
  ASSUME Types, state = "compare", low < high, NEW any \in BOOLEAN, roundOpen, Narrow(any)
  PROVE  high' - low' < high - low
<1>1. /\ low \in Nat /\ high \in Nat /\ search \in Nat /\ low <= search /\ search < high
  BY Numbers DEF Types, SearchTypes, StateTypes
<1> QED BY <1>1 DEF Narrow

LEMMA StepShrinks ==
  ASSUME Types, Counted, Step, state' # "idle"
  PROVE  Shrinks
<1>1. CASE Quiescent \/ Settles \/ Terminate103 \/ TerminateStart \/ Initialise \/ Randomise \/ Withdraw
  <2>1. UNCHANGED counts
    BY <1>1 DEF Quiescent, Settles, Settle, Terminate103, TerminateStart, Initialise, Randomise,
                Withdraw, SearchUntouched, roundVars, counts
  <2>2. \/ state = "quiescent" /\ state' = "quiescent_settle"
        \/ state = "quiescent_settle" /\ state' = "103_terminate"
        \/ state = "103_terminate" /\ state' = "103_settle"
        \/ state = "103_settle" /\ state' = "terminate_start"
        \/ state = "terminate_start" /\ state' = "initialise"
        \/ state = "initialise" /\ state' = "randomise"
        \/ state = "randomise" /\ state' = "settle"
        \/ state = "settle" /\ state' = "round_start"
        \/ state = "withdraw" /\ state' = "round_start"
    BY <1>1 DEF Quiescent, Settles, Settle, Terminate103, TerminateStart, Initialise, Randomise,
                Withdraw, Running
  <2>3. Rank[state'] < Rank[state]
    BY <2>2 DEF Rank, State
  <2> QED BY <2>1, <2>3 DEF Shrinks
<1>2. CASE RoundStart
  <2>1. /\ OpenRound /\ ~TooMany /\ stuck' = IF Assigned THEN 0 ELSE stuck + 1
    BY <1>2 DEF RoundStart, Finish
  <2>2. /\ rounds \in {0, 1} /\ lastFound \in Nat /\ found \in Nat /\ stuck \in Nat
        /\ rounds' = 1 /\ lastFound' = found
    BY <2>1, Sizes DEF Types, RoundTypes, ResultTypes, OpenRound
  <2>3. CASE rounds = 0
    BY <2>2, <2>3 DEF Shrinks
  <2>4. CASE rounds = 1 /\ found # lastFound
    BY <2>2, <2>4 DEF Shrinks, Counted
  <2>5. CASE rounds = 1 /\ found = lastFound
    <3>1. stuck' = stuck + 1
      BY <2>1, <2>5 DEF Assigned
    <3> QED BY <2>2, <2>5, <3>1 DEF Shrinks
  <2> QED BY <2>2, <2>3, <2>4, <2>5
<1>3. CASE WriteSearch
  <2>1. UNCHANGED <<low, high, roundOpen, counts>> /\ state = "write_search"
    BY <1>3 DEF WriteSearch, Running, roundVars, counts
  <2>2. CASE state' = "compare"
    <3>1. Rank[state'] = Rank[state]
      BY <2>1, <2>2 DEF Rank, State
    <3> QED BY <2>1, <2>2, <3>1 DEF Shrinks
  <2>3. CASE Todo # {} /\ byte' = Min(Todo) + 1 /\ UNCHANGED state
    <3>1. Min(Todo) \in byte..2 /\ byte \in Nat
      BY <2>3, NextByte DEF Todo, Types, SearchTypes
    <3>2. byte < byte'
      BY <2>3, <3>1
    <3>3. Rank[state'] = Rank[state]
      BY <2>3
    <3> QED BY <2>1, <2>3, <3>2, <3>3 DEF Shrinks
  <2> QED BY <1>3, <2>2, <2>3, WriteIs
<1>4. CASE Compare
  <2>0. state = "compare" /\ UNCHANGED counts /\ roundOpen \in BOOLEAN
    BY <1>4 DEF Compare, Running, Types, SearchTypes, roundVars, counts
  <2>1. PICK reply \in {"none", "valid", "collision"} :
           \/ state' = "terminate_end"
           \/ /\ low < high /\ roundOpen' = TRUE /\ state' = "write_search" /\ Narrow(reply # "none")
           \/ state' = "program"
    BY <1>4, CompareIs
  <2>2. CASE state' = "terminate_end" \/ state' = "program"
    <3>1. Rank[state'] < Rank[state]
      BY <2>0, <2>2 DEF Rank, State
    <3> QED BY <2>0, <3>1 DEF Shrinks
  <2>3. CASE low < high /\ roundOpen' = TRUE /\ state' = "write_search" /\ Narrow(reply # "none")
    <3>1. Rank[state'] = Rank[state]
      BY <2>0, <2>3 DEF Rank, State
    <3>2. CASE ~roundOpen
      BY <2>0, <2>3, <3>1, <3>2 DEF Shrinks
    <3>3. CASE roundOpen
      <4>1. high' - low' < high - low
        BY <2>0, <2>3, <3>3, NarrowShrinks
      <4> QED BY <2>0, <2>3, <3>1, <3>3, <4>1 DEF Shrinks
    <3> QED BY <2>0, <3>2, <3>3
  <2> QED BY <2>1, <2>2, <2>3
<1>5. CASE Program \/ Verify
  <2>1. UNCHANGED counts
    BY <1>5 DEF Program, Verify, roundVars, counts
  <2>2. \/ state = "program" /\ state' = "verify"
        \/ state = "verify" /\ state' = "withdraw"
    BY <1>5 DEF Program, Verify, Finish, Running
  <2>3. Rank[state'] < Rank[state]
    BY <2>2 DEF Rank, State
  <2> QED BY <2>1, <2>3 DEF Shrinks
<1>6. ~CancelNow /\ ~TerminateEnd
  BY DEF CancelNow, TerminateEnd, Finish
<1> QED BY <1>1, <1>2, <1>3, <1>4, <1>5, <1>6 DEF Step

\* Every step of a commissioning leaves less to do, for any number of gears and addresses and
\* any width of the search address, whatever replies and frames are lost or misheard: no
\* noise on the wire keeps it going (COMM_COMPARE, COMM_MAX_STUCK_ROUNDS).
THEOREM StepsCountDown == Spec => CountsDown
<1>1. Types /\ Types' /\ Counted /\ [Next]_vars =>
        [state # "idle" /\ state' # "idle"
           => IF cancel' = cancel THEN Less(Remaining', Remaining) ELSE Remaining' = Remaining]_vars
  <2> SUFFICES ASSUME Types, Types', Counted, Next, state # "idle", state' # "idle"
               PROVE  IF cancel' = cancel THEN Less(Remaining', Remaining) ELSE Remaining' = Remaining
    OBVIOUS
  <2>1. CASE RequestCancel
    <3>1. cancel' # cancel
      BY <2>1 DEF RequestCancel
    <3>2. UNCHANGED <<rounds, lastFound, stuck, state, roundOpen, high, low, byte>>
      BY <2>1 DEF RequestCancel, searchVars, roundVars
    <3> QED BY <3>1, <3>2 DEF Remaining
  <2>2. CASE Step
    <3>1. UNCHANGED cancel
      BY <2>2 DEF Step, CancelNow, Quiescent, Settles, Settle, Terminate103, TerminateStart, Initialise,
                  Randomise, RoundStart, OpenRound, WriteSearch, Compare, Program, Verify, Withdraw,
                  TerminateEnd, SearchUntouched
    <3>2. Less(Remaining', Remaining)
      BY <2>2, StepShrinks, ShrinksIsLess
    <3> QED BY <3>1, <3>2
  <2>3. ~(\E m \in {"all", "unaddressed"}, start \in Address, confirm \in BOOLEAN :
            Begin(m, start, confirm))
    BY DEF Begin
  <2> QED BY <2>1, <2>2, <2>3 DEF Next
<1> QED BY <1>1, InitCounted, NextCounted, TypesAlways, PTL DEF Spec, CountsDown

-----------------------------------------------------------------------------
(* A wire on which nothing is lost or misheard. *)

LEMMA NoFault == MaxFaults = 0 /\ faults = 0 => ~Fault
  BY FaultAssumption DEF Fault, MayFail

\* Input devices are silent once they were told to be, and out of their own initialise state
\* once they were told that.
Talking == {"idle", "quiescent"}
Wire ==
  /\ faults = 0
  /\ state \notin Talking => quiet
  /\ state \notin Talking \cup {"quiescent_settle", "103_terminate"} => ~phantom

LEMMA WireKept ==
  ASSUME MaxFaults = 0, Types, Wire, [Next]_vars
  PROVE  Wire'
<1>0. ~Fault
  BY NoFault DEF Wire
<1>1. ASSUME NEW m, NEW start, NEW confirm, Begin(m, start, confirm) PROVE Wire'
  BY <1>1 DEF Begin, Wire, Talking
<1>2. CASE UNCHANGED <<faults, inputVars, state>>
  BY <1>2 DEF Wire, inputVars
<1>3. CASE ReleaseBus /\ state' = "idle"
  BY <1>0, <1>3 DEF ReleaseBus, Wire, Talking
<1>4. CASE Quiescent \/ Terminate103
  BY <1>0, <1>4 DEF Quiescent, Terminate103, Sent, Wire, Talking, Running
<1>5. CASE Settles
  BY <1>5 DEF Settles, Settle, Running, Wire, Talking, inputVars
<1>6. CASE TerminateStart \/ Initialise \/ Randomise \/ Withdraw
  <2>1. UNCHANGED <<faults, inputVars>>
    BY <1>0, <1>6 DEF TerminateStart, Initialise, Randomise, Withdraw, Sent, AllOff, InitialiseGears,
                      RandomiseGears, WithdrawGears
  <2>2. state \in {"terminate_start", "initialise", "randomise", "withdraw"}
    BY <1>6 DEF TerminateStart, Initialise, Randomise, Withdraw, Running
  <2> QED BY <2>1, <2>2 DEF Wire, Talking, inputVars
<1>7. CASE RoundStart
  BY <1>3, <1>7 DEF RoundStart, OpenRound, Finish, Running, Wire, Talking, inputVars
<1>8. CASE WriteSearch
  <2>1. UNCHANGED <<faults, inputVars>>
    BY <1>0, <1>8, WriteIs DEF Sent, SetDigit
  <2>2. state = "write_search"
    BY <1>8 DEF WriteSearch, Running
  <2> QED BY <2>1, <2>2 DEF Wire, Talking, inputVars
<1>9. CASE Compare \/ Verify
  <2>1. UNCHANGED <<faults, inputVars>>
    BY <1>0, <1>9 DEF Compare, Verify, Hears
  <2>2. state \in {"compare", "verify"}
    BY <1>9 DEF Compare, Verify, Running
  <2> QED BY <2>1, <2>2 DEF Wire, Talking, inputVars
<1>10. CASE Program
  <2>1. CASE nextAddr' = MaxGears
    BY <1>3, <1>10, <2>1 DEF Program, Finish
  <2>2. CASE nextAddr' # MaxGears
    <3>1. UNCHANGED <<faults, inputVars>> /\ state = "program"
      BY <1>0, <1>10, <2>2 DEF Program, Sent, ProgramGears, Running
    <3> QED BY <3>1 DEF Wire, Talking, inputVars
  <2> QED BY <2>1, <2>2
<1>11. CASE CancelNow \/ TerminateEnd
  BY <1>3, <1>11 DEF CancelNow, TerminateEnd, Finish
<1>12. CASE RequestCancel \/ UNCHANGED vars
  BY <1>2, <1>12 DEF RequestCancel, vars
<1>13. CASE Step
  BY <1>4, <1>5, <1>6, <1>7, <1>8, <1>9, <1>10, <1>11, <1>13 DEF Step
<1> QED BY <1>1, <1>12, <1>13 DEF Next

\* On such a wire there is no answer when nobody answers, and a valid one when one device does.
LEMMA HearsIs ==
  ASSUME MaxFaults = 0, faults = 0, quiet, NEW S, NEW reply, Hears(S, reply)
  PROVE  (reply = "none" <=> S = {}) /\ \A x : S = {x} => reply = "valid"
<1>1. reply \in Heard(S)
  BY NoFault DEF Hears
<1>2. S = {} => Heard(S) = {"none"}
  BY DEF Heard
<1>3. S # {} => Heard(S) \subseteq {"valid", "collision"}
  BY DEF Heard
<1>4. ASSUME NEW x, S = {x} PROVE Heard(S) = {"valid"}
  <2>1. Cardinality(S) = 1
    BY <1>4, FS_Singleton
  <2> QED BY <1>4, <2>1 DEF Heard
<1> QED BY <1>1, <1>2, <1>3, <1>4

\* The gears that take part have random addresses of their own.
Late == {"settle", "round_start", "write_search", "compare", "program", "verify", "withdraw"}
Distinct ==
  state \in Late => \A g, h \in Gear : init[g] # "off" /\ init[h] # "off" /\ random[g] = random[h] => g = h

LEMMA DistinctKept ==
  ASSUME MaxFaults = 0, DistinctRandoms, Types, Wire, Distinct, [Next]_vars
  PROVE  Distinct'
<1>0. ~Fault
  BY NoFault DEF Wire
<1>1. SUFFICES ASSUME state' \in Late
      PROVE  \A g, h \in Gear : init'[g] # "off" /\ init'[h] # "off" /\ random'[g] = random'[h] => g = h
  BY DEF Distinct
<1>2. CASE state \in Late /\ UNCHANGED <<init, random>>
  BY <1>2 DEF Distinct
<1>3. CASE Randomise
  BY <1>0, <1>3 DEF Randomise, Sent, RandomiseGears
<1>4. CASE Withdraw
  <2>1. WithdrawGears /\ state \in Late
    BY <1>0, <1>4 DEF Withdraw, Sent, Running, Late
  <2>2. UNCHANGED random /\ \A g \in Gear : init'[g] # "off" <=> init[g] # "off"
    BY <2>1 DEF WithdrawGears, Selected
  <2> QED BY <2>1, <2>2 DEF Distinct
<1>5. CASE Compare \/ Verify
  BY <1>2, <1>5 DEF Compare, Verify, Running, Late, gearVars
<1>6. CASE WriteSearch
  <2>1. UNCHANGED <<init, random>>
    BY <1>0, <1>6, WriteIs DEF Sent, SetDigit, gearVars
  <2> QED BY <1>2, <1>6, <2>1 DEF WriteSearch, Running, Late
<1>7. CASE RoundStart
  BY <1>1, <1>2, <1>7 DEF RoundStart, OpenRound, Finish, Running, Late, gearVars
<1>8. CASE Program
  BY <1>0, <1>1, <1>2, <1>8 DEF Program, Sent, ProgramGears, Finish, Running, Late
<1>9. CASE Settles
  BY <1>1, <1>2, <1>9 DEF Settles, Settle, Running, Late, gearVars
<1>10. CASE Quiescent \/ Terminate103 \/ TerminateStart \/ Initialise \/ CancelNow \/ TerminateEnd
  BY <1>1, <1>10 DEF Quiescent, Terminate103, TerminateStart, Initialise, CancelNow, TerminateEnd,
                     Finish, Late
<1>11. CASE Step
  BY <1>3, <1>4, <1>5, <1>6, <1>7, <1>8, <1>9, <1>10, <1>11 DEF Step
<1>12. CASE RequestCancel \/ UNCHANGED vars
  BY <1>1, <1>2, <1>12 DEF RequestCancel, vars, gearVars
<1>13. ASSUME NEW m, NEW start, NEW confirm, Begin(m, start, confirm) PROVE FALSE
  BY <1>1, <1>13 DEF Begin, Late
<1> QED BY <1>11, <1>12, <1>13 DEF Next

-----------------------------------------------------------------------------
(* The search registers. *)

\* What the gears hold is what was written last, byte by byte while a value is being written.
Registers ==
  /\ state = "idle" /\ outcome = None => written = None
  /\ state \notin {"idle", "write_search"} /\ written # None => regs = written
  /\ state = "compare" => regs = search
  /\ state = "write_search" =>
       \A i \in 0..2 : /\ i < byte => Digit(regs, i) = Digit(search, i)
                       /\ i >= byte /\ written # None => Digit(regs, i) = Digit(written, i)

LEMMA WriteKeeps ==
  ASSUME MaxFaults = 0, Types, Wire, Registers, WriteSearch
  PROVE  Registers' /\ UNCHANGED <<init, random, short>>
<1>0. ~Fault
  BY NoFault DEF Wire
<1>1. /\ state = "write_search" /\ UNCHANGED search
      /\ \A i \in 0..2 : /\ i < byte => Digit(regs, i) = Digit(search, i)
                         /\ i >= byte /\ written # None => Digit(regs, i) = Digit(written, i)
  BY DEF WriteSearch, Running, Registers
<1>2. regs \in Random /\ search \in Random /\ byte \in 0..3
  BY DEF Types, GearTypes, SearchTypes
<1>3. CASE Todo = {}
  <2>1. \A i \in 0..2 : Digit(regs, i) = Digit(search, i)
    <3> SUFFICES ASSUME NEW i \in 0..2, ~(i < byte) PROVE Digit(regs, i) = Digit(search, i)
      BY <1>1
    <3>1. i \in byte..2 /\ i >= byte
      BY <1>2
    <3>2. written # None /\ Digit(search, i) = Digit(written, i)
      BY <1>3, <3>1 DEF Todo
    <3> QED BY <1>1, <3>1, <3>2
  <2>2. regs = search
    BY <1>2, <2>1, SameDigits
  <2>3. written' = search /\ state' = "compare" /\ UNCHANGED <<init, random, short, regs>>
    BY <1>3, WriteIs DEF gearVars
  <2> QED BY <1>1, <2>2, <2>3 DEF Registers
<1>4. CASE Todo # {}
  <2> DEFINE m == Min(Todo)
  <2>1. m \in Todo /\ m \in 0..2 /\ (\A i \in Todo : m <= i) /\ Digit(search, m) \in DigitRange
    BY <1>4, NextByte
  <2>2. byte' = m + 1 /\ UNCHANGED <<written, state>> /\ SetDigit(m, Digit(search, m))
    BY <1>0, <1>4, WriteIs DEF Sent
  <2> HIDE DEF m
  <2>3. regs' = regs + (Digit(search, m) - Digit(regs, m)) * Weight[m] /\ UNCHANGED <<init, random, short>>
    BY <2>2 DEF SetDigit
  <2>4. Digit(regs', m) = Digit(search, m) /\ \A j \in 0..2 \ {m} : Digit(regs', j) = Digit(regs, j)
    BY <1>2, <2>1, <2>3, OneDigit
  <2>5. ASSUME NEW i \in 0..2, i < m + 1 PROVE Digit(regs', i) = Digit(search, i)
    <3>1. CASE i = m
      BY <2>4, <3>1
    <3>2. CASE i # m
      <4>1. i < m /\ i \notin Todo
        BY <2>1, <2>5, <3>2
      <4>2. CASE i < byte
        BY <1>1, <2>4, <3>2, <4>2
      <4>3. CASE ~(i < byte)
        <5>1. i \in byte..2 /\ i >= byte
          BY <1>2, <4>3
        <5>2. written # None /\ Digit(search, i) = Digit(written, i)
          BY <4>1, <5>1 DEF Todo
        <5> QED BY <1>1, <2>4, <3>2, <5>1, <5>2
      <4> QED BY <4>2, <4>3
    <3> QED BY <3>1, <3>2
  <2>6. ASSUME NEW i \in 0..2, i >= m + 1, written # None PROVE Digit(regs', i) = Digit(written, i)
    <3>1. m >= byte
      BY <1>2, <2>1 DEF Todo
    <3>2. i >= byte /\ i # m
      BY <1>2, <2>1, <2>6, <3>1
    <3> QED BY <1>1, <2>4, <2>6, <3>2
  <2> QED BY <1>1, <2>2, <2>3, <2>5, <2>6 DEF Registers
<1> QED BY <1>3, <1>4

\* A value to be written from its first byte on.
LEMMA NewValue ==
  ASSUME written # None => regs = written, byte' = 0, state' = "write_search", UNCHANGED <<regs, written>>
  PROVE  Registers'
<1>1. \A i \in 0..2 : /\ ~(i < byte')
                      /\ written' # None => Digit(regs', i) = Digit(written', i)
  OBVIOUS
<1> QED BY <1>1 DEF Registers

LEMMA RegistersKept ==
  ASSUME MaxFaults = 0, Types, Wire, Registers, [Next]_vars
  PROVE  Registers'
<1>0. ~Fault
  BY NoFault DEF Wire
<1>1. CASE /\ UNCHANGED <<regs, written>> /\ state \notin {"idle", "write_search"}
           /\ state' \notin {"idle", "write_search", "compare"}
  BY <1>1 DEF Registers
<1>2. CASE state' = "idle" /\ outcome' # None
  BY <1>2 DEF Registers
<1>3. CASE Quiescent \/ Settles \/ Terminate103 \/ TerminateStart \/ Initialise \/ Randomise \/ Withdraw
  <2>1. UNCHANGED <<regs, written>>
    BY <1>0, <1>3 DEF Quiescent, Settles, Settle, Terminate103, TerminateStart, Initialise, Randomise,
       Withdraw, Sent, AllOff, InitialiseGears, RandomiseGears, WithdrawGears, SearchUntouched, searchVars,
       gearVars
  <2>2. /\ state \notin {"idle", "write_search"}
        /\ state' \notin {"idle", "write_search", "compare"}
    BY <1>3 DEF Quiescent, Settles, Settle, Terminate103, TerminateStart, Initialise, Randomise, Withdraw,
                Running
  <2> QED BY <1>1, <2>1, <2>2
<1>4. ASSUME NEW o \in Outcome, Finish(o) PROVE Registers'
  BY <1>2, <1>4, Names DEF Finish
<1>5. CASE CancelNow \/ TerminateEnd
  BY <1>4, <1>5 DEF CancelNow, TerminateEnd, Outcome
<1>6. CASE RoundStart
  <2>1. CASE TooMany
    BY <1>4, <1>6, <2>1 DEF RoundStart, Outcome
  <2>2. CASE ~TooMany
    <3>1. state = "round_start" /\ OpenRound
      BY <1>6, <2>2 DEF RoundStart, Running
    <3>2. byte' = 0 /\ state' = "write_search" /\ UNCHANGED <<regs, written>>
      BY <3>1 DEF OpenRound, gearVars
    <3>3. written # None => regs = written
      BY <3>1 DEF Registers
    <3> QED BY <3>2, <3>3, NewValue
  <2> QED BY <2>1, <2>2
<1>7. CASE Compare
  <2>1. UNCHANGED <<regs, written>> /\ state = "compare"
    BY <1>7 DEF Compare, Running, gearVars
  <2>2. written # None => regs = written
    BY <2>1 DEF Registers
  <2>3. CASE state' = "write_search" /\ byte' = 0
    BY <2>1, <2>2, <2>3, NewValue
  <2>4. CASE state' \in {"terminate_end", "program"}
    BY <1>1, <2>1, <2>4
  <2> QED BY <1>7, <2>3, <2>4, CompareIs
<1>8. CASE Program
  <2>1. CASE nextAddr' = MaxGears
    BY <1>4, <1>8, <2>1 DEF Program, Outcome
  <2>2. CASE nextAddr' # MaxGears
    BY <1>0, <1>1, <1>8, <2>2 DEF Program, Sent, ProgramGears, Running, searchVars
  <2> QED BY <2>1, <2>2
<1>9. CASE Verify
  BY <1>1, <1>9 DEF Verify, Running, searchVars, gearVars
<1>10. CASE Step
  BY <1>3, <1>5, <1>6, <1>7, <1>8, <1>9, <1>10, WriteKeeps DEF Step
<1>11. CASE RequestCancel \/ UNCHANGED vars
  <2>1. UNCHANGED <<state, searchVars, outcome, regs>>
    BY <1>11 DEF RequestCancel, vars, gearVars, resultVars
  <2> QED BY <2>1 DEF searchVars, Registers
<1>12. ASSUME NEW m, NEW start, NEW confirm, Begin(m, start, confirm) PROVE Registers'
  <2>1. written = None /\ UNCHANGED written /\ state' \in {"idle", "quiescent"}
    BY <1>12 DEF Begin, Registers, searchVars
  <2> QED BY <2>1 DEF Registers
<1> QED BY <1>10, <1>11, <1>12 DEF Next

-----------------------------------------------------------------------------
(* The bisection. *)

\* One gear that is still in the search has the address the registers hold, the others have
\* higher ones.
Isolated == \E g \in InSearch : random[g] = regs /\ \A h \in InSearch \ {g} : random[h] > regs

\* Until somebody has answered the whole range is probed; from then on somebody is
\* within the bounds, and nobody below them.
Bisect ==
  /\ state \in {"write_search", "compare"} =>
       /\ ~roundOpen => low = 0 /\ search = SEARCH_MAX
       /\ roundOpen => (\E g \in InSearch : random[g] <= high) /\ \A h \in InSearch : low <= random[h]
  /\ state \in {"program", "verify", "withdraw"} => Isolated

LEMMA CompareBisects ==
  ASSUME MaxFaults = 0, Types, Wire, Distinct, Registers, Bisect, Compare
  PROVE  Bisect' /\ (state' = "terminate_end" => InSearch' = {})
<1>1. /\ state = "compare" /\ UNCHANGED <<random, regs, init>>
  BY DEF Compare, Running, gearVars
<1>2. regs = search /\ ~phantom /\ quiet /\ faults = 0
  BY <1>1 DEF Registers, Wire, Talking
<1>3. Answering = {g \in InSearch : random[g] <= search}
  BY <1>2 DEF Answering
<1>4. /\ low \in Nat /\ high \in Nat /\ search \in Nat /\ low <= search /\ search <= high
      /\ SEARCH_MAX \in Nat /\ 0 < SEARCH_MAX /\ high <= SEARCH_MAX
      /\ \A g \in InSearch : g \in Gear /\ random[g] \in Nat /\ random[g] <= SEARCH_MAX
  BY Numbers DEF Types, SearchTypes, GearTypes, InSearch
<1>5. PICK reply \in {"none", "valid", "collision"} :
           /\ Hears(Answering, reply)
           /\ \/ /\ ~roundOpen /\ reply = "none" /\ state' = "terminate_end"
                 /\ UNCHANGED <<low, high, search, byte, roundOpen>>
              \/ /\ roundOpen \/ reply # "none"
                 /\ low < high /\ roundOpen' = TRUE /\ byte' = 0 /\ state' = "write_search"
                 /\ Narrow(reply # "none") /\ search' = low' + (high' - low') \div 2
              \/ /\ roundOpen \/ reply # "none"
                 /\ ~(low < high) /\ roundOpen' = TRUE /\ byte' = 0 /\ state' = "program"
                 /\ search' = low /\ UNCHANGED <<low, high>>
  BY CompareIs
<1>6. reply = "none" <=> Answering = {}
  BY <1>2, <1>5, HearsIs
<1>7. InSearch' = InSearch
  BY <1>1 DEF InSearch
<1>8. /\ ~roundOpen => low = 0 /\ search = SEARCH_MAX
      /\ roundOpen => (\E g \in InSearch : random[g] <= high) /\ \A h \in InSearch : low <= random[h]
  BY <1>1 DEF Bisect
<1>9. CASE ~roundOpen /\ reply = "none" /\ state' = "terminate_end"
  <2>1. InSearch = {}
    BY <1>3, <1>4, <1>6, <1>8, <1>9
  <2> QED BY <1>7, <1>9, <2>1 DEF Bisect
<1>10. CASE /\ roundOpen \/ reply # "none"
            /\ low < high /\ roundOpen' = TRUE /\ byte' = 0 /\ state' = "write_search"
            /\ Narrow(reply # "none") /\ search' = low' + (high' - low') \div 2
  <2>1. (\E g \in InSearch : random[g] <= high') /\ \A h \in InSearch : low' <= random[h]
    <3>1. CASE reply # "none"
      <4>1. high' = search /\ low' = low
        BY <1>10, <3>1 DEF Narrow
      <4>2. \E g \in InSearch : random[g] <= search
        BY <1>3, <1>6, <3>1
      <4>3. \A h \in InSearch : low <= random[h]
        BY <1>4, <1>8
      <4> QED BY <4>1, <4>2, <4>3
    <3>2. CASE reply = "none"
      <4>1. high' = high /\ low' = search + 1 /\ roundOpen
        BY <1>10, <3>2 DEF Narrow
      <4>2. \A h \in InSearch : ~(random[h] <= search)
        BY <1>3, <1>6, <3>2
      <4>3. \A h \in InSearch : search + 1 <= random[h]
        BY <1>4, <4>2
      <4> QED BY <1>8, <4>1, <4>3
    <3> QED BY <3>1, <3>2
  <2> QED BY <1>1, <1>7, <1>10, <2>1 DEF Bisect
<1>11. CASE /\ roundOpen \/ reply # "none"
            /\ ~(low < high) /\ roundOpen' = TRUE /\ byte' = 0 /\ state' = "program"
            /\ search' = low /\ UNCHANGED <<low, high>>
  <2>1. low = high /\ search = low /\ roundOpen
    BY <1>4, <1>8, <1>11
  <2>2. PICK g \in InSearch : random[g] <= high
    BY <1>8, <2>1
  <2>3. \A h \in InSearch : low <= random[h]
    BY <1>8, <2>1
  <2>4. random[g] = regs
    BY <1>2, <1>4, <2>1, <2>2, <2>3
  <2>5. ASSUME NEW h \in InSearch \ {g} PROVE random[h] > regs
    <3>1. random[h] # random[g]
      BY <1>1, <2>5 DEF Distinct, Late, InSearch
    <3>2. low <= random[h] /\ random[h] \in Nat
      BY <1>4, <2>3
    <3> QED BY <1>2, <1>4, <2>1, <2>4, <3>1, <3>2
  <2>6. Isolated'
    BY <1>1, <1>7, <2>4, <2>5 DEF Isolated
  <2> QED BY <1>11, <2>6 DEF Bisect
<1> QED BY <1>5, <1>9, <1>10, <1>11

LEMMA BisectKept ==
  ASSUME MaxFaults = 0, Types, Wire, Distinct, Registers, Bisect, [Next]_vars
  PROVE  Bisect'
<1>0. ~Fault
  BY NoFault DEF Wire
<1>1. CASE state' \notin {"write_search", "compare", "program", "verify", "withdraw"}
  BY <1>1 DEF Bisect
<1>2. CASE Quiescent \/ Settles \/ Terminate103 \/ TerminateStart \/ Initialise \/ Randomise \/ Withdraw
  BY <1>1, <1>2 DEF Quiescent, Settles, Settle, Terminate103, TerminateStart, Initialise, Randomise, Withdraw
<1>3. CASE CancelNow \/ TerminateEnd
  BY <1>1, <1>3 DEF CancelNow, TerminateEnd, Finish
<1>4. CASE RoundStart
  <2>1. CASE TooMany
    BY <1>1, <1>4, <2>1 DEF RoundStart, Finish
  <2>2. CASE ~TooMany
    <3>1. OpenRound
      BY <1>4, <2>2 DEF RoundStart
    <3> QED BY <3>1 DEF OpenRound, Bisect
  <2> QED BY <2>1, <2>2
<1>5. CASE WriteSearch
  <2>1. /\ state = "write_search" /\ state' \in {"write_search", "compare"}
        /\ UNCHANGED <<low, high, search, roundOpen>>
    BY <1>5, WriteIs DEF WriteSearch, Running
  <2>2. UNCHANGED <<init, random>>
    BY <1>5, WriteKeeps
  <2> QED BY <2>1, <2>2 DEF Bisect, InSearch
<1>6. CASE Program
  <2>1. CASE nextAddr' = MaxGears
    BY <1>1, <1>6, <2>1 DEF Program, Finish
  <2>2. CASE nextAddr' # MaxGears
    <3>1. UNCHANGED <<init, random, regs>> /\ state = "program" /\ state' = "verify"
      BY <1>0, <1>6, <2>2 DEF Program, Sent, ProgramGears, Running
    <3> QED BY <3>1 DEF Bisect, Isolated, InSearch
  <2> QED BY <2>1, <2>2
<1>7. CASE Verify
  <2>1. UNCHANGED <<init, random, regs>> /\ state = "verify" /\ state' = "withdraw"
    BY <1>7 DEF Verify, Running, gearVars
  <2> QED BY <2>1 DEF Bisect, Isolated, InSearch
<1>8. CASE Step
  BY <1>2, <1>3, <1>4, <1>5, <1>6, <1>7, <1>8, CompareBisects DEF Step
<1>9. CASE RequestCancel \/ UNCHANGED vars
  <2>1. UNCHANGED <<state, low, high, search, roundOpen, init, random, regs>>
    BY <1>9 DEF RequestCancel, vars, searchVars, gearVars
  <2> QED BY <2>1 DEF Bisect, Isolated, InSearch
<1>10. ASSUME NEW m, NEW start, NEW confirm, Begin(m, start, confirm) PROVE Bisect'
  BY <1>1, <1>10 DEF Begin
<1> QED BY <1>8, <1>9, <1>10 DEF Next

\* What holds of the search on a wire without faults.
Search == Types /\ Wire /\ Distinct /\ Registers /\ Bisect

LEMMA InitSearch == Init => Search
<1> SUFFICES ASSUME Init PROVE Search
  OBVIOUS
<1>1. state = "idle" /\ faults = 0 /\ written = None
  BY DEF Init
<1> QED BY <1>1, InitTypes DEF Search, Wire, Distinct, Registers, Bisect, Talking, Late

LEMMA NextSearch ==
  ASSUME MaxFaults = 0, DistinctRandoms, Search, [Next]_vars
  PROVE  Search'
<1>1. Types' /\ Wire' /\ Distinct'
  BY NextTypes, WireKept, DistinctKept DEF Search
<1>2. Registers' /\ Bisect'
  BY RegistersKept, BisectKept DEF Search
<1> QED BY <1>1, <1>2 DEF Search

LEMMA SearchAlways == MaxFaults = 0 /\ DistinctRandoms => (Spec => []Search)
<1> SUFFICES ASSUME MaxFaults = 0, DistinctRandoms PROVE Spec => []Search
  OBVIOUS
<1>1. Search /\ [Next]_vars => Search'
  BY NextSearch
<1> QED BY <1>1, InitSearch, PTL DEF Spec

\* For any number of gears and any width of the search address, the bisection with its cache
\* of written bytes ends on the lowest gear still in the search and on no other, if the gears
\* drew different random addresses and nothing is lost (write_next_search_byte, COMM_COMPARE).
THEOREM SearchFindsOne == MaxFaults = 0 /\ DistinctRandoms => (Spec => []SearchIsolates)
<1> SUFFICES ASSUME MaxFaults = 0, DistinctRandoms PROVE Spec => []SearchIsolates
  OBVIOUS
<1>1. Search => SearchIsolates
  BY DEF Search, Bisect, Isolated, SearchIsolates
<1> QED BY <1>1, SearchAlways, PTL

-----------------------------------------------------------------------------
(* Addresses. *)

\* The frames that leave addresses alone, and the steps that send them or none.
LEMMA ShortStays ==
  ASSUME MaxFaults = 0, Types, Wire, Registers, Step, ~Program, ~Verify
  PROVE  /\ UNCHANGED <<short, present, mode>>
         /\ state # "idle" /\ state' # "verify"
         /\ state = "verify" => state' = "idle"
         /\ state' = "idle" => outcome' # None
<1>0. ~Fault
  BY NoFault DEF Wire
<1>1. CASE CancelNow \/ TerminateEnd
  BY <1>1, Names DEF CancelNow, TerminateEnd, ReleaseBus, Finish, Outcome, Running
<1>2. CASE Quiescent \/ Settles \/ Terminate103 \/ TerminateStart \/ Initialise \/ Randomise \/ Withdraw
  BY <1>0, <1>2 DEF Quiescent, Settles, Settle, Terminate103, TerminateStart, Initialise, Randomise, Withdraw,
       Sent, AllOff, InitialiseGears, RandomiseGears, WithdrawGears, SearchUntouched, resultVars, gearVars,
       Running
<1>3. CASE RoundStart
  BY <1>3, Names DEF RoundStart, OpenRound, ReleaseBus, Finish, Outcome, resultVars, gearVars, Running
<1>4. CASE WriteSearch
  <2>1. state = "write_search" /\ state' \in {"write_search", "compare"} /\ UNCHANGED <<present, mode>>
    BY <1>4, WriteIs DEF WriteSearch, Running, resultVars
  <2> QED BY <1>4, <2>1, WriteKeeps
<1>5. CASE Compare
  <2>1. state' \in {"terminate_end", "write_search", "program"}
    BY <1>5, CompareIs
  <2> QED BY <1>5, <2>1 DEF Compare, Running, resultVars, gearVars
<1> QED BY <1>1, <1>2, <1>3, <1>4, <1>5 DEF Step

\* The registry lists every address in use, the one just programmed excepted.
Taken(g) == present[short[g]] \/ (state = "verify" /\ short[g] = nextAddr /\ Selected(g))
Free ==
  mode = "unaddressed" =>
    /\ SharesNone(short)
    /\ state # "idle" \/ outcome = None => \A g \in Gear : short[g] # NoAddr => Taken(g)

LEMMA InitFree == RegistryKnown /\ Init => Free
<1> SUFFICES ASSUME RegistryKnown, Init PROVE Free
  OBVIOUS
<1>1. SharesNone(short) /\ short \in [Gear -> Address \cup {NoAddr}]
      /\ present = [a \in Address |-> RegistryKnown /\ a \in InUse]
  BY DEF Init
<1>2. ASSUME NEW g \in Gear, short[g] # NoAddr PROVE present[short[g]]
  <2>1. short[g] \in Address /\ short[g] \in InUse
    BY <1>1, <1>2 DEF InUse
  <2> QED BY <1>1, <2>1
<1> QED BY <1>1, <1>2 DEF Free, Taken

\* The gear whose address is programmed, the only one selected.
LEMMA OneSelected ==
  ASSUME Types, Distinct, Bisect, state \in {"program", "verify", "withdraw"}
  PROVE  \E x \in InSearch : x \in Gear /\ \A g \in Gear : Selected(g) <=> g = x
<1>1. PICK x \in InSearch : random[x] = regs
  BY DEF Bisect, Isolated
<1> QED BY <1>1 DEF Distinct, Late, Selected, InSearch

LEMMA ProgramIs ==
  ASSUME MaxFaults = 0, Types, Wire, Program, nextAddr' # MaxGears
  PROVE  /\ state = "program" /\ state' = "verify" /\ nextAddr' \in Address /\ ~present[nextAddr']
         /\ short' = [g \in Gear |-> IF Selected(g) /\ init[g] # "stuck" THEN nextAddr' ELSE short[g]]
         /\ UNCHANGED <<present, mode, outcome, random, init, regs>>
<1>1. ~Fault
  BY NoFault DEF Wire
<1>2. state = "program" /\ state' = "verify" /\ nextAddr' = NextFree(nextAddr) /\ ProgramGears(nextAddr')
      /\ UNCHANGED <<present, mode, outcome>>
  BY <1>1 DEF Program, Running, Sent
<1> QED BY <1>2, NextFreeIs DEF ProgramGears

LEMMA ProgramFree ==
  ASSUME MaxFaults = 0, Search, Free, Program, nextAddr' # MaxGears
  PROVE  Free'
<1>1. PICK x \in InSearch : x \in Gear /\ \A g \in Gear : Selected(g) <=> g = x
  BY OneSelected DEF Search, Program, Running
<1>2. /\ state = "program" /\ state' = "verify" /\ nextAddr' \in Address /\ ~present[nextAddr']
      /\ short' = [g \in Gear |-> IF Selected(g) /\ init[g] # "stuck" THEN nextAddr' ELSE short[g]]
      /\ UNCHANGED <<present, mode, random, init, regs>>
  BY ProgramIs DEF Search
<1>3. SUFFICES ASSUME mode = "unaddressed"
      PROVE  SharesNone(short') /\ \A g \in Gear : short'[g] # NoAddr => Taken(g)'
  BY <1>2 DEF Free, SharesNone
<1>4. SharesNone(short) /\ \A g \in Gear : short[g] # NoAddr => present[short[g]]
  BY <1>2, <1>3 DEF Free, Taken
<1>5. \A g \in Gear : g # x => short'[g] = short[g]
  BY <1>1, <1>2
<1>6. short'[x] \in {short[x], nextAddr'}
  BY <1>1, <1>2
<1>7. \A g \in Gear : short[g] # nextAddr' \/ short[g] = NoAddr
  BY <1>2, <1>4
<1>8. nextAddr' # NoAddr
  BY <1>2, Names
<1>9. SharesNone(short')
  <2> SUFFICES ASSUME NEW g \in Gear, NEW h \in Gear, g # h, short'[g] = short'[h] PROVE short'[g] = NoAddr
    BY DEF SharesNone
  <2>1. CASE g # x /\ h # x
    BY <1>4, <1>5, <2>1 DEF SharesNone
  <2>2. CASE g = x \/ h = x
    BY <1>1, <1>4, <1>5, <1>6, <1>7, <1>8, <2>2 DEF SharesNone
  <2> QED BY <2>1, <2>2
<1>10. ASSUME NEW g \in Gear, short'[g] # NoAddr PROVE Taken(g)'
  <2>1. CASE short'[g] = short[g]
    BY <1>2, <1>4, <1>10, <2>1 DEF Taken
  <2>2. CASE short'[g] # short[g]
    <3>1. g = x /\ short'[g] = nextAddr'
      BY <1>5, <1>6, <2>2
    <3>2. Selected(g)'
      BY <1>1, <1>2, <3>1 DEF Selected
    <3> QED BY <1>2, <3>1, <3>2 DEF Taken
  <2> QED BY <2>1, <2>2
<1> QED BY <1>9, <1>10

\* What verification hears, and what it notes.  Several gears may answer.
LEMMA VerifyIs ==
  ASSUME MaxFaults = 0, Search, Verify
  PROVE  /\ state = "verify" /\ state' = "withdraw" /\ nextAddr \in Address
         /\ UNCHANGED <<mode, outcome, short, random, init, regs>>
         /\ present' \in {present, [present EXCEPT ![nextAddr] = TRUE]}
         /\ Confirming(nextAddr) = {} => present' = present
         /\ Confirming(nextAddr) # {} => masked' \/ present' = [present EXCEPT ![nextAddr] = TRUE]
         /\ masked => masked'
         /\ masked' => masked \/ \E g, h \in Confirming(nextAddr) : g # h
<1> DEFINE S == Confirming(nextAddr)
<1>1. state = "verify" /\ state' = "withdraw" /\ UNCHANGED <<mode, outcome, short, random, init, regs>>
  BY DEF Verify, Running, gearVars
<1>2. PICK reply \in {"none", "valid", "collision"} :
           /\ Hears(S, reply)
           /\ masked' = (masked \/ (reply # "valid" /\ \E g, h \in S : g # h))
           /\ present' = IF reply = "valid" THEN [present EXCEPT ![nextAddr] = TRUE] ELSE present
  BY DEF Verify
<1>3. quiet /\ faults = 0
  BY <1>1 DEF Search, Wire, Talking
<1>4. (reply = "none" <=> S = {}) /\ \A x : S = {x} => reply = "valid"
  BY <1>2, <1>3, HearsIs
<1>5. (\E x : S = {x}) \/ S = {} \/ \E g, h \in S : g # h
  OBVIOUS
<1>6. nextAddr \in Address
  BY <1>1, Sizes DEF Search, Types, StateTypes, ResultTypes, Address
<1> QED BY <1>1, <1>2, <1>4, <1>5, <1>6

\* Where no two gears share an address, the one programmed answers alone.
LEMMA VerifyAlone ==
  ASSUME MaxFaults = 0, Search, Free, Verify, mode = "unaddressed"
  PROVE  /\ masked' = masked
         /\ Confirming(nextAddr) # {} => present' = [present EXCEPT ![nextAddr] = TRUE]
<1>1. nextAddr \in Address /\ nextAddr # NoAddr
  BY VerifyIs, Names
<1>2. \A g, h \in Confirming(nextAddr) : g = h
  BY <1>1 DEF Confirming, Free, SharesNone
<1>3. masked \in BOOLEAN /\ masked' \in BOOLEAN
  BY DEF Verify, Search, Types, RoundTypes
<1>4. PICK reply \in {"none", "valid", "collision"} :
           /\ Hears(Confirming(nextAddr), reply)
           /\ present' = IF reply = "valid" THEN [present EXCEPT ![nextAddr] = TRUE] ELSE present
  BY DEF Verify
<1>5. quiet /\ faults = 0
  BY DEF Verify, Running, Search, Wire, Talking
<1>6. \A x : Confirming(nextAddr) = {x} => reply = "valid"
  BY <1>4, <1>5, HearsIs
<1> QED BY <1>2, <1>3, <1>4, <1>6, VerifyIs

LEMMA VerifyFree ==
  ASSUME MaxFaults = 0, Search, Free, Verify
  PROVE  Free'
<1>1. /\ state = "verify" /\ state' = "withdraw" /\ nextAddr \in Address
      /\ UNCHANGED <<mode, outcome, short, random, init, regs>>
      /\ present' \in {present, [present EXCEPT ![nextAddr] = TRUE]}
  BY VerifyIs
<1>2. SUFFICES ASSUME mode = "unaddressed", NEW g \in Gear, short[g] # NoAddr PROVE present'[short[g]]
  BY <1>1 DEF Free, SharesNone, Taken
<1>3. short[g] \in Address /\ present \in [Address -> BOOLEAN]
  BY <1>2 DEF Search, Types, GearTypes, ResultTypes
<1>4. present[short[g]] \/ (short[g] = nextAddr /\ Selected(g))
  BY <1>1, <1>2 DEF Free, Taken
<1>5. CASE present[short[g]]
  BY <1>1, <1>3, <1>5
<1>6. CASE short[g] = nextAddr /\ Selected(g)
  <2>1. g \in Confirming(nextAddr)
    BY <1>6 DEF Confirming, Selected
  <2> QED BY <1>1, <1>2, <1>3, <1>6, <2>1, VerifyAlone
<1> QED BY <1>4, <1>5, <1>6

LEMMA NextFreeKept ==
  ASSUME MaxFaults = 0, Search, Free, [Next]_vars
  PROVE  Free'
<1>1. CASE UNCHANGED <<short, present, mode, state, outcome, nextAddr, init, random, regs>>
  BY <1>1 DEF Free, Taken, SharesNone, Selected
<1>2. CASE RequestCancel \/ UNCHANGED vars
  BY <1>1, <1>2 DEF RequestCancel, vars, resultVars, gearVars
<1>3. ASSUME NEW m, NEW start, NEW confirm, Begin(m, start, confirm) PROVE Free'
  <2>1. state = "idle" /\ outcome = None /\ mode = "unaddressed" /\ UNCHANGED gearVars
        /\ (mode' = "unaddressed" => present' = present) /\ state' # "verify"
    BY <1>3 DEF Begin, KeptBy, Search, Types, StateTypes
  <2>2. SharesNone(short) /\ \A g \in Gear : short[g] # NoAddr => present[short[g]]
    BY <2>1 DEF Free, Taken
  <2> QED BY <2>1, <2>2 DEF Free, Taken, SharesNone, gearVars
<1>4. CASE Program /\ nextAddr' = MaxGears
  <2>1. state' = "idle" /\ outcome' # None /\ UNCHANGED <<short, mode>>
    BY <1>4, Names DEF Program, ReleaseBus, Finish, Outcome
  <2> QED BY <2>1 DEF Free, SharesNone
<1>5. CASE Program /\ nextAddr' # MaxGears
  BY <1>5, ProgramFree
<1>6. CASE Verify
  BY <1>6, VerifyFree
<1>7. CASE Step /\ ~Program /\ ~Verify
  <2>1. /\ UNCHANGED <<short, present, mode>>
        /\ state # "idle" /\ state' # "verify"
        /\ state = "verify" => state' = "idle"
        /\ state' = "idle" => outcome' # None
    BY <1>7, ShortStays DEF Search
  <2> QED BY <2>1 DEF Free, Taken, SharesNone
<1> QED BY <1>2, <1>3, <1>4, <1>5, <1>6, <1>7 DEF Next, Step

LEMMA FreeAlways == MaxFaults = 0 /\ DistinctRandoms /\ RegistryKnown => (Spec => [](Search /\ Free))
<1> SUFFICES ASSUME MaxFaults = 0, DistinctRandoms, RegistryKnown PROVE Spec => [](Search /\ Free)
  OBVIOUS
<1>1. Search /\ Free /\ [Next]_vars => (Search /\ Free)'
  BY NextSearch, NextFreeKept
<1>2. Init => Search /\ Free
  BY InitSearch, InitFree
<1> QED BY <1>1, <1>2, PTL DEF Spec

\* Adding gears never puts one on top of another, whenever it is cancelled and whatever
\* stubborn gears are in the way, if a scan had filled the registry, the gears drew
\* different random addresses and nothing is lost (COMM_PROGRAM, COMM_VERIFY).
THEOREM AddressesStayApart ==
  MaxFaults = 0 /\ DistinctRandoms /\ RegistryKnown => (Spec => []LandsOnFree)
<1> SUFFICES ASSUME MaxFaults = 0, DistinctRandoms, RegistryKnown PROVE Spec => []LandsOnFree
  OBVIOUS
<1>1. Free => LandsOnFree
  BY DEF Free, LandsOnFree
<1> QED BY <1>1, FreeAlways, PTL

-----------------------------------------------------------------------------
(* Success. *)

\* The gears commissioning is done with: those it does not cover, those withdrawn, and the one
\* whose address was just verified.
Done(g) == \/ init[g] \in {"off", "withdrawn"}
           \/ state = "withdraw" /\ init[g] = "on" /\ Selected(g)

Before == {"quiescent", "quiescent_settle", "103_terminate", "103_settle", "terminate_start", "initialise"}
During == Late \cup {"randomise", "terminate_end"}

\* Those that are done have addresses of their own, and these are the ones listed.
Settled ==
  /\ \A g \in Gear : Done(g) => short[g] \in Address /\ present[short[g]]
  /\ \A g, h \in Gear : Done(g) /\ Done(h) /\ short[g] = short[h] => g = h
  /\ \A a \in Address : present[a] => \E g \in Gear : (Done(g) /\ short[g] = a) \/ init[g] = "stuck"

Tidy ==
  /\ state \in Before \/ (state = "idle" /\ outcome = None) =>
       \A a \in Address : present[a] => mode = "unaddressed" /\ \E g \in Gear : short[g] = a
  /\ state = "initialise" => \A g \in Gear : init[g] = "off"
  /\ state \in During => Settled
  /\ state = "verify" => ~present[nextAddr] /\ \A g \in Gear : Selected(g) /\ init[g] = "on" => short[g] = nextAddr
  /\ state = "terminate_end" => InSearch = {}
  /\ SuccessMeansAddressed

\* Unless a VERIFY was masked, which cannot be where nobody shares an address.
Masks == masked => mode = "all" /\ (state # "idle" \/ outcome # None)

All == Search /\ Free /\ Tidy

LEMMA InitKinds ==
  ASSUME Types, NEW g \in Gear
  PROVE  init[g] \in {"off", "on", "stuck", "withdrawn"} /\ short[g] \in Address \cup {NoAddr}
  BY DEF Types, GearTypes

LEMMA SettledStays ==
  ASSUME Settled, UNCHANGED <<short, present, init>>, state # "withdraw", state' # "withdraw"
  PROVE  Settled'
  BY DEF Settled, Done

LEMMA InitialiseSettles ==
  ASSUME MaxFaults = 0, All, Initialise
  PROVE  Settled'
<1>0. state = "initialise" /\ state' = "randomise" /\ UNCHANGED <<mode, present, short>> /\ InitialiseGears
  BY NoFault DEF All, Search, Wire, Initialise, Running, Sent, InitialiseGears, SearchUntouched, resultVars
<1>1. PICK T \in SUBSET Stubborn :
       init' = [g \in Gear |-> IF ~Covers(mode, g) THEN init[g]
                               ELSE IF g \in T THEN "stuck" ELSE "on"]
  BY <1>0 DEF InitialiseGears
<1>2. \A g \in Gear : init[g] = "off"
  BY <1>0 DEF All, Tidy
<1>3. \A g \in Gear : Done(g)' <=> mode = "unaddressed" /\ short[g] # NoAddr
  <2>1. ASSUME NEW g \in Gear PROVE init'[g] = "off" <=> ~Covers(mode, g)
    BY <1>1, <1>2
  <2>2. ASSUME NEW g \in Gear PROVE init'[g] # "withdrawn"
    BY <1>1, <1>2
  <2>3. mode \in {"all", "unaddressed"}
    BY DEF All, Search, Types, ResultTypes
  <2> QED BY <1>0, <2>1, <2>2, <2>3 DEF Done, Covers
<1>4. ASSUME NEW g \in Gear, Done(g)' PROVE short'[g] \in Address /\ present'[short'[g]]
  <2>1. mode = "unaddressed" /\ short[g] # NoAddr
    BY <1>3, <1>4
  <2> QED BY <1>0, <2>1, InitKinds DEF All, Search, Free, Taken
<1>5. ASSUME NEW g \in Gear, NEW h \in Gear, Done(g)', Done(h)', short'[g] = short'[h] PROVE g = h
  BY <1>0, <1>3, <1>5 DEF All, Free, SharesNone
<1>6. ASSUME NEW a \in Address, present'[a] PROVE \E g \in Gear : Done(g)' /\ short'[g] = a
  <2>1. mode = "unaddressed" /\ \E g \in Gear : short[g] = a
    BY <1>0, <1>6 DEF All, Tidy, Before
  <2> QED BY <1>0, <1>3, <2>1, Names
<1> QED BY <1>4, <1>5, <1>6 DEF Settled

LEMMA ProgramSettles ==
  ASSUME MaxFaults = 0, All, Program, nextAddr' # MaxGears
  PROVE  Tidy'
<1>1. PICK x \in InSearch : x \in Gear /\ \A g \in Gear : Selected(g) <=> g = x
  BY OneSelected DEF All, Search, Program, Running
<1>2. /\ state = "program" /\ state' = "verify" /\ nextAddr' \in Address /\ ~present[nextAddr']
      /\ short' = [g \in Gear |-> IF Selected(g) /\ init[g] # "stuck" THEN nextAddr' ELSE short[g]]
      /\ UNCHANGED <<present, mode, outcome, random, init, regs>>
  BY ProgramIs DEF All, Search
<1>3. \A g \in Gear : (Done(g)' <=> Done(g)) /\ (Done(g) => short'[g] = short[g])
  BY <1>1, <1>2 DEF Done, InSearch
<1>4. Settled'
  BY <1>2, <1>3 DEF All, Tidy, During, Late, Settled
<1>5. ASSUME NEW g \in Gear, Selected(g)', init'[g] = "on" PROVE short'[g] = nextAddr'
  BY <1>2, <1>5 DEF Selected
<1>6. SuccessMeansAddressed'
  BY <1>2, Names DEF All, Search, Types, StateTypes, SuccessMeansAddressed, Outcome
<1> QED BY <1>2, <1>4, <1>5, <1>6 DEF Tidy, Before

LEMMA VerifySettles ==
  ASSUME MaxFaults = 0, All, Verify, ~masked'
  PROVE  Tidy'
<1>1. /\ state = "verify" /\ state' = "withdraw" /\ nextAddr \in Address
      /\ UNCHANGED <<mode, outcome, short, random, init, regs>>
      /\ present' \in {present, [present EXCEPT ![nextAddr] = TRUE]}
      /\ Confirming(nextAddr) # {} => present' = [present EXCEPT ![nextAddr] = TRUE]
  BY VerifyIs DEF All
<1>2. PICK x \in InSearch : x \in Gear /\ \A g \in Gear : Selected(g) <=> g = x
  BY <1>1, OneSelected DEF All, Search
<1>3. Settled /\ ~present[nextAddr] /\ (init[x] = "on" => short[x] = nextAddr)
  BY <1>1, <1>2 DEF All, Tidy, During, Late
<1>4. present \in [Address -> BOOLEAN]
  BY DEF All, Search, Types, ResultTypes
<1>5. \A g \in Gear : Selected(g)' <=> g = x
  BY <1>1, <1>2 DEF Selected
<1>6. \A g \in Gear : Done(g) => g # x /\ Done(g)'
  BY <1>1, <1>2 DEF Done, InSearch
<1>7. \A g \in Gear : Done(g)' => Done(g) \/ (g = x /\ init[x] = "on")
  BY <1>1, <1>5 DEF Done
<1>8. \A a \in Address : present[a] => present'[a]
  BY <1>1, <1>4
<1>9. init[x] = "on" => present'[nextAddr] /\ Done(x)'
  <2>1. init[x] = "on" => x \in Confirming(nextAddr)
    BY <1>2, <1>3 DEF Confirming
  <2> QED BY <1>1, <1>2, <1>4, <1>5, <2>1 DEF Done
<1>10. ASSUME NEW g \in Gear, Done(g)' PROVE short'[g] \in Address /\ present'[short'[g]]
  BY <1>1, <1>3, <1>7, <1>8, <1>9, <1>10 DEF Settled
<1>11. ASSUME NEW g \in Gear, NEW h \in Gear, Done(g)', Done(h)', short'[g] = short'[h] PROVE g = h
  <2>1. ASSUME NEW k \in Gear, Done(k) PROVE short[k] # nextAddr
    BY <1>3, <2>1 DEF Settled
  <2> QED BY <1>1, <1>3, <1>7, <1>11, <2>1 DEF Settled
<1>12. ASSUME NEW a \in Address, present'[a]
       PROVE  \E g \in Gear : (Done(g)' /\ short'[g] = a) \/ init'[g] = "stuck"
  <2>1. CASE present[a]
    BY <1>1, <1>3, <1>6, <2>1 DEF Settled
  <2>2. CASE ~present[a]
    <3>1. a = nextAddr
      BY <1>1, <1>4, <1>12, <2>2
    <3>2. init[x] \in {"on", "stuck"}
      BY <1>2 DEF InSearch
    <3> QED BY <1>1, <1>2, <1>3, <1>9, <3>1, <3>2
  <2> QED BY <2>1, <2>2
<1>13. Settled'
  BY <1>10, <1>11, <1>12 DEF Settled
<1>14. SuccessMeansAddressed'
  BY <1>1, Names DEF All, Search, Types, StateTypes, SuccessMeansAddressed, Outcome
<1> QED BY <1>1, <1>13, <1>14 DEF Tidy, Before

LEMMA WithdrawSettles ==
  ASSUME MaxFaults = 0, All, Withdraw
  PROVE  Tidy'
<1>1. /\ state = "withdraw" /\ state' = "round_start" /\ UNCHANGED <<short, present, outcome>>
      /\ init' = [g \in Gear |-> IF Selected(g) /\ init[g] # "stuck" THEN "withdrawn" ELSE init[g]]
  BY NoFault DEF All, Search, Wire, Withdraw, Running, Sent, WithdrawGears, SearchUntouched, resultVars
<1>2. ASSUME NEW g \in Gear PROVE (Done(g)' <=> Done(g)) /\ (init'[g] = "stuck" <=> init[g] = "stuck")
  <2>1. init[g] \in {"off", "on", "stuck", "withdrawn"}
    BY InitKinds DEF All, Search
  <2> QED BY <1>1, <2>1 DEF Done, Selected
<1>3. Settled'
  BY <1>1, <1>2 DEF All, Tidy, During, Late, Settled
<1>4. SuccessMeansAddressed'
  BY <1>1, Names DEF All, Search, Types, StateTypes, SuccessMeansAddressed, Outcome
<1> QED BY <1>1, <1>3, <1>4 DEF Tidy, Before

LEMMA TerminateSucceeds ==
  ASSUME MaxFaults = 0, All, TerminateEnd
  PROVE  Tidy'
<1>1. state = "terminate_end" /\ state' = "idle" /\ outcome' = "ok" /\ UNCHANGED <<short, present>>
  BY NoFault DEF All, Search, Wire, TerminateEnd, Running, ReleaseBus, Finish
<1>2. Settled /\ InSearch = {}
  BY <1>1 DEF All, Tidy, During
<1>3. \A g \in Gear : Done(g) /\ init[g] # "stuck"
  <2> SUFFICES ASSUME NEW g \in Gear PROVE Done(g) /\ init[g] # "stuck"
    OBVIOUS
  <2>1. init[g] \in {"off", "on", "stuck", "withdrawn"} /\ g \notin InSearch
    BY <1>2, InitKinds DEF All, Search
  <2> QED BY <2>1 DEF Done, InSearch
<1>4. /\ \A g \in Gear : short[g] \in Address /\ present[short[g]]
      /\ \A g, h \in Gear : short[g] = short[h] => g = h
      /\ \A a \in Address : present[a] => \E g \in Gear : short[g] = a
  BY <1>2, <1>3 DEF Settled
<1>5. (\A g \in Gear : short[g] # NoAddr) /\ SharesNone(short)
  BY <1>4, Names DEF SharesNone
<1>6. {a \in Address : present[a]} = InUse
  BY <1>4, Names DEF InUse
<1>7. SuccessMeansAddressed'
  BY <1>1, <1>5, <1>6 DEF SuccessMeansAddressed, Addressed, InUse, SharesNone
<1>8. outcome' # None
  BY <1>1, Names DEF Outcome
<1> QED BY <1>1, <1>7, <1>8 DEF Tidy, Before, During, Late

\* Steps that neither address a gear nor end with success.
LEMMA OthersSettle ==
  ASSUME MaxFaults = 0, All, Step, ~Program, ~Verify, ~Withdraw, ~Initialise, ~TerminateEnd
  PROVE  Tidy'
<1>0. ~Fault
  BY NoFault DEF All, Search, Wire
<1>1. /\ UNCHANGED <<short, present, mode>>
      /\ state # "idle" /\ state' # "verify"
      /\ state = "verify" => state' = "idle"
      /\ state' = "idle" => outcome' # None
  BY ShortStays DEF All, Search
<1>2. outcome = None
  BY <1>1 DEF All, Search, Types, StateTypes
<1>3. CASE state' = "idle" /\ outcome' # "ok"
  BY <1>1, <1>3 DEF Tidy, Before, During, Late, SuccessMeansAddressed
<1>4. CASE /\ state \in Before /\ state' \in Before \ {"initialise"}
           /\ UNCHANGED outcome
  BY <1>1, <1>2, <1>4, Names DEF All, Tidy, Before, During, Late, SuccessMeansAddressed, Outcome
<1>5. CASE state \in During /\ state' \in During /\ state # "withdraw" /\ state' \notin {"withdraw", "terminate_end"}
           /\ UNCHANGED <<outcome, init>>
  <2>1. Settled'
    BY <1>1, <1>5, SettledStays DEF All, Tidy
  <2> QED BY <1>1, <1>2, <1>5, <2>1, Names DEF Tidy, Before, During, Late, SuccessMeansAddressed, Outcome
<1>6. CASE CancelNow
  BY <1>3, <1>6 DEF CancelNow, Finish
<1>7. CASE Quiescent \/ Terminate103
  BY <1>4, <1>7 DEF Quiescent, Terminate103, SearchUntouched, resultVars, Running, Before
<1>8. CASE Settles
  <2>1. UNCHANGED <<outcome, init>>
    BY <1>8 DEF Settles, Settle, resultVars, gearVars
  <2> QED BY <1>4, <1>5, <1>8, <2>1 DEF Settles, Settle, Running, Before, During, Late
<1>9. CASE TerminateStart
  <2>1. state' = "initialise" /\ AllOff /\ state = "terminate_start" /\ UNCHANGED outcome
    BY <1>0, <1>9 DEF TerminateStart, Sent, Running, SearchUntouched, resultVars
  <2>2. \A g \in Gear : init'[g] = "off"
    BY <2>1 DEF AllOff
  <2> QED BY <1>1, <1>2, <2>1, <2>2, Names DEF All, Tidy, Before, During, Late, SuccessMeansAddressed,
                                             Outcome
<1>10. CASE Randomise
  <2>1. /\ state = "randomise" /\ state' = "settle" /\ UNCHANGED <<outcome, init>>
    BY <1>0, <1>10 DEF Randomise, Sent, RandomiseGears, Running, SearchUntouched, resultVars
  <2> QED BY <1>5, <2>1 DEF During, Late
<1>11. CASE RoundStart
  <2>1. CASE TooMany
    BY <1>3, <1>11, <2>1 DEF RoundStart, Finish
  <2>2. CASE ~TooMany
    BY <1>5, <1>11, <2>2 DEF RoundStart, OpenRound, Running, During, Late, resultVars, gearVars
  <2> QED BY <2>1, <2>2
<1>12. CASE WriteSearch
  <2>1. state = "write_search" /\ state' \in {"write_search", "compare"} /\ UNCHANGED outcome
    BY <1>12, WriteIs DEF WriteSearch, Running, resultVars, All, Search
  <2>2. UNCHANGED init
    BY <1>12, WriteKeeps DEF All, Search
  <2> QED BY <1>5, <2>1, <2>2 DEF During, Late
<1>13. CASE Compare
  <2>1. state = "compare" /\ UNCHANGED <<outcome, init>>
    BY <1>13 DEF Compare, Running, resultVars, gearVars
  <2>2. state' \in {"terminate_end", "write_search", "program"} /\ (state' = "terminate_end" => InSearch' = {})
    BY <1>13, CompareIs, CompareBisects DEF All, Search
  <2>3. CASE state' = "terminate_end"
    <3>1. Settled'
      BY <1>1, <2>1, <2>3, SettledStays DEF All, Tidy, During, Late
    <3> QED BY <1>1, <1>2, <2>1, <2>2, <2>3, <3>1, Names DEF Tidy, Before, During, Late,
                                                             SuccessMeansAddressed, Outcome
  <2>4. CASE state' \in {"write_search", "program"}
    BY <1>5, <2>1, <2>4 DEF During, Late
  <2> QED BY <2>2, <2>3, <2>4
<1> QED BY <1>6, <1>7, <1>8, <1>9, <1>10, <1>11, <1>12, <1>13 DEF Step

LEMMA NextTidy ==
  ASSUME MaxFaults = 0, All, [Next]_vars, ~masked'
  PROVE  Tidy'
<1>1. CASE RequestCancel \/ UNCHANGED vars
  <2>1. UNCHANGED <<state, mode, nextAddr, outcome, present, masked, gearVars>>
    BY <1>1 DEF RequestCancel, vars, resultVars, roundVars
  <2> QED BY <2>1 DEF gearVars, All, Tidy, Settled, Done, Selected, InSearch, SuccessMeansAddressed, Addressed, InUse,
                      SharesNone
<1>2. ASSUME NEW m \in {"all", "unaddressed"}, NEW start, NEW confirm, Begin(m, start, confirm) PROVE Tidy'
  <2>1. state = "idle" /\ outcome = None /\ UNCHANGED short
    BY <1>2 DEF Begin, gearVars
  <2>2. \/ state' = "idle" /\ outcome' = "invalid_arg"
        \/ state' = "quiescent" /\ mode' = m /\ present' = KeptBy(m) /\ UNCHANGED outcome
    BY <1>2 DEF Begin
  <2>3. \A a \in Address : present[a] => \E g \in Gear : short[g] = a
    BY <2>1 DEF All, Tidy
  <2>4. CASE state' = "idle" /\ outcome' = "invalid_arg"
    BY <2>4, Names DEF Tidy, Before, During, Late, SuccessMeansAddressed, Outcome
  <2>5. CASE state' = "quiescent" /\ mode' = m /\ present' = KeptBy(m) /\ UNCHANGED outcome
    <3>1. \A a \in Address : present'[a] => m = "unaddressed" /\ present[a]
      BY <2>5 DEF KeptBy
    <3> QED BY <2>1, <2>3, <2>5, <3>1, Names DEF Tidy, Before, During, Late, SuccessMeansAddressed, Outcome
  <2> QED BY <2>2, <2>4, <2>5
<1>3. CASE Program /\ nextAddr' = MaxGears
  <2>1. state' = "idle" /\ outcome' = "address_in_use"
    BY <1>3 DEF Program, Finish
  <2> QED BY <2>1, Names DEF Tidy, Before, During, Late, SuccessMeansAddressed, Outcome
<1>4. CASE Program /\ nextAddr' # MaxGears
  BY <1>4, ProgramSettles
<1>5. CASE Initialise
  <2>1. state' = "randomise" /\ UNCHANGED outcome /\ state = "initialise"
    BY <1>5 DEF Initialise, SearchUntouched, resultVars, Running
  <2>2. outcome' # "ok"
    BY <2>1, Names DEF All, Search, Types, StateTypes, Outcome
  <2> QED BY <1>5, <2>1, <2>2, InitialiseSettles DEF Tidy, Before, SuccessMeansAddressed
<1>6. CASE Step /\ ~Program
  BY <1>5, <1>6, VerifySettles, WithdrawSettles, TerminateSucceeds, OthersSettle
<1> QED BY <1>1, <1>2, <1>3, <1>4, <1>6 DEF Next, Step

\* Only VERIFY masks, and only where a gear kept its old address.
LEMMA NextMasks ==
  ASSUME MaxFaults = 0, Search, Free, Masks, [Next]_vars
  PROVE  Masks' /\ (masked => masked')
<1>1. CASE Verify
  <2>1. /\ state = "verify" /\ state' = "withdraw" /\ mode' = mode /\ mode \in {"all", "unaddressed"}
        /\ masked => masked'
    BY <1>1, VerifyIs DEF Search, Types, ResultTypes
  <2>2. mode = "unaddressed" => masked' = masked
    BY <1>1, VerifyAlone
  <2> QED BY <2>1, <2>2 DEF Masks
<1>2. CASE UNCHANGED <<masked, mode>> /\ (state' # "idle" \/ outcome' # None \/ UNCHANGED <<state, outcome>>)
  BY <1>2 DEF Masks
<1>3. CASE RequestCancel \/ UNCHANGED vars
  BY <1>2, <1>3 DEF RequestCancel, vars, resultVars, roundVars
<1>4. ASSUME NEW m, NEW start, NEW confirm, Begin(m, start, confirm) PROVE ~masked /\ ~masked'
  <2>1. state = "idle" /\ outcome = None /\ masked' = masked
    BY <1>4 DEF Begin, roundVars
  <2>2. masked \in BOOLEAN
    BY DEF Search, Types, RoundTypes
  <2> QED BY <2>1, <2>2 DEF Masks
<1>5. CASE Step /\ ~Verify
  <2>1. UNCHANGED <<masked, mode>>
    BY <1>5 DEF Step, CancelNow, Quiescent, Settles, Settle, Terminate103, TerminateStart, Initialise, Randomise,
                RoundStart, OpenRound, WriteSearch, Compare, Program, Withdraw, TerminateEnd, SearchUntouched,
                roundVars, resultVars
  <2>2. state' # "idle" \/ outcome' # None
    <3>1. CASE Program
      BY <3>1, Names DEF Program, Finish, Outcome
    <3>2. CASE ~Program
      BY <1>5, <3>2, ShortStays DEF Search
    <3> QED BY <3>1, <3>2
  <2> QED BY <1>2, <2>1, <2>2
<1> QED BY <1>1, <1>3, <1>4, <1>5 DEF Next, Step, Masks

\* A commissioning that ends with ok has addressed everyone it covers: for any number of gears,
\* if a scan had filled the registry, the gears drew different random addresses and nothing
\* is lost, except that where all are addressed anew an old address may spoil a VERIFY. A gear
\* that answers but takes no address keeps it from ending so (COMM_VERIFY, COMM_TERMINATE_END,
\* COMM_MAX_STUCK_ROUNDS).
THEOREM SuccessIsComplete ==
  MaxFaults = 0 /\ DistinctRandoms /\ RegistryKnown => (Spec => []SuccessMeansAddressed)
<1> SUFFICES ASSUME MaxFaults = 0, DistinctRandoms, RegistryKnown PROVE Spec => []SuccessMeansAddressed
  OBVIOUS
<1> DEFINE Inv == Masks /\ (masked \/ Tidy)
<1>1. Init => Inv
  <2> SUFFICES ASSUME Init PROVE Inv
    OBVIOUS
  <2>1. /\ state = "idle" /\ mode = "unaddressed" /\ outcome = None /\ masked = FALSE
        /\ present = [a \in Address |-> RegistryKnown /\ a \in InUse]
    BY DEF Init
  <2>2. \A a \in Address : present[a] => \E g \in Gear : short[g] = a
    BY <2>1 DEF InUse
  <2>3. Tidy
    BY <2>1, <2>2, Names DEF Tidy, Before, During, Late, SuccessMeansAddressed, Outcome
  <2> QED BY <2>1, <2>3 DEF Masks
<1>2. Search /\ Free /\ Inv /\ [Next]_vars => Inv'
  <2> SUFFICES ASSUME Search, Free, Inv, [Next]_vars PROVE Inv'
    OBVIOUS
  <2>1. Masks' /\ (masked => masked')
    BY NextMasks
  <2>2. ~masked' => Tidy'
    BY <2>1, NextTidy DEF All
  <2> QED BY <2>1, <2>2
<1>3. Inv => SuccessMeansAddressed
  BY DEF Masks, Tidy, SuccessMeansAddressed
<1> QED BY <1>1, <1>2, <1>3, FreeAlways, PTL DEF Spec

=============================================================================
