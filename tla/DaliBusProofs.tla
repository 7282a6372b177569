---------------------------- MODULE DaliBusProofs ----------------------------
(***************************************************************************)
(* Proofs about DaliBus, for any number of requests, any queue depth and   *)
(* any length of operation: types are kept, every reply is referred to as  *)
(* often as its count says, callers can rely on the answers and events     *)
(* that reach them and on the step at which a cancelled operation stops,   *)
(* and the task implements CommandService.                                 *)
(***************************************************************************)
EXTENDS DaliBus, TLAPS

\* A request's message is in at most one place on the task's side: once on the
\* queue, in hand, or parked with the operation; and in none before it is sent.
NoDup(q) == \A i, j \in 1..Len(q) : q[i] = q[j] /\ q[i] \in Request => i = j

OnePlace ==
  /\ NoDup(queue)
  /\ \A r \in Request :
       /\ call[r] \in {"new", "cancelling", "refused"}
            => ~InQueue(r) /\ hand # r /\ opWaiter # r
       /\ hand = r => ~InQueue(r) /\ opWaiter # r
       /\ opWaiter = r => ~InQueue(r)

\* What the task's position says of the message in hand and of the operation.
Answering == pc \in {"write", "give", "release"}

Control ==
  /\ Answering => hand \in Request /\ Sync(hand)
  /\ ~Answering => next = "top" /\ (pc # "putback" => hand = None)
  /\ pc = "putback" => hand \in Message
  /\ opKind = None => opWaiter = None
  /\ pc \in {"recv", "poll"} => opKind = None
  /\ pc = "end" \/ next = "end" => opWaiter = None
  /\ boot = "create" => pc = "off"

IInv == TypeOK /\ OnePlace /\ Control /\ RefsCountHolders

-----------------------------------------------------------------------------
(* What the three ways a queue changes do to what it holds. *)

LEMMA AppendHolds ==
  ASSUME NEW q \in Seq(Message), NEW m \in Message
  PROVE  /\ Append(q, m) \in Seq(Message) /\ Len(Append(q, m)) = Len(q) + 1
         /\ \A x : Holds(Append(q, m), x) <=> Holds(q, x) \/ x = m
         /\ NoDup(q) /\ (m \in Request => ~Holds(q, m)) => NoDup(Append(q, m))
  BY DEF Holds, NoDup

LEMMA TailHolds ==
  ASSUME NEW q \in Seq(Message), q # <<>>
  PROVE  /\ Head(q) \in Message /\ Holds(q, Head(q))
         /\ Tail(q) \in Seq(Message) /\ Len(Tail(q)) = Len(q) - 1
         /\ \A x : x # Head(q) => (Holds(Tail(q), x) <=> Holds(q, x))
         /\ NoDup(q) => NoDup(Tail(q))
         /\ NoDup(q) /\ Head(q) \in Request => ~Holds(Tail(q), Head(q))
<1>1. /\ Len(q) \in Nat /\ Len(q) > 0 /\ Head(q) = q[1]
      /\ Tail(q) \in Seq(Message) /\ Len(Tail(q)) = Len(q) - 1
      /\ \A i \in 1..Len(Tail(q)) : Tail(q)[i] = q[i + 1]
  OBVIOUS
<1>2. ASSUME NEW x, x # Head(q) PROVE Holds(Tail(q), x) <=> Holds(q, x)
  <2>1. ASSUME NEW i \in 1..Len(q), q[i] = x PROVE Holds(Tail(q), x)
    <3>1. i - 1 \in 1..Len(Tail(q)) /\ Tail(q)[i - 1] = x
      BY <1>1, <1>2, <2>1
    <3> QED BY <3>1 DEF Holds
  <2>2. ASSUME NEW i \in 1..Len(Tail(q)), Tail(q)[i] = x PROVE Holds(q, x)
    <3>1. i + 1 \in 1..Len(q) /\ q[i + 1] = x
      BY <1>1, <2>2
    <3> QED BY <3>1 DEF Holds
  <2> QED BY <2>1, <2>2 DEF Holds
<1>3. NoDup(q) => NoDup(Tail(q))
  BY <1>1 DEF NoDup
<1>4. NoDup(q) /\ Head(q) \in Request => ~Holds(Tail(q), Head(q))
  BY <1>1 DEF NoDup, Holds
<1>5. Head(q) \in Message /\ Holds(q, Head(q))
  BY <1>1 DEF Holds
<1> QED BY <1>1, <1>2, <1>3, <1>4, <1>5

LEMMA FrontHolds ==
  ASSUME NEW q \in Seq(Message), NEW m \in Message
  PROVE  /\ <<m>> \o q \in Seq(Message) /\ Len(<<m>> \o q) = Len(q) + 1
         /\ \A x : Holds(<<m>> \o q, x) <=> Holds(q, x) \/ x = m
         /\ NoDup(q) /\ (m \in Request => ~Holds(q, m)) => NoDup(<<m>> \o q)
<1>1. /\ <<m>> \o q \in Seq(Message) /\ Len(<<m>> \o q) = Len(q) + 1
      /\ Len(q) \in Nat
      /\ (<<m>> \o q)[1] = m
      /\ \A i \in 2..(Len(q) + 1) : (<<m>> \o q)[i] = q[i - 1]
  OBVIOUS
<1>2. ASSUME NEW x PROVE Holds(<<m>> \o q, x) <=> Holds(q, x) \/ x = m
  <2>1. ASSUME NEW i \in 1..Len(q), q[i] = x PROVE Holds(<<m>> \o q, x)
    <3>1. i + 1 \in 1..Len(<<m>> \o q) /\ (<<m>> \o q)[i + 1] = x
      BY <1>1, <2>1
    <3> QED BY <3>1 DEF Holds
  <2>2. x = m => Holds(<<m>> \o q, x)
    BY <1>1 DEF Holds
  <2>3. ASSUME NEW i \in 1..Len(<<m>> \o q), (<<m>> \o q)[i] = x, x # m
        PROVE  Holds(q, x)
    <3>1. i - 1 \in 1..Len(q) /\ q[i - 1] = x
      BY <1>1, <2>3
    <3> QED BY <3>1 DEF Holds
  <2> QED BY <2>1, <2>2, <2>3 DEF Holds
<1>3. NoDup(q) /\ (m \in Request => ~Holds(q, m)) => NoDup(<<m>> \o q)
  BY <1>1 DEF NoDup, Holds
<1> QED BY <1>1, <1>2, <1>3

-----------------------------------------------------------------------------
(* Steps that move no message and touch no reply. *)

LEMMA PlacesKept ==
  ASSUME OnePlace, RefsCountHolders,
         UNCHANGED <<queue, call, hand, opWaiter, refs>>
  PROVE  OnePlace' /\ RefsCountHolders'
  BY DEF OnePlace, RefsCountHolders, InQueue, CallerHolds, TaskHolds, Sync

\* A reply keeps its count while the call stands where it stood and the task
\* holds the same synchronous requests, wherever it has moved them.
LEMMA CountsKept ==
  ASSUME RefsCountHolders, UNCHANGED <<call, refs>>,
         \A r \in Request : Sync(r) => (TaskHolds(r)' <=> TaskHolds(r))
  PROVE  RefsCountHolders'
  BY DEF RefsCountHolders, CallerHolds, TaskHolds, Sync

LEMMA TypesKept ==
  ASSUME TypeOK
  PROVE  /\ UNCHANGED <<queue, callVars, replyVars, published>> => DataOK'
         /\ UNCHANGED taskVars => TaskOK'
         /\ UNCHANGED <<hand, out, next, served, forever, rescan>> /\ pc' \in Pc => TaskOK'
         /\ UNCHANGED opVars => OperationOK'
         /\ UNCHANGED <<flag, clockVars>> => ClockOK'
<1>1. UNCHANGED <<queue, callVars, replyVars, published>> => DataOK'
  BY DEF TypeOK, DataOK, callVars, replyVars
<1>2. UNCHANGED taskVars => TaskOK'
  BY DEF TypeOK, TaskOK, taskVars
<1>3. UNCHANGED <<hand, out, next, served, forever, rescan>> /\ pc' \in Pc => TaskOK'
  BY DEF TypeOK, TaskOK
<1>4. UNCHANGED opVars => OperationOK'
  BY DEF TypeOK, OperationOK, opVars
<1>5. UNCHANGED <<flag, clockVars>> => ClockOK'
  BY DEF TypeOK, ClockOK, clockVars
<1> QED BY <1>1, <1>2, <1>3, <1>4, <1>5

LEMMA InitInv == Init => IInv
<1> SUFFICES ASSUME Init PROVE IInv
  OBVIOUS
<1>1. DataOK
  <2>1. queue \in Seq(Message) /\ Len(queue) <= QueueDepth
    BY DepthAssumption DEF Init
  <2>2. /\ call \in [Request -> CallState] /\ kind \in [Request -> Kinds \cup {None}]
        /\ refs \in [Request -> 0..2] /\ done \in [Request -> BOOLEAN]
        /\ res \in [Request -> Outcome \cup {None}] /\ published \in [Request -> 0..2]
    BY DEF Init, CallState
  <2> QED BY <2>1, <2>2 DEF DataOK
<1>2. TaskOK
  BY DEF Init, TaskOK, Pc, Resume
<1>3. OperationOK
  <2>1. opLeft \in 0..MaxSteps /\ lag \in 0..3
    BY StepsAssumption DEF Init
  <2>2. opCancel \in BOOLEAN /\ legit \in BOOLEAN
    BY DEF Init
  <2> QED BY <2>1, <2>2 DEF Init, OperationOK
<1>4. ClockOK
  BY DEF Init, ClockOK
<1>5. OnePlace
  BY NamesAssumption DEF Init, OnePlace, NoDup, InQueue, Holds, Message
<1>6. Control
  BY DEF Init, Control, Answering
<1>7. RefsCountHolders
  <2> SUFFICES ASSUME NEW r \in Request
               PROVE  refs[r] = (IF CallerHolds(r) THEN 1 ELSE 0)
                                + (IF TaskHolds(r) THEN 1 ELSE 0)
    BY DEF RefsCountHolders
  <2>1. call[r] = "new" /\ refs[r] = 0
    BY DEF Init
  <2>2. ~CallerHolds(r)
    BY <2>1 DEF CallerHolds
  <2>3. ~TaskHolds(r)
    BY <2>1 DEF TaskHolds, Sync
  <2> QED BY <2>1, <2>2, <2>3
<1> QED BY <1>1, <1>2, <1>3, <1>4, <1>5, <1>6, <1>7 DEF IInv, TypeOK

\* An invariant step is proved part by part.
LEMMA Parts ==
  ASSUME DataOK', TaskOK', OperationOK', ClockOK', OnePlace', Control', RefsCountHolders'
  PROVE  IInv'
  BY DEF IInv, TypeOK

\* Steps that only move the task, or what it keeps for itself.
QuietStep ==
  \/ LoopHead \/ IdleTimeout \/ DrainEmpty \/ StepOn \/ ClearFlag
  \/ WriteResult \/ GiveSemaphore \/ CreateTask \/ ArmPollTimer \/ PollFallsDue

LEMMA QuietTypes == ASSUME TypeOK, Control, QuietStep PROVE TypeOK'
<1> USE DEF Pc, Resume
<1>1. CASE LoopHead
  <2>1. DataOK' /\ ClockOK'
    BY <1>1, TypesKept DEF LoopHead, callVars, replyVars, clockVars
  <2>2. TaskOK'
    BY <1>1 DEF LoopHead, WaitsForever, TypeOK, TaskOK
  <2>3. OperationOK'
    BY <1>1 DEF LoopHead, SeesCancel, TypeOK, OperationOK, ClockOK
  <2> QED BY <2>1, <2>2, <2>3 DEF TypeOK
<1>2. CASE IdleTimeout \/ DrainEmpty
  BY <1>2, TypesKept DEF IdleTimeout, DrainEmpty, TypeOK
<1>3. CASE StepOn
  <2>1. DataOK' /\ TaskOK'
    BY <1>3, TypesKept DEF StepOn, callVars, replyVars
  <2>2. opLeft' \in 0..MaxSteps /\ lag' \in 0..3
    BY <1>3, StepsAssumption DEF StepOn, Advance, TypeOK, OperationOK
  <2>3. OperationOK'
    BY <1>3, <2>2 DEF StepOn, TypeOK, OperationOK
  <2>4. ClockOK'
    BY <1>3 DEF StepOn, TypeOK, ClockOK
  <2> QED BY <2>1, <2>3, <2>4 DEF TypeOK
<1>4. CASE ClearFlag
  <2>1. DataOK' /\ OperationOK'
    BY <1>4, TypesKept DEF ClearFlag
  <2>2. TaskOK' /\ ClockOK'
    BY <1>4 DEF ClearFlag, TypeOK, TaskOK, ClockOK, clockVars
  <2> QED BY <2>1, <2>2 DEF TypeOK
<1>5. CASE WriteResult \/ GiveSemaphore
  <2>1. TaskOK' /\ OperationOK' /\ ClockOK'
    BY <1>5, TypesKept DEF WriteResult, GiveSemaphore
  <2>2. done' \in [Request -> BOOLEAN]
    BY <1>5 DEF WriteResult, GiveSemaphore, TypeOK, DataOK
  <2>3. res' \in [Request -> Outcome \cup {None}]
    BY <1>5 DEF WriteResult, GiveSemaphore, TypeOK, DataOK, TaskOK
  <2>4. DataOK'
    BY <1>5, <2>2, <2>3 DEF WriteResult, GiveSemaphore, TypeOK, DataOK, callVars
  <2> QED BY <2>1, <2>4 DEF TypeOK
<1>6. CASE CreateTask
  <2>1. DataOK' /\ OperationOK' /\ TaskOK'
    BY <1>6, TypesKept DEF CreateTask
  <2>2. ClockOK'
    BY <1>6 DEF CreateTask, TypeOK, ClockOK
  <2> QED BY <2>1, <2>2 DEF TypeOK
<1>7. CASE ArmPollTimer \/ PollFallsDue
  <2>1. DataOK' /\ OperationOK' /\ TaskOK'
    BY <1>7, TypesKept DEF ArmPollTimer, PollFallsDue
  <2>2. ClockOK'
    BY <1>7 DEF ArmPollTimer, PollFallsDue, TypeOK, ClockOK
  <2> QED BY <2>1, <2>2 DEF TypeOK
<1> QED BY <1>1, <1>2, <1>3, <1>4, <1>5, <1>6, <1>7 DEF QuietStep

LEMMA QuietControl == ASSUME TypeOK, Control, QuietStep PROVE Control'
<1> USE DEF Control, Answering
<1>1. CASE LoopHead
  BY <1>1 DEF LoopHead, clockVars
<1>2. CASE IdleTimeout
  BY <1>2 DEF IdleTimeout, opVars, clockVars
<1>3. CASE DrainEmpty
  BY <1>3 DEF DrainEmpty, opVars, clockVars
<1>4. CASE StepOn
  BY <1>4 DEF StepOn
<1>5. CASE ClearFlag
  BY <1>5 DEF ClearFlag, opVars, clockVars
<1>6. CASE WriteResult \/ GiveSemaphore
  BY <1>6 DEF WriteResult, GiveSemaphore, callVars, opVars, clockVars, Sync
<1>7. CASE CreateTask
  BY <1>7 DEF CreateTask, opVars
<1>8. CASE ArmPollTimer \/ PollFallsDue
  BY <1>8 DEF ArmPollTimer, PollFallsDue, callVars, taskVars, opVars, Sync
<1> QED BY <1>1, <1>2, <1>3, <1>4, <1>5, <1>6, <1>7, <1>8 DEF QuietStep

LEMMA QuietSteps == IInv /\ QuietStep => IInv'
<1> SUFFICES ASSUME IInv, QuietStep PROVE IInv'
  OBVIOUS
<1>1. UNCHANGED <<queue, call, hand, opWaiter, refs>>
  BY DEF QuietStep, LoopHead, IdleTimeout, DrainEmpty, StepOn, ClearFlag, WriteResult,
         GiveSemaphore, CreateTask, ArmPollTimer, PollFallsDue,
         callVars, replyVars, taskVars, opVars
<1> QED BY <1>1, PlacesKept, QuietTypes, QuietControl DEF IInv

-----------------------------------------------------------------------------
(* The callers' steps. *)

\* A request enters: its message joins the queue, or it stays where it was.
Joins(r, c) == HasRoom /\ queue' = Append(queue, r) /\ call' = [call EXCEPT ![r] = c]
Stays(r, c) == queue' = queue /\ call' = [call EXCEPT ![r] = c]

LEMMA Entering ==
  ASSUME IInv, NEW r \in Request, call[r] \in {"new", "cancelling"},
         UNCHANGED <<hand, opWaiter>>,
         \/ Joins(r, "posted") /\ refs' = refs
         \/ Joins(r, "waiting") /\ refs' = [refs EXCEPT ![r] = 2]
         \/ Stays(r, "refused") /\ refs' = refs
         \/ Stays(r, "cancelling") /\ refs' = refs
  PROVE  /\ queue' \in Seq(Message) /\ Len(queue') <= QueueDepth
         /\ call' \in [Request -> CallState] /\ refs' \in [Request -> 0..2]
         /\ OnePlace' /\ RefsCountHolders'
<1>1. /\ queue \in Seq(Message) /\ call \in [Request -> CallState]
      /\ refs \in [Request -> 0..2] /\ r \in Message /\ Len(queue) <= QueueDepth
  BY DEF IInv, TypeOK, DataOK, Message
<1>2. ~InQueue(r) /\ hand # r /\ opWaiter # r
  BY DEF IInv, OnePlace
<1>3. /\ call' \in [Request -> CallState]
      /\ \A s \in Request : s # r => call'[s] = call[s]
      /\ call'[r] \in {"posted", "waiting", "refused", "cancelling"}
  BY <1>1 DEF Joins, Stays, CallState
<1>4. refs' \in [Request -> 0..2] /\ \A s \in Request : s # r => refs'[s] = refs[s]
  BY <1>1
<1>5. /\ \A s : s # r => (InQueue(s)' <=> InQueue(s))
      /\ InQueue(r)' <=> call'[r] \in {"posted", "waiting"}
  <2>1. CASE Joins(r, "posted") \/ Joins(r, "waiting")
    <3>1. \A s : InQueue(s)' <=> InQueue(s) \/ s = r
      <4>1. \A s : Holds(Append(queue, r), s) <=> Holds(queue, s) \/ s = r
        BY <1>1, AppendHolds
      <4>2. queue' = Append(queue, r)
        BY <2>1 DEF Joins
      <4> QED BY <4>1, <4>2 DEF InQueue
    <3> QED BY <1>1, <2>1, <3>1 DEF Joins
  <2>2. CASE Stays(r, "refused") \/ Stays(r, "cancelling")
    <3>1. \A s : InQueue(s)' <=> InQueue(s)
      BY <2>2 DEF Stays, InQueue
    <3> QED BY <1>1, <1>2, <2>2, <3>1 DEF Stays
  <2> QED BY <2>1, <2>2
<1>6. queue' \in Seq(Message) /\ Len(queue') <= QueueDepth /\ NoDup(queue')
  <2>1. CASE queue' = Append(queue, r) /\ HasRoom
    <3>1. NoDup(queue')
      BY <1>1, <1>2, <2>1, AppendHolds DEF IInv, OnePlace, InQueue
    <3>2. queue' \in Seq(Message) /\ Len(queue') <= QueueDepth
      BY <1>1, <2>1, DepthAssumption DEF HasRoom
    <3> QED BY <3>1, <3>2
  <2>2. CASE queue' = queue
    BY <1>1, <2>2 DEF IInv, OnePlace
  <2> QED BY <2>1, <2>2 DEF Joins, Stays
<1>7. OnePlace'
  BY <1>2, <1>3, <1>5, <1>6 DEF IInv, OnePlace
<1>8. RefsCountHolders'
  <2> SUFFICES ASSUME NEW s \in Request
               PROVE  refs'[s] = (IF CallerHolds(s)' THEN 1 ELSE 0)
                                 + (IF TaskHolds(s)' THEN 1 ELSE 0)
    BY DEF RefsCountHolders
  <2>1. refs[s] = (IF CallerHolds(s) THEN 1 ELSE 0) + (IF TaskHolds(s) THEN 1 ELSE 0)
    BY DEF IInv, RefsCountHolders
  <2>2. CASE s # r
    <3>1. refs'[s] = refs[s] /\ (CallerHolds(s)' <=> CallerHolds(s))
      BY <1>3, <1>4, <2>2 DEF CallerHolds
    <3>2. TaskHolds(s)' <=> TaskHolds(s)
      BY <1>3, <1>5, <2>2 DEF TaskHolds, Sync
    <3> QED BY <2>1, <3>1, <3>2
  <2>3. CASE s = r
    <3>1. ~CallerHolds(r) /\ ~TaskHolds(r)
      BY <1>2 DEF CallerHolds, TaskHolds
    <3>2. refs[r] = 0
      BY <2>1, <2>3, <3>1
    <3>3. CASE call'[r] = "waiting"
      <4>1. refs'[r] = 2
        BY <1>1, <3>3 DEF Joins, Stays
      <4>2. CallerHolds(r)' /\ TaskHolds(r)'
        BY <1>5, <3>3 DEF CallerHolds, TaskHolds, Sync
      <4> QED BY <2>3, <4>1, <4>2
    <3>4. CASE call'[r] # "waiting"
      <4>1. refs'[r] = refs[r]
        BY <1>1, <3>4 DEF Joins
      <4>2. ~CallerHolds(r)' /\ ~TaskHolds(r)'
        BY <1>3, <3>4 DEF CallerHolds, TaskHolds, Sync
      <4> QED BY <2>3, <3>2, <4>1, <4>2
    <3> QED BY <3>3, <3>4
  <2> QED BY <2>2, <2>3
<1> QED BY <1>3, <1>4, <1>6, <1>7, <1>8

\* A waiting caller leaves, with its answer or without, or is about to.
LEMMA Leaving ==
  ASSUME IInv, NEW r \in Request, UNCHANGED <<queue, hand, opWaiter>>,
         \/ call[r] = "waiting" /\ call' = [call EXCEPT ![r] = "holding"] /\ refs' = refs
         \/ call[r] = "holding" /\ call' = [call EXCEPT ![r] = "answered"] /\ Release(r)
         \/ call[r] = "waiting" /\ call' = [call EXCEPT ![r] = "timedout"] /\ Release(r)
  PROVE  /\ call' \in [Request -> CallState] /\ refs' \in [Request -> 0..2]
         /\ OnePlace' /\ RefsCountHolders'
<1>1. /\ call \in [Request -> CallState] /\ refs \in [Request -> 0..2]
  BY DEF IInv, TypeOK, DataOK
<1>2. /\ call' \in [Request -> CallState] /\ Sync(r) /\ Sync(r)' /\ CallerHolds(r)
      /\ \A s \in Request : s # r => call'[s] = call[s]
  BY <1>1 DEF CallState, Sync, CallerHolds
<1>3. \A s \in Request : (Sync(s)' <=> Sync(s)) /\ (InQueue(s)' <=> InQueue(s))
  BY <1>2 DEF InQueue, Sync
<1>4. \A s \in Request : TaskHolds(s)' <=> TaskHolds(s)
  BY <1>3 DEF TaskHolds
<1>5. OnePlace'
  <2>1. \A s \in Request : call'[s] \in {"new", "cancelling", "refused"}
                             => call[s] \in {"new", "cancelling", "refused"}
    BY <1>2 DEF Sync
  <2> QED BY <1>3, <2>1 DEF IInv, OnePlace, InQueue
<1>6. refs' \in [Request -> 0..2] /\ RefsCountHolders'
  <2>1. \A s \in Request :
          refs[s] = (IF CallerHolds(s) THEN 1 ELSE 0) + (IF TaskHolds(s) THEN 1 ELSE 0)
    BY DEF IInv, RefsCountHolders
  <2>2. ASSUME NEW s \in Request, s # r
        PROVE  refs'[s] = refs[s] /\ (CallerHolds(s)' <=> CallerHolds(s))
    BY <1>1, <1>2, <2>2 DEF Release, CallerHolds
  <2>3. \/ refs'[r] = refs[r] /\ CallerHolds(r)'
        \/ refs'[r] = refs[r] - 1 /\ ~CallerHolds(r)'
    BY <1>1 DEF Release, CallerHolds
  <2>4. refs'[r] = (IF CallerHolds(r)' THEN 1 ELSE 0) + (IF TaskHolds(r)' THEN 1 ELSE 0)
    BY <1>2, <1>4, <2>1, <2>3
  <2>5. RefsCountHolders'
    BY <1>4, <2>1, <2>2, <2>4 DEF RefsCountHolders
  <2>6. refs'[r] \in 0..2
    BY <2>4
  <2>7. refs' \in [Request -> 0..2]
    BY <1>1, <2>6 DEF Release
  <2> QED BY <2>5, <2>7
<1> QED BY <1>2, <1>5, <1>6

LEMMA CallerTypes ==
  ASSUME TypeOK, NEW r \in Request, Caller(r),
         queue' \in Seq(Message) /\ Len(queue') <= QueueDepth,
         call' \in [Request -> CallState], refs' \in [Request -> 0..2]
  PROVE  TypeOK'
<1>1. TaskOK'
  <2>1. UNCHANGED taskVars
    BY DEF Caller, Submit, SubmitSync, CancelStore, CancelPost, TakeAnswer, CallerReleases,
           TimeOut
  <2> QED BY <2>1, TypesKept
<1>2. ClockOK'
  <2>1. UNCHANGED clockVars /\ flag' \in {flag, TRUE}
    BY DEF Caller, Submit, SubmitSync, CancelStore, CancelPost, TakeAnswer, CallerReleases,
           TimeOut
  <2> QED BY <2>1 DEF TypeOK, ClockOK, clockVars
<1>3. OperationOK'
  <2>1. CASE UNCHANGED opVars
    BY <2>1, TypesKept
  <2>2. CASE CancelStore(r)
    BY <2>2 DEF CancelStore, TypeOK, OperationOK
  <2> QED BY <2>1, <2>2
          DEF Caller, Submit, SubmitSync, CancelPost, TakeAnswer, CallerReleases, TimeOut
<1>4. DataOK'
  <2>1. kind' \in [Request -> Kinds \cup {None}]
    <3>1. \/ kind' = kind
          \/ \E k \in Kinds : kind' = [kind EXCEPT ![r] = k]
      BY DEF Caller, Submit, SubmitSync, CancelStore, CancelPost, TakeAnswer,
             CallerReleases, TimeOut
    <3> QED BY <3>1 DEF TypeOK, DataOK
  <2>2. UNCHANGED <<res, published>>
    BY DEF Caller, Submit, SubmitSync, CancelStore, CancelPost, TakeAnswer, CallerReleases,
           TimeOut, replyVars
  <2>3. done' = done \/ done' = [done EXCEPT ![r] = FALSE]
    BY DEF Caller, Submit, SubmitSync, CancelStore, CancelPost, TakeAnswer, CallerReleases,
           TimeOut, replyVars
  <2>4. done' \in [Request -> BOOLEAN]
    BY <2>3 DEF TypeOK, DataOK
  <2> QED BY <2>1, <2>2, <2>4 DEF TypeOK, DataOK
<1> QED BY <1>1, <1>2, <1>3, <1>4 DEF TypeOK

LEMMA CallerSteps == ASSUME IInv, NEW r \in Request, Caller(r) PROVE IInv'
<1> DEFINE Good == /\ queue' \in Seq(Message) /\ Len(queue') <= QueueDepth
                   /\ call' \in [Request -> CallState] /\ refs' \in [Request -> 0..2]
                   /\ OnePlace' /\ RefsCountHolders'
<1>1. UNCHANGED <<hand, opWaiter>>
  BY DEF Caller, Submit, SubmitSync, CancelStore, CancelPost, TakeAnswer, CallerReleases,
         TimeOut, taskVars, opVars
<1>2. ASSUME NEW k \in Kinds, Submit(r, k) PROVE Good
  BY <1>1, <1>2, Entering DEF Submit, CanCall, Joins, Stays, replyVars
<1>3. ASSUME NEW k \in Kinds, SubmitSync(r, k) PROVE Good
  BY <1>1, <1>3, Entering DEF SubmitSync, CanCall, Joins, Stays
<1>4. ASSUME CancelStore(r) PROVE Good
  BY <1>1, <1>4, Entering DEF CancelStore, CanCall, Joins, Stays, replyVars
<1>5. ASSUME CancelPost(r) PROVE Good
  BY <1>1, <1>5, Entering DEF CancelPost, CanCall, Joins, Stays, replyVars
<1>6. ASSUME TakeAnswer(r) \/ CallerReleases(r) \/ TimeOut(r) PROVE Good
  <2>1. UNCHANGED queue
    BY <1>6 DEF TakeAnswer, CallerReleases, TimeOut
  <2>2. \/ call[r] = "waiting" /\ call' = [call EXCEPT ![r] = "holding"] /\ refs' = refs
        \/ call[r] = "holding" /\ call' = [call EXCEPT ![r] = "answered"] /\ Release(r)
        \/ call[r] = "waiting" /\ call' = [call EXCEPT ![r] = "timedout"] /\ Release(r)
    BY <1>6 DEF TakeAnswer, CallerReleases, TimeOut
  <2> QED BY <1>1, <2>1, <2>2, Leaving DEF IInv, TypeOK, DataOK
<1>7. Good
  BY <1>2, <1>3, <1>4, <1>5, <1>6 DEF Caller
<1>8. TypeOK'
  BY <1>7, CallerTypes DEF IInv
<1>9. Control'
  <2>1. \A s \in Request : s # r => call'[s] = call[s]
    BY DEF Caller, Submit, SubmitSync, CancelStore, CancelPost, TakeAnswer, CallerReleases,
           TimeOut, IInv, TypeOK, DataOK
  <2>2. Sync(r) => Sync(r)'
    BY <1>7 DEF Caller, Submit, SubmitSync, CancelStore, CancelPost, TakeAnswer,
                CallerReleases, TimeOut, CanCall, Sync, IInv, TypeOK, DataOK
  <2>3. UNCHANGED <<pc, hand, next, opKind, opWaiter, boot>>
    BY DEF Caller, Submit, SubmitSync, CancelStore, CancelPost, TakeAnswer, CallerReleases,
           TimeOut, taskVars, opVars, clockVars
  <2>4. Answering => Sync(hand)'
    BY <2>1, <2>2, <2>3 DEF Sync, IInv, Control
  <2> QED BY <2>3, <2>4 DEF IInv, Control, Answering, Sync
<1> QED BY <1>7, <1>8, <1>9 DEF IInv

-----------------------------------------------------------------------------
(* The task's steps that move a message or drop a reference. *)

\* The message at the front is taken: into hand, or parked, or dropped if
\* nobody waits for it.
LEMMA Taking ==
  ASSUME IInv, queue # <<>>, NEW m, m = Head(queue), queue' = Tail(queue), hand = None,
         UNCHANGED <<call, refs>>,
         \/ hand' = m /\ opWaiter' = opWaiter
         \/ ~HasReply(m) /\ hand' = None /\ opWaiter' = opWaiter
         \/ m \in Request /\ hand' = None /\ opWaiter = None /\ opWaiter' = m
  PROVE  OnePlace' /\ RefsCountHolders' /\ queue' \in Seq(Message) /\ Len(queue') <= QueueDepth
<1>1. /\ queue \in Seq(Message) /\ Len(queue) <= QueueDepth /\ NoDup(queue)
  BY DEF IInv, TypeOK, DataOK, OnePlace
<1>2. /\ m \in Message /\ InQueue(m)
      /\ queue' \in Seq(Message) /\ Len(queue') = Len(queue) - 1
      /\ NoDup(queue')
      /\ \A x : x # m => (InQueue(x)' <=> InQueue(x))
      /\ m \in Request => ~InQueue(m)'
  BY <1>1, TailHolds DEF InQueue
<1>3. Len(queue') <= QueueDepth
  BY <1>1, <1>2, DepthAssumption
<1>4. None \notin Request /\ None # m
  BY <1>2, NamesAssumption DEF Message
<1>5. \A r \in Request : /\ call[r] \in {"new", "cancelling", "refused"}
                              => ~InQueue(r) /\ hand # r /\ opWaiter # r
                         /\ opWaiter = r => ~InQueue(r)
  BY DEF IInv, OnePlace
<1>6. \A r \in Request : /\ hand' = r => r = m
                         /\ opWaiter' = r => opWaiter = r \/ r = m
                         /\ ~(hand' = r /\ opWaiter' = r)
                         /\ ~(InQueue(r)' /\ r = m)
  BY <1>2, <1>4, <1>5
<1>7. OnePlace'
  BY <1>2, <1>5, <1>6 DEF OnePlace
<1>8. ASSUME NEW r \in Request, Sync(r) PROVE TaskHolds(r)' <=> TaskHolds(r)
  <2>1. Sync(r)'
    BY <1>8 DEF Sync
  <2>2. CASE r = m
    BY <1>2, <1>4, <1>8, <2>1, <2>2 DEF TaskHolds, HasReply
  <2>3. CASE r # m
    <3>1. (InQueue(r)' <=> InQueue(r)) /\ hand # r /\ hand' # r
      BY <1>2, <1>4, <1>6, <2>3
    <3>2. opWaiter' = r <=> opWaiter = r
      BY <1>4, <2>3
    <3> QED BY <1>8, <2>1, <3>1, <3>2 DEF TaskHolds
  <2> QED BY <2>2, <2>3
<1>9. RefsCountHolders'
  BY <1>8, CountsKept DEF IInv
<1> QED BY <1>2, <1>3, <1>7, <1>9

\* What handing an outcome over leaves behind.
LEMMA Answered ==
  ASSUME NEW m \in Message \cup {None}, NEW o \in Outcome, NEW c \in Resume, Answer(m, o, c)
  PROVE  /\ hand' \in Message \cup {None} /\ out' \in Outcome \cup {None}
         /\ next' \in Resume /\ pc' \in Pc
         /\ \/ HasReply(m) /\ hand' = m /\ pc' = "write" /\ next' = c
            \/ ~HasReply(m) /\ hand' = None /\ pc' = c /\ next' = "top"
<1>1. CASE HasReply(m)
  BY <1>1 DEF Answer, Pc
<1>2. CASE ~HasReply(m)
  BY <1>2 DEF Answer, Pc, Resume
<1> QED BY <1>1, <1>2

LEMMA Publishing ==
  ASSUME TypeOK, NEW m, Publish(m)
  PROVE  published' \in [Request -> 0..2]
<1>1. published \in [Request -> 0..2]
  BY DEF TypeOK, DataOK
<1>2. CASE m \in Request /\ published[m] < 2
  <2>1. published[m] + 1 \in 0..2
    BY <1>1, <1>2
  <2> QED BY <1>1, <1>2, <2>1 DEF Publish
<1>3. CASE ~(m \in Request /\ published[m] < 2)
  BY <1>1, <1>3 DEF Publish
<1> QED BY <1>2, <1>3

LEMMA ReleaseStep == ASSUME IInv, TaskReleases PROVE IInv'
<1>1. /\ hand \in Request /\ Sync(hand) /\ pc = "release"
      /\ ~InQueue(hand) /\ opWaiter # hand
  BY DEF TaskReleases, IInv, Control, Answering, OnePlace
<1>2. /\ refs \in [Request -> 0..2] /\ next \in Resume
      /\ UNCHANGED <<queue, call, opWaiter>> /\ hand' = None /\ pc' = next
      /\ refs' = [refs EXCEPT ![hand] = @ - 1]
  BY DEF TaskReleases, IInv, TypeOK, DataOK, TaskOK, Release, callVars, opVars
<1>3. None \notin Request
  BY NamesAssumption DEF Message
<1>4. \A r \in Request : /\ Sync(r)' <=> Sync(r)
                         /\ CallerHolds(r)' <=> CallerHolds(r)
                         /\ InQueue(r)' <=> InQueue(r)
  BY <1>2 DEF Sync, CallerHolds, InQueue
<1>5. OnePlace'
  BY <1>2, <1>3, <1>4 DEF IInv, OnePlace
<1>6. ASSUME NEW r \in Request
      PROVE  /\ refs'[r] \in 0..2
             /\ refs'[r] = (IF CallerHolds(r)' THEN 1 ELSE 0)
                           + (IF TaskHolds(r)' THEN 1 ELSE 0)
  <2>1. refs[r] = (IF CallerHolds(r) THEN 1 ELSE 0) + (IF TaskHolds(r) THEN 1 ELSE 0)
    BY DEF IInv, RefsCountHolders
  <2>2. CASE r = hand
    <3>1. TaskHolds(r) /\ ~TaskHolds(r)'
      BY <1>1, <1>2, <1>3, <1>4, <2>2 DEF TaskHolds
    <3>2. refs'[r] = refs[r] - 1
      BY <1>2, <2>2
    <3> QED BY <1>4, <2>1, <3>1, <3>2
  <2>3. CASE r # hand
    <3>1. TaskHolds(r)' <=> TaskHolds(r)
      BY <1>2, <1>3, <1>4, <2>3 DEF TaskHolds
    <3>2. refs'[r] = refs[r]
      BY <1>2, <2>3
    <3> QED BY <1>4, <2>1, <3>1, <3>2
  <2> QED BY <2>2, <2>3
<1>7. DataOK'
  <2>1. refs' \in [Request -> 0..2]
    BY <1>1, <1>2, <1>6
  <2> QED BY <2>1 DEF TaskReleases, IInv, TypeOK, DataOK, callVars
<1>8. TaskOK'
  BY <1>2 DEF TaskReleases, IInv, TypeOK, TaskOK, Pc, Resume
<1>9. OperationOK' /\ ClockOK'
  BY TypesKept DEF TaskReleases, IInv
<1>10. Control'
  <2>1. pc' \in Resume /\ next' = "top" /\ opWaiter' = opWaiter /\ opKind' = opKind
    BY <1>2 DEF TaskReleases, opVars
  <2>2. pc' = "end" => opWaiter' = None
    BY <1>2 DEF IInv, Control
  <2>3. boot' # "create"
    BY <1>1 DEF TaskReleases, IInv, Control, clockVars
  <2> QED BY <1>2, <2>1, <2>2, <2>3 DEF IInv, Control, Answering, Resume
<1> QED BY <1>5, <1>6, <1>7, <1>8, <1>9, <1>10, Parts DEF RefsCountHolders

LEMMA DrainStep == ASSUME IInv, NEW m \in Message, Drain(m) PROVE IInv'
<1>1. /\ pc = "drain" /\ queue # <<>> /\ m = Head(queue) /\ queue' = Tail(queue)
      /\ hand = None /\ next = "top" /\ boot # "create"
      /\ UNCHANGED <<call, kind, refs, done, res, forever, rescan, flag, timer, boot>>
      /\ UNCHANGED <<opKind, opOwner, opWaiter, opLeft, lag, declined>>
  BY DEF Drain, Receive, DrainCancel, DrainReject, DrainUrgent, DrainOrdinary, DrainStop,
         RunCommand, Reject, IInv, Control, Answering, callVars, replyVars, opVars
<1>2. \/ /\ Publish(m) /\ \E o \in Outcome : Answer(m, o, "drain")
         /\ served' \in BOOLEAN
      \/ DrainStop(m)
  BY DEF Drain, DrainCancel, DrainReject, DrainUrgent, DrainOrdinary, RunCommand, Reject,
         Acknowledge, Outcome, IInv, TypeOK, TaskOK
<1>3. \/ HasReply(m) /\ hand' = m /\ pc' = "write" /\ next' = "drain"
      \/ ~HasReply(m) /\ hand' = None /\ pc' = "drain" /\ next' = "top"
      \/ hand' = m /\ pc' = "putback" /\ next' = "top"
  BY <1>1, <1>2, Answered DEF DrainStop, Resume
<1>4. OnePlace' /\ RefsCountHolders' /\ queue' \in Seq(Message) /\ Len(queue') <= QueueDepth
  BY <1>1, <1>3, Taking
<1>5. Control'
  BY <1>1, <1>3 DEF IInv, Control, Answering, HasReply, Sync
<1>6. DataOK'
  <2>1. published' \in [Request -> 0..2]
    BY <1>2, Publishing DEF DrainStop, IInv, TypeOK, DataOK
  <2> QED BY <1>1, <1>4, <2>1 DEF IInv, TypeOK, DataOK
<1>7. TaskOK'
  <2>1. hand' \in Message \cup {None} /\ pc' \in Pc /\ next' \in Resume
    BY <1>3 DEF Pc, Resume
  <2>2. out' \in Outcome \cup {None} /\ served' \in BOOLEAN
    BY <1>2, Answered DEF DrainStop, Resume, IInv, TypeOK, TaskOK
  <2> QED BY <1>1, <2>1, <2>2 DEF IInv, TypeOK, TaskOK
<1>8. OperationOK' /\ ClockOK'
  <2>1. opCancel' \in BOOLEAN /\ legit' \in BOOLEAN
    BY DEF Drain, DrainCancel, DrainReject, DrainUrgent, DrainOrdinary, DrainStop,
           RunCommand, Reject, opVars, IInv, TypeOK, OperationOK
  <2>2. powered' \in BOOLEAN
    BY DEF Drain, DrainCancel, DrainReject, DrainUrgent, DrainOrdinary, DrainStop,
           RunCommand, Reject, Acknowledge, IInv, TypeOK, ClockOK
  <2>3. OperationOK'
    BY <1>1, <2>1 DEF IInv, TypeOK, OperationOK
  <2> QED BY <1>1, <2>2, <2>3 DEF IInv, TypeOK, ClockOK
<1> QED BY <1>4, <1>5, <1>6, <1>7, <1>8, Parts

\* start_long leaves the message in hand for an acknowledgement, or parked, or
\* lets go of one that nobody waits for.
LEMMA Starting ==
  ASSUME IInv, NEW m \in Message, StartLong(m), IsLong(m)
  PROVE  /\ OperationOK' /\ opWaiter' \in Request \cup {None}
         /\ hand' \in Message \cup {None} /\ out' \in Outcome \cup {None}
         /\ next' \in Resume /\ pc' \in Pc
         /\ opKind' = None => opWaiter' = None
         /\ \/ HasReply(m) /\ hand' = m /\ opWaiter' = None /\ pc' = "write" /\ next' = "top"
            \/ ~HasReply(m) /\ hand' = None /\ opWaiter' = None /\ pc' = "top" /\ next' = "top"
            \/ HasReply(m) /\ hand' = None /\ opWaiter' = m /\ pc' = "top" /\ next' = "top"
<1>1. CASE BeginLong(m)
  <2>1. /\ opKind' \in LongKind /\ opOwner' \in Message /\ opLeft' \in 0..MaxSteps
        /\ lag' \in 0..3
    BY <1>1, StepsAssumption DEF BeginLong, IsLong
  <2>2. opCancel' \in BOOLEAN /\ legit' \in BOOLEAN /\ declined' \subseteq Request
    BY <1>1 DEF BeginLong, CancelUnderWay, IInv, TypeOK, OperationOK
  <2>4. CASE HoldsCallerUntilDone(m)
    <3>1. opWaiter' \in Request \cup {None}
      BY <1>1, <2>4 DEF BeginLong, HasReply
    <3>2. OperationOK'
      BY <2>1, <2>2, <3>1 DEF OperationOK
    <3>3. /\ hand' = None /\ out' = None /\ next' = "top" /\ pc' = "top"
          /\ opWaiter' = IF HasReply(m) THEN m ELSE None
      BY <1>1, <2>4 DEF BeginLong
    <3>4. opKind' # None
      BY <1>1, <2>4, NamesAssumption DEF BeginLong, HoldsCallerUntilDone, Kind, LongKind
    <3> QED BY <3>1, <3>2, <3>3, <3>4 DEF Pc, Resume
  <2>5. CASE ~HoldsCallerUntilDone(m)
    <3>1. opWaiter' = None /\ Answer(m, "started", "top")
      BY <1>1, <2>5 DEF BeginLong
    <3>2. OperationOK'
      BY <2>1, <2>2, <3>1 DEF OperationOK
    <3> QED BY <3>1, <3>2, Answered DEF Outcome, Resume
  <2> QED BY <2>4, <2>5
<1>2. CASE DeclineLong(m)
  <2>1. OperationOK'
    <3>1. opLeft' \in 0..MaxSteps
      BY <1>2, StepsAssumption DEF DeclineLong
    <3>2. declined' \subseteq Request
      BY <1>2 DEF DeclineLong, IInv, TypeOK, OperationOK
    <3> QED BY <1>2, <3>1, <3>2 DEF DeclineLong, IInv, TypeOK, OperationOK
  <2>2. opWaiter' = None /\ Answer(m, "declined", "top")
    BY <1>2 DEF DeclineLong
  <2> QED BY <2>1, <2>2, Answered DEF Outcome, Resume
<1> QED BY <1>1, <1>2 DEF StartLong

LEMMA IdleReceiveStep == ASSUME IInv, NEW m \in Message, IdleReceive(m) PROVE IInv'
<1>1. /\ pc = "recv" /\ queue # <<>> /\ m = Head(queue) /\ queue' = Tail(queue)
      /\ hand = None /\ next = "top" /\ boot # "create" /\ opKind = None /\ opWaiter = None
      /\ UNCHANGED <<call, kind, refs, done, res, served, forever, rescan, flag, timer, boot>>
  BY DEF IdleReceive, Receive, IInv, Control, Answering, callVars, replyVars
<1>2. \/ IsLong(m) /\ StartLong(m)
      \/ /\ UNCHANGED opVars /\ Publish(m) /\ powered' \in BOOLEAN
         /\ \E o \in Outcome : Answer(m, o, "top")
  BY DEF IdleReceive, Acknowledge, RunCommand, Outcome, IInv, TypeOK, ClockOK
<1>3. /\ hand' \in Message \cup {None} /\ out' \in Outcome \cup {None}
      /\ next' \in Resume /\ pc' \in Pc
      /\ OperationOK' /\ (opKind' = None => opWaiter' = None)
      /\ \/ HasReply(m) /\ hand' = m /\ opWaiter' = None /\ pc' = "write" /\ next' = "top"
         \/ ~HasReply(m) /\ hand' = None /\ opWaiter' = None /\ pc' = "top" /\ next' = "top"
         \/ HasReply(m) /\ hand' = None /\ opWaiter' = m /\ pc' = "top" /\ next' = "top"
  <2>1. CASE IsLong(m) /\ StartLong(m)
    BY <2>1, Starting
  <2>2. CASE UNCHANGED opVars /\ \E o \in Outcome : Answer(m, o, "top")
    <3>1. OperationOK' /\ opWaiter' = None
      BY <1>1, <2>2, TypesKept DEF IInv, opVars
    <3> QED BY <2>2, <3>1, Answered DEF Resume
  <2> QED BY <1>2, <2>1, <2>2
<1>4. OnePlace' /\ RefsCountHolders' /\ queue' \in Seq(Message) /\ Len(queue') <= QueueDepth
  BY <1>1, <1>3, Taking DEF HasReply
<1>5. Control'
  BY <1>1, <1>3 DEF Control, Answering, HasReply, Sync
<1>6. published' \in [Request -> 0..2] /\ powered' \in BOOLEAN
  BY <1>2, Publishing DEF StartLong, IInv, TypeOK, DataOK, ClockOK
<1>7. DataOK' /\ TaskOK' /\ ClockOK'
  <2>1. DataOK'
    BY <1>1, <1>4, <1>6 DEF IInv, TypeOK, DataOK
  <2>2. TaskOK'
    BY <1>1, <1>3 DEF IInv, TypeOK, TaskOK
  <2>3. ClockOK'
    BY <1>1, <1>6 DEF IInv, TypeOK, ClockOK
  <2> QED BY <2>1, <2>2, <2>3
<1> QED BY <1>3, <1>4, <1>5, <1>7, Parts

LEMMA PollStep == ASSUME IInv, Poll PROVE IInv'
<1>1. /\ pc = "poll" /\ hand = None /\ next = "top" /\ boot # "create"
      /\ opKind = None /\ opWaiter = None /\ timer' = "armed"
      /\ UNCHANGED <<queue, call, kind, refs, done, res, served, forever, rescan, flag, boot>>
  BY DEF Poll, IInv, Control, Answering, callVars, replyVars
<1>2. "poll" \in Message /\ IsLong("poll") /\ ~HasReply("poll")
  BY NamesAssumption DEF Message, Internal, IsLong, KindOf, LongKind, HasReply
<1>3. /\ published' = published /\ powered' \in BOOLEAN
      /\ hand' = None /\ opWaiter' = None /\ pc' = "top" /\ next' = "top"
      /\ out' \in Outcome \cup {None} /\ OperationOK'
  <2>1. CASE StartLong("poll")
    BY <1>1, <1>2, <2>1, Starting DEF StartLong, IInv, TypeOK, ClockOK
  <2>2. CASE UNCHANGED <<published, hand, out, next, opVars>>
             /\ powered' \in BOOLEAN /\ pc' = "top"
    BY <1>1, <2>2, TypesKept DEF opVars, IInv, TypeOK, TaskOK
  <2> QED BY <2>1, <2>2 DEF Poll, IInv, TypeOK, ClockOK
<1>4. OnePlace' /\ RefsCountHolders'
  BY <1>1, <1>3, PlacesKept DEF IInv
<1>5. Control'
  BY <1>1, <1>3 DEF Control, Answering
<1>6. DataOK' /\ ClockOK'
  BY <1>1, <1>3 DEF IInv, TypeOK, DataOK, ClockOK
<1>7. TaskOK'
  BY <1>1, <1>3 DEF IInv, TypeOK, TaskOK, Pc, Resume
<1> QED BY <1>3, <1>4, <1>5, <1>6, <1>7, Parts

LEMMA PutBackStep == ASSUME IInv, PutBack PROVE IInv'
<1>1. /\ pc = "putback" /\ hand \in Message /\ next = "top" /\ boot # "create"
      /\ UNCHANGED <<call, kind, refs, done, res, served, forever, rescan, flag, timer, boot>>
      /\ UNCHANGED <<opVars, powered>>
  BY DEF PutBack, Reject, IInv, Control, Answering, callVars, replyVars
<1>2. /\ queue \in Seq(Message) /\ Len(queue) <= QueueDepth
      /\ published \in [Request -> 0..2] /\ out \in Outcome \cup {None}
  BY DEF IInv, TypeOK, DataOK, TaskOK
<1>3. hand \in Request => ~InQueue(hand) /\ opWaiter # hand
  BY DEF IInv, OnePlace
<1>4. None \notin Request /\ hand # None
  BY <1>1, NamesAssumption DEF Message
<1>5. /\ OnePlace' /\ RefsCountHolders' /\ Control'
      /\ queue' \in Seq(Message) /\ Len(queue') <= QueueDepth
      /\ published' \in [Request -> 0..2]
      /\ hand' \in Message \cup {None} /\ out' \in Outcome \cup {None}
      /\ next' \in Resume /\ pc' \in Pc
  <2>1. CASE HasRoom
    <3>1. /\ queue' = <<hand>> \o queue /\ hand' = None /\ pc' = "step" /\ next' = "top"
          /\ UNCHANGED <<out, published, opVars>>
      BY <1>1, <2>1 DEF PutBack, ToFront
    <3>2. /\ queue' \in Seq(Message) /\ Len(queue') = Len(queue) + 1 /\ NoDup(queue')
          /\ \A x : InQueue(x)' <=> InQueue(x) \/ x = hand
      <4>1. /\ \A x : Holds(<<hand>> \o queue, x) <=> Holds(queue, x) \/ x = hand
            /\ <<hand>> \o queue \in Seq(Message)
            /\ Len(<<hand>> \o queue) = Len(queue) + 1
            /\ NoDup(<<hand>> \o queue)
        BY <1>1, <1>2, <1>3, FrontHolds DEF InQueue, IInv, OnePlace
      <4> QED BY <3>1, <4>1 DEF InQueue
    <3>3. Len(queue') <= QueueDepth
      BY <1>2, <2>1, <3>2, DepthAssumption DEF HasRoom
    <3>4. OnePlace'
      BY <1>1, <1>3, <1>4, <3>1, <3>2 DEF IInv, OnePlace, opVars
    <3>5. \A r \in Request : Sync(r) => (TaskHolds(r)' <=> TaskHolds(r))
      BY <1>1, <1>4, <3>1, <3>2 DEF TaskHolds, Sync, opVars
    <3>6. RefsCountHolders'
      BY <1>1, <3>5, CountsKept DEF IInv
    <3>7. Control'
      BY <1>1, <3>1 DEF IInv, Control, Answering, opVars
    <3> QED BY <1>2, <3>1, <3>2, <3>3, <3>4, <3>6, <3>7 DEF Pc, Resume
  <2>2. CASE ~HasRoom
    <3>1. Publish(hand) /\ Answer(hand, "busy", "step") /\ queue' = queue
      BY <2>2 DEF PutBack, Reject
    <3>2. /\ hand' \in Message \cup {None} /\ out' \in Outcome \cup {None}
          /\ next' \in Resume /\ pc' \in Pc
          /\ \/ HasReply(hand) /\ hand' = hand /\ pc' = "write" /\ next' = "step"
             \/ ~HasReply(hand) /\ hand' = None /\ pc' = "step" /\ next' = "top"
      BY <1>1, <3>1, Answered DEF Outcome, Resume
    <3>3. \A r : InQueue(r)' <=> InQueue(r)
      BY <3>1 DEF InQueue
    <3>4. OnePlace'
      BY <1>1, <1>4, <3>1, <3>2, <3>3 DEF IInv, OnePlace, opVars
    <3>5. \A r \in Request : Sync(r) => (TaskHolds(r)' <=> TaskHolds(r))
      BY <1>1, <1>4, <3>2, <3>3 DEF TaskHolds, Sync, HasReply, opVars
    <3>6. RefsCountHolders'
      BY <1>1, <3>5, CountsKept DEF IInv
    <3>7. Control'
      BY <1>1, <3>2 DEF IInv, Control, Answering, HasReply, Sync, opVars
    <3>8. published' \in [Request -> 0..2]
      BY <3>1, Publishing DEF IInv
    <3> QED BY <1>2, <3>1, <3>2, <3>4, <3>6, <3>7, <3>8
  <2> QED BY <2>1, <2>2
<1>6. DataOK' /\ TaskOK'
  BY <1>1, <1>5 DEF IInv, TypeOK, DataOK, TaskOK
<1>7. OperationOK' /\ ClockOK'
  BY <1>1, TypesKept DEF IInv, clockVars
<1> QED BY <1>5, <1>6, <1>7, Parts

LEMMA StepDoneStep == ASSUME IInv, StepDone PROVE IInv'
<1>1. /\ pc = "step" /\ hand = None /\ next = "top" /\ boot # "create"
      /\ UNCHANGED <<queue, call, kind, refs, done, res, served, forever, flag, clockVars>>
      /\ UNCHANGED <<opKind, opOwner, opCancel, opLeft, legit, lag, declined>>
      /\ opWaiter' = None /\ rescan' \in BOOLEAN /\ Publish(opOwner)
  BY DEF StepDone, AnnounceEnd, IInv, Control, Answering, callVars, replyVars
<1>2. opWaiter \in Request \cup {None}
  BY DEF IInv, TypeOK, OperationOK
<1>3. /\ hand' \in Message \cup {None} /\ out' \in Outcome \cup {None}
      /\ next' \in Resume /\ pc' \in Pc
      /\ \/ HasReply(opWaiter) /\ hand' = opWaiter /\ pc' = "write" /\ next' = "end"
         \/ ~HasReply(opWaiter) /\ hand' = None /\ pc' = "end" /\ next' = "top"
  <2>1. PICK o \in Outcome : Answer(opWaiter, o, "end")
    BY DEF StepDone, Outcome
  <2> QED BY <1>2, <2>1, Answered DEF Message, Resume
<1>4. None \notin Request
  BY NamesAssumption DEF Message
<1>5. \A r : InQueue(r)' <=> InQueue(r)
  BY <1>1 DEF InQueue
<1>6. OnePlace'
  BY <1>1, <1>3, <1>4, <1>5 DEF IInv, OnePlace
<1>7. RefsCountHolders'
  <2>1. \A r \in Request : Sync(r) => (TaskHolds(r)' <=> TaskHolds(r))
    BY <1>1, <1>3, <1>4, <1>5 DEF TaskHolds, Sync, HasReply
  <2> QED BY <1>1, <2>1, CountsKept DEF IInv
<1>8. Control'
  BY <1>1, <1>3 DEF IInv, Control, Answering, HasReply, Sync, clockVars
<1>9. published' \in [Request -> 0..2]
  BY <1>1, Publishing DEF IInv
<1>10. DataOK' /\ TaskOK'
  BY <1>1, <1>3, <1>9 DEF IInv, TypeOK, DataOK, TaskOK
<1>11. OperationOK' /\ ClockOK'
  <2>1. OperationOK'
    BY <1>1 DEF IInv, TypeOK, OperationOK
  <2>2. ClockOK'
    BY <1>1, TypesKept DEF IInv
  <2> QED BY <2>1, <2>2
<1> QED BY <1>6, <1>7, <1>8, <1>10, <1>11, Parts

\* A scan the gateway submits to itself has no caller to account for.
LEMMA SelfSubmitStep == ASSUME IInv, EndLong \/ SubmitBootScan PROVE IInv'
<1>1. /\ queue \in Seq(Message) /\ Len(queue) <= QueueDepth
      /\ UNCHANGED <<call, kind, refs, done, res, published, hand, out, next, served, forever>>
      /\ UNCHANGED <<rescan, opOwner, opWaiter, opCancel, opLeft, legit, lag, declined, flag>>
      /\ UNCHANGED <<powered, timer>>
  BY DEF EndLong, SubmitBootScan, IInv, TypeOK, DataOK, callVars, replyVars, taskVars,
         opVars, clockVars
<1>2. PICK m \in Internal : queue' = queue \/ (queue' = Append(queue, m) /\ HasRoom)
  BY DEF EndLong, SubmitBootScan, Internal
<1>3. m \in Message /\ m \notin Request
  BY NamesAssumption DEF Message
<1>4. /\ queue' \in Seq(Message) /\ Len(queue') <= QueueDepth /\ NoDup(queue')
      /\ \A r \in Request : InQueue(r)' <=> InQueue(r)
  <2>1. CASE queue' = queue
    BY <1>1, <2>1 DEF InQueue, IInv, OnePlace
  <2>2. CASE queue' = Append(queue, m) /\ HasRoom
    <3>1. /\ \A x : Holds(Append(queue, m), x) <=> Holds(queue, x) \/ x = m
          /\ NoDup(Append(queue, m))
      BY <1>1, <1>3, AppendHolds DEF IInv, OnePlace
    <3>2. queue' \in Seq(Message) /\ Len(queue') <= QueueDepth
      BY <1>1, <1>3, <2>2, DepthAssumption DEF HasRoom
    <3> QED BY <1>3, <2>2, <3>1, <3>2 DEF InQueue
  <2> QED BY <1>2, <2>1, <2>2
<1>5. OnePlace'
  BY <1>1, <1>4 DEF IInv, OnePlace
<1>6. RefsCountHolders'
  <2>1. \A r \in Request : Sync(r) => (TaskHolds(r)' <=> TaskHolds(r))
    BY <1>1, <1>4 DEF TaskHolds, Sync
  <2> QED BY <1>1, <2>1, CountsKept DEF IInv
<1>7. Control'
  <2>1. CASE EndLong
    BY <1>1, <2>1 DEF EndLong, IInv, Control, Answering, clockVars
  <2>2. CASE SubmitBootScan
    BY <1>1, <2>2 DEF SubmitBootScan, IInv, Control, Answering, Sync, taskVars, opVars
  <2> QED BY <2>1, <2>2
<1>8. DataOK'
  BY <1>1, <1>4 DEF IInv, TypeOK, DataOK
<1>9. TaskOK'
  <2>1. pc' \in Pc
    BY DEF EndLong, SubmitBootScan, taskVars, IInv, TypeOK, TaskOK, Pc
  <2> QED BY <1>1, <2>1 DEF IInv, TypeOK, TaskOK
<1>10. OperationOK'
  <2>1. opKind' \in LongKind \cup {None}
    BY DEF EndLong, SubmitBootScan, opVars, IInv, TypeOK, OperationOK
  <2> QED BY <1>1, <2>1 DEF IInv, TypeOK, OperationOK
<1>11. ClockOK'
  BY <1>1 DEF EndLong, SubmitBootScan, clockVars, IInv, TypeOK, ClockOK
<1> QED BY <1>5, <1>6, <1>7, <1>8, <1>9, <1>10, <1>11, Parts

LEMMA NextInv == IInv /\ [Next]_vars => IInv'
<1> SUFFICES ASSUME IInv, [Next]_vars PROVE IInv'
  OBVIOUS
<1>1. CASE UNCHANGED vars
  <2>1. UNCHANGED <<queue, callVars, replyVars, published, taskVars, opVars, flag, clockVars>>
    BY <1>1 DEF vars
  <2>2. DataOK' /\ TaskOK' /\ OperationOK' /\ ClockOK'
    BY <2>1, TypesKept DEF IInv
  <2>3. OnePlace' /\ RefsCountHolders'
    BY <2>1, PlacesKept DEF IInv, callVars, replyVars, taskVars, opVars
  <2>4. Control'
    BY <2>1 DEF IInv, Control, Answering, Sync, callVars, taskVars, opVars, clockVars
  <2> QED BY <2>2, <2>3, <2>4, Parts
<1>2. CASE QuietStep
  BY <1>2, QuietSteps
<1>3. CASE \E r \in Request : Caller(r)
  BY <1>3, CallerSteps
<1>4. CASE \E m \in Message : IdleReceive(m) \/ Drain(m)
  BY <1>4, IdleReceiveStep, DrainStep
<1>5. CASE Poll \/ PutBack \/ StepDone \/ EndLong \/ SubmitBootScan \/ TaskReleases
  BY <1>5, PollStep, PutBackStep, StepDoneStep, SelfSubmitStep, ReleaseStep
<1> QED BY <1>1, <1>2, <1>3, <1>4, <1>5 DEF Next, BusInit, BusTask, QuietStep

LEMMA Invariance == Spec => []IInv
BY InitInv, NextInv, PTL DEF Spec

-----------------------------------------------------------------------------
(* Types and references. *)

\* Every variable of the bus task keeps its type; in particular no queue grows
\* past its depth and no reply is ever counted below nought or above two.
THEOREM TypeCorrect == Spec => []TypeOK
<1>1. IInv => TypeOK
  BY DEF IInv
<1> QED BY <1>1, Invariance, PTL

\* Whatever the order of answer, wake-up and time-out, a reply's count is the
\* number of its holders (reply_create, reply_release and all who call them).
THEOREM RefsCorrect == Spec => []RefsCountHolders
<1>1. IInv => RefsCountHolders
  BY DEF IInv
<1> QED BY <1>1, Invariance, PTL


-----------------------------------------------------------------------------
(* Answers. *)

\* What has been written for a caller, and what is on its way to one.
Answers ==
  /\ \A r \in Request :
       /\ res[r] # None => Sync(r)
       /\ done[r] \/ call[r] \in {"holding", "answered"} => res[r] # None
       /\ kind[r] = "configure" => res[r] # "started"
  /\ pc = "give" => res[hand] # None
  /\ Answering <=> out # None
  /\ out = "started" => kind[hand] # "configure"
  /\ out = "ran" => opKind # "commission"

LEMMA InitAnswers == Init => Answers
BY NamesAssumption DEF Init, Answers, Answering, Outcome

\* Taking the answer up for delivery keeps what was already delivered.
LEMMA AnswersTaken ==
  ASSUME IInv, Answers, ~Answering, NEW m \in Message \cup {None}, NEW o \in Outcome,
         NEW c \in Resume, Answer(m, o, c), UNCHANGED <<call, kind, done, res>>,
         o = "started" => KindOf(m) # "configure",
         o = "ran" => opKind' # "commission"
  PROVE  Answers'
<1>1. o # None /\ None \notin Request
  BY NamesAssumption DEF Message
<1>2. CASE HasReply(m)
  <2>1. hand' = m /\ out' = o /\ pc' = "write" /\ m \in Request
    BY <1>2 DEF Answer, HasReply
  <2> QED BY <1>1, <2>1 DEF Answers, Answering, Sync, KindOf
<1>3. CASE ~HasReply(m)
  <2>1. hand' = None /\ out' = None /\ pc' = c
    BY <1>3 DEF Answer
  <2>2. ~Answering'
    BY <2>1 DEF Answering, Resume
  <2> QED BY <2>1, <2>2, NamesAssumption DEF Answers, Answering, Sync, Outcome
<1> QED BY <1>2, <1>3

\* A long command that begins, or is declined, has nothing of the two to answer.
LEMMA AnswersStarting ==
  ASSUME IInv, Answers, ~Answering, NEW m \in Message, StartLong(m),
         UNCHANGED <<call, kind, done, res>>
  PROVE  Answers'
<1>1. CASE HoldsCallerUntilDone(m) /\ BeginLong(m)
  <2>1. out' = None /\ pc' = "top"
    BY <1>1 DEF BeginLong
  <2> QED BY <2>1, NamesAssumption DEF Answers, Answering, Sync, Outcome
<1>2. CASE ~HoldsCallerUntilDone(m) /\ BeginLong(m)
  <2>1. Answer(m, "started", "top") /\ KindOf(m) # "configure"
    BY <1>2 DEF BeginLong, HoldsCallerUntilDone
  <2> QED BY <2>1, AnswersTaken DEF Outcome, Resume
<1>3. CASE DeclineLong(m)
  <2>1. Answer(m, "declined", "top")
    BY <1>3 DEF DeclineLong
  <2> QED BY <2>1, AnswersTaken DEF Outcome, Resume
<1> QED BY <1>1, <1>2, <1>3 DEF StartLong

LEMMA AnswersCaller == ASSUME IInv, Answers, NEW r \in Request, Caller(r) PROVE Answers'
<1>1. /\ UNCHANGED <<res, pc, hand, out, opKind>>
      /\ \A s \in Request : s # r => call'[s] = call[s] /\ kind'[s] = kind[s]
      /\ \A s \in Request : done'[s] => done[s]
  BY DEF Caller, Submit, SubmitSync, CancelStore, CancelPost, TakeAnswer, CallerReleases,
         TimeOut, IInv, TypeOK, DataOK, callVars, replyVars, taskVars, opVars
<1>2. /\ Sync(r) => Sync(r)' /\ kind'[r] = kind[r]
      /\ call'[r] \in {"holding", "answered"} => done[r] \/ call[r] \in {"holding", "answered"}
  BY DEF Caller, Submit, SubmitSync, CancelStore, CancelPost, TakeAnswer, CallerReleases,
         TimeOut, CanCall, Sync, IInv, TypeOK, DataOK
<1>3. Answering => Sync(hand) /\ hand \in Request
  BY DEF IInv, Control
<1>4. Answering' <=> Answering
  BY <1>1 DEF Answering
<1>5. ASSUME NEW s \in Request
      PROVE  /\ res'[s] # None => Sync(s)'
             /\ done'[s] \/ call'[s] \in {"holding", "answered"} => res'[s] # None
             /\ kind'[s] = "configure" => res'[s] # "started"
  <2>1. CASE s # r
    BY <1>1, <2>1 DEF Answers, Sync
  <2>2. CASE s = r /\ Sync(r)
    BY <1>1, <1>2, <2>2 DEF Answers
  <2>3. CASE s = r /\ ~Sync(r)
    <3>1. res'[s] = None /\ ~done[s]
      BY <1>1, <2>3 DEF Answers
    <3>2. "started" # None
      BY NamesAssumption DEF Outcome
    <3> QED BY <1>1, <1>2, <2>3, <3>1, <3>2 DEF Sync
  <2> QED BY <2>1, <2>2, <2>3
<1>6. out' = "started" => kind'[hand'] # "configure"
  <2>1. out = "started" => Answering
    BY NamesAssumption DEF Answers, Outcome
  <2> QED BY <1>1, <1>2, <1>3, <2>1 DEF Answers
<1>7. (pc' = "give" => res'[hand'] # None) /\ (out' = "ran" => opKind' # "commission")
      /\ (Answering' <=> out' # None)
  BY <1>1, <1>4 DEF Answers
<1> QED BY <1>5, <1>6, <1>7 DEF Answers

LEMMA AnswersDelivery ==
  ASSUME IInv, Answers, WriteResult \/ GiveSemaphore \/ TaskReleases PROVE Answers'
<1>1. hand \in Request /\ Sync(hand) /\ out # None /\ UNCHANGED <<call, kind, opKind>>
  BY DEF WriteResult, GiveSemaphore, TaskReleases, Answers, Answering, IInv, Control,
         callVars, opVars
<1>2. res \in [Request -> Outcome \cup {None}] /\ done \in [Request -> BOOLEAN]
  BY DEF IInv, TypeOK, DataOK
<1>3. CASE WriteResult
  BY <1>1, <1>2, <1>3 DEF WriteResult, Answers, Answering, Sync
<1>4. CASE GiveSemaphore
  BY <1>1, <1>2, <1>4 DEF GiveSemaphore, Answers, Answering, Sync
<1>5. CASE TaskReleases
  <2>1. out' = None /\ ~Answering' /\ UNCHANGED <<done, res>>
    BY <1>5 DEF TaskReleases, Answering, IInv, TypeOK, TaskOK, Resume
  <2>2. None # "started" /\ None # "ran"
    BY NamesAssumption DEF Outcome
  <2> QED BY <1>1, <2>1, <2>2 DEF Answers, Answering, Sync
<1> QED BY <1>3, <1>4, <1>5

\* Steps that answer nobody.
Silent ==
  \/ LoopHead \/ IdleTimeout \/ DrainEmpty \/ StepOn \/ EndLong \/ ClearFlag
  \/ BusInit \/ PollFallsDue

LEMMA AnswersSilent == ASSUME IInv, Answers, Silent PROVE Answers'
<1>1. UNCHANGED <<call, kind, done, res, hand, out>>
  BY DEF Silent, LoopHead, IdleTimeout, DrainEmpty, StepOn, EndLong, ClearFlag, BusInit,
         CreateTask, ArmPollTimer, SubmitBootScan, PollFallsDue, callVars, replyVars, taskVars
<1>2. opKind' \in {opKind, None}
  BY DEF Silent, LoopHead, IdleTimeout, DrainEmpty, StepOn, EndLong, ClearFlag, BusInit,
         CreateTask, ArmPollTimer, SubmitBootScan, PollFallsDue, opVars
<1>3. pc' = pc \/ (~Answering /\ ~Answering')
  BY DEF Silent, LoopHead, IdleTimeout, DrainEmpty, StepOn, EndLong, ClearFlag, BusInit,
         CreateTask, ArmPollTimer, SubmitBootScan, PollFallsDue, taskVars, Answering,
         IInv, Control
<1>4. None # "commission"
  BY NamesAssumption DEF Kind, LongKind
<1> QED BY <1>1, <1>2, <1>3, <1>4 DEF Answers, Answering, Sync

LEMMA AnswersServing ==
  ASSUME IInv, Answers, NEW m \in Message, IdleReceive(m) \/ Drain(m) PROVE Answers'
<1>1. ~Answering /\ UNCHANGED <<call, kind, done, res>>
  BY DEF IdleReceive, Drain, Answering, callVars, replyVars
<1>2. CASE IdleReceive(m)
  <2>1. opKind = None /\ None # "commission"
    BY <1>2, NamesAssumption DEF IdleReceive, IInv, Control, Kind, LongKind
  <2>2. CASE StartLong(m)
    BY <1>1, <2>2, AnswersStarting
  <2>3. ASSUME UNCHANGED opVars, NEW o \in {"ack", "ran"}, Answer(m, o, "top") PROVE Answers'
    BY <1>1, <2>1, <2>3, AnswersTaken DEF Outcome, Resume, opVars
  <2> QED BY <1>2, <2>2, <2>3 DEF IdleReceive, Acknowledge, RunCommand
<1>3. CASE Drain(m)
  <2>1. opKind' = opKind
    BY <1>3 DEF Drain, DrainCancel, DrainReject, DrainUrgent, DrainOrdinary, DrainStop,
                RunCommand, Reject, opVars
  <2>2. ASSUME NEW o \in {"ack", "busy"}, Answer(m, o, "drain") PROVE Answers'
    BY <1>1, <2>2, AnswersTaken DEF Outcome, Resume
  <2>3. ASSUME Admits(m), Answer(m, "ran", "drain") PROVE Answers'
    BY <1>1, <2>1, <2>3, AnswersTaken DEF Outcome, Resume, Admits
  <2>4. CASE DrainStop(m)
    <3>1. out' = out /\ out = None /\ ~Answering'
      BY <1>1, <2>4 DEF DrainStop, Answers, Answering
    <3>2. None # "started" /\ None # "ran"
      BY NamesAssumption DEF Outcome
    <3> QED BY <1>1, <3>1, <3>2 DEF Answers, Answering, Sync
  <2> QED BY <1>3, <2>2, <2>3, <2>4
          DEF Drain, DrainCancel, DrainReject, DrainUrgent, DrainOrdinary, RunCommand,
              Reject, Acknowledge
<1> QED BY <1>2, <1>3

LEMMA AnswersEnding ==
  ASSUME IInv, Answers, Poll \/ PutBack \/ StepDone PROVE Answers'
<1>1. ~Answering /\ UNCHANGED <<call, kind, done, res>>
  BY DEF Poll, PutBack, StepDone, Answering, callVars, replyVars
<1>2. out = None /\ None # "started" /\ None # "ran"
  BY <1>1, NamesAssumption DEF Answers, Outcome
<1>3. CASE Poll
  <2>1. "poll" \in Message
    BY DEF Message, Internal
  <2>2. CASE StartLong("poll")
    BY <1>1, <2>1, <2>2, AnswersStarting
  <2>3. CASE UNCHANGED <<out, opVars>> /\ pc' = "top"
    BY <1>1, <1>2, <2>3 DEF Answers, Answering, Sync
  <2> QED BY <1>3, <2>2, <2>3 DEF Poll
<1>4. CASE PutBack
  <2>1. CASE out' = out /\ pc' = "step"
    BY <1>1, <1>2, <2>1 DEF Answers, Answering, Sync
  <2>2. CASE Reject(hand, "step")
    <3>1. hand \in Message
      BY <1>4 DEF PutBack, IInv, Control
    <3> QED BY <1>1, <2>2, <3>1, AnswersTaken DEF Reject, Outcome, Resume
  <2> QED BY <1>4, <2>1, <2>2 DEF PutBack
<1>5. CASE StepDone
  <2>1. opWaiter \in Message \cup {None}
    BY DEF IInv, TypeOK, OperationOK, Message
  <2>2. PICK o \in {"cancelled", "finished"} : Answer(opWaiter, o, "end")
    BY <1>5 DEF StepDone
  <2> QED BY <1>1, <2>1, <2>2, AnswersTaken DEF Outcome, Resume
<1> QED BY <1>3, <1>4, <1>5

LEMMA NextAnswers == IInv /\ Answers /\ [Next]_vars => Answers'
<1> SUFFICES ASSUME IInv, Answers, [Next]_vars PROVE Answers'
  OBVIOUS
<1>1. CASE UNCHANGED vars
  BY <1>1 DEF vars, callVars, replyVars, taskVars, opVars, Answers, Answering, Sync
<1>2. CASE Next
  BY <1>2, AnswersCaller, AnswersDelivery, AnswersSilent, AnswersServing, AnswersEnding
     DEF Next, BusTask, Silent
<1> QED BY <1>1, <1>2

LEMMA AnswersHold == Spec => []Answers
BY InitAnswers, NextAnswers, Invariance, PTL DEF Spec

-----------------------------------------------------------------------------
(* Cancelling. *)

\* A call of dali_bus_cancel during an operation has left the flag up, and once
\* a step has passed the loop has read it.
CancelSeen ==
  /\ pc = "clear" => opKind = None
  /\ opKind # None =>
       /\ lag <= 2
       /\ lag > 0 => flag
       /\ lag = 2 => opCancel \/ pc = "top"

LEMMA InitCancel == Init => CancelSeen
BY DEF Init, CancelSeen

LEMMA CancelCaller == ASSUME IInv, CancelSeen, NEW r \in Request, Caller(r) PROVE CancelSeen'
<1>1. UNCHANGED <<pc, opKind, opCancel>>
  BY DEF Caller, Submit, SubmitSync, CancelStore, CancelPost, TakeAnswer, CallerReleases,
         TimeOut, taskVars, opVars
<1>2. CASE UNCHANGED <<flag, lag>>
  BY <1>1, <1>2 DEF CancelSeen
<1>3. CASE CancelStore(r)
  <2>1. flag' = TRUE /\ lag' = IF opKind # None /\ lag = 0 THEN 1 ELSE lag
    BY <1>3 DEF CancelStore
  <2> QED BY <1>1, <2>1 DEF CancelSeen
<1> QED BY <1>2, <1>3
        DEF Caller, Submit, SubmitSync, CancelPost, TakeAnswer, CallerReleases, TimeOut, opVars

\* The step that follows a look at the flag is the last one.
LEMMA CancelStep == ASSUME IInv, CancelSeen, StepOn PROVE CancelSeen'
<1>1. /\ pc = "step" /\ pc' = "top" /\ ~opCancel /\ UNCHANGED <<opKind, opCancel, flag>>
      /\ lag' = IF lag \in 1..2 THEN lag + 1 ELSE lag
      /\ lag \in 0..3
  BY DEF StepOn, IInv, TypeOK, OperationOK
<1> QED BY <1>1 DEF CancelSeen

LEMMA CancelLoop ==
  ASSUME IInv, CancelSeen, LoopHead \/ EndLong \/ ClearFlag PROVE CancelSeen'
<1>1. CASE LoopHead
  <2>1. UNCHANGED <<opKind, lag, flag>> /\ pc' # "clear"
    BY <1>1 DEF LoopHead
  <2>2. opKind # None /\ flag => opCancel'
    BY <1>1 DEF LoopHead, SeesCancel
  <2>3. lag > 0 => (opKind # None => flag)
    BY DEF CancelSeen
  <2>4. lag = 2 => lag > 0
    OBVIOUS
  <2> QED BY <2>1, <2>2, <2>3, <2>4 DEF CancelSeen
<1>2. CASE EndLong
  BY <1>2 DEF EndLong, CancelSeen
<1>3. CASE ClearFlag
  BY <1>3 DEF ClearFlag, CancelSeen, opVars
<1> QED BY <1>1, <1>2, <1>3

LEMMA CancelTask ==
  ASSUME IInv, CancelSeen, 
         \/ IdleTimeout \/ DrainEmpty \/ PutBack \/ StepDone \/ PollFallsDue \/ BusInit
         \/ WriteResult \/ GiveSemaphore \/ TaskReleases
  PROVE  CancelSeen'
<1>1. UNCHANGED <<opKind, opCancel, lag, flag>>
  BY DEF IdleTimeout, DrainEmpty, PutBack, Reject, StepDone, PollFallsDue, BusInit,
         CreateTask, ArmPollTimer, SubmitBootScan, WriteResult, GiveSemaphore,
         TaskReleases, opVars
<1>2. pc' = pc \/ (pc # "top" /\ pc' # "clear")
  BY DEF IdleTimeout, DrainEmpty, PutBack, Reject, Answer, StepDone, PollFallsDue, BusInit,
         CreateTask, ArmPollTimer, SubmitBootScan, WriteResult, GiveSemaphore,
         TaskReleases, taskVars, IInv, TypeOK, TaskOK, Resume, Control
<1> QED BY <1>1, <1>2 DEF CancelSeen

\* What begins an operation forgets what was asked of the one before.
LEMMA CancelServing ==
  ASSUME IInv, CancelSeen, NEW m \in Message, IdleReceive(m) \/ Drain(m) \/ Poll
  PROVE  CancelSeen'
<1>1. ASSUME NEW n \in Message, StartLong(n), flag' = flag PROVE CancelSeen'
  <2>1. opKind' = None \/ lag' = 0
    BY <1>1 DEF StartLong, BeginLong, DeclineLong
  <2>2. pc' # "clear"
    BY <1>1 DEF StartLong, BeginLong, DeclineLong, Answer
  <2> QED BY <2>1, <2>2 DEF CancelSeen
<1>2. CASE IdleReceive(m)
  <2>1. CASE StartLong(m)
    BY <1>1, <1>2, <2>1 DEF IdleReceive
  <2>2. CASE UNCHANGED opVars /\ (Acknowledge(m, "top") \/ RunCommand(m, "top"))
    <3>1. opKind' = None /\ pc' # "clear"
      BY <1>2, <2>2 DEF IdleReceive, Acknowledge, RunCommand, Answer, opVars, IInv, Control
    <3> QED BY <3>1 DEF CancelSeen
  <2> QED BY <1>2, <2>1, <2>2 DEF IdleReceive, RunCommand
<1>3. CASE Drain(m)
  <2>1. /\ UNCHANGED <<opKind, lag, flag>> /\ (opCancel => opCancel')
        /\ pc = "drain" /\ pc' # "clear"
    BY <1>3 DEF Drain, DrainCancel, DrainReject, DrainUrgent, DrainOrdinary, DrainStop,
                RunCommand, Reject, Acknowledge, Answer, opVars
  <2> QED BY <2>1 DEF CancelSeen
<1>4. CASE Poll
  <2>1. CASE StartLong("poll")
    BY <1>1, <1>4, <2>1 DEF Poll, Message, Internal
  <2>2. CASE UNCHANGED opVars /\ pc' = "top"
    BY <1>4, <2>2 DEF Poll, CancelSeen, opVars
  <2> QED BY <1>4, <2>1, <2>2 DEF Poll
<1> QED BY <1>2, <1>3, <1>4

LEMMA NextCancel == IInv /\ CancelSeen /\ [Next]_vars => CancelSeen'
<1> SUFFICES ASSUME IInv, CancelSeen, [Next]_vars PROVE CancelSeen'
  OBVIOUS
<1>1. CASE UNCHANGED vars
  BY <1>1 DEF vars, taskVars, opVars, CancelSeen
<1>2. CASE Next
  <2>1. Poll => CancelSeen'
    BY CancelServing DEF Message, Internal
  <2> QED BY <1>2, <2>1, CancelCaller, CancelStep, CancelLoop, CancelTask, CancelServing
          DEF Next, BusTask
<1> QED BY <1>1, <1>2

LEMMA CancelHolds == Spec => []CancelSeen
BY InitCancel, NextCancel, Invariance, PTL DEF Spec

-----------------------------------------------------------------------------
(* Announcing. *)

\* A request whose outcome is still to come: it waits on the queue, or in hand
\* to be put back, or its operation has not reached finish_long.
Waits(r) == InQueue(r) \/ (pc = "putback" /\ hand = r)
Unfinished(r) == Running(r) /\ ~Finishing
ToCome(r) == call[r] \in {"new", "cancelling", "refused"} \/ Waits(r) \/ Unfinished(r)

Announced ==
  /\ pc \in {"drain", "putback", "step"} \/ next \in {"drain", "step"} => opKind # None
  /\ \A r \in Request :
       /\ published[r] <= 1
       /\ ToCome(r) => published[r] = 0
       /\ Unfinished(r) => ~Waits(r) /\ call[r] \notin {"new", "cancelling", "refused"}

LEMMA InitAnnounced == Init => Announced
BY DEF Init, Announced, Running, Unfinished

\* Nothing is published and nobody's outcome becomes one that is still to come.
LEMMA AnnouncedKept ==
  ASSUME Announced, published' = published,
         pc' \in {"drain", "putback", "step"} \/ next' \in {"drain", "step"} => opKind' # None,
         \A r \in Request :
           /\ ToCome(r)' => ToCome(r)
           /\ Unfinished(r)' => ~Waits(r)' /\ call'[r] \notin {"new", "cancelling", "refused"}
  PROVE  Announced'
BY DEF Announced

\* The outcome of m is published, and is no longer to come.
LEMMA AnnouncedOnce ==
  ASSUME TypeOK, Announced, NEW m, Publish(m), m \in Request => ToCome(m) /\ ~ToCome(m)',
         pc' \in {"drain", "putback", "step"} \/ next' \in {"drain", "step"} => opKind' # None,
         \A r \in Request :
           /\ ToCome(r)' => ToCome(r)
           /\ Unfinished(r)' => ~Waits(r)' /\ call'[r] \notin {"new", "cancelling", "refused"}
  PROVE  Announced'
<1>1. published \in [Request -> 0..2]
  BY DEF TypeOK, DataOK
<1>2. \A r \in Request : r # m => published'[r] = published[r]
  BY <1>1 DEF Publish
<1>3. m \in Request => published'[m] = 1
  BY <1>1 DEF Publish, Announced
<1> QED BY <1>2, <1>3 DEF Announced


LEMMA AnnouncedCaller == ASSUME IInv, Announced, NEW r \in Request, Caller(r) PROVE Announced'
<1>1. UNCHANGED <<published, pc, hand, next, opKind, opOwner>>
  BY DEF Caller, Submit, SubmitSync, CancelStore, CancelPost, TakeAnswer, CallerReleases,
         TimeOut, taskVars, opVars
<1>2. queue \in Seq(Message) /\ call \in [Request -> CallState] /\ r \in Message
  BY DEF IInv, TypeOK, DataOK, Message
<1>3. \A s \in Request : s # r => call'[s] = call[s]
  BY <1>2 DEF Caller, Submit, SubmitSync, CancelStore, CancelPost, TakeAnswer,
              CallerReleases, TimeOut
<1>4. queue' = queue \/ (queue' = Append(queue, r) /\ call[r] \in {"new", "cancelling"})
  BY DEF Caller, Submit, SubmitSync, CancelStore, CancelPost, TakeAnswer, CallerReleases,
         TimeOut, CanCall
<1>5. call'[r] \in {"new", "cancelling", "refused"} => call[r] \in {"new", "cancelling"}
  BY <1>2 DEF Caller, Submit, SubmitSync, CancelStore, CancelPost, TakeAnswer,
              CallerReleases, TimeOut, CanCall
<1>6. \A s \in Request :
        InQueue(s)' => InQueue(s) \/ (s = r /\ call[r] \in {"new", "cancelling"})
  <2>1. \A s : Holds(Append(queue, r), s) <=> Holds(queue, s) \/ s = r
    BY <1>2, AppendHolds
  <2> QED BY <1>4, <2>1 DEF InQueue
<1>7. \A s \in Request : Unfinished(s)' <=> Unfinished(s)
  BY <1>1 DEF Unfinished, Running, Finishing
<1>8. \A s \in Request :
        Waits(s)' => Waits(s) \/ (s = r /\ call[r] \in {"new", "cancelling"})
  BY <1>1, <1>6 DEF Waits
<1>9. \A s \in Request :
        call'[s] \in {"new", "cancelling", "refused"}
          => call[s] \in {"new", "cancelling", "refused"}
  BY <1>3, <1>5
<1>10. \A s \in Request :
         /\ ToCome(s)' => ToCome(s)
         /\ Unfinished(s)' => ~Waits(s)' /\ call'[s] \notin {"new", "cancelling", "refused"}
  BY <1>7, <1>8, <1>9 DEF ToCome, Announced
<1> QED BY <1>1, <1>10, AnnouncedKept DEF Announced

\* The task moves on, and no command changes its place.
MovesOn == Silent \/ WriteResult \/ GiveSemaphore \/ TaskReleases

LEMMA AnnouncedQuiet == ASSUME IInv, Announced, MovesOn PROVE Announced'
<1> USE DEF MovesOn, Silent
<1>1. UNCHANGED <<call, published, opOwner>> /\ opKind' \in {opKind, None}
  BY DEF LoopHead, IdleTimeout, DrainEmpty, StepOn, EndLong, ClearFlag, BusInit, CreateTask,
         ArmPollTimer, SubmitBootScan, PollFallsDue, WriteResult, GiveSemaphore,
         TaskReleases, callVars, opVars
<1>2. queue \in Seq(Message) /\ next \in Resume
  BY DEF IInv, TypeOK, DataOK, TaskOK
<1>3. queue' = queue \/ \E m \in Internal : queue' = Append(queue, m)
  BY DEF LoopHead, IdleTimeout, DrainEmpty, StepOn, EndLong, ClearFlag, BusInit, CreateTask,
         ArmPollTimer, SubmitBootScan, PollFallsDue, WriteResult, GiveSemaphore,
         TaskReleases, Internal
<1>4. \A r \in Request : InQueue(r)' <=> InQueue(r)
  <2>1. ASSUME NEW m \in Internal, queue' = Append(queue, m)
        PROVE  \A r \in Request : InQueue(r)' <=> InQueue(r)
    <3>1. m \in Message /\ m \notin Request
      BY NamesAssumption DEF Message
    <3>2. \A x : Holds(Append(queue, m), x) <=> Holds(queue, x) \/ x = m
      BY <1>2, <3>1, AppendHolds
    <3> QED BY <2>1, <3>1, <3>2 DEF InQueue
  <2> QED BY <1>3, <2>1 DEF InQueue
<1>5. pc' = "putback" => pc = "putback" /\ hand' = hand
  BY <1>2 DEF LoopHead, IdleTimeout, DrainEmpty, StepOn, EndLong, ClearFlag, BusInit,
              CreateTask, ArmPollTimer, SubmitBootScan, PollFallsDue, WriteResult,
              GiveSemaphore, TaskReleases, taskVars, Resume
<1>6. Finishing => Finishing' \/ opKind' = None
  BY <1>2 DEF LoopHead, IdleTimeout, DrainEmpty, StepOn, EndLong, ClearFlag, BusInit,
              CreateTask, ArmPollTimer, SubmitBootScan, PollFallsDue, WriteResult,
              GiveSemaphore, TaskReleases, taskVars, Finishing, IInv, Control, Answering
<1>7. pc' \in {"drain", "putback", "step"} \/ next' \in {"drain", "step"} => opKind' # None
  <2>1. CASE EndLong
    BY <2>1 DEF EndLong, IInv, Control, Answering
  <2>2. CASE LoopHead
    BY <2>2 DEF LoopHead, IInv, Control, Answering
  <2>3. CASE TaskReleases
    BY <2>3, <1>2 DEF TaskReleases, opVars, Announced, Resume
  <2>4. CASE BusInit \/ PollFallsDue \/ WriteResult \/ GiveSemaphore
    BY <2>4 DEF BusInit, CreateTask, ArmPollTimer, SubmitBootScan, PollFallsDue, WriteResult,
                GiveSemaphore, taskVars, opVars, Announced
  <2>5. CASE IdleTimeout \/ DrainEmpty \/ StepOn \/ ClearFlag
    BY <2>5 DEF IdleTimeout, DrainEmpty, StepOn, ClearFlag, opVars, Announced
  <2> QED BY <2>1, <2>2, <2>3, <2>4, <2>5
<1>8. \A r \in Request : /\ Waits(r)' => Waits(r)
                         /\ Unfinished(r)' => Unfinished(r)
  BY <1>1, <1>4, <1>5, <1>6 DEF Waits, Unfinished, Running
<1>9. \A r \in Request :
        /\ ToCome(r)' => ToCome(r)
        /\ Unfinished(r)' => ~Waits(r)' /\ call'[r] \notin {"new", "cancelling", "refused"}
  BY <1>1, <1>8 DEF ToCome, Announced
<1> QED BY <1>1, <1>7, <1>9, AnnouncedKept

\* A request taken off the queue was on it once, and had been sent.
LEMMA FromQueue ==
  ASSUME IInv, NEW m, Receive(m)
  PROVE  /\ m \in Message
         /\ m \in Request => /\ InQueue(m) /\ ~InQueue(m)'
                             /\ call[m] \notin {"new", "cancelling", "refused"}
         /\ \A r \in Request : InQueue(r)' => InQueue(r)
<1>1. queue \in Seq(Message) /\ NoDup(queue)
  BY DEF IInv, TypeOK, DataOK, OnePlace
<1>2. /\ m \in Message /\ InQueue(m)
      /\ \A x : x # m => (InQueue(x)' <=> InQueue(x))
      /\ m \in Request => ~InQueue(m)'
  BY <1>1, TailHolds DEF InQueue, Receive
<1> QED BY <1>2 DEF IInv, OnePlace

LEMMA AnnouncedIdle ==
  ASSUME IInv, Announced, NEW m \in Message, IdleReceive(m) PROVE Announced'
<1>1. pc = "recv" /\ opKind = None /\ Receive(m) /\ call' = call
  BY DEF IdleReceive, IInv, Control, callVars
<1>2. ASSUME pc' \notin {"drain", "putback", "step"}, next' \notin {"drain", "step"},
             \A r \in Request : Unfinished(r)' => r = m
      PROVE  \A r \in Request :
               /\ ToCome(r)' => ToCome(r)
               /\ Unfinished(r)' => ~Waits(r)' /\ call'[r] \notin {"new", "cancelling", "refused"}
  BY <1>1, <1>2, FromQueue DEF ToCome, Waits
<1>3. CASE StartLong(m)
  <2>1. published' = published /\ pc' \in {"top", "write"} /\ next' = "top"
        /\ (opKind' # None => opOwner' = m)
    BY <1>3 DEF StartLong, BeginLong, DeclineLong, Answer
  <2>2. \A r \in Request : Unfinished(r)' => r = m
    BY <2>1 DEF Unfinished, Running
  <2> QED BY <1>2, <2>1, <2>2, AnnouncedKept
<1>4. ASSUME Publish(m), UNCHANGED opVars, NEW o, Answer(m, o, "top") PROVE Announced'
  <2>1. pc' \in {"top", "write"} /\ next' = "top" /\ opKind' = None
    BY <1>1, <1>4 DEF Answer, opVars
  <2>2. \A r \in Request : ~Unfinished(r)'
    BY <2>1 DEF Unfinished, Running
  <2>3. m \in Request => ToCome(m) /\ ~ToCome(m)'
    BY <1>1, <2>1, <2>2, FromQueue DEF ToCome, Waits
  <2> QED BY <1>2, <1>4, <2>1, <2>2, <2>3, AnnouncedOnce DEF IInv
<1> QED BY <1>3, <1>4 DEF IdleReceive, Acknowledge, RunCommand

LEMMA AnnouncedDrain ==
  ASSUME IInv, Announced, NEW m \in Message, Drain(m) PROVE Announced'
<1>1. /\ pc = "drain" /\ next = "top" /\ hand = None /\ Receive(m)
      /\ UNCHANGED <<call, opKind, opOwner>> /\ opKind # None
  BY DEF Drain, DrainCancel, DrainReject, DrainUrgent, DrainOrdinary, DrainStop, RunCommand,
         Reject, callVars, opVars, IInv, Control, Answering, Announced
<1>2. m \in Request => Waits(m) /\ ToCome(m) /\ ~Unfinished(m)
  BY <1>1, FromQueue DEF ToCome, Waits, Announced
<1>3. CASE DrainStop(m)
  <2>1. hand' = m /\ pc' = "putback" /\ next' = "top" /\ published' = published
    BY <1>1, <1>3 DEF DrainStop
  <2>2. \A r \in Request : Unfinished(r)' => Unfinished(r)
    BY <1>1, <2>1 DEF Unfinished, Running, Finishing
  <2>3. \A r \in Request : Waits(r)' => Waits(r)
    BY <1>1, <1>2, <2>1, FromQueue DEF Waits
  <2>4. \A r \in Request :
          /\ ToCome(r)' => ToCome(r)
          /\ Unfinished(r)' => ~Waits(r)' /\ call'[r] \notin {"new", "cancelling", "refused"}
    BY <1>1, <2>2, <2>3 DEF ToCome, Announced
  <2> QED BY <1>1, <2>1, <2>4, AnnouncedKept
<1>4. ASSUME Publish(m), NEW o, Answer(m, o, "drain") PROVE Announced'
  <2>1. pc' \in {"drain", "write"} /\ next' \in {"top", "drain"}
    BY <1>4 DEF Answer
  <2>2. \A r \in Request : Unfinished(r)' => Unfinished(r)
    BY <1>1, <2>1 DEF Unfinished, Running, Finishing
  <2>3. \A r \in Request : Waits(r)' => InQueue(r)' /\ Waits(r)
    BY <1>1, <2>1, FromQueue DEF Waits
  <2>4. \A r \in Request :
          /\ ToCome(r)' => ToCome(r)
          /\ Unfinished(r)' => ~Waits(r)' /\ call'[r] \notin {"new", "cancelling", "refused"}
    BY <1>1, <2>2, <2>3 DEF ToCome, Announced
  <2>5. m \in Request => ~ToCome(m)'
    BY <1>1, <1>2, <2>2, <2>3, FromQueue DEF ToCome
  <2> QED BY <1>1, <1>2, <1>4, <2>4, <2>5, AnnouncedOnce DEF IInv
<1> QED BY <1>3, <1>4
        DEF Drain, DrainCancel, DrainReject, DrainUrgent, DrainOrdinary, RunCommand, Reject,
            Acknowledge

LEMMA AnnouncedPutBack == ASSUME IInv, Announced, PutBack PROVE Announced'
<1>1. /\ pc = "putback" /\ next = "top" /\ hand \in Message /\ queue \in Seq(Message)
      /\ UNCHANGED <<call, opKind, opOwner>> /\ opKind # None
  BY DEF PutBack, Reject, callVars, opVars, IInv, TypeOK, DataOK, Control, Answering, Announced
<1>2. hand \in Request => /\ Waits(hand) /\ ToCome(hand) /\ ~Unfinished(hand)
                          /\ ~InQueue(hand)
                          /\ call[hand] \notin {"new", "cancelling", "refused"}
  BY <1>1 DEF ToCome, Waits, Announced, IInv, OnePlace
<1>3. CASE HasRoom
  <2>1. /\ queue' = <<hand>> \o queue /\ pc' = "step" /\ next' = "top"
        /\ published' = published
    BY <1>1, <1>3 DEF PutBack, ToFront
  <2>2. \A x : InQueue(x)' <=> InQueue(x) \/ x = hand
    <3>1. \A x : Holds(<<hand>> \o queue, x) <=> Holds(queue, x) \/ x = hand
      BY <1>1, FrontHolds
    <3> QED BY <2>1, <3>1 DEF InQueue
  <2>3. \A r \in Request : /\ Unfinished(r)' => Unfinished(r)
                           /\ Waits(r)' => Waits(r)
    BY <1>1, <2>1, <2>2 DEF Unfinished, Running, Finishing, Waits
  <2>4. \A r \in Request :
          /\ ToCome(r)' => ToCome(r)
          /\ Unfinished(r)' => ~Waits(r)' /\ call'[r] \notin {"new", "cancelling", "refused"}
    BY <1>1, <2>3 DEF ToCome, Announced
  <2> QED BY <1>1, <2>1, <2>4, AnnouncedKept
<1>4. CASE ~HasRoom
  <2>1. Publish(hand) /\ Answer(hand, "busy", "step") /\ queue' = queue
    BY <1>4 DEF PutBack, Reject
  <2>2. pc' \in {"step", "write"} /\ next' \in {"top", "step"}
    BY <2>1 DEF Answer
  <2>3. \A r \in Request : /\ Unfinished(r)' => Unfinished(r)
                           /\ Waits(r)' => InQueue(r) /\ Waits(r)
    BY <1>1, <2>1, <2>2 DEF Unfinished, Running, Finishing, Waits, InQueue
  <2>4. \A r \in Request :
          /\ ToCome(r)' => ToCome(r)
          /\ Unfinished(r)' => ~Waits(r)' /\ call'[r] \notin {"new", "cancelling", "refused"}
    BY <1>1, <2>3 DEF ToCome, Announced
  <2>5. PICK h \in Message : h = hand
    BY <1>1
  <2>6. h \in Request => ToCome(h) /\ ~ToCome(h)'
    <3>1. h \in Request => ~InQueue(h) /\ ~Unfinished(h)
                           /\ call[h] \notin {"new", "cancelling", "refused"}
      BY <1>2, <2>5
    <3>2. h \in Request => ToCome(h)
      BY <1>2, <2>5
    <3>3. h \in Request => ~Waits(h)' /\ ~Unfinished(h)'
      BY <2>3, <3>1
    <3> QED BY <1>1, <3>1, <3>2, <3>3 DEF ToCome
  <2>7. Publish(h)
    BY <2>1, <2>5 DEF Publish
  <2> QED BY <1>1, <2>2, <2>4, <2>6, <2>7, AnnouncedOnce DEF IInv
<1> QED BY <1>3, <1>4

\* finish_long publishes for the owner of the operation, and moves on to its end.
LEMMA AnnouncedEnd == ASSUME IInv, Announced, StepDone PROVE Announced'
<1>1. /\ pc = "step" /\ next = "top" /\ opKind # None /\ Publish(opOwner)
      /\ UNCHANGED <<queue, call, opKind, opOwner>>
  BY DEF StepDone, AnnounceEnd, callVars, IInv, Control, Answering, Announced
<1>2. Finishing' /\ pc' \in {"end", "write"} /\ next' \in {"top", "end"}
  BY DEF StepDone, Answer, Finishing
<1>3. \A r \in Request : ~Unfinished(r)' /\ (Waits(r)' => Waits(r))
  BY <1>1, <1>2 DEF Unfinished, Waits, InQueue
<1>4. \A r \in Request : ToCome(r)' => ToCome(r)
  BY <1>1, <1>3 DEF ToCome
<1>5. PICK w \in Message \cup {None} : w = opOwner
  BY DEF IInv, TypeOK, OperationOK
<1>6. Publish(w)
  BY <1>1, <1>5 DEF Publish
<1>7. w \in Request => ToCome(w) /\ ~ToCome(w)'
  <2>1. w \in Request => Unfinished(w)
    BY <1>1, <1>5 DEF Unfinished, Running, Finishing
  <2> QED BY <1>1, <1>3, <2>1 DEF ToCome, Announced
<1> QED BY <1>2, <1>1, <1>3, <1>4, <1>6, <1>7, AnnouncedOnce DEF IInv

LEMMA AnnouncedPoll == ASSUME IInv, Announced, Poll PROVE Announced'
<1>1. UNCHANGED <<queue, call>> /\ pc = "poll" /\ next = "top" /\ opKind = None
  BY DEF Poll, callVars, IInv, Control, Answering
<1>2. published' = published /\ pc' \in {"top", "write"} /\ next' = "top"
  BY <1>1 DEF Poll, StartLong, BeginLong, DeclineLong, Answer
<1>3. \A r \in Request : ~Unfinished(r)'
  <2>1. opKind' = None \/ opOwner' = "poll"
    BY <1>1 DEF Poll, StartLong, BeginLong, DeclineLong, opVars
  <2> QED BY <2>1, NamesAssumption DEF Unfinished, Running, Internal
<1>4. \A r \in Request : ToCome(r)' => ToCome(r)
  BY <1>1, <1>2, <1>3 DEF ToCome, Waits, InQueue
<1> QED BY <1>2, <1>3, <1>4, AnnouncedKept

LEMMA NextAnnounced == IInv /\ Announced /\ [Next]_vars => Announced'
<1> SUFFICES ASSUME IInv, Announced, [Next]_vars PROVE Announced'
  OBVIOUS
<1>1. CASE UNCHANGED vars
  BY <1>1 DEF vars, callVars, taskVars, opVars, Announced, ToCome, Waits, Unfinished,
              Running, Finishing, InQueue
<1>2. CASE Next
  BY <1>2, AnnouncedCaller, AnnouncedQuiet, AnnouncedIdle, AnnouncedDrain, AnnouncedPutBack,
     AnnouncedEnd, AnnouncedPoll
     DEF Next, BusTask, MovesOn, Silent
<1> QED BY <1>1, <1>2

LEMMA AnnouncedHolds == Spec => []Announced
BY InitAnnounced, NextAnnounced, Invariance, PTL DEF Spec

-----------------------------------------------------------------------------
(* Where each request stands, and which one of them a step moves. *)

Early == {"new", "cancelling", "refused"}

Stands(r) ==
  /\ call'[r] = call[r] /\ kind'[r] = kind[r]
  /\ Waits(r)' <=> Waits(r)
  /\ Unfinished(r)' <=> Unfinished(r)

LEMMA PlacesQuiet ==
  ASSUME IInv, MovesOn
  PROVE  (\A r \in Request : Stands(r)) /\ RunnerOf' = RunnerOf /\ published' = published
<1> USE DEF MovesOn, Silent
<1>1. UNCHANGED <<call, kind, published, opOwner>>
  BY DEF LoopHead, IdleTimeout, DrainEmpty, StepOn, EndLong, ClearFlag, BusInit, CreateTask,
         ArmPollTimer, SubmitBootScan, PollFallsDue, WriteResult, GiveSemaphore,
         TaskReleases, callVars, opVars
<1>2. queue \in Seq(Message) /\ next \in Resume
  BY DEF IInv, TypeOK, DataOK, TaskOK
<1>3. queue' = queue \/ \E m \in Internal : queue' = Append(queue, m)
  BY DEF LoopHead, IdleTimeout, DrainEmpty, StepOn, EndLong, ClearFlag, BusInit, CreateTask,
         ArmPollTimer, SubmitBootScan, PollFallsDue, WriteResult, GiveSemaphore,
         TaskReleases, Internal
<1>4. \A r \in Request : InQueue(r)' <=> InQueue(r)
  <2>1. ASSUME NEW m \in Internal, queue' = Append(queue, m)
        PROVE  \A r \in Request : InQueue(r)' <=> InQueue(r)
    <3>1. m \in Message /\ m \notin Request
      BY NamesAssumption DEF Message
    <3>2. \A x : Holds(Append(queue, m), x) <=> Holds(queue, x) \/ x = m
      BY <1>2, <3>1, AppendHolds
    <3> QED BY <2>1, <3>1, <3>2 DEF InQueue
  <2> QED BY <1>3, <2>1 DEF InQueue
<1>5. \/ pc # "putback" /\ pc' # "putback"
      \/ UNCHANGED <<pc, hand>>
  BY <1>2 DEF LoopHead, IdleTimeout, DrainEmpty, StepOn, EndLong, ClearFlag, BusInit,
              CreateTask, ArmPollTimer, SubmitBootScan, PollFallsDue, WriteResult,
              GiveSemaphore, TaskReleases, taskVars, Resume, IInv, Control
<1>6. \/ opKind' = opKind /\ (Finishing' <=> Finishing)
      \/ Finishing /\ opKind' = None
  <2>1. CASE LoopHead \/ IdleTimeout \/ DrainEmpty \/ StepOn \/ ClearFlag
    BY <2>1 DEF LoopHead, IdleTimeout, DrainEmpty, StepOn, ClearFlag, opVars, Finishing, IInv,
                Control, Answering
  <2>2. CASE EndLong
    BY <2>2 DEF EndLong, Finishing
  <2>3. CASE BusInit \/ PollFallsDue
    BY <2>3 DEF BusInit, CreateTask, ArmPollTimer, SubmitBootScan, PollFallsDue, taskVars, opVars,
                Finishing, IInv, Control
  <2>4. CASE WriteResult \/ GiveSemaphore \/ TaskReleases
    BY <1>2, <2>4 DEF WriteResult, GiveSemaphore, TaskReleases, opVars, Finishing
  <2> QED BY <2>1, <2>2, <2>3, <2>4
<1>7. \A r \in Request : (Waits(r)' <=> Waits(r)) /\ (Unfinished(r)' <=> Unfinished(r))
  BY <1>1, <1>4, <1>5, <1>6 DEF Waits, Unfinished, Running
<1>8. RunnerOf' = RunnerOf
  BY <1>1, <1>6 DEF RunnerOf
<1> QED BY <1>1, <1>7, <1>8 DEF Stands

LEMMA PlacesCaller ==
  ASSUME IInv, NEW r \in Request, Caller(r)
  PROVE  /\ \A s \in Request : s # r => Stands(s)
         /\ RunnerOf' = RunnerOf /\ published' = published
         /\ Unfinished(r)' <=> Unfinished(r)
         /\ \/ /\ Waits(r)' <=> Waits(r)
               /\ call'[r] # "posted" /\ (call[r] = "new" => call'[r] # "waiting")
            \/ call[r] \in {"new", "cancelling"} /\ Waits(r)' /\ call'[r] \in {"posted", "waiting"}
<1>1. UNCHANGED <<published, pc, hand, next, opKind, opOwner>>
  BY DEF Caller, Submit, SubmitSync, CancelStore, CancelPost, TakeAnswer, CallerReleases,
         TimeOut, taskVars, opVars
<1>2. /\ queue \in Seq(Message) /\ call \in [Request -> CallState] /\ r \in Message
      /\ kind \in [Request -> Kinds \cup {None}]
  BY DEF IInv, TypeOK, DataOK, Message
<1>3. \A s \in Request : s # r => call'[s] = call[s] /\ kind'[s] = kind[s]
  BY <1>2 DEF Caller, Submit, SubmitSync, CancelStore, CancelPost, TakeAnswer,
              CallerReleases, TimeOut
<1>4. \/ /\ queue' = queue
         /\ call'[r] # "posted" /\ (call[r] = "new" => call'[r] # "waiting")
      \/ /\ queue' = Append(queue, r) /\ call[r] \in {"new", "cancelling"}
         /\ call'[r] \in {"posted", "waiting"}
  BY <1>2 DEF Caller, Submit, SubmitSync, CancelStore, CancelPost, TakeAnswer, CallerReleases,
              TimeOut, CanCall
<1>5. \A x : Holds(Append(queue, r), x) <=> Holds(queue, x) \/ x = r
  BY <1>2, AppendHolds
<1>6. \A s \in Request : s # r => (InQueue(s)' <=> InQueue(s))
  BY <1>4, <1>5 DEF InQueue
<1>7. \/ /\ InQueue(r)' <=> InQueue(r)
         /\ call'[r] # "posted" /\ (call[r] = "new" => call'[r] # "waiting")
      \/ call[r] \in {"new", "cancelling"} /\ InQueue(r)' /\ call'[r] \in {"posted", "waiting"}
  BY <1>4, <1>5 DEF InQueue
<1>8. \A s \in Request : Unfinished(s)' <=> Unfinished(s)
  BY <1>1 DEF Unfinished, Running, Finishing
<1>9. RunnerOf' = RunnerOf
  BY <1>1 DEF RunnerOf, Finishing
<1> QED BY <1>1, <1>3, <1>6, <1>7, <1>8, <1>9 DEF Stands, Waits

\* A message taken off the queue: the others stay on it.
LEMMA TakenOnly ==
  ASSUME IInv, NEW m, Receive(m)
  PROVE  /\ m \in Message
         /\ m \in Request => InQueue(m) /\ ~InQueue(m)' /\ call[m] \notin Early
         /\ \A r \in Request : r # m => (InQueue(r)' <=> InQueue(r))
<1>1. queue \in Seq(Message) /\ NoDup(queue)
  BY DEF IInv, TypeOK, DataOK, OnePlace
<1>2. /\ m \in Message /\ InQueue(m)
      /\ \A x : x # m => (InQueue(x)' <=> InQueue(x))
      /\ m \in Request => ~InQueue(m)'
  BY <1>1, TailHolds DEF InQueue, Receive
<1> QED BY <1>2 DEF IInv, OnePlace, Early

\* What becomes of a message that was waiting: settled and published, declined, or begun.
Settles(m) ==
  /\ RunnerOf' = RunnerOf
  /\ m \in Request => ~Unfinished(m)'
  /\ Publish(m) \/ (published' = published /\ (m \in Request => m \in declined'))
Begins(m) ==
  /\ RunnerOf' = IF m \in Request THEN m ELSE "gateway"
  /\ m \in Request => Unfinished(m)'
  /\ published' = published

LEMMA PlacesStarting ==
  ASSUME NEW m \in Message, opKind = None, StartLong(m), IsLong(m)
  PROVE  /\ Settles(m) \/ Begins(m)
         /\ \A r \in Request : r # m => ~Unfinished(r)'
         /\ pc' # "putback"
<1>1. published' = published
  BY DEF StartLong
<1>2. CASE BeginLong(m)
  <2>1. opKind' \in LongKind /\ opOwner' = m /\ pc' \in {"top", "write"} /\ next' = "top"
    BY <1>2 DEF BeginLong, IsLong, Answer
  <2>2. opKind' # None /\ ~Finishing'
    BY <2>1, NamesAssumption DEF Kind, Finishing
  <2> QED BY <1>1, <2>1, <2>2 DEF Begins, RunnerOf, Unfinished, Running
<1>3. CASE DeclineLong(m)
  <2>1. opKind' = None /\ (m \in Request => m \in declined') /\ pc' \in {"top", "write"}
    BY <1>3 DEF DeclineLong, Answer
  <2> QED BY <1>1, <2>1 DEF Settles, RunnerOf, Unfinished, Running
<1> QED BY <1>2, <1>3 DEF StartLong

LEMMA PlacesIdle ==
  ASSUME IInv, NEW m \in Message, IdleReceive(m)
  PROVE  /\ \A r \in Request : r # m => Stands(r)
         /\ m \in Request => call[m] \notin Early /\ Waits(m) /\ ~Waits(m)' /\ ~Unfinished(m)
         /\ Settles(m) \/ Begins(m)
         /\ UNCHANGED <<call, kind>> /\ RunnerOf = None
<1>1. pc = "recv" /\ opKind = None /\ Receive(m) /\ UNCHANGED <<call, kind>>
  BY DEF IdleReceive, IInv, Control, callVars
<1>2. RunnerOf = None /\ \A r \in Request : ~Unfinished(r)
  BY <1>1 DEF RunnerOf, Unfinished, Running
<1>3. /\ Settles(m) \/ Begins(m)
      /\ \A r \in Request : r # m => ~Unfinished(r)'
      /\ pc' # "putback"
  <2>1. CASE IsLong(m) /\ StartLong(m)
    BY <1>1, <2>1, PlacesStarting
  <2>2. ASSUME Publish(m), UNCHANGED opVars, NEW o, Answer(m, o, "top")
        PROVE  Settles(m) /\ pc' # "putback" /\ \A r \in Request : ~Unfinished(r)'
    <3>1. pc' \in {"top", "write"} /\ opKind' = None
      BY <1>1, <2>2 DEF Answer, opVars
    <3> QED BY <1>2, <2>2, <3>1 DEF Settles, RunnerOf, Unfinished, Running
  <2> QED BY <2>1, <2>2 DEF IdleReceive, Acknowledge, RunCommand
<1>4. \A r \in Request : r # m => Stands(r)
  BY <1>1, <1>2, <1>3, TakenOnly DEF Stands, Waits
<1>5. m \in Request => call[m] \notin Early /\ Waits(m) /\ ~Waits(m)'
  BY <1>1, <1>3, TakenOnly DEF Waits
<1> QED BY <1>1, <1>2, <1>3, <1>4, <1>5

LEMMA PlacesDrain ==
  ASSUME IInv, Announced, NEW m \in Message, Drain(m)
  PROVE  /\ \A r \in Request : r # m => Stands(r)
         /\ \/ (m \in Request => Stands(m)) /\ RunnerOf' = RunnerOf /\ published' = published
            \/ Settles(m) /\ (m \in Request => Waits(m) /\ ~Waits(m)' /\ call[m] \notin Early)
         /\ UNCHANGED <<call, kind>>
<1>1. /\ pc = "drain" /\ next = "top" /\ hand = None /\ Receive(m)
      /\ UNCHANGED <<call, kind, opKind, opOwner>>
  BY DEF Drain, DrainCancel, DrainReject, DrainUrgent, DrainOrdinary, DrainStop, RunCommand,
         Reject, callVars, opVars, IInv, Control, Answering
<1>2. m \in Request => Waits(m) /\ ~Unfinished(m) /\ call[m] \notin Early /\ ~InQueue(m)'
  BY <1>1, TakenOnly DEF Waits, Announced
<1>3. \A r \in Request : r # m => (InQueue(r)' <=> InQueue(r))
  BY <1>1, TakenOnly
<1>4. CASE DrainStop(m)
  <2>1. hand' = m /\ pc' = "putback" /\ next' = "top" /\ published' = published
    BY <1>1, <1>4 DEF DrainStop
  <2>2. \A r \in Request : (Unfinished(r)' <=> Unfinished(r)) /\ RunnerOf' = RunnerOf
    BY <1>1, <2>1 DEF Unfinished, Running, Finishing, RunnerOf
  <2>3. \A r \in Request : Waits(r)' <=> Waits(r)
    BY <1>1, <1>2, <1>3, <2>1 DEF Waits
  <2>4. RunnerOf' = RunnerOf
    BY <1>1, <2>1 DEF Finishing, RunnerOf
  <2> QED BY <1>1, <2>1, <2>2, <2>3, <2>4 DEF Stands
<1>5. ASSUME Publish(m), NEW o, Answer(m, o, "drain")
      PROVE  /\ \A r \in Request : r # m => Stands(r)
             /\ Settles(m) /\ (m \in Request => Waits(m) /\ ~Waits(m)' /\ call[m] \notin Early)
  <2>1. pc' \in {"drain", "write"} /\ next' \in {"top", "drain"}
    BY <1>5 DEF Answer
  <2>2. \A r \in Request : Unfinished(r)' <=> Unfinished(r)
    BY <1>1, <2>1 DEF Unfinished, Running, Finishing
  <2>3. RunnerOf' = RunnerOf
    BY <1>1, <2>1 DEF Finishing, RunnerOf
  <2>4. \A r \in Request : r # m => (Waits(r)' <=> Waits(r))
    BY <1>1, <1>3, <2>1 DEF Waits
  <2> QED BY <1>1, <1>2, <1>5, <2>1, <2>2, <2>3, <2>4 DEF Stands, Settles, Waits
<1> QED BY <1>1, <1>4, <1>5
        DEF Drain, DrainCancel, DrainReject, DrainUrgent, DrainOrdinary, RunCommand, Reject,
            Acknowledge

LEMMA PlacesPutBack ==
  ASSUME IInv, Announced, PutBack, NEW h, h = hand
  PROVE  /\ h \in Message /\ \A r \in Request : r # h => Stands(r)
         /\ \/ (h \in Request => Stands(h)) /\ RunnerOf' = RunnerOf /\ published' = published
            \/ Settles(h) /\ (h \in Request => Waits(h) /\ ~Waits(h)' /\ call[h] \notin Early)
         /\ UNCHANGED <<call, kind>>
<1>1. /\ pc = "putback" /\ next = "top" /\ hand \in Message /\ queue \in Seq(Message)
      /\ UNCHANGED <<call, kind, opKind, opOwner>>
  BY DEF PutBack, Reject, callVars, opVars, IInv, TypeOK, DataOK, Control, Answering
<1>2. h \in Message /\ h = hand
  BY <1>1
<1>3. h \in Request => Waits(h) /\ ~Unfinished(h) /\ ~InQueue(h) /\ call[h] \notin Early
  BY <1>1, <1>2 DEF Waits, Announced, IInv, OnePlace, Early
<1>4. CASE HasRoom
  <2>1. queue' = <<h>> \o queue /\ pc' = "step" /\ next' = "top" /\ published' = published
    BY <1>1, <1>2, <1>4 DEF PutBack, ToFront
  <2>2. \A x : InQueue(x)' <=> InQueue(x) \/ x = h
    <3>1. \A x : Holds(<<h>> \o queue, x) <=> Holds(queue, x) \/ x = h
      BY <1>1, FrontHolds
    <3> QED BY <2>1, <3>1 DEF InQueue
  <2>3. \A r \in Request : (Unfinished(r)' <=> Unfinished(r)) /\ (Waits(r)' <=> Waits(r))
    BY <1>1, <1>2, <2>1, <2>2 DEF Unfinished, Running, Finishing, Waits
  <2>4. RunnerOf' = RunnerOf
    BY <1>1, <2>1 DEF Finishing, RunnerOf
  <2> QED BY <1>1, <2>1, <2>3, <2>4 DEF Stands
<1>5. CASE ~HasRoom
  <2>1. Publish(h) /\ Answer(h, "busy", "step") /\ queue' = queue
    BY <1>2, <1>5 DEF PutBack, Reject
  <2>2. pc' \in {"step", "write"} /\ next' \in {"top", "step"}
    BY <2>1 DEF Answer
  <2>3. \A r \in Request : (Unfinished(r)' <=> Unfinished(r)) /\ (InQueue(r)' <=> InQueue(r))
    BY <1>1, <2>1, <2>2 DEF Unfinished, Running, Finishing, InQueue
  <2>4. RunnerOf' = RunnerOf
    BY <1>1, <2>2 DEF Finishing, RunnerOf
  <2>5. \A r \in Request : r # h => (Waits(r)' <=> Waits(r))
    BY <1>1, <1>2, <2>2, <2>3 DEF Waits
  <2>6. h \in Request => ~Waits(h)'
    BY <1>3, <2>2, <2>3 DEF Waits
  <2>7. Settles(h)
    BY <1>3, <2>1, <2>3, <2>4 DEF Settles
  <2> QED BY <1>1, <1>2, <1>3, <2>3, <2>5, <2>6, <2>7 DEF Stands
<1> QED BY <1>4, <1>5

LEMMA PlacesEnd ==
  ASSUME IInv, Announced, StepDone, NEW w, w = opOwner
  PROVE  /\ \A r \in Request : r # w => Stands(r)
         /\ UNCHANGED <<call, kind>> /\ RunnerOf' = None /\ Publish(w)
         /\ RunnerOf = IF w \in Request THEN w ELSE "gateway"
         /\ w \in Request => /\ Unfinished(w) /\ ~Unfinished(w)' /\ ~Waits(w) /\ ~Waits(w)'
                             /\ call[w] \notin Early
<1>1. /\ pc = "step" /\ next = "top" /\ opKind # None /\ Publish(opOwner)
      /\ UNCHANGED <<queue, call, kind, opKind, opOwner>>
  BY DEF StepDone, AnnounceEnd, callVars, IInv, Control, Answering, Announced
<1>2. Publish(w)
  BY <1>1 DEF Publish
<1>3. Finishing' /\ ~Finishing /\ pc' \in {"end", "write"}
  BY <1>1 DEF StepDone, Answer, Finishing
<1>4. \A r \in Request : ~Unfinished(r)' /\ (Waits(r)' <=> Waits(r))
  BY <1>1, <1>3 DEF Unfinished, Waits, InQueue
<1>5. \A r \in Request : Unfinished(r) <=> r = w
  BY <1>1, <1>3 DEF Unfinished, Running
<1>6. RunnerOf' = None /\ RunnerOf = IF w \in Request THEN w ELSE "gateway"
  BY <1>1, <1>3 DEF RunnerOf
<1>7. \A r \in Request : r = w => ~Waits(r) /\ call[r] \notin Early
  BY <1>5 DEF Announced, Early
<1> QED BY <1>1, <1>4, <1>5, <1>6, <1>7, <1>2 DEF Stands

LEMMA PlacesPoll ==
  ASSUME IInv, Poll
  PROVE  /\ \A r \in Request : Stands(r)
         /\ UNCHANGED <<call, kind, published>> /\ RunnerOf = None
         /\ RunnerOf' \in {None, "gateway"}
<1>1. UNCHANGED <<queue, call, kind>> /\ pc = "poll" /\ next = "top" /\ opKind = None
  BY DEF Poll, callVars, IInv, Control, Answering
<1>2. published' = published /\ pc' \in {"top", "write"} /\ next' = "top"
  BY <1>1 DEF Poll, StartLong, BeginLong, DeclineLong, Answer
<1>3. opKind' = None \/ opOwner' = "poll"
  BY <1>1 DEF Poll, StartLong, BeginLong, DeclineLong, opVars
<1>4. "poll" \notin Request
  BY NamesAssumption DEF Internal
<1>5. RunnerOf = None /\ RunnerOf' \in {None, "gateway"}
  BY <1>1, <1>3, <1>4 DEF RunnerOf
<1>6. \A r \in Request : ~Unfinished(r)' /\ ~Unfinished(r) /\ (Waits(r)' <=> Waits(r))
  BY <1>1, <1>2, <1>3, <1>4 DEF Unfinished, Running, Waits, InQueue
<1> QED BY <1>1, <1>2, <1>5, <1>6 DEF Stands

-----------------------------------------------------------------------------
(* Every outcome is announced. *)

Told ==
  \A r \in Request :
    call[r] = "posted" /\ ~ToCome(r) => published[r] = 1 \/ r \in declined

\* A published count that moved counts no more than one, and none goes down.
LEMMA ToldKept ==
  ASSUME TypeOK, Announced', Told, published' = published \/ \E m : Publish(m),
         declined \subseteq declined',
         \A r \in Request :
           \/ Stands(r)
           \/ call'[r] = "posted" => ToCome(r)' \/ published'[r] = 1 \/ r \in declined'
  PROVE  Told'
<1> SUFFICES ASSUME NEW r \in Request, call'[r] = "posted", ~ToCome(r)'
             PROVE  published'[r] = 1 \/ r \in declined'
  BY DEF Told
<1>1. published \in [Request -> 0..2]
  BY DEF TypeOK, DataOK
<1>2. published[r] = 1 => published'[r] \in {1, 2}
  BY <1>1 DEF Publish
<1>3. published'[r] # 2
  BY DEF Announced
<1>4. CASE Stands(r)
  <2>1. call[r] = "posted" /\ ~ToCome(r) /\ kind'[r] = kind[r]
    BY <1>4 DEF Stands, ToCome
  <2> QED BY <1>2, <1>3, <2>1 DEF Told
<1> QED BY <1>4

LEMMA Counted ==
  ASSUME TypeOK, NEW m \in Request, published[m] = 0, Publish(m)
  PROVE  published'[m] = 1
  BY DEF TypeOK, DataOK, Publish

LEMMA SettledTold ==
  ASSUME TypeOK, Announced, Announced', Told, NEW m, m \in Request => ToCome(m),
         \A r \in Request : r # m => Stands(r), declined \subseteq declined',
         \/ (m \in Request => Stands(m)) /\ published' = published
         \/ Settles(m) \/ Begins(m)
  PROVE  Told'
<1>1. published' = published \/ \E x : Publish(x)
  BY DEF Settles, Begins
<1>2. m \in Request => Stands(m) \/ ToCome(m)' \/ published'[m] = 1 \/ m \in declined'
  <2>1. CASE m \in Request /\ Settles(m)
    <3>1. published[m] = 0
      BY <2>1 DEF Announced
    <3> QED BY <2>1, <3>1, Counted DEF Settles
  <2>2. CASE m \in Request /\ Begins(m)
    BY <2>2 DEF Begins, ToCome
  <2> QED BY <2>1, <2>2
<1> QED BY <1>1, <1>2, ToldKept

\* What was declined stays on record.
LEMMA DeclinedGrows == [Next]_vars => declined \subseteq declined'
<1>1. BeginLong("poll") \/ DeclineLong("poll") => declined \subseteq declined'
  BY DEF BeginLong, DeclineLong
<1>2. Poll => declined \subseteq declined'
  BY <1>1 DEF Poll, StartLong, opVars
<1>3. ASSUME NEW m \in Message, IdleReceive(m) PROVE declined \subseteq declined'
  BY <1>3 DEF IdleReceive, StartLong, BeginLong, DeclineLong, RunCommand, opVars
<1>4. ASSUME NEW m \in Message, Drain(m) PROVE declined' = declined
  BY <1>4 DEF Drain, DrainCancel, DrainReject, DrainUrgent, DrainOrdinary, DrainStop,
              RunCommand, Reject, opVars
<1>5. PutBack => declined' = declined
  BY DEF PutBack, Reject, opVars
<1>6. \/ LoopHead \/ IdleTimeout \/ DrainEmpty \/ StepOn \/ StepDone \/ EndLong \/ ClearFlag
      \/ WriteResult \/ GiveSemaphore \/ TaskReleases \/ BusInit \/ PollFallsDue
      => declined' = declined
  BY DEF LoopHead, IdleTimeout, DrainEmpty, StepOn, StepDone, EndLong, ClearFlag, WriteResult,
         GiveSemaphore, TaskReleases, BusInit, CreateTask, ArmPollTimer, SubmitBootScan,
         PollFallsDue, opVars
<1>7. ASSUME NEW r \in Request, Caller(r) PROVE declined' = declined
  BY <1>7 DEF Caller, Submit, SubmitSync, CancelStore, CancelPost, TakeAnswer,
              CallerReleases, TimeOut, opVars
<1>8. UNCHANGED vars => declined' = declined
  BY DEF vars, opVars
<1> QED BY <1>2, <1>3, <1>4, <1>5, <1>6, <1>7, <1>8 DEF Next, BusTask

LEMMA NextTold == IInv /\ Announced /\ Announced' /\ Told /\ [Next]_vars => Told'
<1> SUFFICES ASSUME IInv, Announced, Announced', Told, [Next]_vars PROVE Told'
  OBVIOUS
<1>0. TypeOK /\ declined \subseteq declined'
  BY DeclinedGrows DEF IInv
<1>1. CASE UNCHANGED vars
  BY <1>1 DEF vars, callVars, taskVars, opVars, Told, ToCome, Waits, Unfinished, Running,
              Finishing, InQueue
<1>2. CASE MovesOn
  BY <1>0, <1>2, PlacesQuiet, ToldKept
<1>3. ASSUME NEW r \in Request, Caller(r) PROVE Told'
  BY <1>0, <1>3, PlacesCaller, ToldKept DEF ToCome
<1>4. ASSUME NEW m \in Message, IdleReceive(m) PROVE Told'
  BY <1>0, <1>4, PlacesIdle, SettledTold DEF ToCome
<1>5. ASSUME NEW m \in Message, Drain(m) PROVE Told'
  <2>1. m \in Request => ToCome(m)
    BY <1>5, FromQueue DEF ToCome, Waits, Drain
  <2> QED BY <1>0, <1>5, <2>1, PlacesDrain, SettledTold
<1>6. CASE PutBack
  <2>1. PICK h : h = hand
    OBVIOUS
  <2>2. h \in Request => ToCome(h)
    BY <1>6, <2>1 DEF PutBack, ToCome, Waits
  <2> QED BY <1>0, <1>6, <2>1, <2>2, PlacesPutBack, SettledTold
<1>7. CASE StepDone
  <2>1. PICK w : w = opOwner
    OBVIOUS
  <2>2. Publish(w) /\ (\A r \in Request : r # w => Stands(r)) /\ (w \in Request => Unfinished(w))
    BY <1>7, <2>1, PlacesEnd
  <2>3. w \in Request => published'[w] = 1
    BY <1>0, <2>2, Counted DEF Announced, ToCome
  <2> QED BY <1>0, <2>2, <2>3, ToldKept
<1>8. CASE Poll
  BY <1>0, <1>8, PlacesPoll, ToldKept
<1> QED BY <1>1, <1>2, <1>3, <1>4, <1>5, <1>6, <1>7, <1>8 DEF Next, BusTask, MovesOn, Silent

LEMMA ToldHolds == Spec => []Told
<1>1. Init => Told
  BY DEF Init, Told
<1> QED BY <1>1, NextTold, AnnouncedHolds, Invariance, PTL DEF Spec

-----------------------------------------------------------------------------
(* The order of service. *)

Before(q, a, b) == \E i, j \in 1..Len(q) : i < j /\ q[i] = a /\ q[j] = b

LEMMA AppendBefore ==
  ASSUME NEW q \in Seq(Message), NEW m \in Message, NEW a, NEW b, Before(q, a, b)
  PROVE  Before(Append(q, m), a, b)
  BY DEF Before

\* Who was first is gone, or still ahead.
LEMMA TailBefore ==
  ASSUME NEW q \in Seq(Message), q # <<>>, NEW a \in Request, NEW b, Before(q, a, b), NoDup(q),
         Holds(Tail(q), a)
  PROVE  Before(Tail(q), a, b)
<1>1. /\ Len(q) \in Nat /\ Len(Tail(q)) = Len(q) - 1
      /\ \A i \in 1..Len(Tail(q)) : Tail(q)[i] = q[i + 1]
  OBVIOUS
<1>2. PICK i \in 1..Len(q), j \in 1..Len(q) : i < j /\ q[i] = a /\ q[j] = b
  BY DEF Before
<1>3. PICK k \in 1..Len(Tail(q)) : Tail(q)[k] = a
  BY DEF Holds
<1>4. i # 1
  BY <1>1, <1>2, <1>3 DEF NoDup
<1>5. i - 1 \in 1..Len(Tail(q)) /\ j - 1 \in 1..Len(Tail(q)) /\ i - 1 < j - 1
  BY <1>1, <1>2, <1>4
<1>6. Tail(q)[i - 1] = a /\ Tail(q)[j - 1] = b
  BY <1>1, <1>2, <1>5
<1> QED BY <1>5, <1>6 DEF Before

\* What was taken to be put back is where it was.
LEMMA FrontIsBack ==
  ASSUME NEW q \in Seq(Message), q # <<>>
  PROVE  <<Head(q)>> \o Tail(q) = q
  OBVIOUS

LEMMA FrontTail ==
  ASSUME NEW q \in Seq(Message), NEW m \in Message
  PROVE  <<m>> \o q \in Seq(Message) /\ <<m>> \o q # <<>> /\ Tail(<<m>> \o q) = q
  OBVIOUS

LEMMA UnservedIs ==
  ASSUME IInv
  PROVE  Unserved \in Seq(Message) /\ NoDup(Unserved)
<1>1. queue \in Seq(Message) /\ NoDup(queue)
  BY DEF IInv, TypeOK, DataOK, OnePlace
<1>2. CASE pc = "putback"
  <2>1. hand \in Message /\ (hand \in Request => ~InQueue(hand))
    BY <1>2 DEF IInv, Control, OnePlace
  <2> QED BY <1>1, <1>2, <2>1, FrontHolds DEF Unserved, InQueue
<1>3. CASE pc # "putback"
  BY <1>1, <1>3 DEF Unserved
<1> QED BY <1>2, <1>3

LEMMA AppendUnserved ==
  ASSUME IInv, NEW m \in Message, queue' = Append(queue, m),
         \/ pc # "putback" /\ pc' # "putback"
         \/ UNCHANGED <<pc, hand>>
  PROVE  Unserved' = Append(Unserved, m)
<1>1. queue \in Seq(Message)
  BY DEF IInv, TypeOK, DataOK
<1>2. CASE pc = "putback"
  <2>1. hand \in Message
    BY <1>2 DEF IInv, Control
  <2>2. <<hand>> \o Append(queue, m) = Append(<<hand>> \o queue, m)
    BY <1>1, <2>1
  <2> QED BY <1>2, <2>2 DEF Unserved
<1>3. CASE pc # "putback"
  BY <1>3 DEF Unserved
<1> QED BY <1>2, <1>3

\* What a step does to the commands not yet served.
LEMMA UnservedStep ==
  ASSUME IInv, [Next]_vars
  PROVE  \/ Unserved' = Unserved
         \/ \E m \in Message : Unserved' = Append(Unserved, m)
         \/ Unserved # <<>> /\ Unserved' = Tail(Unserved)
<1> DEFINE Good == \/ Unserved' = Unserved
                   \/ \E m \in Message : Unserved' = Append(Unserved, m)
                   \/ Unserved # <<>> /\ Unserved' = Tail(Unserved)
<1>0. queue \in Seq(Message) /\ next \in Resume
  BY DEF IInv, TypeOK, DataOK, TaskOK
<1>1. CASE UNCHANGED vars
  BY <1>1 DEF vars, taskVars, Unserved
<1>2. CASE MovesOn
  <2> USE <1>2 DEF MovesOn, Silent
  <2>1. \/ queue' = queue
        \/ pc # "putback" /\ \E m \in Internal : queue' = Append(queue, m)
        \/ UNCHANGED <<pc, hand>> /\ \E m \in Internal : queue' = Append(queue, m)
    BY DEF LoopHead, IdleTimeout, DrainEmpty, StepOn, EndLong, ClearFlag, BusInit, CreateTask,
           ArmPollTimer, SubmitBootScan, PollFallsDue, WriteResult, GiveSemaphore,
           TaskReleases, taskVars, Internal
  <2>2. \/ pc # "putback" /\ pc' # "putback"
        \/ UNCHANGED <<pc, hand>>
    BY <1>0 DEF LoopHead, IdleTimeout, DrainEmpty, StepOn, EndLong, ClearFlag, BusInit,
                CreateTask, ArmPollTimer, SubmitBootScan, PollFallsDue, WriteResult,
                GiveSemaphore, TaskReleases, taskVars, Resume, IInv, Control
  <2>3. CASE queue' = queue
    BY <2>2, <2>3 DEF Unserved
  <2>4. ASSUME NEW m \in Internal, queue' = Append(queue, m) PROVE Good
    BY <1>0, <2>2, <2>4, AppendUnserved DEF Message
  <2> QED BY <2>1, <2>3, <2>4
<1>3. ASSUME NEW r \in Request, Caller(r) PROVE Good
  <2>1. UNCHANGED <<pc, hand>>
    BY <1>3 DEF Caller, Submit, SubmitSync, CancelStore, CancelPost, TakeAnswer, CallerReleases,
                TimeOut, taskVars
  <2>2. queue' = queue \/ queue' = Append(queue, r)
    BY <1>3 DEF Caller, Submit, SubmitSync, CancelStore, CancelPost, TakeAnswer, CallerReleases,
                TimeOut
  <2>3. CASE queue' = queue
    BY <2>1, <2>3 DEF Unserved
  <2>4. CASE queue' = Append(queue, r)
    BY <2>1, <2>4, AppendUnserved DEF Message
  <2> QED BY <2>2, <2>3, <2>4
<1>4. ASSUME NEW m \in Message, IdleReceive(m) \/ Drain(m) PROVE Good
  <2>1. pc # "putback" /\ queue # <<>> /\ m = Head(queue) /\ queue' = Tail(queue)
    BY <1>4 DEF IdleReceive, Drain, Receive
  <2>2. pc' # "putback" \/ hand' = m
    <3>1. CASE IdleReceive(m)
      BY <3>1 DEF IdleReceive, StartLong, BeginLong, DeclineLong, RunCommand, Acknowledge, Answer
    <3>2. CASE Drain(m)
      BY <3>2 DEF Drain, DrainCancel, DrainReject, DrainUrgent, DrainOrdinary, DrainStop,
                  RunCommand, Reject, Acknowledge, Answer
    <3> QED BY <1>4, <3>1, <3>2
  <2>3. CASE pc' # "putback"
    BY <2>1, <2>3 DEF Unserved
  <2>4. CASE pc' = "putback"
    BY <1>0, <2>1, <2>2, <2>4, FrontIsBack DEF Unserved
  <2> QED BY <2>3, <2>4
<1>5. CASE PutBack
  <2>1. pc = "putback" /\ pc' # "putback" /\ hand \in Message
    BY <1>5 DEF PutBack, Reject, Answer, IInv, Control
  <2>2. queue' = <<hand>> \o queue \/ queue' = queue
    BY <1>5 DEF PutBack, ToFront
  <2> QED BY <1>0, <2>1, <2>2, FrontTail DEF Unserved
<1>6. CASE StepDone \/ Poll
  <2>1. pc # "putback" /\ pc' # "putback" /\ queue' = queue
    BY <1>6 DEF StepDone, Poll, StartLong, BeginLong, DeclineLong, Answer
  <2> QED BY <2>1 DEF Unserved
<1> QED BY <1>1, <1>2, <1>3, <1>4, <1>5, <1>6 DEF Next, BusTask, MovesOn, Silent

LEMMA OrderKept ==
  ASSUME IInv, [Next]_vars, NEW a \in Request, NEW b \in Request, Ahead(a, b),
         \E i \in DOMAIN Unserved' : Unserved'[i] = a
  PROVE  Ahead(a, b)'
<1>1. Unserved \in Seq(Message) /\ NoDup(Unserved)
  BY UnservedIs
<1>2. Unserved \in Seq(Message) /\ Unserved # <<>> => Tail(Unserved) \in Seq(Message)
  OBVIOUS
<1>3. Unserved' \in Seq(Message)
  BY <1>1, <1>2, UnservedStep
<1>4. Before(Unserved, a, b)
  BY <1>1 DEF Ahead, Before
<1>5. Before(Unserved', a, b)
  <2>1. Holds(Unserved', a)
    BY <1>3 DEF Holds
  <2> QED BY <1>1, <1>4, <2>1, UnservedStep, AppendBefore, TailBefore
<1> QED BY <1>3, <1>5 DEF Ahead, Before

-----------------------------------------------------------------------------
(* The service.  A semaphore is given for a command that is not pending. *)

Woken == \A r \in Request : done[r] => Sync(r) /\ ~Waits(r)

LEMMA NextWoken == IInv /\ Announced /\ Woken /\ [Next]_vars => Woken'
<1> SUFFICES ASSUME IInv, Announced, Woken, [Next]_vars PROVE Woken'
  OBVIOUS
<1>0. done \in [Request -> BOOLEAN] /\ call \in [Request -> CallState]
  BY DEF IInv, TypeOK, DataOK
<1>9. ASSUME done' = done, \A r \in Request : Stands(r) \/ (call' = call /\ ~Waits(r)') PROVE Woken'
  BY <1>9 DEF Woken, Stands, Sync
<1>1. CASE UNCHANGED vars
  BY <1>1 DEF vars, callVars, replyVars, taskVars, opVars, Woken, Waits, InQueue, Sync
<1>2. CASE MovesOn
  <2>1. \A r \in Request : Stands(r)
    BY <1>2, PlacesQuiet
  <2>2. done' = done \/ (GiveSemaphore /\ done' = [done EXCEPT ![hand] = TRUE])
    BY <1>2 DEF MovesOn, Silent, LoopHead, IdleTimeout, DrainEmpty, StepOn, EndLong, ClearFlag,
                BusInit, CreateTask, ArmPollTimer, SubmitBootScan, PollFallsDue, WriteResult,
                GiveSemaphore, TaskReleases, replyVars
  <2>3. ASSUME GiveSemaphore, done' = [done EXCEPT ![hand] = TRUE] PROVE Woken'
    <3>1. hand \in Request /\ Sync(hand) /\ pc = "give" /\ ~InQueue(hand)
      BY <2>3 DEF GiveSemaphore, IInv, Control, Answering, OnePlace
    <3>2. \A r \in Request : r = hand => Sync(r) /\ ~Waits(r)
      BY <3>1 DEF Waits
    <3>3. \A r \in Request : r # hand => done'[r] = done[r]
      BY <1>0, <2>3
    <3> QED BY <2>1, <3>2, <3>3 DEF Woken, Stands, Sync
  <2> QED BY <1>9, <2>1, <2>2, <2>3
<1>3. ASSUME NEW r \in Request, Caller(r) PROVE Woken'
  <2>1. \A s \in Request : s # r => Stands(s)
    BY <1>3, PlacesCaller
  <2>2. \A s \in Request : done'[s] => done[s]
    BY <1>0, <1>3 DEF Caller, Submit, SubmitSync, CancelStore, CancelPost, TakeAnswer,
                      CallerReleases, TimeOut, replyVars
  <2>3. Sync(r) => Sync(r)'
    BY <1>0, <1>3 DEF Caller, Submit, SubmitSync, CancelStore, CancelPost, TakeAnswer,
                      CallerReleases, TimeOut, CanCall, Sync
  <2>4. done[r] => ~Waits(r)'
    BY <1>3, PlacesCaller DEF Woken, Sync
  <2>5. \A s \in Request : s # r /\ done'[s] => Sync(s)' /\ ~Waits(s)'
    BY <2>1, <2>2 DEF Woken, Stands, Sync
  <2> QED BY <2>2, <2>3, <2>4, <2>5 DEF Woken
<1>4. ASSUME NEW m \in Message, IdleReceive(m) PROVE Woken'
  BY <1>4, <1>9, PlacesIdle DEF IdleReceive, replyVars
<1>5. ASSUME NEW m \in Message, Drain(m) PROVE Woken'
  BY <1>5, <1>9, PlacesDrain DEF Drain, replyVars
<1>6. CASE PutBack
  <2>1. PICK h : h = hand
    OBVIOUS
  <2> QED BY <1>6, <1>9, <2>1, PlacesPutBack DEF PutBack, replyVars
<1>7. CASE StepDone
  <2>1. PICK w : w = opOwner
    OBVIOUS
  <2> QED BY <1>7, <1>9, <2>1, PlacesEnd DEF StepDone, replyVars
<1>8. CASE Poll
  BY <1>8, <1>9, PlacesPoll DEF Poll, replyVars
<1> QED BY <1>1, <1>2, <1>3, <1>4, <1>5, <1>6, <1>7, <1>8 DEF Next, BusTask, MovesOn, Silent

LEMMA WokenHolds == Spec => []Woken
<1>1. Init => Woken
  BY DEF Init, Woken
<1> QED BY <1>1, NextWoken, AnnouncedHolds, Invariance, PTL DEF Spec

\* The phase of a request, in the words of Waits and Unfinished.
LEMMA PhaseIs ==
  ASSUME NEW r
  PROVE  PhaseOf(r) = IF call[r] \in {"new", "cancelling"} THEN "new"
                      ELSE IF call[r] = "refused" THEN "refused"
                      ELSE IF Waits(r) THEN "pending"
                      ELSE IF Unfinished(r) THEN "running" ELSE "settled"
  BY DEF PhaseOf, Waits, Unfinished

Phases == [r \in Request |-> PhaseOf(r)]
Callers == [r \in Request |-> CallerOf(r)]

LEMMA StandsSame ==
  ASSUME NEW r, Stands(r)
  PROVE  PhaseOf(r)' = PhaseOf(r) /\ CallerOf(r)' = CallerOf(r)
  BY DEF Stands, PhaseOf, Waits, Unfinished, CallerOf

LEMMA PhaseMoves ==
  ASSUME NEW r \in Request, NEW to, PhaseOf(r)' = to, \A s \in Request : s # r => Stands(s)
  PROVE  Phases' = [Phases EXCEPT ![r] = to]
<1>1. \A s \in Request : s # r => PhaseOf(s)' = PhaseOf(s)
  BY StandsSame
<1> QED BY <1>1 DEF Phases

LEMMA CallerMoves ==
  ASSUME NEW r \in Request, NEW to, CallerOf(r)' = to, \A s \in Request : s # r => Stands(s)
  PROVE  Callers' = [Callers EXCEPT ![r] = to]
<1>1. \A s \in Request : s # r => CallerOf(s)' = CallerOf(s)
  BY StandsSame
<1> QED BY <1>1 DEF Callers

LEMMA CallersSame ==
  ASSUME call' = call
  PROVE  Callers' = Callers
  BY DEF Callers, CallerOf

LEMMA AllStand ==
  ASSUME \A r \in Request : Stands(r)
  PROVE  Phases' = Phases /\ Callers' = Callers
<1>1. \A r \in Request : PhaseOf(r)' = PhaseOf(r) /\ CallerOf(r)' = CallerOf(r)
  BY StandsSame
<1> QED BY <1>1 DEF Phases, Callers

\* The initial state of the bus is one of the service.
LEMMA ServiceInit == Init => Service!Init
<1> SUFFICES ASSUME Init PROVE Service!Init
  OBVIOUS
<1>1. \A r \in Request : PhaseOf(r) = "new" /\ CallerOf(r) = "none"
  BY DEF Init, PhaseOf, CallerOf
<1>2. RunnerOf = None
  BY DEF Init, RunnerOf
<1> QED BY <1>1, <1>2 DEF Service!Init

LEMMA ServiceStutters ==
  ASSUME Phases' = Phases, Callers' = Callers, RunnerOf' = RunnerOf
  PROVE  UNCHANGED Service!svars
  BY DEF Service!svars, Phases, Callers

\* A command that was pending is settled, or stays where it is.
LEMMA ServiceSettles ==
  ASSUME NEW m, call' = call, RunnerOf' = RunnerOf, \A r \in Request : r # m => Stands(r),
         m \in Request => \/ Stands(m)
                          \/ call[m] \notin Early /\ Waits(m) /\ ~Waits(m)' /\ ~Unfinished(m)'
  PROVE  [Service!Next]_(Service!svars)
<1>1. Callers' = Callers
  BY CallersSame
<1>2. CASE \A r \in Request : Stands(r)
  BY <1>2, AllStand, ServiceStutters
<1>3. CASE m \in Request /\ call[m] \notin Early /\ Waits(m) /\ ~Waits(m)' /\ ~Unfinished(m)'
  <2>1. PhaseOf(m) = "pending" /\ PhaseOf(m)' = "settled"
    BY <1>3 DEF PhaseOf, Waits, Unfinished, Early
  <2>2. Phases' = [Phases EXCEPT ![m] = "settled"]
    BY <1>3, <2>1, PhaseMoves
  <2>3. Service!Settle(m)
    BY <1>1, <1>3, <2>1, <2>2 DEF Service!Settle, Service!Move, Phases, Callers
  <2> QED BY <1>3, <2>3 DEF Service!Next
<1> QED BY <1>2, <1>3

\* A pending command, or the gateway's own, becomes the operation in progress.
LEMMA ServiceBegins ==
  ASSUME NEW m, call' = call, RunnerOf = None, \A r \in Request : r # m => Stands(r), Begins(m),
         m \in Request => call[m] \notin Early /\ Waits(m) /\ ~Waits(m)'
  PROVE  [Service!Next]_(Service!svars)
<1>1. Callers' = Callers
  BY CallersSame
<1>2. CASE m \in Request
  <2>1. PhaseOf(m) = "pending" /\ PhaseOf(m)' = "running" /\ RunnerOf' = m
    BY <1>2 DEF PhaseOf, Waits, Unfinished, Early, Begins
  <2>2. Phases' = [Phases EXCEPT ![m] = "running"]
    BY <1>2, <2>1, PhaseMoves
  <2>3. Service!Begin(m)
    BY <1>1, <1>2, <2>1, <2>2 DEF Service!Begin, Service!Move, Phases, Callers
  <2> QED BY <1>2, <2>3 DEF Service!Next
<1>3. CASE m \notin Request
  <2>1. Phases' = Phases
    BY <1>3, AllStand
  <2>2. RunnerOf' = "gateway"
    BY <1>3 DEF Begins
  <2>3. Service!GatewayBegin
    BY <1>1, <2>1, <2>2 DEF Service!GatewayBegin, Phases, Callers
  <2> QED BY <2>3 DEF Service!Next
<1> QED BY <1>2, <1>3

\* The caller's side: accepted, refused, answered or gone.
LEMMA ServiceCaller ==
  ASSUME IInv, Announced, Woken, NEW r \in Request, Caller(r)
  PROVE  [Service!Next]_(Service!svars)
<1>1. /\ \A s \in Request : s # r => Stands(s)
      /\ RunnerOf' = RunnerOf /\ (Unfinished(r)' <=> Unfinished(r))
  BY PlacesCaller
<1>2. call \in [Request -> CallState]
  BY DEF IInv, TypeOK, DataOK
<1> DEFINE Posted == /\ call[r] \in {"new", "cancelling"}
                     /\ call'[r] \in {"posted", "waiting"} /\ Waits(r)'
           Refused == call[r] \in {"new", "cancelling"} /\ call'[r] = "refused"
           Kept == UNCHANGED <<queue, pc, hand>>
<1>3. \/ Posted \/ Refused
      \/ call[r] = "new" /\ call'[r] = "cancelling"
      \/ Kept /\ call[r] = "waiting" /\ done[r] /\ call'[r] = "holding"
      \/ Kept /\ call[r] = "holding" /\ call'[r] = "answered"
      \/ Kept /\ call[r] = "waiting" /\ call'[r] = "timedout"
  <2>1. CASE \E k \in Kinds : Submit(r, k) \/ SubmitSync(r, k)
    <3>1. call[r] = "new" /\ call'[r] \in {"posted", "waiting", "refused"}
      BY <1>2, <2>1 DEF Submit, SubmitSync, CanCall
    <3> QED BY <3>1, PlacesCaller
  <2>2. CASE CancelPost(r)
    <3>1. call[r] = "cancelling" /\ call'[r] \in {"posted", "refused"}
      BY <1>2, <2>2 DEF CancelPost
    <3> QED BY <3>1, PlacesCaller
  <2>3. CASE CancelStore(r) \/ TakeAnswer(r) \/ CallerReleases(r) \/ TimeOut(r)
    BY <1>2, <2>3 DEF CancelStore, CanCall, TakeAnswer, CallerReleases, TimeOut, taskVars
  <2> QED BY <2>1, <2>2, <2>3 DEF Caller
<1>4. CASE Posted
  <2>1. PhaseOf(r) = "new" /\ PhaseOf(r)' = "pending"
    BY <1>4 DEF PhaseOf, Waits
  <2>2. CallerOf(r)' \in {"none", "waiting"}
    BY <1>4 DEF CallerOf
  <2>3. PICK w \in {"none", "waiting"} : CallerOf(r)' = w
    BY <2>2
  <2>4. Phases' = [Phases EXCEPT ![r] = "pending"] /\ Callers' = [Callers EXCEPT ![r] = w]
    BY <1>1, <2>1, <2>3, PhaseMoves, CallerMoves
  <2>5. Service!Accept(r)
    BY <1>1, <2>1, <2>4 DEF Service!Accept, Service!Move, Phases, Callers
  <2> QED BY <2>5 DEF Service!Next
<1>5. CASE Refused
  <2>1. PhaseOf(r) = "new" /\ PhaseOf(r)' = "refused" /\ CallerOf(r)' = CallerOf(r)
    BY <1>5 DEF PhaseOf, CallerOf
  <2>2. Phases' = [Phases EXCEPT ![r] = "refused"] /\ Callers' = [Callers EXCEPT ![r] = CallerOf(r)]
    BY <1>1, <2>1, PhaseMoves, CallerMoves
  <2>3. Callers' = Callers
    BY <2>2 DEF Callers
  <2>4. Service!Refuse(r)
    BY <1>1, <2>1, <2>2, <2>3 DEF Service!Refuse, Service!Move, Phases, Callers
  <2> QED BY <2>4 DEF Service!Next
<1>6. CASE call[r] = "new" /\ call'[r] = "cancelling"
  <2>1. PhaseOf(r)' = PhaseOf(r) /\ CallerOf(r)' = CallerOf(r)
    BY <1>6 DEF PhaseOf, CallerOf
  <2>2. \A s \in Request : PhaseOf(s)' = PhaseOf(s) /\ CallerOf(s)' = CallerOf(s)
    BY <1>1, <2>1, StandsSame
  <2>3. Phases' = Phases /\ Callers' = Callers
    BY <2>2 DEF Phases, Callers
  <2> QED BY <1>1, <2>3, ServiceStutters
<1>7. ASSUME Kept, call[r] \in {"waiting", "holding"},
             call'[r] \in {"holding", "answered", "timedout"}
      PROVE  Phases' = Phases
  <2>1. PhaseOf(r)' = PhaseOf(r)
    <3>1. Waits(r)' <=> Waits(r)
      BY <1>7 DEF Waits, InQueue
    <3> QED BY <1>1, <1>7, <3>1 DEF PhaseOf, Waits, Unfinished
  <2>2. \A s \in Request : PhaseOf(s)' = PhaseOf(s)
    BY <1>1, <2>1, StandsSame
  <2> QED BY <2>2 DEF Phases
<1>8. CASE Kept /\ call[r] = "waiting" /\ done[r] /\ call'[r] = "holding"
  <2>1. CallerOf(r) = "waiting" /\ CallerOf(r)' = "answered"
    BY <1>8 DEF CallerOf
  <2>2. PhaseOf(r) \in {"running", "settled"}
    BY <1>8 DEF Woken, PhaseOf, Waits
  <2>3. Callers' = [Callers EXCEPT ![r] = "answered"] /\ Phases' = Phases
    BY <1>1, <1>7, <1>8, <2>1, CallerMoves
  <2>4. Service!Return(r)
    BY <1>1, <2>1, <2>2, <2>3 DEF Service!Return, Phases, Callers
  <2> QED BY <2>4 DEF Service!Next
<1>9. CASE Kept /\ call[r] = "holding" /\ call'[r] = "answered"
  <2>1. \A s \in Request : CallerOf(s)' = CallerOf(s)
    BY <1>1, <1>9, StandsSame DEF CallerOf
  <2>2. Callers' = Callers /\ Phases' = Phases
    BY <1>7, <1>9, <2>1 DEF Callers
  <2> QED BY <1>1, <2>2, ServiceStutters
<1>10. CASE Kept /\ call[r] = "waiting" /\ call'[r] = "timedout"
  <2>1. CallerOf(r) = "waiting" /\ CallerOf(r)' = "gone"
    BY <1>10 DEF CallerOf
  <2>2. Callers' = [Callers EXCEPT ![r] = "gone"] /\ Phases' = Phases
    BY <1>1, <1>7, <1>10, <2>1, CallerMoves
  <2>3. Service!GiveUp(r)
    BY <1>1, <2>1, <2>2 DEF Service!GiveUp, Phases, Callers
  <2> QED BY <2>3 DEF Service!Next
<1> QED BY <1>3, <1>4, <1>5, <1>6, <1>8, <1>9, <1>10

\* Every step of the bus and of its callers is one of the service's, or none.
LEMMA ServiceStep == IInv /\ Announced /\ Woken /\ [Next]_vars => [Service!Next]_(Service!svars)
<1> SUFFICES ASSUME IInv, Announced, Woken, [Next]_vars PROVE [Service!Next]_(Service!svars)
  OBVIOUS
<1>1. CASE UNCHANGED vars
  <2>1. \A r \in Request : Stands(r)
    BY <1>1 DEF vars, callVars, taskVars, opVars, Stands, Waits, Unfinished, Running, Finishing,
                InQueue
  <2>2. RunnerOf' = RunnerOf
    BY <1>1 DEF vars, taskVars, opVars, RunnerOf, Finishing
  <2> QED BY <2>1, <2>2, AllStand, ServiceStutters
<1>2. CASE MovesOn
  BY <1>2, PlacesQuiet, AllStand, ServiceStutters
<1>3. ASSUME NEW r \in Request, Caller(r) PROVE [Service!Next]_(Service!svars)
  BY <1>3, ServiceCaller
<1>4. ASSUME NEW m \in Message, IdleReceive(m) PROVE [Service!Next]_(Service!svars)
  <2>1. /\ call' = call /\ \A r \in Request : r # m => Stands(r)
        /\ m \in Request => call[m] \notin Early /\ Waits(m) /\ ~Waits(m)'
        /\ RunnerOf = None
    BY <1>4, PlacesIdle
  <2>2. CASE Settles(m)
    <3>1. RunnerOf' = RunnerOf /\ (m \in Request => ~Unfinished(m)')
      BY <2>2 DEF Settles
    <3> QED BY <2>1, <3>1, ServiceSettles
  <2>3. CASE Begins(m)
    BY <2>1, <2>3, ServiceBegins
  <2> QED BY <1>4, <2>2, <2>3, PlacesIdle
<1>5. ASSUME NEW m \in Message, Drain(m) PROVE [Service!Next]_(Service!svars)
  <2>1. /\ call' = call /\ RunnerOf' = RunnerOf /\ \A r \in Request : r # m => Stands(r)
        /\ m \in Request => \/ Stands(m)
                            \/ /\ call[m] \notin Early
                               /\ Waits(m) /\ ~Waits(m)' /\ ~Unfinished(m)'
    BY <1>5, PlacesDrain DEF Settles
  <2> QED BY <2>1, ServiceSettles
<1>6. CASE PutBack
  <2>1. PICK h : h = hand
    OBVIOUS
  <2>2. /\ call' = call /\ RunnerOf' = RunnerOf /\ \A r \in Request : r # h => Stands(r)
        /\ h \in Request => \/ Stands(h)
                            \/ /\ call[h] \notin Early
                               /\ Waits(h) /\ ~Waits(h)' /\ ~Unfinished(h)'
    BY <1>6, <2>1, PlacesPutBack DEF Settles
  <2> QED BY <2>2, ServiceSettles
<1>7. CASE StepDone
  <2>1. PICK w : w = opOwner
    OBVIOUS
  <2>2. /\ \A r \in Request : r # w => Stands(r)
        /\ Callers' = Callers /\ RunnerOf' = None
    BY <1>7, <2>1, PlacesEnd, CallersSame
  <2>3. CASE w \in Request
    <3>1. PhaseOf(w) = "running" /\ PhaseOf(w)' = "settled" /\ RunnerOf = w
      BY <1>7, <2>1, <2>3, PlacesEnd DEF PhaseOf, Waits, Unfinished, Early
    <3>2. Phases' = [Phases EXCEPT ![w] = "settled"]
      BY <2>2, <2>3, <3>1, PhaseMoves
    <3>3. Service!Finish(w)
      BY <2>2, <2>3, <3>1, <3>2 DEF Service!Finish, Service!Move, Phases, Callers
    <3> QED BY <2>3, <3>3 DEF Service!Next
  <2>4. CASE w \notin Request
    <3>1. Phases' = Phases /\ RunnerOf = "gateway"
      BY <1>7, <2>1, <2>2, <2>4, AllStand, PlacesEnd
    <3>2. Service!GatewayFinish
      BY <2>2, <3>1 DEF Service!GatewayFinish, Phases, Callers
    <3> QED BY <3>2 DEF Service!Next
  <2> QED BY <2>3, <2>4
<1>8. CASE Poll
  <2>1. Phases' = Phases /\ Callers' = Callers /\ RunnerOf = None /\ RunnerOf' \in {None, "gateway"}
    BY <1>8, PlacesPoll, AllStand
  <2>2. CASE RunnerOf' = None
    BY <2>1, <2>2, ServiceStutters
  <2>3. CASE RunnerOf' = "gateway"
    <3>1. Service!GatewayBegin
      BY <2>1, <2>3 DEF Service!GatewayBegin, Phases, Callers
    <3> QED BY <3>1 DEF Service!Next
  <2> QED BY <2>1, <2>2, <2>3
<1> QED BY <1>1, <1>2, <1>3, <1>4, <1>5, <1>6, <1>7, <1>8 DEF Next, BusTask, MovesOn, Silent

-----------------------------------------------------------------------------
(* The poll timer. *)

\* Only the head of the loop sends the task to wait on the queue.
LEMMA WaitsFromTop ==
  ASSUME IInv, BusTask, ~LoopHead
  PROVE  pc' # "recv"
<1>1. ASSUME NEW m \in Message, IdleReceive(m) PROVE pc' # "recv"
  BY <1>1 DEF IdleReceive, Acknowledge, StartLong, RunCommand, BeginLong, DeclineLong, Answer
<1>2. ASSUME NEW m \in Message, Drain(m) PROVE pc' # "recv"
  BY <1>2 DEF Drain, DrainCancel, DrainReject, DrainUrgent, DrainOrdinary, DrainStop, Acknowledge,
              Reject, RunCommand, Answer
<1>3. CASE IdleTimeout \/ DrainEmpty \/ StepOn \/ EndLong \/ ClearFlag \/ WriteResult \/ GiveSemaphore
  BY <1>3 DEF IdleTimeout, DrainEmpty, StepOn, EndLong, ClearFlag, WriteResult, GiveSemaphore
<1>4. CASE Poll \/ PutBack \/ StepDone
  BY <1>4 DEF Poll, PutBack, StepDone, StartLong, BeginLong, DeclineLong, Reject, Answer
<1>5. CASE TaskReleases
  BY <1>5 DEF TaskReleases, IInv, TypeOK, TaskOK, Resume
<1> QED BY <1>1, <1>2, <1>3, <1>4, <1>5 DEF BusTask

LEMMA NextPoll == IInv /\ PollNotForgotten /\ [Next]_vars => PollNotForgotten'
<1> SUFFICES ASSUME IInv, PollNotForgotten, [Next]_vars PROVE PollNotForgotten'
  OBVIOUS
<1>0. queue \in Seq(Message) /\ QueueDepth > 0
  BY DepthAssumption DEF IInv, TypeOK, DataOK
<1> USE DEF PollNotForgotten
<1>1. CASE LoopHead
  BY <1>1 DEF LoopHead, WaitsForever, clockVars
<1>2. CASE BusTask /\ ~LoopHead
  BY <1>2, WaitsFromTop
<1>3. CASE CreateTask \/ ArmPollTimer
  BY <1>3 DEF CreateTask, ArmPollTimer
<1>4. CASE SubmitBootScan
  <2>1. UNCHANGED <<pc, forever, timer>>
        /\ queue' = IF ScanOnBoot /\ HasRoom THEN Append(queue, "boot_scan") ELSE queue
    BY <1>4 DEF SubmitBootScan, taskVars
  <2>2. ASSUME HasRoom, ScanOnBoot PROVE queue' # <<>>
    BY <1>0, <2>1, <2>2
  <2>3. ASSUME ~HasRoom PROVE queue' # <<>>
    BY <1>0, <2>1, <2>3, DepthAssumption DEF HasRoom
  <2> QED BY <2>2, <2>3
<1>5. CASE PollFallsDue
  BY <1>5 DEF PollFallsDue, taskVars
<1>6. ASSUME NEW r \in Request, Caller(r) PROVE PollNotForgotten'
  <2>1. UNCHANGED <<pc, forever, timer, boot>>
    BY <1>6 DEF Caller, Submit, SubmitSync, CancelStore, CancelPost, TakeAnswer, CallerReleases,
                TimeOut, taskVars, clockVars
  <2>2. queue' = queue \/ queue' = Append(queue, r)
    BY <1>6 DEF Caller, Submit, SubmitSync, CancelStore, CancelPost, TakeAnswer, CallerReleases,
                TimeOut
  <2>3. Append(queue, r) # <<>>
    BY <1>0
  <2> QED BY <2>1, <2>2, <2>3
<1>7. CASE UNCHANGED vars
  BY <1>7 DEF vars, taskVars, clockVars
<1> QED BY <1>1, <1>2, <1>3, <1>4, <1>5, <1>6, <1>7 DEF Next, BusInit

-----------------------------------------------------------------------------
(* The theorems. *)

\* Whoever wakes in dali_bus_submit_sync finds a result in the reply, wherever the
\* bus task stood when the answer and the time-out raced (deliver).
THEOREM AnswersWritten == Spec => []NoEmptyAnswer
<1>1. Answers => NoEmptyAnswer
  BY DEF Answers, NoEmptyAnswer
<1> QED BY <1>1, AnswersHold, PTL

\* The caller of configure is parked until the operation ends: it is never
\* handed the acknowledgement (holds_caller_until_done).
THEOREM ConfigureParked == Spec => []ConfigureGetsOutcome
<1>1. Answers => ConfigureGetsOutcome
  BY DEF Answers, ConfigureGetsOutcome
<1> QED BY <1>1, AnswersHold, PTL

\* No caller is told that a command ran while gears are in the initialise state
\* (serve_between_steps).
THEOREM CommissioningExclusive == Spec => []NoSuccessWhileCommissioning
<1>1. Answers => NoSuccessWhileCommissioning
  BY DEF Answers, NoSuccessWhileCommissioning
<1> QED BY <1>1, AnswersHold, PTL

\* A cancelled operation takes at most one more step, however long the queue
\* and however many commands are on it (dali_bus_cancel, bus_task).
THEOREM CancelPrompt == Spec => []CancelIsPrompt
<1>1. CancelSeen => CancelIsPrompt
  BY DEF CancelSeen, CancelIsPrompt
<1> QED BY <1>1, CancelHolds, PTL

\* A result is published at most once for each request: not at the start and
\* again at the end, nor when rejected and again when run (deliver, finish_long).
THEOREM PublishedOnce == Spec => []PublishedAtMostOnce
<1>1. Announced => PublishedAtMostOnce
  BY DEF Announced, PublishedAtMostOnce
<1> QED BY <1>1, AnnouncedHolds, PTL

\* Whoever submits without waiting learns from the event loop what became of the
\* command, whatever the queue and the running operation did to it in between;
\* only a long command that ended as it began is not announced (deliver, finish_long).
THEOREM OutcomesTold == Spec => []OutcomeAnnounced
<1>1. IInv /\ Told => OutcomeAnnounced
  <2> SUFFICES ASSUME IInv, Told, NEW r \in Request, call[r] = "posted", ~InQueue(r), hand # r,
                      ~(opKind # None /\ opOwner = r)
               PROVE  published[r] = 1 \/ r \in declined
    BY DEF OutcomeAnnounced
  <2>1. ~ToCome(r)
    BY DEF ToCome, Waits, Unfinished, Running
  <2> QED BY <2>1 DEF Told
<1> QED BY <1>1, ToldHolds, Invariance, PTL

\* Commands are served in the order of their submission, also the one that was
\* taken off the queue between two steps and put back at its front
\* (serve_between_steps, "it keeps its place").
THEOREM OrderHeld == Spec => NoOvertaking
<1> DEFINE Kept == \A a, b \in Request :
                     Ahead(a, b) /\ (\E i \in DOMAIN Unserved' : Unserved'[i] = a) => Ahead(a, b)'
<1>1. IInv /\ [Next]_vars => [Kept]_vars
  BY OrderKept
<1>2. Spec => [][Kept]_vars
  BY <1>1, Invariance, PTL DEF Spec
<1> QED BY <1>2 DEF NoOvertaking

\* With a scan at the start the idle task never waits for ever beside an armed timer: what
\* PollRuns needs before fairness enters, although the timer is armed only after the task
\* may have begun its first wait (bus_task, dali_bus_init).
THEOREM PollRemembered == Spec => []PollNotForgotten
<1>1. Init => PollNotForgotten
  BY DEF Init, PollNotForgotten
<1> QED BY <1>1, NextPoll, Invariance, PTL DEF Spec

\* The queue, the task and the replies together behave as CommandService: a
\* command is refused or accepted, settled once, at most one long operation is in
\* progress, and a caller that waits hears only of a command no longer pending.
THEOREM ServiceImplemented == Spec => ImplementsService
<1>1. Spec => Service!Init /\ [][Service!Next]_(Service!svars)
  BY ServiceInit, ServiceStep, Invariance, AnnouncedHolds, WokenHolds, PTL DEF Spec
<1> QED BY <1>1 DEF ImplementsService, Service!Spec
=============================================================================
