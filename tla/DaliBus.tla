------------------------------- MODULE DaliBus -------------------------------
(***************************************************************************)
(* The bus task of components/dali_bus: the bounded command queue, the     *)
(* loop that serves it, the one long operation it may run a step at a      *)
(* time, the reference-counted rendezvous on which synchronous callers     *)
(* wait, the cancel flag beside the queue, and the poll timer.             *)
(*                                                                         *)
(* One request is one call of dali_bus_submit, dali_bus_submit_sync or     *)
(* dali_bus_cancel by some adapter task.  What a command does on the wire  *)
(* is left to the other modules: here a short command is one action and a  *)
(* long operation is a number of steps.                                    *)
(***************************************************************************)
EXTENDS Naturals, Sequences

CONSTANTS
  Request,      \* the calls adapter tasks make; each is made at most once
  Kinds,        \* the kinds of command those calls may carry
  QueueDepth,   \* DALI_BUS_QUEUE_DEPTH
  MaxSteps,     \* bound: steps of one long operation that do not end it
  PollEnabled,  \* cfg.poll_interval_s > 0
  ScanOnBoot,   \* cfg.scan_on_boot
  None          \* a null pointer, or an outcome not yet written

LongKind == {"scan", "commission", "poll_all", "configure", "identify"}
UrgentKind == {"cancel", "set_level"}
Kind == LongKind \cup UrgentKind \cup {"query"}

Outcome == {"ran", "ack", "busy", "started", "declined", "finished", "cancelled"}

\* Commands the gateway submits to itself; none has a caller.
Internal == {"boot_scan", "rescan", "poll"}
Message == Request \cup Internal

ASSUME DepthAssumption == QueueDepth \in Nat \ {0}
ASSUME StepsAssumption == MaxSteps \in Nat
ASSUME KindsAssumption == Kinds \subseteq Kind
ASSUME FlagsAssumption == PollEnabled \in BOOLEAN /\ ScanOnBoot \in BOOLEAN
ASSUME NamesAssumption ==
  /\ Request \cap Internal = {}
  /\ None \notin Message \cup Kind \cup Outcome

VARIABLES
  queue,      \* s_queue, the message at its front first
  call,       \* where each request stands on its caller's side
  kind,       \* cmd.kind of each request, None until it is made
  refs,       \* bus_reply_t.refs of each synchronous request, 0 once freed
  done,       \* bus_reply_t.done, the binary semaphore
  res,        \* bus_reply_t.res
  published,  \* how many GW_EVENT_RESULT carried the request's id (capped at 2)
  pc,         \* where the bus task stands
  hand,       \* the message it holds across steps, None otherwise
  out,        \* the outcome it is about to hand to hand's caller
  next,       \* where it goes once that caller is answered
  served,     \* served_ordinary of serve_between_steps
  forever,    \* it waits on the queue with portMAX_DELAY
  rescan,     \* the local of bus_task: a scan must follow the operation that ended
  opKind,     \* s_ctx.op.kind, None while idle
  opOwner,    \* the message that began the operation
  opWaiter,   \* s_ctx.op.reply_handle
  opCancel,   \* s_ctx.op.cancel
  opLeft,     \* steps the operation may still take without ending
  flag,       \* s_cancel_requested
  powered,    \* s_ctx.powered
  timer,      \* s_next_poll_us: 0 ("off"), ahead ("armed") or reached ("due")
  boot,       \* progress of dali_bus_init
  legit,      \* history: a cancel was under way at some time during the operation
  lag,        \* history: 0 until dali_bus_cancel is called during the operation,
              \*   then 1 plus the steps taken since (capped at 3)
  declined    \* history: the requests whose long operation ended as it began

callVars == <<call, kind>>
replyVars == <<refs, done, res>>
taskVars == <<pc, hand, out, next, served, forever, rescan>>
opVars == <<opKind, opOwner, opWaiter, opCancel, opLeft, legit, lag,
            declined>>
clockVars == <<powered, timer, boot>>
vars == <<queue, callVars, replyVars, published, taskVars, opVars, flag, clockVars>>

CallState == {"new", "cancelling", "posted", "refused", "waiting", "holding",
              "answered", "timedout"}
Pc == {"off", "top", "recv", "poll", "drain", "putback", "step", "end", "clear",
       "write", "give", "release"}
Resume == {"top", "drain", "step", "end"}  \* where the task goes once a caller is answered

KindOf(m) == IF m \in Request THEN kind[m]
             ELSE IF m = "poll" THEN "poll_all" ELSE "scan"

IsLong(m) == KindOf(m) \in LongKind
IsUrgent(m) == KindOf(m) \in UrgentKind

\* The request was made with dali_bus_submit_sync, so its message carries a reply.
Sync(r) == call[r] \in {"waiting", "holding", "answered", "timedout"}
HasReply(m) == m \in Request /\ Sync(m)

Holds(q, m) == \E i \in 1..Len(q) : q[i] = m
InQueue(m) == Holds(queue, m)

DataOK ==
  /\ queue \in Seq(Message) /\ Len(queue) <= QueueDepth
  /\ call \in [Request -> CallState]
  /\ kind \in [Request -> Kinds \cup {None}]
  /\ refs \in [Request -> 0..2]
  /\ done \in [Request -> BOOLEAN]
  /\ res \in [Request -> Outcome \cup {None}]
  /\ published \in [Request -> 0..2]

TaskOK ==
  /\ pc \in Pc
  /\ hand \in Message \cup {None}
  /\ out \in Outcome \cup {None}
  /\ next \in Resume
  /\ served \in BOOLEAN /\ forever \in BOOLEAN /\ rescan \in BOOLEAN

OperationOK ==
  /\ opKind \in LongKind \cup {None}
  /\ opOwner \in Message \cup {None}
  /\ opWaiter \in Request \cup {None}
  /\ opCancel \in BOOLEAN /\ opLeft \in 0..MaxSteps
  /\ legit \in BOOLEAN /\ lag \in 0..3
  /\ declined \subseteq Request

ClockOK ==
  /\ flag \in BOOLEAN /\ powered \in BOOLEAN
  /\ timer \in {"off", "armed", "due"}
  /\ boot \in {"create", "arm", "scan", "done"}

TypeOK == DataOK /\ TaskOK /\ OperationOK /\ ClockOK

Init ==
  /\ queue = <<>>
  /\ call = [r \in Request |-> "new"]
  /\ kind = [r \in Request |-> None]
  /\ refs = [r \in Request |-> 0]
  /\ done = [r \in Request |-> FALSE]
  /\ res = [r \in Request |-> None]
  /\ published = [r \in Request |-> 0]
  /\ pc = "off" /\ hand = None /\ out = None /\ next = "top"
  /\ served = FALSE /\ forever = FALSE /\ rescan = FALSE
  /\ opKind = None /\ opOwner = None /\ opWaiter = None
  /\ opCancel = FALSE /\ opLeft = 0
  /\ flag = FALSE /\ powered = FALSE /\ timer = "off" /\ boot = "create"
  /\ legit = FALSE /\ lag = 0 /\ declined = {}

-----------------------------------------------------------------------------
(* The adapters' side: dali_bus_submit, _submit_sync and _cancel. *)

\* xQueueSend with no wait: the message joins the back, or the call is refused.
HasRoomOffByOne == Len(queue) <= QueueDepth  \* mutant

HasRoom == Len(queue) < QueueDepth

CanCall(r) == boot = "done" /\ call[r] = "new"

Submit(r, k) ==
  /\ CanCall(r)
  /\ kind' = [kind EXCEPT ![r] = k]
  /\ IF HasRoom
     THEN /\ queue' = Append(queue, r)
          /\ call' = [call EXCEPT ![r] = "posted"]
     ELSE /\ call' = [call EXCEPT ![r] = "refused"]
          /\ UNCHANGED queue
  /\ UNCHANGED <<replyVars, published, taskVars, opVars, flag, clockVars>>

\* A fresh reply counts the caller and the bus task.  When the queue is full
\* both references are dropped again, which frees it.
SubmitSync(r, k) ==
  /\ CanCall(r)
  /\ k # "cancel"
  /\ kind' = [kind EXCEPT ![r] = k]
  /\ IF HasRoom
     THEN /\ queue' = Append(queue, r)
          /\ refs' = [refs EXCEPT ![r] = 2]
          /\ call' = [call EXCEPT ![r] = "waiting"]
     ELSE /\ call' = [call EXCEPT ![r] = "refused"]
          /\ UNCHANGED <<queue, refs>>
  /\ UNCHANGED <<done, res, published, taskVars, opVars, flag, clockVars>>

\* xSemaphoreTake succeeds and the caller copies the result out.
TakeAnswer(r) ==
  /\ call[r] = "waiting" /\ done[r]
  /\ done' = [done EXCEPT ![r] = FALSE]
  /\ call' = [call EXCEPT ![r] = "holding"]
  /\ UNCHANGED <<queue, kind, refs, res, published, taskVars, opVars, flag, clockVars>>

FreeAtOnce(r) == refs' = [refs EXCEPT ![r] = 0]  \* mutant: whoever leaves first frees

Release(r) == refs' = [refs EXCEPT ![r] = @ - 1]

CallerReleases(r) ==
  /\ call[r] = "holding"
  /\ Release(r)
  /\ call' = [call EXCEPT ![r] = "answered"]
  /\ UNCHANGED <<queue, kind, done, res, published, taskVars, opVars, flag, clockVars>>

\* xSemaphoreTake gives up: the result, if it ever comes, is the task's to free.
TimeOut(r) ==
  /\ call[r] = "waiting" /\ ~done[r]
  /\ Release(r)
  /\ call' = [call EXCEPT ![r] = "timedout"]
  /\ UNCHANGED <<queue, kind, done, res, published, taskVars, opVars, flag, clockVars>>

\* dali_bus_cancel stores the flag first ...
CancelStore(r) ==
  /\ CanCall(r)
  /\ "cancel" \in Kinds
  /\ kind' = [kind EXCEPT ![r] = "cancel"]
  /\ call' = [call EXCEPT ![r] = "cancelling"]
  /\ flag' = TRUE
  /\ legit' = TRUE
  /\ lag' = IF opKind # None /\ lag = 0 THEN 1 ELSE lag
  /\ UNCHANGED <<queue, replyVars, published, taskVars, clockVars,
                 opKind, opOwner, opWaiter, opCancel, opLeft, declined>>

\* ... and then submits the CANCEL command, which a full queue refuses.
CancelPost(r) ==
  /\ call[r] = "cancelling"
  /\ IF HasRoom
     THEN /\ queue' = Append(queue, r)
          /\ call' = [call EXCEPT ![r] = "posted"]
     ELSE /\ call' = [call EXCEPT ![r] = "refused"]
          /\ UNCHANGED queue
  /\ UNCHANGED <<kind, replyVars, published, taskVars, opVars, flag, clockVars>>

\* Some cancel has been asked for and not yet been taken off the queue.
CancelUnderWay ==
  \E r \in Request : kind[r] = "cancel" /\ (call[r] = "cancelling" \/ InQueue(r))

-----------------------------------------------------------------------------
(* Answering. *)

Publish(m) ==
  published' = IF m \in Request /\ published[m] < 2
               THEN [published EXCEPT ![m] = @ + 1] ELSE published

\* Mutants: the result is not copied before the caller is woken, or a caller is
\* forgotten when its command is rejected, or when its operation is cancelled.
AnswerNothing(m, o, c) ==
  IF HasReply(m)
  THEN hand' = m /\ out' = o /\ next' = c /\ pc' = "give"
  ELSE hand' = None /\ out' = None /\ next' = "top" /\ pc' = c

AnswerUnless(m, o, c, forgotten) ==
  IF HasReply(m) /\ o # forgotten
  THEN hand' = m /\ out' = o /\ next' = c /\ pc' = "write"
  ELSE hand' = None /\ out' = None /\ next' = "top" /\ pc' = c

AnswerUnlessBusy(m, o, c) == AnswerUnless(m, o, c, "busy")

\* Hand outcome o to m's caller, if one waits, and go on at c.
Answer(m, o, c) ==
  IF HasReply(m)
  THEN hand' = m /\ out' = o /\ next' = c /\ pc' = "write"
  ELSE hand' = None /\ out' = None /\ next' = "top" /\ pc' = c

\* reply->res = *res; then xSemaphoreGive; then reply_release.  A caller may
\* run, or time out, between any two of them.
WriteResult ==
  /\ pc = "write"
  /\ res' = [res EXCEPT ![hand] = out]
  /\ pc' = "give"
  /\ UNCHANGED <<queue, callVars, refs, done, published, hand, out, next, served,
                 forever, rescan, opVars, flag, clockVars>>

GiveSemaphore ==
  /\ pc = "give"
  /\ done' = [done EXCEPT ![hand] = TRUE]
  /\ pc' = "release"
  /\ UNCHANGED <<queue, callVars, refs, res, published, hand, out, next, served,
                 forever, rescan, opVars, flag, clockVars>>

TaskReleases ==
  /\ pc = "release"
  /\ Release(hand)
  /\ pc' = next /\ hand' = None /\ out' = None /\ next' = "top"
  /\ UNCHANGED <<queue, callVars, done, res, published, served, forever, rescan,
                 opVars, flag, clockVars>>

-----------------------------------------------------------------------------
(* Commands. *)

\* bus_exec_short under the registry lock, then deliver.  An answered query
\* proves the bus powered, and a bus check decides it; a level frame has no reply.
RunCommand(m, c) ==
  /\ powered' \in IF IsUrgent(m) THEN {powered} ELSE BOOLEAN
  /\ Publish(m)
  /\ Answer(m, "ran", c)
  /\ UNCHANGED opVars

Acknowledge(m, c) ==
  /\ Publish(m)
  /\ Answer(m, "ack", c)
  /\ UNCHANGED powered

Reject(m, c) ==
  /\ Publish(m)
  /\ Answer(m, "busy", c)
  /\ UNCHANGED <<powered, opVars>>

HoldsNobody(m) == FALSE  \* mutant

\* The caller of configure is parked until the operation ends.
HoldsCallerUntilDone(m) == KindOf(m) = "configure"

BeginLong(m) ==
  /\ opKind' = KindOf(m) /\ opOwner' = m
  /\ opCancel' = FALSE /\ opLeft' = MaxSteps
  /\ legit' = CancelUnderWay /\ lag' = 0
  /\ UNCHANGED declined
  /\ IF HoldsCallerUntilDone(m)
     THEN /\ opWaiter' = IF HasReply(m) THEN m ELSE None
          /\ hand' = None /\ out' = None /\ next' = "top" /\ pc' = "top"
     ELSE /\ opWaiter' = None
          /\ Answer(m, "started", "top")

Declinable == {"commission", "configure", "identify"}

\* bus_long_begin leaves no operation running: an unconfirmed commission, a
\* configure with nothing to write, or an identify that took a single frame.
DeclineLong(m) ==
  /\ KindOf(m) \in Declinable
  /\ opKind' = None /\ opOwner' = m /\ opWaiter' = None
  /\ opCancel' = FALSE /\ opLeft' = 0
  /\ declined' = declined \cup ({m} \cap Request)
  /\ UNCHANGED <<legit, lag>>
  /\ Answer(m, "declined", "top")

\* Mutant: the acknowledgement is published too.
StartLongAnnounced(m) ==
  /\ BeginLong(m) \/ DeclineLong(m)
  /\ Publish(m)
  /\ UNCHANGED powered

\* start_long: the acknowledgement is never published as a result.
StartLong(m) ==
  /\ BeginLong(m) \/ DeclineLong(m)
  /\ UNCHANGED <<published, powered>>

-----------------------------------------------------------------------------
(* The loop of bus_task. *)

SeesOnlyCommand == opCancel             \* mutant: the flag is not read

\* What the loop reads of the cancel flag, and the wait it derives from s_next_poll_us.
SeesCancel == opCancel \/ flag
WaitsForever == timer = "off"

\* The head of the loop: either a step of the running operation comes next,
\* after a look at the cancel flag, or a wait on the queue whose length is
\* computed here from s_next_poll_us.
LoopHead ==
  /\ pc = "top"
  /\ IF opKind # None
     THEN /\ opCancel' = SeesCancel
          /\ served' = FALSE
          /\ pc' = "drain"
          /\ UNCHANGED forever
     ELSE /\ forever' = WaitsForever
          /\ pc' = "recv"
          /\ UNCHANGED <<opCancel, served>>
  /\ UNCHANGED <<queue, callVars, replyVars, published, hand, out, next, rescan,
                 opKind, opOwner, opWaiter, opLeft, legit, lag, declined, flag, clockVars>>

Receive(m) == queue # <<>> /\ m = Head(queue) /\ queue' = Tail(queue)

\* A message reaches the idle task.
IdleReceive(m) ==
  /\ pc = "recv"
  /\ Receive(m)
  /\ \/ KindOf(m) = "cancel" /\ Acknowledge(m, "top") /\ UNCHANGED opVars
     \/ IsLong(m) /\ StartLong(m)
     \/ KindOf(m) # "cancel" /\ ~IsLong(m) /\ RunCommand(m, "top")
  /\ UNCHANGED <<callVars, replyVars, served, forever, rescan, flag, timer, boot>>

\* The wait times out: the poll fell due and nothing was queued.
IdleTimeout ==
  /\ pc = "recv" /\ queue = <<>> /\ ~forever /\ timer = "due"
  /\ pc' = "poll"
  /\ UNCHANGED <<queue, callVars, replyVars, published, hand, out, next, served,
                 forever, rescan, opVars, flag, clockVars>>

PollPoweredOnly ==  \* mutant: on an unpowered bus the deadline is not moved on
  /\ pc = "poll"
  /\ \/ powered /\ timer' = "armed" /\ StartLong("poll")
     \/ /\ ~powered
        /\ pc' = "top"
        /\ UNCHANGED <<timer, published, hand, out, next, opVars>>
  /\ UNCHANGED <<queue, callVars, replyVars, served, forever, rescan, powered, flag, boot>>

\* A poll of a powered bus, or one bus check of an unpowered one.
Poll ==
  /\ pc = "poll"
  /\ timer' = "armed"
  /\ \/ powered /\ StartLong("poll")
     \/ /\ ~powered
        /\ powered' \in BOOLEAN
        /\ pc' = "top"
        /\ UNCHANGED <<published, hand, out, next, opVars>>
  /\ UNCHANGED <<queue, callVars, replyVars, served, forever, rescan, flag, boot>>

\* serve_between_steps: the queue is drained between two steps of an operation.
DrainEmpty ==
  /\ pc = "drain" /\ queue = <<>>
  /\ pc' = "step"
  /\ UNCHANGED <<queue, callVars, replyVars, published, hand, out, next, served,
                 forever, rescan, opVars, flag, clockVars>>

AdmitsAlways(m) == ~IsLong(m) /\ KindOf(m) # "cancel"  \* mutant

\* The running operation lets this message through to the bus.
Admits(m) == ~IsLong(m) /\ KindOf(m) # "cancel" /\ opKind # "commission"

DrainCancel(m) ==
  /\ KindOf(m) = "cancel"
  /\ opCancel' = TRUE
  /\ legit' = TRUE
  /\ Acknowledge(m, "drain")
  /\ UNCHANGED <<served, opKind, opOwner, opWaiter, opLeft, lag, declined>>

\* Mutant: a long command replaces the operation that runs.
DrainBegins(m) ==
  /\ IsLong(m)
  /\ StartLong(m)
  /\ UNCHANGED served

DrainReject(m) ==
  /\ KindOf(m) # "cancel" /\ ~Admits(m)
  /\ Reject(m, "drain")
  /\ UNCHANGED served

DrainUrgent(m) ==
  /\ Admits(m) /\ IsUrgent(m)
  /\ RunCommand(m, "drain")
  /\ UNCHANGED served

DrainOrdinary(m) ==
  /\ Admits(m) /\ ~IsUrgent(m) /\ ~served
  /\ served' = TRUE
  /\ RunCommand(m, "drain")

\* A second ordinary command: taken off the queue, to be put back in front.
DrainStop(m) ==
  /\ Admits(m) /\ ~IsUrgent(m) /\ served
  /\ hand' = m /\ pc' = "putback"
  /\ UNCHANGED <<out, next, served, published, powered, opVars>>

Drain(m) ==
  /\ pc = "drain"
  /\ Receive(m)
  /\ \/ DrainCancel(m)
     \/ DrainReject(m)
     \/ DrainUrgent(m)
     \/ DrainOrdinary(m)
     \/ DrainStop(m)
  /\ UNCHANGED <<callVars, replyVars, forever, rescan, flag, timer, boot>>

ToBack(m) == queue' = Append(queue, m)  \* mutant

\* xQueueSendToFront.
ToFront(m) == queue' = <<m>> \o queue

\* Another task may have taken the place in the meantime.
PutBack ==
  /\ pc = "putback"
  /\ IF HasRoom
     THEN /\ ToFront(hand)
          /\ hand' = None /\ pc' = "step"
          /\ UNCHANGED <<out, next, published, powered, opVars>>
     ELSE /\ Reject(hand, "step")
          /\ UNCHANGED queue
  /\ UNCHANGED <<callVars, replyVars, served, forever, rescan, flag, timer, boot>>

Advance == opLeft' = opLeft - 1

\* bus_long_step does one transaction and the operation goes on ...
StepOn ==
  /\ pc = "step" /\ ~opCancel /\ opLeft > 0
  /\ Advance
  /\ powered' \in IF opKind = "scan" THEN {powered, TRUE} ELSE {powered}
  /\ lag' = IF lag \in 1..2 THEN lag + 1 ELSE lag
  /\ pc' = "top"
  /\ UNCHANGED <<queue, callVars, replyVars, published, hand, out, next, served, forever,
                 rescan, opKind, opOwner, opWaiter, opCancel, legit, declined, flag, timer,
                 boot>>

AnnounceUnlessCancelled == IF opCancel THEN UNCHANGED published ELSE Publish(opOwner)  \* mutant

\* The end of the operation is published under the id of the command that began it.
AnnounceEnd == Publish(opOwner)

\* ... or it ends, and finish_long publishes and answers the parked caller.
StepDone ==
  /\ pc = "step"
  /\ rescan' = (opKind = "commission" /\ ~opCancel)
  /\ AnnounceEnd
  /\ opWaiter' = None
  /\ Answer(opWaiter, IF opCancel THEN "cancelled" ELSE "finished", "end")
  /\ UNCHANGED <<queue, callVars, replyVars, served, forever, opKind, opOwner, opCancel,
                 opLeft, legit, lag, declined, flag, clockVars>>

\* The operation is over; the scan that follows a commissioning is submitted
\* like any other command, and what the queue says of it is ignored.
EndLong ==
  /\ pc = "end"
  /\ opKind' = None
  /\ queue' = IF rescan /\ HasRoom THEN Append(queue, "rescan") ELSE queue
  /\ pc' = "clear"
  /\ UNCHANGED <<callVars, replyVars, published, hand, out, next, served, forever, rescan,
                 opOwner, opWaiter, opCancel, opLeft, legit, lag, declined, flag, clockVars>>

ClearFlag ==
  /\ pc = "clear"
  /\ flag' = FALSE
  /\ rescan' = FALSE
  /\ pc' = "top"
  /\ UNCHANGED <<queue, callVars, replyVars, published, hand, out, next, served, forever,
                 opVars, clockVars>>

-----------------------------------------------------------------------------
(* dali_bus_init, the clock, and the specification. *)

CreateTask ==
  /\ boot = "create"
  /\ boot' = "arm" /\ pc' = "top"
  /\ UNCHANGED <<queue, callVars, replyVars, published, hand, out, next, served, forever,
                 rescan, opVars, flag, powered, timer>>

ArmPollTimer ==
  /\ boot = "arm"
  /\ boot' = "scan"
  /\ timer' = IF PollEnabled THEN "armed" ELSE "off"
  /\ UNCHANGED <<queue, callVars, replyVars, published, taskVars, opVars, flag, powered>>

SubmitBootScan ==
  /\ boot = "scan"
  /\ boot' = "done"
  /\ queue' = IF ScanOnBoot /\ HasRoom THEN Append(queue, "boot_scan") ELSE queue
  /\ UNCHANGED <<callVars, replyVars, published, taskVars, opVars, flag, powered, timer>>

PollFallsDue ==
  /\ timer = "armed"
  /\ timer' = "due"
  /\ UNCHANGED <<queue, callVars, replyVars, published, taskVars, opVars, flag, powered, boot>>

BusInit == CreateTask \/ ArmPollTimer \/ SubmitBootScan

BusTask ==
  \/ LoopHead
  \/ \E m \in Message : IdleReceive(m) \/ Drain(m)
  \/ IdleTimeout \/ Poll
  \/ DrainEmpty \/ PutBack
  \/ StepOn \/ StepDone \/ EndLong \/ ClearFlag
  \/ WriteResult \/ GiveSemaphore \/ TaskReleases

Caller(r) ==
  \/ \E k \in Kinds : Submit(r, k) \/ SubmitSync(r, k)
  \/ CancelStore(r) \/ CancelPost(r)
  \/ TakeAnswer(r) \/ CallerReleases(r) \/ TimeOut(r)

Next ==
  \/ BusInit
  \/ PollFallsDue
  \/ BusTask
  \/ \E r \in Request : Caller(r)

Spec == Init /\ [][Next]_vars

\* The bus task runs above every adapter task and each of its waits is bounded,
\* and adapter tasks finish the call they are in.  Nobody has to make a call, and
\* no caller has to time out.
Fairness ==
  /\ WF_vars(BusInit)
  /\ WF_vars(PollFallsDue)
  /\ WF_vars(BusTask)
  /\ \A r \in Request : WF_vars(CancelPost(r) \/ TakeAnswer(r) \/ CallerReleases(r))

FairSpec == Spec /\ Fairness

-----------------------------------------------------------------------------
(* What the bus task promises. *)

\* The two holders a reply can have: the caller inside dali_bus_submit_sync, and
\* the task, through a queued message, the message in hand or the parked handle.
CallerHolds(r) == call[r] \in {"waiting", "holding"}
TaskHolds(r) == Sync(r) /\ (InQueue(r) \/ hand = r \/ opWaiter = r)

\* A reply is freed exactly when nobody refers to it: its count is the number of
\* its holders, whatever the order of answer, wake-up and time-out
\* (reply_create, reply_release, deliver, start_long, finish_long, submit_sync).
RefsCountHolders ==
  \A r \in Request : refs[r] = (IF CallerHolds(r) THEN 1 ELSE 0) + (IF TaskHolds(r) THEN 1 ELSE 0)

\* A caller that wakes finds a result in the reply, never an unwritten one
\* (deliver writes before it gives).
NoEmptyAnswer ==
  \A r \in Request : call[r] \in {"holding", "answered"} => res[r] # None

\* The caller of configure gets the outcome, not an acknowledgement
\* (holds_caller_until_done).
ConfigureGetsOutcome ==
  \A r \in Request : kind[r] = "configure" => res[r] # "started"

\* No request is announced twice on the event loop: a client that watches the
\* results never sees "scan ok" at the start and again at the end (start_long).
PublishedAtMostOnce == \A r \in Request : published[r] <= 1

\* Who submitted a command without waiting for it learns from the event loop what became
\* of it, also of one rejected, put back or cancelled, and of an operation at its end.
\* Only a long command that ended as it began is not announced: an unconfirmed
\* commission, an empty configure, an identify of one frame (deliver, finish_long, start_long).
OutcomeAnnounced ==
  \A r \in Request :
    call[r] = "posted" /\ ~InQueue(r) /\ hand # r /\ ~(opKind # None /\ opOwner = r)
      => published[r] = 1 \/ r \in declined

\* After a call of dali_bus_cancel() the running operation takes at most one more
\* step, even when the CANCEL command found the queue full (bus_task reads the flag).
CancelIsPrompt == opKind # None => lag <= 2

\* While gears are in the initialise state an ordinary command would not reach
\* them: no caller is told that one ran (serve_between_steps).
NoSuccessWhileCommissioning == opKind = "commission" => out # "ran"

\* Commands not yet served, oldest first.
Unserved == IF pc = "putback" THEN <<hand>> \o queue ELSE queue
Ahead(a, b) == \E i, j \in DOMAIN Unserved : i < j /\ Unserved[i] = a /\ Unserved[j] = b

\* Commands are served in the order they were submitted: none overtakes another,
\* not even when one is put back (serve_between_steps, "it keeps its place").
NoOvertaking ==
  [][\A a, b \in Request : Ahead(a, b) /\ (\E i \in DOMAIN Unserved' : Unserved'[i] = a)
        => Ahead(a, b)']_vars

\* The idle task waits for a message without end although the timer is set: it looked at
\* s_next_poll_us before dali_bus_init, which creates the task first, had written it.
SleepsPastTimer == pc = "recv" /\ forever /\ timer # "off"

\* A poll that fell due is served, and the timer armed for the next one: while
\* commands keep coming it waits, but the idle task does not forget it.  That takes
\* the scan at boot, or a task that did not fall asleep before the timer was set
\* (bus_task, dali_bus_init).
PollRuns == timer = "due" /\ (ScanOnBoot \/ ~SleepsPastTimer) ~> timer = "armed"

\* The idle task does not wait for ever beside an armed timer, unless a message is there or
\* the scan at the start, which comes after the arming, is about to be (bus_task, dali_bus_init).
PollNotForgotten ==
  ScanOnBoot /\ pc = "recv" /\ forever => timer = "off" \/ queue # <<>> \/ boot = "scan"

-----------------------------------------------------------------------------
(* The bus task implements CommandService.  A command is pending from the     *)
(* moment the queue takes it until it is rejected, run or begun; an operation *)
(* is over once finish_long has published its result.                         *)

Finishing == pc = "end" \/ next = "end"

Running(r) == opKind # None /\ opOwner = r

PhaseOf(r) ==
  IF call[r] \in {"new", "cancelling"} THEN "new"
  ELSE IF call[r] = "refused" THEN "refused"
  ELSE IF InQueue(r) \/ (pc = "putback" /\ hand = r) THEN "pending"
  ELSE IF Running(r) /\ ~Finishing THEN "running"
  ELSE "settled"

CallerOf(r) ==
  CASE call[r] = "waiting" -> "waiting"
    [] call[r] \in {"holding", "answered"} -> "answered"
    [] call[r] = "timedout" -> "gone"
    [] OTHER -> "none"

RunnerOf ==
  IF opKind = None \/ Finishing THEN None
  ELSE IF opOwner \in Request THEN opOwner ELSE "gateway"

Service == INSTANCE CommandService WITH
  Nobody <- None, Gateway <- "gateway",
  phase <- [r \in Request |-> PhaseOf(r)],
  caller <- [r \in Request |-> CallerOf(r)],
  runner <- RunnerOf

\* Every step of the bus and of its callers is a step the service allows:
\* one long operation at a time, each command settled once, no early answer.
ImplementsService == Service!Spec

\* And the service's progress follows from the scheduling of the bus task.
ImplementsProgress == Service!FairSpec
=============================================================================
