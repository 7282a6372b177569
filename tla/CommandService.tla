--------------------------- MODULE CommandService ---------------------------
(***************************************************************************)
(* What components/dali_bus promises to the adapters, without its queue,   *)
(* its task or its replies: every command is refused on the spot or        *)
(* accepted; an accepted one is settled once, either at once or by way of  *)
(* being the single long operation in progress; and a caller that waits    *)
(* hears of its command only when it is no longer pending.                 *)
(***************************************************************************)
CONSTANTS
  Request,  \* the calls adapter tasks make
  Nobody,   \* no long operation is in progress
  Gateway   \* the one in progress is the gateway's own (a poll or a scan)

VARIABLES
  phase,    \* what became of each request
  caller,   \* whether a task waits for it
  runner    \* whose long operation is in progress

svars == <<phase, caller, runner>>

Phase == {"new", "refused", "pending", "running", "settled"}
Waiting == {"none", "waiting", "answered", "gone"}

TypeOK ==
  /\ phase \in [Request -> Phase]
  /\ caller \in [Request -> Waiting]
  /\ runner \in Request \cup {Nobody, Gateway}

Init ==
  /\ phase = [r \in Request |-> "new"]
  /\ caller = [r \in Request |-> "none"]
  /\ runner = Nobody

Move(r, from, to) == phase[r] = from /\ phase' = [phase EXCEPT ![r] = to]

Refuse(r) == Move(r, "new", "refused") /\ UNCHANGED <<caller, runner>>

Accept(r) ==
  /\ Move(r, "new", "pending")
  /\ \E w \in {"none", "waiting"} : caller' = [caller EXCEPT ![r] = w]
  /\ UNCHANGED runner

Settle(r) == Move(r, "pending", "settled") /\ UNCHANGED <<caller, runner>>

Begin(r) ==
  /\ runner = Nobody
  /\ Move(r, "pending", "running")
  /\ runner' = r
  /\ UNCHANGED caller

Finish(r) ==
  /\ runner = r
  /\ Move(r, "running", "settled")
  /\ runner' = Nobody
  /\ UNCHANGED caller

GatewayBegin == runner = Nobody /\ runner' = Gateway /\ UNCHANGED <<phase, caller>>
GatewayFinish == runner = Gateway /\ runner' = Nobody /\ UNCHANGED <<phase, caller>>

Return(r) ==
  /\ caller[r] = "waiting" /\ phase[r] \in {"running", "settled"}
  /\ caller' = [caller EXCEPT ![r] = "answered"]
  /\ UNCHANGED <<phase, runner>>

GiveUp(r) ==
  /\ caller[r] = "waiting"
  /\ caller' = [caller EXCEPT ![r] = "gone"]
  /\ UNCHANGED <<phase, runner>>

Next ==
  \/ \E r \in Request : \/ Refuse(r) \/ Accept(r) \/ Settle(r)
                        \/ Begin(r) \/ Finish(r) \/ Return(r) \/ GiveUp(r)
  \/ GatewayBegin \/ GatewayFinish

Spec == Init /\ [][Next]_svars

\* Nothing accepted stays pending, and no operation runs for ever.
Progress ==
  \A r \in Request : /\ WF_svars(Settle(r) \/ Begin(r))
                     /\ WF_svars(Finish(r))
                     /\ WF_svars(Return(r) \/ GiveUp(r))

FairSpec == Spec /\ Progress
=============================================================================
