---------------------------- MODULE NetWifiProofs ----------------------------
(***************************************************************************)
(* Theorems about NetWifi, for any number of failures and overruns: the    *)
(* gateway can always be reached or is about to be, and no event is lost   *)
(* as soon as the queue has four slots.                                    *)
(***************************************************************************)
EXTENDS NetWifi, SequenceTheorems, TLAPS

-----------------------------------------------------------------------------
(* The invariants. *)

\* The events that may be waiting, by what the station is at: those of one association, of
\* which the task has read the first ones.
Waiting ==
  /\ link \in {"stopped", "connecting", "unleased"} => queue = <<>>
  /\ link = "associated" => queue \in {<<>>, <<"sta_connected">>}
  /\ link = "up" => queue \in {<<>>, <<"got_ip">>, <<"sta_connected", "got_ip">>}
  /\ link = "idle" =>
       queue \in {<<>>, <<"sta_start">>, <<"sta_disconnected">>,
                  <<"sta_connected", "sta_disconnected">>, <<"got_ip", "sta_disconnected">>,
                  <<"sta_connected", "got_ip", "sta_disconnected">>}

\* An attempt is scheduled only between two associations.
OneAttempt == retry # "off" => link = "idle" /\ queue = <<>>

\* What the state will be once the events are read is what it is when none is left.
Told ==
  haveCreds /\ pc \notin {"configure", "start"} =>
    /\ link \notin {"up", "unleased"} /\ queue \in {<<>>, <<"sta_start">>, <<"sta_connected">>}
         => state # "sta_connected"
    /\ link \in {"up", "unleased"} /\ queue = <<>> => state = "sta_connected"

\* Before the radio is started there is nothing to take back.
Booting ==
  pc \in {"configure", "start"} =>
    state = "boot" /\ ap = FALSE /\ link = "stopped" /\ fallback = "off" /\ queue = <<>>

\* The access point goes down only while the gateway is connected.
WayIn ==
  /\ AlwaysAWayIn
  /\ grace # "off" \/ pc \in {"join", "drop"} => state = "sta_connected"

\* One responder runs, beside those that overran, from the start to the join.
Responder ==
  /\ ~ap => ~dnsRun /\ pc # "join"
  /\ dnsRun => exited # "given" /\ pc \notin {"join", "drop"} /\ dnsTasks <= overruns + 1
  /\ pc = "join" /\ exited # "given" => dnsTasks <= overruns + 1
  /\ ~dnsRun /\ (pc # "join" \/ exited = "given") => dnsTasks <= overruns

Radio == link # "stopped" \/ pc = "start" => "ap" \in configured

-----------------------------------------------------------------------------
(* Short sequences. *)

LEMMA Tails ==
  ASSUME NEW a \in Event, NEW b \in Event, NEW c \in Event
  PROVE  /\ Tail(<<a>>) = <<>> /\ Head(<<a>>) = a
         /\ Tail(<<a, b>>) = <<b>> /\ Head(<<a, b>>) = a
         /\ Tail(<<a, b, c>>) = <<b, c>> /\ Head(<<a, b, c>>) = a
<1>1. Tail(<<a>>) = <<>> /\ Head(<<a>>) = a
  OBVIOUS
<1>2. Tail(<<a, b>>) = <<b>> /\ Head(<<a, b>>) = a
  OBVIOUS
<1>3. Tail(<<a, b, c>>) = <<b, c>> /\ Head(<<a, b, c>>) = a
  OBVIOUS
<1> QED BY <1>1, <1>2, <1>3

LEMMA Appends ==
  ASSUME NEW a \in Event, NEW b \in Event, NEW c \in Event
  PROVE  Append(<<>>, a) = <<a>> /\ Append(<<a>>, b) = <<a, b>> /\ Append(<<a, b>>, c) = <<a, b, c>>
<1>1. Append(<<>>, a) = <<a>>
  OBVIOUS
<1>2. Append(<<a>>, b) = <<a, b>>
  <2> DEFINE s == Append(<<a>>, b)
             t == <<a, b>>
  <2>1. s \in Seq(Event) /\ t \in Seq(Event) /\ Len(s) = 2 /\ Len(t) = 2
    OBVIOUS
  <2>2. s[1] = t[1] /\ s[2] = t[2]
    OBVIOUS
  <2>3. \A i \in 1..Len(s) : s[i] = t[i]
    BY <2>1, <2>2
  <2> HIDE DEF s, t
  <2>4. s = t
    BY <2>1, <2>3, SeqEqual
  <2> QED BY <2>4 DEF s, t
<1>3. Append(<<a, b>>, c) = <<a, b, c>>
  <2> DEFINE s == Append(<<a, b>>, c)
             t == <<a, b, c>>
  <2>1. s \in Seq(Event) /\ t \in Seq(Event) /\ Len(s) = 3 /\ Len(t) = 3
    OBVIOUS
  <2>2. s[1] = t[1] /\ s[2] = t[2] /\ s[3] = t[3]
    OBVIOUS
  <2>3. \A i \in 1..Len(s) : s[i] = t[i]
    BY <2>1, <2>2
  <2> HIDE DEF s, t
  <2>4. s = t
    BY <2>1, <2>3, SeqEqual
  <2> QED BY <2>4 DEF s, t
<1> QED BY <1>1, <1>2, <1>3

\* The sequences that may wait, taken from one end and from the other.
LEMMA Reads ==
  /\ Head(<<"sta_start">>) = "sta_start" /\ Tail(<<"sta_start">>) = <<>>
  /\ Head(<<"sta_connected">>) = "sta_connected" /\ Tail(<<"sta_connected">>) = <<>>
  /\ Head(<<"got_ip">>) = "got_ip" /\ Tail(<<"got_ip">>) = <<>>
  /\ Head(<<"sta_disconnected">>) = "sta_disconnected" /\ Tail(<<"sta_disconnected">>) = <<>>
  /\ Head(<<"sta_connected", "got_ip">>) = "sta_connected"
  /\ Tail(<<"sta_connected", "got_ip">>) = <<"got_ip">>
  /\ Head(<<"sta_connected", "sta_disconnected">>) = "sta_connected"
  /\ Tail(<<"sta_connected", "sta_disconnected">>) = <<"sta_disconnected">>
  /\ Head(<<"got_ip", "sta_disconnected">>) = "got_ip"
  /\ Tail(<<"got_ip", "sta_disconnected">>) = <<"sta_disconnected">>
  /\ Head(<<"sta_connected", "got_ip", "sta_disconnected">>) = "sta_connected"
  /\ Tail(<<"sta_connected", "got_ip", "sta_disconnected">>) = <<"got_ip", "sta_disconnected">>
  BY Tails DEF Event

LEMMA Writes ==
  /\ Append(<<>>, "sta_start") = <<"sta_start">>
  /\ Append(<<>>, "sta_connected") = <<"sta_connected">>
  /\ Append(<<>>, "got_ip") = <<"got_ip">>
  /\ Append(<<>>, "sta_disconnected") = <<"sta_disconnected">>
  /\ Append(<<"sta_connected">>, "got_ip") = <<"sta_connected", "got_ip">>
  /\ Append(<<"sta_connected">>, "sta_disconnected") = <<"sta_connected", "sta_disconnected">>
  /\ Append(<<"got_ip">>, "sta_disconnected") = <<"got_ip", "sta_disconnected">>
  /\ Append(<<"sta_connected", "got_ip">>, "sta_disconnected")
       = <<"sta_connected", "got_ip", "sta_disconnected">>
  BY Appends DEF Event

\* Events after which the task still has to be told how the station stands.
Untold == {<<"got_ip">>, <<"sta_disconnected">>, <<"sta_connected", "got_ip">>,
           <<"sta_connected", "sta_disconnected">>, <<"got_ip", "sta_disconnected">>,
           <<"sta_connected", "got_ip", "sta_disconnected">>}

LEMMA Distinct ==
  ASSUME NEW q \in Untold
  PROVE  q \notin {<<>>, <<"sta_start">>, <<"sta_connected">>}
  BY DEF Untold

-----------------------------------------------------------------------------
(* Types. *)

LEMMA NotifyTypes ==
  ASSUME TypeOK, NEW ev \in Event, Notify(ev)
  PROVE  queue' \in Seq(Event) /\ Len(queue') <= QueueLen
  BY QueueAssumption DEF TypeOK, Notify

LEMMA ErrorTypes ==
  ASSUME TypeOK, Works \/ Fails
  PROVE  errors' \in 0..MaxErrors
  BY BoundsAssumption DEF TypeOK, Works, Fails

LEMMA StartTypes ==
  ASSUME TypeOK, NEW wanted \in SUBSET {"mdns", "sntp"}, Start(wanted)
  PROVE  services' \subseteq {"mdns", "sntp"} /\ errors' \in 0..MaxErrors
  BY BoundsAssumption DEF TypeOK, Start, Works, Fails

LEMMA TryConnectTypes ==
  ASSUME TypeOK, TryConnect
  PROVE  retry' \in Deadline /\ errors' \in 0..MaxErrors
         /\ link' \in {"stopped", "idle", "connecting", "associated", "up", "unleased"}
  BY ErrorTypes DEF TypeOK, TryConnect, Deadline

LEMMA ResponderTypes ==
  ASSUME TypeOK, StartResponder
  PROVE  /\ dnsRun' \in BOOLEAN /\ exited' \in {"none", "empty", "given"} /\ dnsTasks' \in Nat
         /\ errors' \in 0..MaxErrors
<1>1. errors' \in 0..MaxErrors
  BY ErrorTypes DEF StartResponder
<1>2. dnsTasks' \in Nat
  BY DEF TypeOK, StartResponder, dns
<1>3. dnsRun' \in BOOLEAN /\ exited' \in {"none", "empty", "given"}
  BY DEF TypeOK, StartResponder, dns
<1> QED BY <1>1, <1>2, <1>3

LEMMA ApTypes ==
  ASSUME TypeOK, ApUp \/ ApUpFails
  PROVE  /\ mode' \in {"null", "sta", "apsta"} /\ ap' \in BOOLEAN /\ errors' \in 0..MaxErrors
         /\ dnsRun' \in BOOLEAN /\ exited' \in {"none", "empty", "given"} /\ dnsTasks' \in Nat
<1>1. CASE ApUp
  BY <1>1, ResponderTypes DEF ApUp, TypeOK
<1>2. CASE ApUpFails
  BY <1>2, ErrorTypes DEF ApUpFails, TypeOK, dns
<1> QED BY <1>1, <1>2

LEMMA ReceiveTypes ==
  ASSUME TypeOK, NEW ev, Receive(ev)
  PROVE  queue' \in Seq(Event) /\ Len(queue') <= QueueLen /\ pc' = "retry"
<1>1. queue \in Seq(Event) /\ queue # <<>> /\ queue' = Tail(queue) /\ Len(queue) <= QueueLen
  BY DEF TypeOK, Receive
<1>2. queue' \in Seq(Event) /\ Len(queue') = Len(queue) - 1 /\ Len(queue) \in Nat
  BY <1>1, HeadTailProperties, LenProperties
<1> QED BY <1>1, <1>2, QueueAssumption DEF Receive

LEMMA InitTypes == Init => TypeOK
<1> SUFFICES ASSUME Init PROVE TypeOK
  OBVIOUS
<1>1. queue \in Seq(Event) /\ Len(queue) <= QueueLen
  BY QueueAssumption DEF Init
<1>2. errors \in 0..MaxErrors /\ overruns \in 0..MaxOverruns /\ dnsTasks \in Nat
  BY BoundsAssumption DEF Init
<1> QED BY <1>1, <1>2 DEF Init, TypeOK, State, Deadline

LEMMA NextTypes == TypeOK /\ [Next]_vars => TypeOK'
<1> SUFFICES ASSUME TypeOK, [Next]_vars PROVE TypeOK'
  OBVIOUS
<1> USE DEF State, Deadline
<1>1. CASE ConfigureRadio
  <2>1. errors' \in 0..MaxErrors /\ configured' \subseteq {"ap", "sta"}
        /\ mode' \in {"null", "sta", "apsta"} /\ pc' \in {"start", "dead"}
    BY <1>1, ErrorTypes DEF ConfigureRadio, ConfigureInterfaces, Wanted
  <2> QED BY <1>1, <2>1 DEF TypeOK, ConfigureRadio, deadlines, dns
<1>2. CASE StartRadio
  <2>1. CASE DriverRefuses
    BY <1>2, <2>1, ErrorTypes DEF TypeOK, StartRadio, DriverRefuses, deadlines, dns
  <2>2. CASE StartStation
    <3>1. queue' \in Seq(Event) /\ Len(queue') <= QueueLen
      BY <2>2, NotifyTypes DEF StartStation, Event
    <3>2. services' \subseteq {"mdns", "sntp"} /\ errors' \in 0..MaxErrors
      BY <2>2, StartTypes DEF StartStation
    <3> QED BY <1>2, <2>2, <3>1, <3>2 DEF TypeOK, StartRadio, StartStation, dns
  <2>3. CASE StartProvisioning
    <3>1. queue' \in Seq(Event) /\ Len(queue') <= QueueLen
      BY <2>3, NotifyTypes DEF StartProvisioning, Event
    <3>2. ApUp \/ ApUpFails
      BY <2>3 DEF StartProvisioning
    <3> QED BY <1>2, <2>3, <3>1, <3>2, ApTypes DEF TypeOK, StartRadio, StartProvisioning, deadlines
  <2> QED BY <1>2, <2>1, <2>2, <2>3 DEF StartRadio
<1>3. CASE OnStart
  <2>1. queue' \in Seq(Event) /\ Len(queue') <= QueueLen /\ pc' = "retry"
    BY <1>3, ReceiveTypes DEF OnStart
  <2> QED BY <1>3, <2>1, TryConnectTypes DEF TypeOK, OnStart, Receive, dns
<1>4. CASE OnAssociated \/ OnDisconnected
  <2>1. queue' \in Seq(Event) /\ Len(queue') <= QueueLen /\ pc' = "retry"
    BY <1>4, ReceiveTypes DEF OnAssociated, OnDisconnected
  <2>2. CASE OnAssociated
    BY <2>1, <2>2 DEF TypeOK, OnAssociated, Receive, dns
  <2>3. CASE OnDisconnected
    <3>1. state' \in State /\ retry' \in Deadline /\ fallback' \in Deadline /\ grace' \in Deadline
      BY <2>3 DEF TypeOK, OnDisconnected, LinkLost, NextAttempt, deadlines
    <3> QED BY <2>1, <2>3, <3>1 DEF TypeOK, OnDisconnected, Receive, dns
  <2> QED BY <1>4, <2>2, <2>3
<1>5. CASE OnGotIp
  <2>1. queue' \in Seq(Event) /\ Len(queue') <= QueueLen /\ pc' = "retry"
    BY <1>5, ReceiveTypes DEF OnGotIp
  <2>2. services' \subseteq {"mdns", "sntp"} /\ errors' \in 0..MaxErrors
    BY <1>5, StartTypes DEF OnGotIp
  <2> QED BY <1>5, <2>1, <2>2 DEF TypeOK, OnGotIp, Receive, dns, Grace
<1>6. CASE WakeUp
  BY <1>6 DEF TypeOK, WakeUp, deadlines, dns, driver, bounds
<1>7. CASE RetryDeadline
  BY <1>7, TryConnectTypes DEF TypeOK, RetryDeadline, dns
<1>8. CASE FallbackDeadline
  <2>1. CASE EnterFallbackAp
    <3>1. ApUp \/ ApUpFails
      BY <2>1 DEF EnterFallbackAp
    <3> QED BY <1>8, <2>1, <3>1, ApTypes DEF TypeOK, FallbackDeadline, EnterFallbackAp
  <2>2. CASE UNCHANGED <<state, ap, fallback, mode, dns, errors>>
    BY <1>8, <2>2 DEF TypeOK, FallbackDeadline, dns
  <2> QED BY <1>8, <2>1, <2>2 DEF FallbackDeadline
<1>9. CASE GraceDeadline
  <2>1. /\ pc' \in {"wait", "join", "drop"} /\ grace' \in Deadline
        /\ dnsRun' \in BOOLEAN /\ exited' = exited /\ dnsTasks' = dnsTasks
    BY <1>9 DEF TypeOK, GraceDeadline, StopResponder, dns
  <2> QED BY <1>9, <2>1 DEF TypeOK, GraceDeadline, driver, bounds
<1>10. CASE Join \/ ApDown
  <2>1. CASE ApDown
    <3>1. errors' \in 0..MaxErrors /\ mode' \in {"null", "sta", "apsta"}
      BY <2>1, ErrorTypes DEF ApDown, TypeOK
    <3>2. pc' = "wait" /\ ap' = FALSE
          /\ UNCHANGED <<haveCreds, state, retry, fallback, grace, services, queue, dnsRun, exited,
                         dnsTasks, configured, link, good, overruns>>
      BY <2>1 DEF ApDown, deadlines, dns
    <3>3. haveCreds' \in BOOLEAN /\ ap' \in BOOLEAN /\ dnsRun' \in BOOLEAN /\ good' \in BOOLEAN
      BY <3>2 DEF TypeOK
    <3> QED BY <3>1, <3>2, <3>3 DEF TypeOK
  <2>2. CASE Join
    <3>1. overruns' \in 0..MaxOverruns /\ exited' \in {"none", "empty", "given"}
      BY <2>2, BoundsAssumption DEF Join, Joined, JoinTimedOut, TypeOK
    <3>2. pc' = "drop"
          /\ UNCHANGED <<haveCreds, state, ap, retry, fallback, grace, services, queue, dnsRun,
                         dnsTasks, configured, mode, link, good, errors>>
      BY <2>2 DEF Join, deadlines, driver
    <3> QED BY <3>1, <3>2 DEF TypeOK
  <2> QED BY <1>10, <2>1, <2>2
<1>11. CASE DnsExit \/ DnsAbort
  <2>1. CASE DnsExit
    <3>1. dnsTasks' \in Nat /\ exited' \in {"none", "empty", "given"}
      BY <2>1 DEF TypeOK, DnsExit
    <3>2. UNCHANGED <<haveCreds, pc, state, ap, retry, fallback, grace, services, queue, dnsRun,
                      configured, mode, link, good, errors, overruns>>
      BY <2>1 DEF DnsExit, deadlines, driver, bounds
    <3> QED BY <3>1, <3>2 DEF TypeOK
  <2>2. CASE DnsAbort
    <3>1. queue' \in Seq(Event) /\ Len(queue') <= QueueLen
      BY <2>2, QueueAssumption DEF DnsAbort
    <3>2. /\ pc' = "configure" /\ state' = "boot" /\ ap' = FALSE /\ services' = {} /\ dnsTasks' = 0
          /\ retry' = "off" /\ fallback' = "off" /\ grace' = "off" /\ configured' = {}
          /\ mode' = "null" /\ link' = "stopped"
          /\ UNCHANGED <<haveCreds, dnsRun, exited, good, errors, overruns>>
      BY <2>2 DEF DnsAbort, bounds
    <3> QED BY <3>1, <3>2 DEF TypeOK
  <2> QED BY <1>11, <2>1, <2>2
<1>12. CASE RetryDue \/ FallbackDue \/ GraceDue
  <2>1. retry' \in Deadline /\ fallback' \in Deadline /\ grace' \in Deadline
    BY <1>12 DEF TypeOK, RetryDue, FallbackDue, GraceDue
  <2>2. TimePasses
    BY <1>12 DEF RetryDue, FallbackDue, GraceDue
  <2>3. UNCHANGED <<haveCreds, pc, state, ap, services, queue, dnsRun, exited, dnsTasks, configured,
                    mode, link, good, errors, overruns>>
    BY <2>2 DEF TimePasses, dns, driver, bounds
  <2> QED BY <2>1, <2>3 DEF TypeOK
<1>13. CASE Associate \/ Address \/ Renew \/ Lose
  <2>1. \E from, to, ev : to \in {"idle", "associated", "up"} /\ ev \in Event /\ Becomes(from, to, ev)
    <3>1. CASE Associate
      BY <3>1, Zenon DEF Associate, Event
    <3>2. CASE Address
      BY <3>2, Zenon DEF Address, Event
    <3>3. CASE Renew
      BY <3>3, Zenon DEF Renew, Event
    <3>4. CASE Lose
      BY <3>4, Zenon DEF Lose, Event
    <3> QED BY <1>13, <3>1, <3>2, <3>3, <3>4
  <2>2. PICK from, to, ev : to \in {"idle", "associated", "up"} /\ ev \in Event /\ Becomes(from, to, ev)
    BY <2>1
  <2>3. queue' \in Seq(Event) /\ Len(queue') <= QueueLen
    BY <2>2, NotifyTypes DEF Becomes
  <2> QED BY <2>2, <2>3 DEF TypeOK, Becomes, deadlines, dns, bounds
<1>14. CASE Weather \/ LoseLease
  <2>1. CASE Weather
    BY <2>1 DEF TypeOK, Weather, deadlines, dns, driver, bounds
  <2>2. CASE LoseLease
    <3>1. UNCHANGED <<haveCreds, pc, state, ap, retry, fallback, grace, services, queue, dnsRun, exited,
                      dnsTasks, configured, mode, good, errors, overruns>> /\ link' = "unleased"
      BY <2>2 DEF LoseLease, deadlines, dns, bounds
    <3> QED BY <3>1 DEF TypeOK
  <2> QED BY <1>14, <2>1, <2>2
<1>15. CASE UNCHANGED vars
  BY <1>15 DEF TypeOK, vars, deadlines, dns, driver, bounds
<1> QED BY <1>1, <1>2, <1>3, <1>4, <1>5, <1>6, <1>7, <1>8, <1>9, <1>10, <1>11, <1>12, <1>13, <1>14, <1>15
     DEF Next, NetTask

\* Every state of the net task and its deadlines is well typed, and the queue never holds
\* more than it has room for (notify).
THEOREM TypeCorrect == Spec => []TypeOK
  BY InitTypes, NextTypes, PTL DEF Spec

-----------------------------------------------------------------------------
(* A way in. *)

LEMMA InitWay == Init => Booting /\ WayIn
  BY DEF Init, Booting, WayIn, AlwaysAWayIn

LEMMA ReadsOn ==
  ASSUME NEW ev, Receive(ev)
  PROVE  pc = "wait" /\ pc' = "retry" /\ queue' = Tail(queue) /\ queue # <<>> /\ Head(queue) = ev
         /\ UNCHANGED <<haveCreds, mode, configured, dnsRun, exited, dnsTasks, good, overruns>>
  BY DEF Receive, dns

LEMMA HappensOutside ==
  ASSUME Associate \/ Address \/ Renew \/ Lose
  PROVE  /\ UNCHANGED <<haveCreds, pc, state, ap, retry, fallback, grace, configured, mode,
                        dnsRun, exited, dnsTasks, overruns>>
         /\ link \in {"connecting", "associated", "up", "unleased"} /\ link' # "stopped"
<1>1. CASE Associate
  BY <1>1 DEF Associate, Becomes, deadlines, dns, bounds
<1>2. CASE Address
  BY <1>2 DEF Address, Becomes, deadlines, dns, bounds
<1>3. CASE Renew
  BY <1>3 DEF Renew, Becomes, deadlines, dns, bounds
<1>4. CASE Lose
  BY <1>4 DEF Lose, Becomes, deadlines, dns, bounds
<1> QED BY <1>1, <1>2, <1>3, <1>4

LEMMA NextWay == Booting /\ WayIn /\ [Next]_vars => (Booting /\ WayIn)'
<1> SUFFICES ASSUME Booting, WayIn, [Next]_vars PROVE (Booting /\ WayIn)'
  OBVIOUS
<1> USE DEF Booting, WayIn, AlwaysAWayIn
<1>1. CASE ConfigureRadio
  BY <1>1 DEF ConfigureRadio, ConfigureInterfaces, deadlines, dns
<1>2. CASE StartRadio
  <2>1. CASE DriverRefuses
    BY <1>2, <2>1 DEF StartRadio, DriverRefuses, deadlines
  <2>2. CASE StartStation
    BY <1>2, <2>2 DEF StartRadio, StartStation
  <2>3. CASE StartProvisioning
    BY <1>2, <2>3 DEF StartRadio, StartProvisioning, ApUp, ApUpFails, deadlines
  <2> QED BY <1>2, <2>1, <2>2, <2>3 DEF StartRadio
<1>3. CASE OnStart \/ OnAssociated
  <2>1. pc = "wait" /\ pc' = "retry" /\ UNCHANGED <<state, ap, fallback, grace>>
    BY <1>3, ReadsOn DEF OnStart, OnAssociated
  <2> QED BY <2>1
<1>4. CASE OnDisconnected
  <2>1. pc = "wait" /\ pc' = "retry" /\ UNCHANGED ap
    BY <1>4, ReadsOn DEF OnDisconnected
  <2>2. LinkLost \/ UNCHANGED <<state, fallback, grace>>
    BY <1>4 DEF OnDisconnected, deadlines
  <2> QED BY <2>1, <2>2 DEF LinkLost
<1>5. CASE OnGotIp
  <2>1. pc' = "retry" /\ state' = "sta_connected" /\ UNCHANGED ap
    BY <1>5, ReadsOn DEF OnGotIp
  <2> QED BY <2>1
<1>6. CASE WakeUp \/ RetryDeadline
  <2>1. /\ pc \in {"wait", "retry"} /\ pc' \in {"retry", "fallback"}
        /\ UNCHANGED <<state, ap, fallback, grace>>
    BY <1>6 DEF WakeUp, RetryDeadline, deadlines
  <2> QED BY <2>1
<1>7. CASE FallbackDeadline
  <2>1. pc = "fallback" /\ pc' = "grace" /\ UNCHANGED grace
    BY <1>7 DEF FallbackDeadline
  <2>2. \/ state = "sta_connecting" /\ EnterFallbackAp
        \/ UNCHANGED <<state, ap, fallback>>
    BY <1>7 DEF FallbackDeadline
  <2> QED BY <2>1, <2>2 DEF EnterFallbackAp, ApUp, ApUpFails
<1>8. CASE GraceDeadline
  BY <1>8 DEF GraceDeadline
<1>9. CASE Join \/ ApDown
  <2>1. /\ pc \in {"join", "drop"} /\ pc' \in {"drop", "wait"}
        /\ UNCHANGED <<state, fallback, grace>>
    BY <1>9 DEF Join, ApDown, deadlines
  <2> QED BY <2>1
<1>10. CASE DnsExit \/ DnsAbort \/ Weather \/ LoseLease
  <2>1. CASE DnsExit \/ Weather
    <3>1. UNCHANGED <<pc, state, ap, fallback, grace, link, queue>>
      BY <2>1 DEF DnsExit, Weather, deadlines, driver
    <3> QED BY <3>1
  <2>2. CASE LoseLease
    <3>1. UNCHANGED <<pc, state, ap, fallback, grace, queue>> /\ link = "up"
      BY <2>2 DEF LoseLease, deadlines
    <3> QED BY <3>1
  <2>3. CASE DnsAbort
    BY <2>3 DEF DnsAbort
  <2> QED BY <1>10, <2>1, <2>2, <2>3
<1>11. CASE RetryDue \/ FallbackDue \/ GraceDue
  <2>1. UNCHANGED <<pc, state, ap, link, queue>>
    BY <1>11 DEF RetryDue, FallbackDue, GraceDue, TimePasses, driver
  <2>2. (fallback' = "off" <=> fallback = "off") /\ (grace' = "off" <=> grace = "off")
    BY <1>11 DEF RetryDue, FallbackDue, GraceDue
  <2> QED BY <2>1, <2>2
<1>12. CASE Associate \/ Address \/ Renew \/ Lose
  <2>1. UNCHANGED <<pc, state, ap, fallback, grace>> /\ link # "stopped"
    BY <1>12, HappensOutside
  <2> QED BY <2>1
<1>13. CASE UNCHANGED vars
  BY <1>13 DEF vars, deadlines, driver
<1> QED BY <1>1, <1>2, <1>3, <1>4, <1>5, <1>6, <1>7, <1>8, <1>9, <1>10, <1>11, <1>12, <1>13
     DEF Next, NetTask

LEMMA WayAlways == Spec => [](Booting /\ WayIn)
  BY InitWay, NextWay, PTL DEF Spec

\* Once the radio is started, the access point is up or the deadline that brings it up is set
\* whenever the gateway does not count as connected, whatever calls fail and however often
\* a responder's exit resets it.  A radio that could not be started has neither
\* (enter_fallback_ap, start_radio).
THEOREM NeverLockedOut == Spec => []AlwaysAWayIn
<1>1. Booting /\ WayIn => AlwaysAWayIn
  BY DEF WayIn
<1> QED BY <1>1, WayAlways, PTL

LEMMA OnlyApDown ==
  ASSUME [Next]_vars, ap, ~ap'
  PROVE  ApDown \/ DnsAbort
<1>1. ~ConfigureRadio /\ ~StartRadio
  BY DEF ConfigureRadio, StartRadio, DriverRefuses, StartStation, StartProvisioning, ApUp, ApUpFails
<1>2. ~OnStart /\ ~OnAssociated /\ ~OnDisconnected /\ ~OnGotIp
  BY DEF OnStart, OnAssociated, OnDisconnected, OnGotIp
<1>3. ~WakeUp /\ ~RetryDeadline /\ ~GraceDeadline /\ ~Join /\ ~LoseLease
  BY DEF WakeUp, RetryDeadline, GraceDeadline, Join, LoseLease
<1>4. ~FallbackDeadline
  BY DEF FallbackDeadline, EnterFallbackAp, ApUp, ApUpFails
<1>5. ~DnsExit /\ ~Weather /\ ~RetryDue /\ ~FallbackDue /\ ~GraceDue
  BY DEF DnsExit, Weather, RetryDue, FallbackDue, GraceDue, TimePasses
<1>6. ~(Associate \/ Address \/ Renew \/ Lose)
  BY HappensOutside
<1>7. ~UNCHANGED vars
  BY DEF vars
<1> QED BY <1>1, <1>2, <1>3, <1>4, <1>5, <1>6, <1>7 DEF Next, NetTask

\* The access point is taken from whoever is on it only while the gateway counts as
\* connected, or by a reset: a link lost within the grace period, or during the join,
\* keeps it (handle_disconnected).
THEOREM GraceIsKept == Spec => RecoveryStays
<1>1. Booting /\ WayIn /\ [Next]_vars =>
        [ap /\ ~ap' => (state = "sta_connected" /\ state' = "sta_connected") \/ pc' = "configure"]_vars
  <2> SUFFICES ASSUME WayIn, [Next]_vars, ap, ~ap'
               PROVE  (state = "sta_connected" /\ state' = "sta_connected") \/ pc' = "configure"
    OBVIOUS
  <2>1. ApDown \/ DnsAbort
    BY OnlyApDown
  <2>2. CASE ApDown
    <3>1. pc = "drop" /\ UNCHANGED state
      BY <2>2 DEF ApDown
    <3> QED BY <3>1 DEF WayIn
  <2>3. CASE DnsAbort
    BY <2>3 DEF DnsAbort
  <2> QED BY <2>1, <2>2, <2>3
<1> QED BY <1>1, WayAlways, PTL DEF Spec, RecoveryStays

-----------------------------------------------------------------------------
(* The radio and the responder. *)

LEMMA InitRadio == Init => Radio
  BY DEF Init, Radio

LEMMA NextRadio == Booting /\ Radio /\ [Next]_vars => Radio'
<1> SUFFICES ASSUME Booting, Radio, [Next]_vars PROVE Radio'
  OBVIOUS
<1> USE DEF Radio
<1>1. CASE ConfigureRadio
  BY <1>1 DEF ConfigureRadio, ConfigureInterfaces, Wanted, Booting
<1>2. CASE StartRadio
  BY <1>2 DEF StartRadio
<1>3. CASE OnStart \/ RetryDeadline
  <2>1. UNCHANGED configured /\ pc' \in {"retry", "fallback"}
    BY <1>3, ReadsOn DEF OnStart, RetryDeadline
  <2>2. TryConnect \/ UNCHANGED link
    BY <1>3 DEF OnStart, RetryDeadline
  <2> QED BY <2>1, <2>2 DEF TryConnect
<1>4. CASE OnAssociated \/ OnDisconnected \/ OnGotIp
  BY <1>4, ReadsOn DEF OnAssociated, OnDisconnected, OnGotIp
<1>5. CASE WakeUp \/ FallbackDeadline \/ GraceDeadline \/ Join \/ ApDown
  BY <1>5 DEF WakeUp, FallbackDeadline, GraceDeadline, Join, ApDown, driver
<1>6. CASE DnsExit \/ Weather \/ LoseLease \/ RetryDue \/ FallbackDue \/ GraceDue
  BY <1>6 DEF DnsExit, Weather, LoseLease, RetryDue, FallbackDue, GraceDue, TimePasses, driver
<1>9. CASE DnsAbort
  BY <1>9 DEF DnsAbort
<1>7. CASE Associate \/ Address \/ Renew \/ Lose
  BY <1>7, HappensOutside
<1>8. CASE UNCHANGED vars
  BY <1>8 DEF vars, driver
<1> QED BY <1>1, <1>2, <1>3, <1>4, <1>5, <1>6, <1>7, <1>8, <1>9 DEF Next, NetTask

\* The access point never comes up with the driver's default SSID, whatever failed while
\* the radio was started (start_radio, ap_up).
THEOREM NoForeignBeacon == Spec => []BeaconIsOurs
<1>1. Radio => BeaconIsOurs
  BY DEF Radio, BeaconIsOurs
<1>2. Booting /\ WayIn /\ Radio /\ [Next]_vars => Radio'
  BY NextRadio
<1> QED BY <1>1, <1>2, InitRadio, WayAlways, PTL DEF Spec

LEMMA InitResponder == Init => Responder
  BY BoundsAssumption DEF Init, Responder

LEMMA Raised ==
  ASSUME TypeOK, Responder, pc \notin {"join", "drop"}, ApUp \/ ApUpFails,
         pc' \notin {"join", "drop"}, UNCHANGED overruns
  PROVE  Responder'
<1>1. dnsTasks \in Nat /\ overruns \in Nat
  BY DEF TypeOK
<1>2. CASE ApUpFails
  BY <1>2 DEF ApUpFails, Responder, dns
<1>3. CASE ApUp
  <2>1. ap' /\ StartResponder
    BY <1>3 DEF ApUp
  <2>2. CASE dnsRun /\ UNCHANGED dns
    BY <2>1, <2>2 DEF Responder, dns
  <2>3. CASE ~dnsRun /\ dnsRun' = TRUE /\ exited' = "empty" /\ dnsTasks' = dnsTasks + 1
    <3>1. dnsTasks' <= overruns' + 1
      BY <1>1, <2>3 DEF Responder
    <3> QED BY <2>1, <2>3, <3>1 DEF Responder
  <2>4. CASE ~dnsRun /\ UNCHANGED <<dnsRun, dnsTasks>> /\ exited' = "none"
    BY <2>4 DEF Responder
  <2> QED BY <2>1, <2>2, <2>3, <2>4 DEF StartResponder
<1> QED BY <1>2, <1>3

LEMMA NextResponder == TypeOK /\ Responder /\ [Next]_vars => Responder'
<1> SUFFICES ASSUME TypeOK, Responder, [Next]_vars PROVE Responder'
  OBVIOUS
<1>1. dnsTasks \in Nat /\ overruns \in Nat
  BY DEF TypeOK
<1>2. CASE StartRadio
  <2>1. pc = "start" /\ pc' \notin {"join", "drop"} /\ UNCHANGED overruns
    BY <1>2 DEF StartRadio, DriverRefuses, StartStation, StartProvisioning
  <2>2. ApUp \/ ApUpFails \/ UNCHANGED <<ap, dnsRun, exited, dnsTasks>>
    BY <1>2 DEF StartRadio, DriverRefuses, StartStation, StartProvisioning, dns
  <2>3. CASE UNCHANGED <<ap, dnsRun, exited, dnsTasks>>
    BY <2>1, <2>3 DEF Responder
  <2> QED BY <2>1, <2>2, <2>3, Raised
<1>3. CASE FallbackDeadline
  <2>1. pc = "fallback" /\ pc' \notin {"join", "drop"} /\ UNCHANGED overruns
    BY <1>3 DEF FallbackDeadline
  <2>2. ApUp \/ ApUpFails \/ UNCHANGED <<ap, dnsRun, exited, dnsTasks>>
    BY <1>3 DEF FallbackDeadline, EnterFallbackAp, dns
  <2>3. CASE UNCHANGED <<ap, dnsRun, exited, dnsTasks>>
    BY <2>1, <2>3 DEF Responder
  <2> QED BY <2>1, <2>2, <2>3, Raised
<1>4. CASE GraceDeadline
  <2>1. pc = "grace" /\ UNCHANGED <<ap, overruns, dnsTasks>>
    BY <1>4 DEF GraceDeadline, StopResponder, dns, bounds
  <2>2. \/ pc' = "wait" /\ UNCHANGED <<dnsRun, exited>>
        \/ pc' = "drop" /\ ap /\ ~dnsRun /\ UNCHANGED <<dnsRun, exited>>
        \/ pc' = "join" /\ ap /\ dnsRun /\ dnsRun' = FALSE /\ UNCHANGED exited
    BY <1>4 DEF GraceDeadline, StopResponder, dns
  <2> QED BY <1>1, <2>1, <2>2 DEF Responder
<1>5. CASE Join \/ ApDown
  <2>1. CASE Join
    <3>1. pc = "join" /\ pc' = "drop" /\ UNCHANGED <<ap, dnsRun, dnsTasks>>
      BY <2>1 DEF Join
    <3>2. \/ exited = "given" /\ overruns' = overruns
          \/ exited # "given" /\ overruns' = overruns + 1
      BY <2>1 DEF Join, Joined, JoinTimedOut
    <3>3. ~dnsRun
      BY <3>1 DEF Responder
    <3>4. dnsTasks' <= overruns'
      BY <1>1, <3>1, <3>2, <3>3 DEF Responder
    <3> QED BY <3>1, <3>3, <3>4 DEF Responder
  <2>2. CASE ApDown
    <3>1. pc = "drop" /\ pc' = "wait" /\ ap' = FALSE /\ UNCHANGED <<dnsRun, exited, dnsTasks, overruns>>
      BY <2>2 DEF ApDown, dns
    <3> QED BY <3>1 DEF Responder
  <2> QED BY <1>5, <2>1, <2>2
<1>6. CASE DnsExit \/ DnsAbort
  <2>1. CASE DnsExit
    <3>1. ~dnsRun /\ dnsTasks' = dnsTasks - 1 /\ UNCHANGED <<pc, ap, dnsRun, overruns>>
      BY <2>1 DEF DnsExit, bounds
    <3>2. dnsTasks' <= overruns
      BY <1>1, <3>1 DEF Responder
    <3> QED BY <1>1, <3>1, <3>2 DEF Responder
  <2>2. CASE DnsAbort
    BY <1>1, <2>2 DEF DnsAbort, bounds, Responder
  <2> QED BY <1>6, <2>1, <2>2
<1>7. CASE ConfigureRadio \/ OnStart \/ OnAssociated \/ OnDisconnected \/ OnGotIp \/ WakeUp \/ RetryDeadline
  <2>1. pc \notin {"join", "drop"} /\ pc' \notin {"join", "drop"}
    BY <1>7, ReadsOn DEF ConfigureRadio, ConfigureInterfaces, OnStart, OnAssociated, OnDisconnected,
                         OnGotIp, WakeUp, RetryDeadline
  <2>2. UNCHANGED <<ap, dnsRun, exited, dnsTasks, overruns>>
    BY <1>7, ReadsOn DEF ConfigureRadio, OnStart, OnAssociated, OnDisconnected,
                         OnGotIp, WakeUp, RetryDeadline, dns, bounds
  <2> QED BY <2>1, <2>2 DEF Responder
<1>8. CASE \/ Weather \/ LoseLease \/ RetryDue \/ FallbackDue \/ GraceDue \/ Associate \/ Address \/ Renew \/ Lose
           \/ UNCHANGED vars
  <2>1. UNCHANGED <<pc, ap, dnsRun, exited, dnsTasks, overruns>>
    BY <1>8, HappensOutside DEF Weather, LoseLease, RetryDue, FallbackDue, GraceDue, TimePasses, vars, dns, bounds
  <2> QED BY <2>1 DEF Responder
<1> QED BY <1>2, <1>3, <1>4, <1>5, <1>6, <1>7, <1>8 DEF Next, NetTask

\* Whichever way the access point comes up and goes down, fails, or overruns its join, no
\* more responders outlive it than the joins that timed out (dns_hijack_stop, dns_task).
THEOREM RespondersEnd == Spec => []NoStrayResponder
<1>1. TypeOK /\ Responder => NoStrayResponder
  BY DEF TypeOK, Responder, NoStrayResponder
<1>2. TypeOK /\ Responder /\ [Next]_vars => Responder'
  BY NextResponder
<1> QED BY <1>1, <1>2, InitResponder, TypeCorrect, PTL DEF Spec

-----------------------------------------------------------------------------
(* The events. *)

\* What reading an event leaves.
LEMMA Read ==
  ASSUME TypeOK, Waiting, NEW ev, Receive(ev)
  PROVE  /\ ev = "sta_start" => link = "idle" /\ queue = <<"sta_start">> /\ queue' = <<>>
         /\ ev = "sta_connected" => \/ link = "associated" /\ queue = <<"sta_connected">> /\ queue' = <<>>
                                    \/ link = "up" /\ queue' = <<"got_ip">>
                                    \/ link = "idle" /\ queue' \in {<<"sta_disconnected">>,
                                                                    <<"got_ip", "sta_disconnected">>}
         /\ ev = "sta_disconnected" => link = "idle" /\ queue' = <<>>
         /\ ev = "got_ip" => \/ link = "up" /\ queue' = <<>>
                             \/ link = "idle" /\ queue' = <<"sta_disconnected">>
<1>1. queue # <<>> /\ Head(queue) = ev /\ queue' = Tail(queue)
  BY ReadsOn
<1>2. link \in {"stopped", "idle", "connecting", "associated", "up", "unleased"}
  BY DEF TypeOK
<1>3. link \notin {"stopped", "connecting", "unleased"}
  BY <1>1 DEF Waiting
<1>4. CASE link = "associated"
  <2>1. queue = <<"sta_connected">>
    BY <1>1, <1>4 DEF Waiting
  <2> QED BY <1>1, <1>4, <2>1, Reads
<1>5. CASE link = "up"
  <2>1. queue \in {<<"got_ip">>, <<"sta_connected", "got_ip">>}
    BY <1>1, <1>5 DEF Waiting
  <2> QED BY <1>1, <1>5, <2>1, Reads
<1>6. CASE link = "idle"
  <2>1. queue \in {<<"sta_start">>, <<"sta_disconnected">>,
                  <<"sta_connected", "sta_disconnected">>, <<"got_ip", "sta_disconnected">>,
                  <<"sta_connected", "got_ip", "sta_disconnected">>}
    BY <1>1, <1>6 DEF Waiting
  <2> QED BY <1>1, <1>6, <2>1, Reads
<1> QED BY <1>2, <1>3, <1>4, <1>5, <1>6

LEMMA Room ==
  ASSUME TypeOK, Waiting, QueueLen >= 4
  PROVE  Len(queue) <= 3
<1>1. queue \in {<<>>, <<"sta_start">>, <<"sta_disconnected">>, <<"sta_connected">>, <<"got_ip">>,
                 <<"sta_connected", "got_ip">>,
                 <<"sta_connected", "sta_disconnected">>, <<"got_ip", "sta_disconnected">>,
                 <<"sta_connected", "got_ip", "sta_disconnected">>}
  BY DEF TypeOK, Waiting
<1>2. Len(<<>>) = 0
  OBVIOUS
<1>3. \A a \in Event : Len(<<a>>) = 1
  OBVIOUS
<1>4. \A a, b \in Event : Len(<<a, b>>) = 2
  OBVIOUS
<1>5. \A a, b, c \in Event : Len(<<a, b, c>>) = 3
  OBVIOUS
<1>6. Len(queue) \in {0, 1, 2, 3}
  BY <1>1, <1>2, <1>3, <1>4, <1>5, Zenon DEF Event
<1>7. \A n \in {0, 1, 2, 3} : n <= 3
  OBVIOUS
<1> QED BY <1>6, <1>7, Zenon

\* What the driver's next event leaves.
LEMMA Told1 ==
  ASSUME TypeOK, Waiting, QueueLen >= 4, NEW ev, Notify(ev)
  PROVE  queue' = Append(queue, ev)
  BY Room, QueueAssumption DEF Notify, TypeOK

Events == Waiting /\ OneAttempt /\ Told

LEMMA InitEvents == Init => Events
  BY DEF Init, Events, Waiting, OneAttempt, Told

LEMMA Attempted ==
  ASSUME Events, TryConnect, link = "idle", queue' = <<>>, UNCHANGED <<haveCreds, state>>,
         pc \notin {"configure", "start"}, queue \in {<<>>, <<"sta_start">>}
  PROVE  Events'
<1>1. link' \in {"idle", "connecting"} /\ (retry' # "off" => link' = "idle")
  BY DEF TryConnect
<1>2. Waiting' /\ OneAttempt'
  BY <1>1 DEF Waiting, OneAttempt
<1>3. haveCreds => state # "sta_connected"
  BY DEF Events, Told
<1>4. Told'
  BY <1>1, <1>3 DEF Told
<1> QED BY <1>2, <1>4 DEF Events

LEMMA Stays ==
  ASSUME Events, UNCHANGED <<haveCreds, link, queue>>, retry' # "off" => retry # "off",
         (state' = "sta_connected") <=> (state = "sta_connected"),
         pc \in {"configure", "start"} => pc' \in {"configure", "start"}
  PROVE  Events'
<1>1. Waiting' /\ OneAttempt'
  BY DEF Events, Waiting, OneAttempt
<1>2. Told'
  BY DEF Events, Told
<1> QED BY <1>1, <1>2 DEF Events

LEMMA NextEvents == QueueLen >= 4 /\ TypeOK /\ Booting /\ Events /\ [Next]_vars => Events'
<1> SUFFICES ASSUME QueueLen >= 4, TypeOK, Booting, Events, [Next]_vars PROVE Events'
  OBVIOUS
<1>0. Waiting /\ OneAttempt /\ Told
  BY DEF Events
<1>1. CASE ConfigureRadio
  <2>1. pc = "configure" /\ UNCHANGED <<haveCreds, state, link, queue, retry>>
    BY <1>1 DEF ConfigureRadio, deadlines
  <2>2. state' # "sta_connected" /\ link' = "stopped" /\ queue' = <<>> /\ retry' = "off"
    BY <1>0, <2>1 DEF Booting, OneAttempt
  <2> QED BY <2>2 DEF Events, Waiting, OneAttempt, Told
<1>2. CASE StartRadio
  <2>1. state = "boot" /\ link = "stopped" /\ queue = <<>> /\ retry = "off"
    BY <1>0, <1>2 DEF StartRadio, DriverRefuses, StartStation, StartProvisioning, Booting, OneAttempt
  <2>2. state' # "sta_connected" /\ UNCHANGED retry
    BY <1>2, <2>1 DEF StartRadio, DriverRefuses, StartStation, StartProvisioning, deadlines
  <2>3. CASE link' = "stopped" /\ UNCHANGED queue
    BY <2>1, <2>2, <2>3 DEF Events, Waiting, OneAttempt, Told
  <2>4. CASE link' = "idle" /\ Notify("sta_start")
    <3>1. queue' = <<"sta_start">>
      BY <1>0, <2>1, <2>4, Told1, Writes
    <3> QED BY <2>1, <2>2, <2>4, <3>1 DEF Events, Waiting, OneAttempt, Told
  <2> QED BY <1>2, <2>1, <2>3, <2>4 DEF StartRadio, DriverRefuses, StartStation, StartProvisioning
<1>3. CASE OnStart
  <2>1. /\ link = "idle" /\ queue = <<"sta_start">> /\ queue' = <<>>
        /\ pc = "wait" /\ UNCHANGED <<haveCreds, state>>
    BY <1>0, <1>3, Read, ReadsOn DEF OnStart
  <2>2. CASE haveCreds
    <3>1. TryConnect
      BY <1>3, <2>2 DEF OnStart
    <3> QED BY <2>1, <3>1, Attempted
  <2>3. CASE ~haveCreds
    <3>1. UNCHANGED <<link, retry>>
      BY <1>3, <2>3 DEF OnStart
    <3> QED BY <1>0, <2>1, <2>3, <3>1 DEF Events, Waiting, OneAttempt, Told
  <2> QED BY <2>2, <2>3
<1>4. CASE OnAssociated
  <2>1. retry' = "off" /\ pc = "wait" /\ UNCHANGED <<haveCreds, state, link>>
    BY <1>4, ReadsOn DEF OnAssociated
  <2>2. \/ link = "associated" /\ queue = <<"sta_connected">> /\ queue' = <<>>
        \/ link = "up" /\ queue' = <<"got_ip">>
        \/ link = "idle" /\ queue' \in {<<"sta_disconnected">>, <<"got_ip", "sta_disconnected">>}
    BY <1>0, <1>4, Read DEF OnAssociated
  <2>3. Waiting' /\ OneAttempt'
    BY <2>1, <2>2 DEF Waiting, OneAttempt
  <2>4. ASSUME link = "associated", queue = <<"sta_connected">> PROVE Told'
    <3>1. haveCreds => state # "sta_connected"
      BY <1>0, <2>1, <2>4 DEF Told
    <3>2. link' \notin {"up", "unleased"} /\ (haveCreds' => state' # "sta_connected")
      BY <2>1, <2>4, <3>1
    <3> QED BY <3>2 DEF Told
  <2>5. ASSUME queue' \in {<<"got_ip">>, <<"sta_disconnected">>, <<"got_ip", "sta_disconnected">>}
        PROVE  Told'
    <3>1. queue' \notin {<<>>, <<"sta_start">>, <<"sta_connected">>}
      BY <2>5, Distinct DEF Untold
    <3> QED BY <3>1 DEF Told
  <2>6. Told'
    BY <2>2, <2>4, <2>5
  <2> QED BY <2>3, <2>6 DEF Events
<1>5. CASE OnDisconnected
  <2>1. link = "idle" /\ queue' = <<>> /\ UNCHANGED <<haveCreds, link>> /\ pc = "wait"
    BY <1>0, <1>5, Read, ReadsOn DEF OnDisconnected
  <2>2. haveCreds => state' # "sta_connected"
    BY <1>5 DEF OnDisconnected, LinkLost
  <2> QED BY <2>1, <2>2 DEF Events, Waiting, OneAttempt, Told
<1>6. CASE OnGotIp
  <2>1. retry' = "off" /\ state' = "sta_connected" /\ UNCHANGED <<haveCreds, link>> /\ pc = "wait"
    BY <1>6, ReadsOn DEF OnGotIp
  <2>2. \/ link = "up" /\ queue' = <<>>
        \/ link = "idle" /\ queue' = <<"sta_disconnected">>
    BY <1>0, <1>6, Read DEF OnGotIp
  <2>3. Waiting' /\ OneAttempt'
    BY <2>1, <2>2 DEF Waiting, OneAttempt
  <2>4. link = "up" => Told'
    BY <2>1 DEF Told
  <2>5. ASSUME queue' = <<"sta_disconnected">> PROVE Told'
    <3>1. queue' \notin {<<>>, <<"sta_start">>, <<"sta_connected">>}
      BY <2>5, Distinct DEF Untold
    <3> QED BY <3>1 DEF Told
  <2> QED BY <2>2, <2>3, <2>4, <2>5 DEF Events
<1>7. CASE RetryDeadline
  <2>1. pc = "retry" /\ UNCHANGED <<haveCreds, state, queue>>
    BY <1>7 DEF RetryDeadline
  <2>2. CASE retry = "due"
    <3>1. TryConnect /\ link = "idle" /\ queue = <<>>
      BY <1>0, <1>7, <2>2 DEF RetryDeadline, OneAttempt
    <3> QED BY <2>1, <3>1, Attempted
  <2>3. CASE retry # "due"
    <3>1. UNCHANGED <<link, retry>>
      BY <1>7, <2>3 DEF RetryDeadline
    <3> QED BY <2>1, <3>1, Stays
  <2> QED BY <2>2, <2>3
<1>8. CASE FallbackDeadline
  <2>1. pc = "fallback" /\ UNCHANGED <<haveCreds, link, queue, retry>>
    BY <1>8 DEF FallbackDeadline
  <2>2. (state' = "sta_connected") <=> (state = "sta_connected")
    BY <1>8 DEF FallbackDeadline, EnterFallbackAp
  <2> QED BY <2>1, <2>2, Stays
<1>9. CASE WakeUp \/ GraceDeadline \/ Join \/ ApDown
  <2>1. pc \in {"wait", "grace", "join", "drop"} /\ UNCHANGED <<haveCreds, state, link, queue, retry>>
    BY <1>9 DEF WakeUp, GraceDeadline, Join, ApDown, deadlines, driver
  <2> QED BY <2>1, Stays
<1>10. CASE DnsExit \/ Weather \/ RetryDue \/ FallbackDue \/ GraceDue \/ UNCHANGED vars
  <2>1. UNCHANGED <<haveCreds, pc, state, link, queue>>
    BY <1>10 DEF DnsExit, Weather, RetryDue, FallbackDue, GraceDue, TimePasses, vars, driver
  <2>2. retry' # "off" => retry # "off"
    BY <1>10 DEF DnsExit, Weather, RetryDue, FallbackDue, GraceDue, vars, deadlines
  <2> QED BY <2>1, <2>2, Stays
<1>11. CASE Associate \/ Address \/ Renew \/ Lose
  <2>1. /\ UNCHANGED <<haveCreds, pc, state, retry>> /\ retry = "off"
        /\ pc \notin {"configure", "start"} /\ link # "idle"
    BY <1>0, <1>11, HappensOutside DEF OneAttempt, Booting
  <2>2. CASE Associate
    <3>1. link = "connecting" /\ link' = "associated" /\ queue = <<>> /\ Notify("sta_connected")
      BY <1>0, <2>2 DEF Associate, Becomes, Waiting
    <3>2. queue' = <<"sta_connected">>
      BY <1>0, <3>1, Told1, Writes
    <3>3. haveCreds => state # "sta_connected"
      BY <1>0, <2>1, <3>1 DEF Told
    <3> QED BY <2>1, <3>1, <3>2, <3>3 DEF Events, Waiting, OneAttempt, Told
  <2>3. CASE Address
    <3>1. /\ link \in {"associated", "unleased"} /\ link' = "up" /\ Notify("got_ip")
          /\ queue \in {<<>>, <<"sta_connected">>}
      BY <1>0, <2>3 DEF Address, Becomes, Waiting
    <3>2. queue' \in {<<"got_ip">>, <<"sta_connected", "got_ip">>}
      BY <1>0, <3>1, Told1, Writes
    <3> QED BY <2>1, <3>1, <3>2 DEF Events, Waiting, OneAttempt, Told
  <2>4. CASE Renew
    <3>1. link = "up" /\ link' = "up" /\ Notify("got_ip") /\ \A i \in DOMAIN queue : queue[i] # "got_ip"
      BY <2>4 DEF Renew, Becomes
    <3>2. queue \in {<<>>, <<"got_ip">>, <<"sta_connected", "got_ip">>}
      BY <1>0, <3>1 DEF Waiting
    <3>3. queue = <<>>
      BY <3>1, <3>2
    <3>4. queue' = <<"got_ip">>
      BY <1>0, <3>1, <3>3, Told1, Writes
    <3> QED BY <2>1, <3>1, <3>4 DEF Events, Waiting, OneAttempt, Told
  <2>5. CASE Lose
    <3>1. /\ link \in {"connecting", "associated", "up", "unleased"} /\ link' = "idle" /\ Notify("sta_disconnected")
          /\ queue \in {<<>>, <<"sta_connected">>, <<"got_ip">>, <<"sta_connected", "got_ip">>}
      BY <1>0, <2>5 DEF Lose, Becomes, Waiting
    <3>2. queue' \in {<<"sta_disconnected">>, <<"sta_connected", "sta_disconnected">>,
                      <<"got_ip", "sta_disconnected">>,
                      <<"sta_connected", "got_ip", "sta_disconnected">>}
      BY <1>0, <3>1, Told1, Writes
    <3>3. Waiting' /\ OneAttempt'
      BY <2>1, <3>1, <3>2 DEF Waiting, OneAttempt
    <3>4. queue' \notin {<<>>, <<"sta_start">>, <<"sta_connected">>}
      BY <3>2, Distinct DEF Untold
    <3>5. Told'
      BY <3>1, <3>4 DEF Told
    <3> QED BY <3>3, <3>5 DEF Events
  <2> QED BY <1>11, <2>2, <2>3, <2>4, <2>5
<1>12. CASE LoseLease
  <2>1. /\ link = "up" /\ link' = "unleased" /\ UNCHANGED <<haveCreds, pc, state, retry, queue>>
        /\ \A i \in DOMAIN queue : queue[i] # "got_ip"
    BY <1>12 DEF LoseLease, deadlines
  <2>2. queue \in {<<>>, <<"got_ip">>, <<"sta_connected", "got_ip">>}
    BY <1>0, <2>1 DEF Waiting
  <2>3. queue = <<>>
    BY <2>1, <2>2
  <2>4. Waiting' /\ OneAttempt'
    BY <1>0, <2>1, <2>3 DEF Waiting, OneAttempt
  <2>5. Told'
    BY <1>0, <2>1, <2>3 DEF Told
  <2> QED BY <2>4, <2>5 DEF Events
<1>13. CASE DnsAbort
  <2>1. /\ link' = "stopped" /\ queue' = <<>> /\ retry' = "off" /\ state' = "boot"
    BY <1>13 DEF DnsAbort
  <2> QED BY <2>1 DEF Events, Waiting, OneAttempt, Told
<1> QED BY <1>1, <1>2, <1>3, <1>4, <1>5, <1>6, <1>7, <1>8, <1>9, <1>10, <1>11, <1>12, <1>13
     DEF Next, NetTask

LEMMA EventsAlways == QueueLen >= 4 => (Spec => []Events)
<1> SUFFICES ASSUME QueueLen >= 4 PROVE Spec => []Events
  OBVIOUS
<1>1. TypeOK /\ Booting /\ WayIn /\ Events /\ [Next]_vars => Events'
  BY NextEvents
<1> QED BY <1>1, InitEvents, WayAlways, TypeCorrect, PTL DEF Spec

\* However slow the net task is, no driver event is ever lost as soon as its queue has
\* four slots: at most the events of one association and its loss wait (notify).
THEOREM EveryEventHeard == QueueLen >= 4 => (Spec => []NoEventLost)
<1> SUFFICES ASSUME QueueLen >= 4 PROVE Spec => []NoEventLost
  OBVIOUS
<1>1. TypeOK /\ Events => NoEventLost
  <2> SUFFICES ASSUME TypeOK, Events PROVE NoEventLost
    OBVIOUS
  <2>1. Len(queue) <= 3
    BY Room DEF Events
  <2> QED BY <2>1, QueueAssumption DEF NoEventLost, TypeOK
<1> QED BY <1>1, EventsAlways, TypeCorrect, PTL

\* The state the gateway shows follows the station's associations, first leases and link
\* losses in whatever order they come, once the task has read them; of a lease lost
\* without the link it is never told (handle_got_ip, handle_disconnected).
THEOREM StateFollows == QueueLen >= 4 => (Spec => []LinkTold)
<1> SUFFICES ASSUME QueueLen >= 4 PROVE Spec => []LinkTold
  OBVIOUS
<1>1. TypeOK /\ Events => LinkTold
  BY DEF TypeOK, Events, Told, LinkTold
<1> QED BY <1>1, EventsAlways, TypeCorrect, PTL
=============================================================================
