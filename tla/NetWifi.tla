------------------------------- MODULE NetWifi -------------------------------
(***************************************************************************)
(* The boot state machine of components/net_wifi: the net task, the        *)
(* driver events it is told of through a bounded queue, its three          *)
(* deadlines (next attempt, fallback access point, end of the recovery     *)
(* access point) and the DNS responder that lives as long as the access    *)
(* point.  A deadline is off, armed or due; durations and the back-off are *)
(* left out.  The Wi-Fi driver and the network in range are external.      *)
(***************************************************************************)
EXTENDS Integers, Sequences

CONSTANTS
  QueueLen,     \* NET_QUEUE_LEN
  MaxErrors,    \* bound: driver and socket calls that fail
  MaxOverruns   \* bound: responders that do not exit within DNS_JOIN_TIMEOUT_MS

ASSUME QueueAssumption == QueueLen \in Nat \ {0}
ASSUME BoundsAssumption == MaxErrors \in Nat /\ MaxOverruns \in Nat

VARIABLES
  haveCreds,    \* s_have_creds: an SSID is configured
  pc,           \* where net_task is
  state,        \* s_state
  ap,           \* s_ap_active
  retry, fallback, grace,  \* s_retry_at, s_fallback_at, s_ap_grace_at
  services,     \* s_mdns_up and time_sync's s_started
  queue,        \* s_queue
  dnsRun,       \* s_run of dns_hijack
  exited,       \* s_exited of dns_hijack: no semaphore, an empty one or a given one
  dnsTasks,     \* the responder tasks that have not left their loop
  configured,   \* external: interfaces with our configuration
  mode,         \* external: the driver's mode
  link,         \* external: the station's association
  good,         \* external: the configured network answers and keeps its leases
  errors, overruns

deadlines == <<retry, fallback, grace>>
dns == <<dnsRun, exited, dnsTasks>>
driver == <<configured, mode, link>>
bounds == <<errors, overruns>>
vars == <<haveCreds, pc, state, ap, deadlines, services, queue, dns, driver, good, bounds>>

State == {"boot", "ap_provisioning", "sta_connecting", "sta_connected", "sta_fallback_ap"}
Event == {"sta_start", "sta_connected", "sta_disconnected", "got_ip"}
Deadline == {"off", "armed", "due"}

TypeOK ==
  /\ haveCreds \in BOOLEAN /\ state \in State /\ ap \in BOOLEAN
  /\ pc \in {"configure", "start", "wait", "retry", "fallback", "grace", "join", "drop", "dead"}
  /\ retry \in Deadline /\ fallback \in Deadline /\ grace \in Deadline
  /\ services \subseteq {"mdns", "sntp"}
  /\ queue \in Seq(Event) /\ Len(queue) <= QueueLen
  /\ dnsRun \in BOOLEAN /\ exited \in {"none", "empty", "given"} /\ dnsTasks \in Nat
  /\ configured \subseteq {"ap", "sta"} /\ mode \in {"null", "sta", "apsta"}
  /\ link \in {"stopped", "idle", "connecting", "associated", "up", "unleased"}
  /\ good \in BOOLEAN /\ errors \in 0..MaxErrors /\ overruns \in 0..MaxOverruns

Init ==
  /\ haveCreds \in BOOLEAN /\ pc = "configure" /\ state = "boot" /\ ap = FALSE
  /\ retry = "off" /\ fallback = "off" /\ grace = "off" /\ services = {} /\ queue = <<>>
  /\ dnsRun = FALSE /\ exited = "none" /\ dnsTasks = 0
  /\ configured = {} /\ mode = "null" /\ link = "stopped" /\ good \in BOOLEAN
  /\ errors = 0 /\ overruns = 0

-----------------------------------------------------------------------------
(* What the handlers are made of. *)

Works == UNCHANGED errors
Fails == errors < MaxErrors /\ errors' = errors + 1

\* notify: an event that finds the queue full is lost.
Notify(ev) == queue' = IF Len(queue) < QueueLen THEN Append(queue, ev) ELSE queue

\* A service that failed to start is tried again at the next occasion.
Start(wanted) ==
  \E started \in SUBSET (wanted \ services) :
    /\ services' = services \cup started
    /\ IF wanted \subseteq services' THEN Works ELSE Fails

StaysScheduled ==  \* mutant: the attempt does not take back its deadline
  \/ link = "idle" /\ link' = "connecting" /\ UNCHANGED retry /\ Works
  \/ UNCHANGED link /\ retry' = "armed" /\ (IF link = "idle" THEN Fails ELSE Works)

\* esp_wifi_connect refuses while the station is not idle.
TryConnect ==
  \/ link = "idle" /\ link' = "connecting" /\ retry' = "off" /\ Works
  \/ UNCHANGED link /\ retry' = "armed" /\ (IF link = "idle" THEN Fails ELSE Works)

\* A new responder gets a new semaphore, whoever still waits to give the old one; a failure
\* deletes it.  The socket of a responder that has not left may be in the way.
StartResponder ==
  \/ dnsRun /\ UNCHANGED dns /\ Works
  \/ ~dnsRun /\ dnsRun' = TRUE /\ exited' = "empty" /\ dnsTasks' = dnsTasks + 1 /\ Works
  \/ /\ ~dnsRun /\ UNCHANGED <<dnsRun, dnsTasks>> /\ exited' = "none"
     /\ IF dnsTasks > 0 THEN Works ELSE Fails

\* ap_up: the access point works without its responder.
ApUp == mode' = "apsta" /\ ap' = TRUE /\ StartResponder
ApUpFails == mode' \in {mode, "apsta"} /\ UNCHANGED <<ap, dns>> /\ Fails

-----------------------------------------------------------------------------
(* start_radio. *)

Wanted == IF haveCreds THEN {"ap", "sta"} ELSE {"ap"}

\* An error is returned at once and ends the task.
ConfigureInterfaces ==
  \/ configured' = Wanted /\ mode' = (IF haveCreds THEN "sta" ELSE "apsta")
     /\ pc' = "start" /\ Works
  \/ configured' \in SUBSET Wanted /\ mode' \in {"null", "apsta"} /\ pc' = "dead" /\ Fails

ConfigureRadio ==
  /\ pc = "configure" /\ ConfigureInterfaces
  /\ UNCHANGED <<haveCreds, state, ap, deadlines, services, queue, dns, link, good, overruns>>

DriverRefuses ==
  /\ pc' = "dead" /\ Fails
  /\ UNCHANGED <<link, state, ap, deadlines, services, queue, dns, mode>>

StartStation ==
  /\ haveCreds /\ pc' = "wait" /\ link' = "idle" /\ Notify("sta_start")
  /\ fallback' = "armed" /\ state' = "sta_connecting"
  /\ Start({"mdns"}) /\ UNCHANGED <<ap, retry, grace, dns, mode>>

StartProvisioning ==
  /\ ~haveCreds /\ link' = "idle" /\ Notify("sta_start") /\ UNCHANGED deadlines
  /\ \/ ApUp /\ services' \in SUBSET {"mdns"} /\ pc' = "wait" /\ state' = "ap_provisioning"
     \/ ApUpFails /\ pc' = "dead" /\ UNCHANGED <<state, services>>

StartRadio ==
  /\ pc = "start"
  /\ DriverRefuses \/ StartStation \/ StartProvisioning
  /\ UNCHANGED <<haveCreds, configured, good, overruns>>

-----------------------------------------------------------------------------
(* net_task: one event, then the deadlines. *)

Receive(ev) ==
  /\ pc = "wait" /\ queue # <<>> /\ Head(queue) = ev
  /\ queue' = Tail(queue) /\ pc' = "retry"
  /\ UNCHANGED <<haveCreds, configured, mode, dns, good, overruns>>

OnStart ==
  /\ Receive("sta_start")
  /\ IF haveCreds THEN TryConnect ELSE UNCHANGED <<link, retry, errors>>
  /\ UNCHANGED <<state, ap, fallback, grace, services>>

OnAssociated ==
  /\ Receive("sta_connected") /\ retry' = "off"
  /\ UNCHANGED <<state, ap, fallback, grace, services, link, errors>>

LinkLostKeepingGrace ==  \* mutant: the recovery access point is still torn down
  IF state # "sta_connected" THEN UNCHANGED <<state, fallback, grace>>
  ELSE /\ UNCHANGED grace
       /\ IF ap THEN state' = "sta_fallback_ap" /\ UNCHANGED fallback
                ELSE state' = "sta_connecting" /\ fallback' = "armed"

LinkLostWithoutAp ==  \* mutant: an access point that is up is taken for a lost link seen before
  IF state # "sta_connected" \/ ap THEN UNCHANGED <<state, fallback, grace>>
  ELSE grace' = "off" /\ state' = "sta_connecting" /\ fallback' = "armed"

\* Losing an established link keeps a recovery access point that is up, or starts the
\* whole cycle again.
LinkLost ==
  IF state # "sta_connected" THEN UNCHANGED <<state, fallback, grace>>
  ELSE /\ grace' = "off"
       /\ IF ap THEN state' = "sta_fallback_ap" /\ UNCHANGED fallback
                ELSE state' = "sta_connecting" /\ fallback' = "armed"

NextAttemptIfEstablished ==  \* mutant: only an established link is re-established
  retry' = IF state = "sta_connected" THEN "armed" ELSE retry
NextAttempt == retry' = "armed"

OnDisconnected ==
  /\ Receive("sta_disconnected")
  /\ IF haveCreds THEN LinkLost /\ NextAttempt ELSE UNCHANGED <<state, deadlines>>
  /\ UNCHANGED <<ap, services, link, errors>>

Grace == grace' = IF ap THEN "armed" ELSE grace

OnGotIp ==
  /\ Receive("got_ip") /\ Start({"mdns", "sntp"})
  /\ retry' = "off" /\ fallback' = "off" /\ state' = "sta_connected" /\ Grace
  /\ UNCHANGED <<ap, link>>

\* The wait ends at the earliest deadline, and after IDLE_WAIT_MS at the latest.
WakeUp ==
  /\ pc = "wait" /\ queue = <<>> /\ pc' = "retry"
  /\ UNCHANGED <<haveCreds, state, ap, deadlines, services, queue, dns, driver, good, bounds>>

RetryDeadline ==
  /\ pc = "retry" /\ pc' = "fallback"
  /\ IF retry = "due" THEN TryConnect ELSE UNCHANGED <<link, retry, errors>>
  /\ UNCHANGED <<haveCreds, state, ap, fallback, grace, services, queue, dns, configured,
                 mode, good, overruns>>

EnterFallbackOnce ==  \* mutant: an access point that did not come up is not tried again
  \/ ApUp /\ fallback' = "off" /\ state' = "sta_fallback_ap"
  \/ ApUpFails /\ fallback' = "off" /\ UNCHANGED state

EnterFallbackAp ==
  \/ ApUp /\ fallback' = "off" /\ state' = "sta_fallback_ap"
  \/ ApUpFails /\ fallback' = "armed" /\ UNCHANGED state

FallbackDeadline ==
  /\ pc = "fallback" /\ pc' = "grace"
  /\ IF fallback = "due" /\ state = "sta_connecting" THEN EnterFallbackAp
     ELSE UNCHANGED <<state, ap, fallback, mode, dns, errors>>
  /\ UNCHANGED <<haveCreds, retry, grace, services, queue, configured, link, good, overruns>>

\* ap_down asks a responder that runs to leave and waits for it.
StopResponder == dnsRun' = FALSE /\ UNCHANGED <<exited, dnsTasks>>

GraceDeadline ==
  /\ pc = "grace"
  /\ IF grace # "due" THEN pc' = "wait" /\ UNCHANGED <<grace, dns>>
     ELSE /\ grace' = "off"
          /\ IF ap /\ dnsRun THEN pc' = "join" /\ StopResponder
             ELSE pc' = (IF ap THEN "drop" ELSE "wait") /\ UNCHANGED dns
  /\ UNCHANGED <<haveCreds, state, ap, retry, fallback, services, queue, driver, good, bounds>>

\* The join ends with a given semaphore, which is deleted, or with its time-out.
Joined == exited = "given" /\ exited' = "none" /\ UNCHANGED overruns
JoinTimedOut ==
  exited # "given" /\ overruns < MaxOverruns /\ overruns' = overruns + 1 /\ UNCHANGED exited

Join ==
  /\ pc = "join" /\ (Joined \/ JoinTimedOut) /\ pc' = "drop"
  /\ UNCHANGED <<haveCreds, state, ap, deadlines, services, queue, dnsRun, dnsTasks, driver, good,
                 errors>>

\* A mode that cannot be set is logged only.
ApDown ==
  /\ pc = "drop" /\ pc' = "wait"
  /\ ap' = FALSE
  /\ \/ mode' = "sta" /\ Works
     \/ UNCHANGED mode /\ Fails
  /\ UNCHANGED <<haveCreds, state, deadlines, services, queue, dns, configured, link, good, overruns>>

\* dns_task notices s_run within its receive time-out and gives the semaphore of the day.
\* One that was deleted under it takes no gift ...
DnsExit ==
  /\ dnsTasks > 0 /\ ~dnsRun
  /\ dnsTasks' = dnsTasks - 1
  /\ exited' = IF exited = "none" THEN "none" ELSE "given"
  /\ UNCHANGED <<haveCreds, pc, state, ap, deadlines, services, queue, dnsRun, driver, good,
                 bounds>>

\* ... and one that is NULL fails an assertion, which resets the gateway.
DnsAbort ==
  /\ dnsTasks > 0 /\ ~dnsRun /\ exited = "none"
  /\ pc' = "configure" /\ state' = "boot" /\ ap' = FALSE
  /\ retry' = "off" /\ fallback' = "off" /\ grace' = "off" /\ services' = {} /\ queue' = <<>>
  /\ dnsTasks' = 0 /\ configured' = {} /\ mode' = "null" /\ link' = "stopped"
  /\ UNCHANGED <<haveCreds, dnsRun, exited, good, bounds>>

NetTask ==
  \/ ConfigureRadio \/ StartRadio
  \/ OnStart \/ OnAssociated \/ OnDisconnected \/ OnGotIp \/ WakeUp
  \/ RetryDeadline \/ FallbackDeadline \/ GraceDeadline \/ Join \/ ApDown

-----------------------------------------------------------------------------
(* The driver, the network and time (external). *)

TimePasses ==
  UNCHANGED <<haveCreds, pc, state, ap, services, queue, dns, driver, good, bounds>>
RetryDue == retry = "armed" /\ retry' = "due" /\ UNCHANGED <<fallback, grace>> /\ TimePasses
FallbackDue == fallback = "armed" /\ fallback' = "due" /\ UNCHANGED <<retry, grace>> /\ TimePasses
GraceDue == grace = "armed" /\ grace' = "due" /\ UNCHANGED <<retry, fallback>> /\ TimePasses

Becomes(from, to, ev) ==
  /\ link \in from /\ link' = to /\ Notify(ev)
  /\ UNCHANGED <<haveCreds, pc, state, ap, deadlines, services, dns, configured, mode, good,
                 bounds>>

Associate == Becomes({"connecting"}, "associated", "sta_connected")
Address == Becomes({"associated", "unleased"}, "up", "got_ip")
\* A lease with another address; two of them do not pile up.
Renew == ~good /\ (\A i \in DOMAIN queue : queue[i] # "got_ip") /\ Becomes({"up"}, "up", "got_ip")
Lose == ~good /\ Becomes({"connecting", "associated", "up", "unleased"}, "idle", "sta_disconnected")

\* The lease runs out while the station stays associated.  IP_EVENT_STA_LOST_IP comes, long
\* after the lease was told of, and has no handler.
LoseLease ==
  /\ ~good /\ link = "up" /\ link' = "unleased"
  /\ \A i \in DOMAIN queue : queue[i] # "got_ip"
  /\ UNCHANGED <<haveCreds, pc, state, ap, deadlines, services, queue, dns, configured, mode, good,
                 bounds>>

Weather ==
  /\ good' = ~good
  /\ UNCHANGED <<haveCreds, pc, state, ap, deadlines, services, queue, dns, driver, bounds>>

Next ==
  \/ NetTask \/ DnsExit \/ DnsAbort
  \/ RetryDue \/ FallbackDue \/ GraceDue
  \/ Associate \/ Address \/ Renew \/ Lose \/ LoseLease \/ Weather

Spec == Init /\ [][Next]_vars

\* Tasks run, time passes, and a network in range lets a station in; it may keep one
\* waiting for ever while it is not.
FairSpec ==
  /\ Spec /\ WF_vars(NetTask) /\ WF_vars(DnsExit \/ DnsAbort)
  /\ WF_vars(RetryDue) /\ WF_vars(FallbackDue) /\ WF_vars(GraceDue)
  /\ WF_vars(good /\ Associate) /\ WF_vars(good /\ Address)

-----------------------------------------------------------------------------
(* What the module promises. *)

\* Once start_radio has succeeded, the access point is up or the deadline that brings it up
\* runs whenever the gateway does not count as connected, whatever fails from then on
\* (enter_fallback_ap: "without the AP there is no way to fix the credentials").  A
\* start_radio that fails ends the task with neither: that case is left out here.
AlwaysAWayIn ==
  pc \notin {"configure", "start", "dead"} =>
    \/ state = "sta_connected"
    \/ state = "sta_connecting" /\ fallback # "off"
    \/ state \in {"sta_fallback_ap", "ap_provisioning"} /\ ap

\* An attempt takes back its deadline and only a disconnection sets the next, so attempts
\* do not overlap and no driver event is ever lost: four slots are enough however slow the
\* net task is (notify does not look at its result).
NoEventLost == Len(queue) < QueueLen

\* Once the task has seen every event, it says connected exactly while the station is
\* associated and has been given an address since.  An address that is lost again while
\* it stays associated changes nothing: nobody is told (handle_got_ip, handle_disconnected).
LinkTold ==
  haveCreds /\ pc = "wait" /\ queue = <<>>
    => (state = "sta_connected" <=> link \in {"up", "unleased"})

\* The recovery access point is taken from whoever is on it only while the gateway counts as
\* connected: a link lost within the grace period keeps it (handle_disconnected).  A
\* reset of the gateway, pc' = "configure", takes it too.
RecoveryStays ==
  [][ap /\ ~ap' => (state = "sta_connected" /\ state' = "sta_connected") \/ pc' = "configure"]_vars

\* No responder goes on answering every name once the access point is down, but those
\* that would not leave (dns_hijack_stop).
NoStrayResponder == ~ap => dnsTasks <= overruns

\* No beacon carries the driver's default SSID (start_radio).
BeaconIsOurs == link # "stopped" /\ mode = "apsta" => "ap" \in configured

\* A network that stays in range is joined for good and the recovery access point goes
\* away, unless the driver refused to start or to drop it.
Recovers ==
  haveCreds /\ <>[]good => <>[](state = "sta_connected" /\ ~ap) \/ <>[](pc = "dead")

=============================================================================
