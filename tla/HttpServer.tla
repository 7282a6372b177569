----------------------------- MODULE HttpServer ------------------------------
(***************************************************************************)
(* The HTTP server's one task with the two things of it that last, event   *)
(* streams (http_sse.c) and a firmware upload (http_route_ota), and the    *)
(* bounded event loop (gw_events.c) that feeds the streams, the status LED *)
(* and the guard that confirms a new image (ota_validate.c).  Sockets, the *)
(* bootloader, the network and the bus are external.                       *)
(***************************************************************************)
EXTENDS Integers, Sequences, FiniteSets

CONSTANTS
  Fd,          \* sockets the server may hold
  MaxClients,  \* HTTP_IFACE_MAX_SSE_CLIENTS
  LoopDepth    \* depth of the default event loop's queue

ASSUME SizeAssumption == MaxClients \in Nat \ {0} /\ LoopDepth \in Nat \ {0}

VARIABLES
  httpd,       \* "idle", or "upload" inside http_route_ota
  conn,        \* external: what a socket is: "closed", "rest" or "stream"
  clients,     \* s_clients: the sockets that get frames
  behind,      \* streams that miss a frame or a part of one
  closing,     \* sockets whose close is queued (httpd_sess_trigger_close)
  kept,        \* history: streams dropped while the server refused to queue their close
  loop,        \* events that have not been delivered
  fact,        \* what the events are about: the network is up, the bus is powered
  led,         \* s_net_state, s_bus_error, s_ota, as they are true or not
  stale,       \* kinds whose last change no event says, dropped or never posted
  running,     \* the running image: "confirmed" or "pending"
  spare,       \* the other slot: "confirmed", "none" or "new"
  selected,    \* the slot to boot: "running" or "spare"
  guard,       \* ota_validate: "off", "watch", "done" (s_done), or "failed": done, not marked
  seen         \* s_net_ok, s_bus_ok: which of the two hold; not read after s_done

sockets == <<conn, clients, behind, closing, kept>>
images == <<running, spare, selected>>
watch == <<guard, seen>>
events == <<loop, stale>>
vars == <<httpd, sockets, events, fact, led, images, watch>>

Fact == {"net", "power"}
Kind == Fact \cup {"ota"}
Event == (Kind \X BOOLEAN) \cup {<<"activity", TRUE>>}

TypeOK ==
  /\ httpd \in {"idle", "upload"} /\ conn \in [Fd -> {"closed", "rest", "stream"}]
  /\ clients \subseteq Fd /\ Cardinality(clients) <= MaxClients
  /\ behind \subseteq Fd /\ closing \subseteq Fd /\ kept \subseteq Fd
  /\ loop \in Seq(Event) /\ Len(loop) <= LoopDepth
  /\ fact \in [Fact -> BOOLEAN] /\ led \in [Kind -> BOOLEAN] /\ stale \subseteq Kind
  /\ running \in {"confirmed", "pending"} /\ spare \in {"confirmed", "none", "new"}
  /\ selected \in {"running", "spare"} /\ guard \in {"off", "watch", "done", "failed"}
  /\ seen \subseteq {"net", "bus"}

Quiet == [f \in Fd |-> "closed"]
AtBoot(kinds) == [k \in kinds |-> k = "power"]

Init ==
  /\ httpd = "idle" /\ conn = Quiet
  /\ clients = {} /\ behind = {} /\ closing = {} /\ kept = {}
  /\ loop = <<>> /\ stale = {}
  /\ fact = AtBoot(Fact) /\ led = AtBoot(Kind)
  /\ running = "confirmed" /\ spare = "none" /\ selected = "running"
  /\ guard = "off" /\ seen = {}

-----------------------------------------------------------------------------
(* gw_event_post never waits: an event the loop has no room for is dropped. *)

Post(ev) ==
  IF Len(loop) < LoopDepth
  THEN loop' = Append(loop, ev) /\ stale' = stale \ {ev[1]}
  ELSE UNCHANGED loop /\ stale' = stale \cup ({ev[1]} \cap Kind)

NeverPosted(k) == UNCHANGED loop /\ stale' = stale \cup {k}

Elsewhere == UNCHANGED <<httpd, sockets, led, images, watch>>

\* set_state and bus_check tell what changed.
Changes(k) ==
  /\ fact' = [fact EXCEPT ![k] = ~@] /\ Post(<<k, fact'[k]>>) /\ Elsewhere
\* A transaction, answered or not.
Transaction == Post(<<"activity", TRUE>>) /\ UNCHANGED fact /\ Elsewhere

-----------------------------------------------------------------------------
(* http_sse.c *)

\* send_raw to every client: one that does not take all of it is dropped.  Its slot is freed
\* whether or not the server takes the close (httpd_sess_trigger_close's result is not read).
DropNone(failing) == UNCHANGED <<clients, closing, kept>>  \* mutant: the tail is not looked at
Drop(failing) ==
  /\ clients' = clients \ failing
  /\ \E refused \in SUBSET failing :
       /\ closing' = closing \cup {f \in failing \ refused : conn[f] # "closed"}
       /\ kept' = kept \cup {f \in refused : conn[f] = "stream"}

Send ==
  \E failing \in SUBSET clients :
    /\ \A f \in clients : conn[f] = "closed" => f \in failing
    /\ Drop(failing)
    /\ behind' = behind \cup {f \in Fd : conn[f] = "stream" /\ f \notin clients \ failing}
  /\ UNCHANGED conn

Heartbeat ==
  /\ clients # {} /\ Send /\ UNCHANGED <<httpd, events, fact, led, images, watch>>

\* A new session takes a free socket, or that of the session purged for it.
Accept(f) ==
  /\ httpd = "idle" /\ (conn[f] = "closed" \/ \A g \in Fd : conn[g] # "closed")
  /\ conn' = [conn EXCEPT ![f] = "rest"] /\ behind' = behind \ {f} /\ kept' = kept \ {f}
  /\ UNCHANGED <<httpd, clients, closing, events, fact, led, images, watch>>

\* http_sse_open: the slot that already holds the socket, or a free one, or a refusal.
Open(f) ==
  /\ httpd = "idle" /\ conn[f] = "rest"
  /\ f \in clients \/ Cardinality(clients) < MaxClients
  /\ \/ /\ clients' = clients \cup {f} /\ conn' = [conn EXCEPT ![f] = "stream"]
        /\ UNCHANGED closing
     \/ /\ clients' = clients \ {f} /\ conn' = [conn EXCEPT ![f] = "closed"]
        /\ closing' = closing \ {f}
  /\ UNCHANGED <<httpd, behind, kept, events, fact, led, images, watch>>

Close(f) ==
  /\ httpd = "idle" /\ conn[f] # "closed"
  /\ conn' = [conn EXCEPT ![f] = "closed"] /\ behind' = behind \ {f}
  /\ closing' = closing \ {f} /\ kept' = kept \ {f}
  /\ UNCHANGED <<httpd, clients, events, fact, led, images, watch>>
CloseQueued(f) == f \in closing /\ Close(f)
ClientLeaves(f) == f \notin closing /\ Close(f)

-----------------------------------------------------------------------------
(* http_route_ota: the server does nothing else until the upload is over. *)

\* esp_ota_begin erases the spare slot, which may be the one to boot; it refuses while the
\* running image is pending.
UploadBegins ==
  /\ httpd = "idle" /\ running = "confirmed" /\ spare' = "none"
  /\ \/ httpd' = "upload" /\ Post(<<"ota", TRUE>>)
     \/ httpd' = "idle" /\ UNCHANGED events
  /\ UNCHANGED <<sockets, fact, led, running, selected, watch>>

UploadProgress ==
  /\ httpd = "upload" /\ Post(<<"ota", TRUE>>)
  /\ UNCHANGED <<httpd, sockets, fact, led, images, watch>>

\* recv, esp_ota_write or esp_ota_end fails; the first error path has no event.
SaysNothing == UNCHANGED events  \* mutant: the error reply is all
SaysInterrupted == Post(<<"ota", FALSE>>)
UploadFails ==
  /\ httpd = "upload" /\ httpd' = "idle"
  /\ SaysInterrupted \/ NeverPosted("ota")
  /\ UNCHANGED <<sockets, fact, led, images, watch>>

UploadEnds ==
  /\ httpd = "upload" /\ httpd' = "idle" /\ spare' = "new"
  /\ \/ selected' = "spare" /\ Post(<<"ota", FALSE>>)
     \/ UNCHANGED selected /\ NeverPosted("ota")
  /\ UNCHANGED <<sockets, fact, led, running, watch>>
Upload == UploadProgress \/ UploadFails \/ UploadEnds

-----------------------------------------------------------------------------
(* The event loop's task: status_led, ota_validate and the streams, one event at a time. *)

\* mark_valid is called once, whether or not the mark can be written.
MarkValid ==
  /\ seen' = {}
  /\ \/ guard' = "done" /\ running' = "confirmed"
     \/ guard' = "failed" /\ UNCHANGED running

\* on_gw_event: the network as it is now, the bus once and for all.
Seen(ev) ==
  CASE ev = <<"net", TRUE>> -> seen \cup {"net"}
    [] ev = <<"net", FALSE>> -> seen \ {"net"}
    [] ev[1] = "activity" -> seen \cup {"bus"}
    [] OTHER -> seen

Watch(ev) ==
  IF guard # "watch" THEN UNCHANGED <<watch, running>>
  ELSE IF Seen(ev) = {"net", "bus"} THEN MarkValid
  ELSE seen' = Seen(ev) /\ UNCHANGED <<guard, running>>

\* status_led's on_gw_event
Show(ev) == led' = IF ev[1] \in Kind THEN [led EXCEPT ![ev[1]] = ev[2]] ELSE led

Deliver ==
  /\ loop # <<>> /\ loop' = Tail(loop) /\ UNCHANGED stale
  /\ LET ev == Head(loop)
     IN /\ Show(ev)
        /\ Watch(ev)
        /\ UNCHANGED sockets \/ (ev[1] = "power" /\ Send)  \* broadcast may lack the memory
  /\ UNCHANGED <<httpd, fact, spare, selected>>

GraceNever == FALSE  \* mutant: the timer is not started
Grace == guard = "watch" /\ MarkValid
GraceElapses ==
  /\ Grace /\ UNCHANGED <<httpd, sockets, events, fact, led, spare, selected>>

\* ota_validate_init comes last: what was delivered before it is not seen.
GuardStarts ==
  /\ guard = "off" /\ running = "pending" /\ guard' = "watch"
  /\ UNCHANGED <<httpd, sockets, events, fact, led, images, seen>>

-----------------------------------------------------------------------------
(* A restart, wanted or not, and the bootloader (external). *)

Boots(r, s) == running' = r /\ spare' = s /\ selected' = "running"
Reset ==
  /\ httpd' = "idle" /\ conn' = Quiet
  /\ clients' = {} /\ behind' = {} /\ closing' = {} /\ kept' = {}
  /\ loop' = <<>> /\ stale' = {}
  /\ fact' = AtBoot(Fact) /\ led' = AtBoot(Kind)
  /\ guard' = "off" /\ seen' = {}
  /\ IF running = "pending" THEN Boots("confirmed", "none")
     ELSE IF selected = "spare" /\ spare = "new" THEN Boots("pending", "confirmed")
     ELSE Boots("confirmed", spare)

Next ==
  \/ \E k \in Fact : Changes(k)
  \/ Transaction \/ Heartbeat
  \/ \E f \in Fd : Accept(f) \/ Open(f) \/ CloseQueued(f) \/ ClientLeaves(f)
  \/ UploadBegins \/ Upload \/ Deliver \/ GraceElapses \/ GuardStarts \/ Reset

Spec == Init /\ [][Next]_vars

\* Tasks and timers run; queued work comes before the next request.  Nothing makes an upload
\* end: a receive that times out is tried again for ever.
FairSpec ==
  /\ Spec /\ WF_vars(Deliver) /\ WF_vars(GuardStarts) /\ WF_vars(GraceElapses)
  /\ \A f \in Fd : SF_vars(CloseQueued(f))

-----------------------------------------------------------------------------
(* What these components promise. *)

\* If the server is free again and again, a stream that misses a frame that was sent, or the
\* end of one, does not stay open: the browser sees it close, reconnects and reads everything
\* again (send_raw: a client that stopped reading "must be dropped").  Excepted is one whose
\* close the server refused.  An event that the loop or the memory had no room for is no
\* frame: every stream misses it and stays open.
GapsEnd ==
  []<>(httpd = "idle") => \A f \in Fd : f \in behind \ kept ~> f \notin behind

\* A stream that misses something has its close queued, unless the server refused to queue it
\* when the slot was freed (send_raw, drop_locked): no other stream is open with a gap in it.
GapsAreClosed == behind \subseteq closing \cup kept

\* effective_pattern, of what there is no event of a held button or of MQTT about
Pattern(s) ==
  IF s["ota"] THEN "ota" ELSE IF ~s["power"] THEN "bus_error"
  ELSE IF s["net"] THEN "connected" ELSE "connecting"

\* When every event is delivered the LED shows the most urgent thing that is true, unless
\* an event of it was dropped or an error path of the upload posted none.
LedTellsTruth ==
  loop = <<>> /\ stale = {} =>
    Pattern(led) = Pattern([k \in Kind |-> IF k = "ota" THEN httpd = "upload" ELSE fact[k]])

\* A new image is confirmed or rolled back, it does not stay pending, unless the mark could
\* not be written (docs/SPEC.md:490: "or 2 minutes elapsed with no crash").
ImageSettles == running = "pending" ~> running = "confirmed" \/ guard = "failed"
=============================================================================
