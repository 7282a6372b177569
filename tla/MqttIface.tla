------------------------------ MODULE MqttIface ------------------------------
(***************************************************************************)
(* components/mqtt_iface: the worker that owns the MQTT client, the        *)
(* bounded work queue through which everything reaches it, and the copy of *)
(* the registry it keeps retained at the broker: state topics, the list    *)
(* of gears and the Home Assistant documents.  Lights is the set of gears  *)
(* and groups; groups never answer, so they are listed, not present.  The  *)
(* broker, the esp-mqtt client and the bus task are external.              *)
(***************************************************************************)
EXTENDS Integers, Sequences, FiniteSets

CONSTANTS
  Gear, Group,     \* lights of the two kinds
  Prefix, Off,     \* discovery prefixes, and the empty one: discovery is off
  WorkDepth,       \* WORK_QUEUE_DEPTH
  LoopDepth,       \* depth of the default event loop's queue
  Commands,        \* messages that may arrive
  MaxMoves         \* bound: changes of the world around the worker

Light == Gear \cup Group

ASSUME LightAssumption == Gear \cap Group = {} /\ Off \notin Prefix
ASSUME DepthAssumption == WorkDepth \in Nat \ {0} /\ LoopDepth \in Nat \ {0}
ASSUME CommandAssumption ==
  Commands \subseteq {"get_gears", "rename", "set_config", "reboot", "other"}
ASSUME MovesAssumption == MaxMoves \in Nat

VARIABLES
  \* flash and the live configuration, as far as mqtt.* goes
  conf,        \* [on, prefix, rev]: enabled with a uri; ha_discovery; which save it was
  http,        \* the HTTP task: "idle", "saving", "saved", or in mqtt_iface_restart, decided
  draft,       \* per writer the document that app_config_set has compared with s_cfg
  \* the worker and its queue
  setup,       \* worker_start: "none", "queue" (s_queue exists), "bound" (s_events_bound)
  worker,      \* s_worker exists
  queue,       \* s_queue
  pc,          \* "idle", inside client_stop, or saving like the HTTP task
  client,      \* s_client: NoClient, or the rev of the configuration it was started with
  connected,   \* s_connected
  dirty,       \* s_gears_dirty
  haPrefix,    \* s_ha_prefix
  haMask,      \* s_ha_gears and s_ha_groups
  swept,       \* s_ha_swept
  loop,        \* gw_events that have not been delivered
  \* the bus task's side (external)
  level,       \* the level the registry shows, per gear
  present,     \* gears present in the registry, groups named or with a known member
  scanned,     \* bus.last_scan # 0
  \* the esp-mqtt client and the broker (external)
  link,        \* "off", "connecting", "up", "dying": the connection of the client
  session,     \* "none", "live", "zombie": what the broker believes
  filters,     \* the broker's session has our subscriptions
  status, states, list, docs,   \* what is retained
  \* history and bounds
  lost,        \* kinds of work dropped on a full queue and not made up for, and what a
               \* restart came too late for
  synced,      \* ha_sync has run since the boot
  blind,       \* a document was left behind that no mask accounts for
  moves

NoClient == -1
None == -1
Differs == -1
Writer == {"http", "worker"}
Content(revs) == [on : BOOLEAN, prefix : Prefix \cup {Off}, rev : revs]
NoDraft == [on |-> FALSE, prefix |-> Off, rev |-> Differs]
configVars == <<conf, http, draft, setup>>
workerVars == <<worker, pc, client, connected, dirty, haPrefix, haMask, swept, synced>>
busVars == <<level, present, scanned>>
linkVars == <<link, session, filters>>
retained == <<status, states, list, docs>>
vars == <<configVars, workerVars, queue, loop, busVars, linkVars, retained, lost, blind,
          moves>>

Work == {<<"start">>, <<"stop">>, <<"restart">>, <<"connected">>, <<"disconnected">>,
         <<"publish_all">>, <<"result">>}
        \cup {<<"gear", g>> : g \in Gear} \cup {<<"message", c>> : c \in Commands}

TypeOK ==
  /\ conf \in Content(Nat) /\ draft \in [Writer -> Content(Nat \cup {Differs})]
  /\ http \in {"idle", "saving", "saved", "restart", "stop"}
  /\ setup \in {"none", "queue", "bound"} /\ worker \in BOOLEAN
  /\ queue \in Seq(Work) /\ Len(queue) <= WorkDepth
  /\ pc \in {"idle", "stopping", "restarting", "saving", "saved", "restart", "stop"}
  /\ client \in Nat \cup {NoClient}
  /\ connected \in BOOLEAN /\ dirty \in BOOLEAN /\ swept \in BOOLEAN /\ synced \in BOOLEAN
  /\ haPrefix \in Prefix \cup {Off} /\ haMask \subseteq Light
  /\ loop \in Seq(Work) /\ Len(loop) <= LoopDepth
  /\ level \in [Gear -> 0..1] /\ present \subseteq Light /\ scanned \in BOOLEAN
  /\ link \in {"off", "connecting", "up", "dying"}
  /\ session \in {"none", "live", "zombie"} /\ filters \in BOOLEAN
  /\ status \in {"none", "online", "offline"} /\ states \in [Gear -> {None, 0, 1}]
  /\ list \subseteq Gear /\ docs \subseteq Prefix \X Light
  /\ lost \subseteq {"start", "restart", "overtaken", "crossed", "connected", "gear", "result",
                    "message", "other"}
  /\ blind \in BOOLEAN /\ moves \in 0..MaxMoves

\* The static variables at reset.
Blank ==
  /\ http' = "idle" /\ pc' = "idle" /\ client' = NoClient /\ connected' = FALSE
  /\ draft' = [w \in Writer |-> NoDraft]
  /\ dirty' = FALSE /\ haPrefix' = Off /\ haMask' = {} /\ swept' = FALSE /\ synced' = FALSE
  /\ loop' = <<>>
  /\ present' = present \cap Group /\ scanned' = FALSE /\ link' = "off" /\ filters' = FALSE
  /\ lost' = {}

\* mqtt_iface_init: nothing is started while MQTT is disabled.  At boot it succeeds, or
\* app_main resets the gateway.
Started(on) == IF on THEN <<<<"start">>>> ELSE <<>>
SetUp(on) == IF on THEN "bound" ELSE "none"

\* Documents of an earlier boot may be retained.
Init ==
  /\ conf \in Content({0}) /\ http = "idle" /\ draft = [w \in Writer |-> NoDraft]
  /\ setup = SetUp(conf.on) /\ worker = conf.on /\ queue = Started(conf.on) /\ pc = "idle" /\ client = NoClient
  /\ connected = FALSE /\ dirty = FALSE /\ haPrefix = Off /\ haMask = {} /\ swept = FALSE
  /\ synced = FALSE /\ loop = <<>> /\ level = [g \in Gear |-> 0] /\ present = {} /\ scanned = FALSE
  /\ link = "off" /\ session = "none" /\ filters = FALSE
  /\ status = "none" /\ states = [g \in Gear |-> None] /\ list = {}
  /\ docs \in {{}, {<<conf.prefix, l>> : l \in IF conf.prefix = Off THEN {} ELSE Light}}
  /\ lost = {} /\ blind = FALSE /\ moves = 0

Move == moves < MaxMoves /\ moves' = moves + 1

-----------------------------------------------------------------------------
(* The work queue. *)

\* post_work: kind is what is lost when the queue is full, waited for or not.
Post(q, w, kind, missing) ==
  IF Len(q) < WorkDepth THEN queue' = Append(q, w) /\ lost' = missing
  ELSE queue' = q /\ lost' = missing \cup {kind}

\* gw_event_post drops what the event loop has no room for.
Announce(w, kind) ==
  IF Len(loop) < LoopDepth THEN loop' = Append(loop, w) /\ UNCHANGED lost
  ELSE UNCHANGED loop /\ lost' = lost \cup {kind}

\* mqtt_iface_restart decides by the configuration of the moment and posts afterwards.
Decision == IF conf.on THEN "restart" ELSE "stop"
Overtaken(decided) == IF decided # Decision THEN {"overtaken"} ELSE {}
PostDecided(decided) == Post(queue, <<decided>>, "restart", lost \cup Overtaken(decided))

-----------------------------------------------------------------------------
(* Publishing. *)

\* What reaches the broker of what is published: all of it, any part of it on a dying
\* connection, nothing without one.
Delivered(messages) ==
  CASE client = NoClient \/ link \in {"off", "connecting"} -> {{}}
    [] link = "up" -> {messages}
    [] OTHER -> SUBSET messages

EveryState == {<<"state", g>> : g \in present \cap Gear}
Arrives(got) ==
  /\ status' = IF <<"status">> \in got THEN "online" ELSE status
  /\ list' = IF <<"list">> \in got THEN present \cap Gear ELSE list
  /\ states' = [g \in Gear |-> IF <<"state", g>> \in got THEN level[g] ELSE states[g]]

\* publish_gears looks at the registry whether or not anything arrives.
PublishGears == \E got \in Delivered({<<"list">>} \cup EveryState) : Arrives(got) /\ dirty' = FALSE
PublishStatusAndList ==  \* mutant: the states wait for their next change
  \E got \in Delivered({<<"status">>, <<"list">>}) : Arrives(got) /\ dirty' = FALSE
PublishAll ==
  \E got \in Delivered({<<"status">>, <<"list">>} \cup EveryState) : Arrives(got) /\ dirty' = FALSE
PublishGear(g) ==
  /\ \E got \in Delivered({<<"state", g>>}) : Arrives(got)
  /\ dirty' = TRUE

-----------------------------------------------------------------------------
(* Home Assistant discovery. *)

\* ha_sync_gear and ha_sync_group for each light of S: a document for one that is there,
\* an empty one where the mask, or a sweep, says that there may be one.
Documents(S, mask, sweep) ==
  {<<"doc", l>> : l \in S \cap present}
    \cup {<<"clear", l>> : l \in (S \ present) \cap (IF sweep THEN Light ELSE mask)}
ClearAll == {<<"clear", l>> : l \in haMask}

Apply(D, p, got) ==
  (D \ {<<p, c[2]>> : c \in {x \in got : x[1] = "clear"}})
    \cup {<<p, c[2]>> : c \in {x \in got : x[1] = "doc"}}

LosesClear(D, p, sent, got) == \E c \in sent \ got : c[1] = "clear" /\ <<p, c[2]>> \in D

\* The mask follows what was sent, whether or not it arrived.
SyncLight(l) ==
  IF haPrefix = Off THEN UNCHANGED <<docs, haMask, blind>>
  ELSE LET sent == Documents({l}, haMask, FALSE)
       IN \E got \in Delivered(sent) :
            /\ docs' = Apply(docs, haPrefix, got)
            /\ haMask' = (haMask \ {l}) \cup ({l} \cap present)
            /\ blind' = (blind \/ LosesClear(docs, haPrefix, sent, got))

\* The blind pass waits for a scan and runs once per prefix.
SweepAtOnce(first) == first  \* mutant: it does not wait for a scan
SweepDue(first) == first /\ scanned

GivesUpPrefix == haPrefix # Off /\ conf.prefix # haPrefix

EmptiedLate(gone) == Apply(docs, conf.prefix, gone)  \* mutant: the new prefix is adopted first
Emptied(gone) == Apply(docs, haPrefix, gone)

HaSync ==
  LET cleared == IF GivesUpPrefix THEN ClearAll ELSE {}
      known   == IF GivesUpPrefix THEN {} ELSE haMask
      sweep   == SweepDue(GivesUpPrefix \/ ~swept)
      sent    == IF conf.prefix = Off THEN {} ELSE Documents(Light, known, sweep)
      unknown == {d \in docs : d[1] # conf.prefix /\ ~(d[1] = haPrefix /\ d[2] \in haMask)}
  IN /\ synced' = TRUE /\ haPrefix' = conf.prefix
     /\ haMask' = IF conf.prefix = Off THEN known ELSE Light \cap present
     /\ swept' = IF conf.prefix = Off THEN swept /\ ~GivesUpPrefix
                 ELSE sweep \/ (swept /\ ~GivesUpPrefix)
     /\ \E gone \in Delivered(cleared), got \in Delivered(sent) :
          LET left == Emptied(gone)
          IN /\ docs' = Apply(left, conf.prefix, got)
             /\ blind' = (blind \/ unknown # {} \/ LosesClear(docs, haPrefix, cleared, gone)
                                \/ LosesClear(left, conf.prefix, sent, got))

-----------------------------------------------------------------------------
(* The worker: client_start, client_stop and one work item after another. *)

StartClientAsBooted ==  \* mutant: the settings are those of the boot
  client' = 0 /\ link' = "connecting" /\ UNCHANGED <<lost, moves>>
StartClient ==
  \/ client' = conf.rev /\ link' = "connecting" /\ UNCHANGED <<lost, moves>>
  \/ client' = NoClient /\ link' = "off" /\ lost' = lost \cup {"start"} /\ Move

Take(w) == worker /\ pc = "idle" /\ queue # <<>> /\ Head(queue) = w
Done(w) == Take(w) /\ queue' = Tail(queue)
\* route_message and handle_cmd: a message is a command of one kind, or one of those that
\* change nothing here: refused, answered, or handed to the bus task.
Routed(c) == Done(<<"message", c>>)
Quiet == UNCHANGED <<worker, pc>>
SameDiscovery == UNCHANGED <<docs, haPrefix, haMask, swept, synced, blind>>
SameTopics == UNCHANGED <<status, states, list, dirty>>

WorkStart ==
  /\ Done(<<"start">>) /\ Quiet
  /\ IF client = NoClient THEN StartClient ELSE UNCHANGED <<client, link, lost, moves>>
  /\ SameDiscovery /\ SameTopics
  /\ UNCHANGED <<configVars, connected, loop, busVars, session, filters>>

\* The flag goes before the client does, and events may come in between.
BeginStop ==
  /\ \/ Done(<<"stop">>) /\ pc' = "stopping"
     \/ Done(<<"restart">>) /\ pc' = "restarting"
  /\ client' = NoClient /\ connected' = (connected /\ client = NoClient)
  /\ SameDiscovery /\ SameTopics
  /\ UNCHANGED <<configVars, worker, loop, busVars, linkVars, lost, moves>>

\* A client that is stopped says good-bye: the broker keeps its will to itself.
Farewell ==
  /\ session' = IF session = "live" THEN "none" ELSE session
  /\ filters' = FALSE

EndStop ==
  /\ pc = "stopping" /\ pc' = "idle" /\ link' = "off" /\ Farewell
  /\ SameDiscovery /\ SameTopics
  /\ UNCHANGED <<configVars, worker, client, connected, queue, loop, busVars, lost, moves>>

EndRestart ==
  /\ pc = "restarting" /\ pc' = "idle" /\ Farewell /\ StartClient
  /\ SameDiscovery /\ SameTopics
  /\ UNCHANGED <<configVars, worker, connected, queue, loop, busVars>>

\* on_connected: subscribe, then republish everything; what was dropped is made up for.
WorkConnected ==
  /\ Done(<<"connected">>) /\ Quiet
  /\ \E got \in Delivered({<<"subscribe">>}) : filters' = (filters \/ got # {})
  /\ PublishAll /\ HaSync
  /\ lost' = lost \ {"gear", "result", "connected"}
  /\ UNCHANGED <<configVars, client, connected, loop, busVars, link, session, moves>>

WorkPublish ==
  /\ \/ Done(<<"publish_all">>) /\ PublishAll
     \/ Done(<<"disconnected">>) /\ SameTopics
     \/ Routed("other") /\ SameTopics
     \/ Routed("get_gears") /\ PublishGears
  /\ Quiet /\ SameDiscovery
  /\ UNCHANGED <<configVars, client, connected, loop, busVars, linkVars, lost, moves>>

\* A gear that has no document yet gets one at once.
WorkGear(g) ==
  /\ Done(<<"gear", g>>) /\ Quiet /\ PublishGear(g)
  /\ IF g \notin haMask THEN SyncLight(g) ELSE UNCHANGED <<docs, haMask, blind>>
  /\ UNCHANGED <<configVars, client, connected, haPrefix, swept, synced, loop, busVars, linkVars,
                 lost, moves>>

\* The result of a scan or a commissioning: the whole view again.
WorkResult ==
  /\ Done(<<"result">>) /\ Quiet /\ PublishGears /\ HaSync
  /\ lost' = lost \ {"gear", "result"}
  /\ UNCHANGED <<configVars, client, connected, loop, busVars, linkVars, moves>>

\* cmd_rename of a gear: the registry takes the name and says so, and the document has it.
RenameGear(g) ==
  /\ Routed("rename") /\ Quiet /\ PublishGear(g) /\ SyncLight(g)
  /\ Announce(<<"gear", g>>, "gear")
  /\ UNCHANGED <<configVars, client, connected, haPrefix, swept, synced, busVars, linkVars, moves>>

\* cmd_rename of a group: named it gets an entity, unnamed it loses it.
Rename(k) ==
  /\ Routed("rename") /\ Quiet /\ SameTopics
  /\ present' \in {present \cup {k}, present \ {k}}
  /\ IF haPrefix = Off THEN UNCHANGED <<docs, haMask, blind>>
     ELSE LET sent == IF k \in present' THEN {<<"doc", k>>} ELSE {<<"clear", k>>} \cap ClearAll
          IN \E got \in Delivered(sent) :
               /\ docs' = Apply(docs, haPrefix, got)
               /\ haMask' = (haMask \ {k}) \cup ({k} \cap present')
               /\ blind' = (blind \/ LosesClear(docs, haPrefix, sent, got))
  /\ UNCHANGED <<configVars, client, connected, haPrefix, swept, synced, loop, level, scanned,
                 linkVars, lost, moves>>

\* app_config_set: the impact is decided by comparing with s_cfg ...
Compare(w) == \E d \in {conf} \cup Content({Differs}) : draft' = [draft EXCEPT ![w] = d]

\* ... and, once the flash is written, s_cfg is replaced by whatever was compared, a copy of
\* a configuration that another writer has replaced meanwhile included.
Adopt(w) ==
  LET d == draft[w]
  IN IF d.rev = conf.rev THEN UNCHANGED <<conf, lost>>
     ELSE /\ conf' = [d EXCEPT !.rev = conf.rev + 1]
          /\ lost' = IF d.rev = Differs THEN lost ELSE lost \cup {"crossed"}

\* Where the writer goes on: to mqtt_iface_restart if it saw a difference and the flash
\* took the document.
Saved(w, next) ==
  /\ \/ Adopt(w) /\ next = (IF draft[w].rev = Differs THEN "saved" ELSE "idle")
     \/ next = "idle" /\ UNCHANGED <<conf, lost>>
  /\ draft' = [draft EXCEPT ![w] = NoDraft]

\* cmd_set_config: the worker posts the restart to the queue it alone empties.
SetConfig ==
  /\ Routed("set_config") /\ Compare("worker") /\ pc' = "saving" /\ UNCHANGED worker
  /\ SameDiscovery /\ SameTopics
  /\ UNCHANGED <<conf, http, setup, client, connected, loop, busVars, linkVars, lost, moves>>
SaveOwn ==
  /\ pc = "saving" /\ (\E next \in {"idle", "saved"} : Saved("worker", next) /\ pc' = next)
  /\ UNCHANGED <<http, setup, worker, client, connected, queue, loop, busVars, linkVars, moves>>
  /\ SameDiscovery /\ SameTopics
RestartOwn ==
  /\ \/ pc = "saved" /\ pc' = Decision /\ UNCHANGED <<queue, lost>>
     \/ pc \in {"restart", "stop"} /\ PostDecided(pc) /\ pc' = "idle"
  /\ UNCHANGED worker
  /\ SameDiscovery /\ SameTopics
  /\ UNCHANGED <<configVars, client, connected, loop, busVars, linkVars, moves>>

\* Every GEARS_MIN_INTERVAL_MS a list that is out of date, every STATUS_INTERVAL_MS a status.
StatusTick == \E got \in Delivered({<<"status">>}) : Arrives(got) /\ UNCHANGED dirty
ListTickStaysDue ==  \* mutant: the list is published and stays out of date
  dirty /\ \E got \in Delivered({<<"list">>}) : Arrives(got) /\ UNCHANGED dirty
ListTick == dirty /\ \E got \in Delivered({<<"list">>}) : Arrives(got) /\ dirty' = FALSE
Tick ==
  /\ worker /\ pc = "idle" /\ connected /\ (StatusTick \/ ListTick)
  /\ Quiet /\ SameDiscovery
  /\ UNCHANGED <<configVars, client, connected, queue, loop, busVars, linkVars, lost, moves>>

Worker ==
  \/ WorkStart \/ BeginStop \/ EndStop \/ EndRestart \/ WorkConnected \/ WorkPublish
  \/ (\E g \in Gear : WorkGear(g) \/ RenameGear(g)) \/ WorkResult \/ (\E k \in Group : Rename(k))
  \/ SetConfig \/ SaveOwn \/ RestartOwn \/ Tick

-----------------------------------------------------------------------------
(* The other tasks: esp-mqtt's, the event loop, HTTP. *)

World == UNCHANGED <<worker, pc, client, dirty, haPrefix, haMask, swept, synced, blind>>

\* MQTT_EVENT_CONNECTED: the flag first, then the work; a session the broker still kept
\* ends with its will.
Connected ==
  /\ link = "connecting" /\ link' = "up" /\ connected' = TRUE
  /\ Post(queue, <<"connected">>, "connected", lost)
  /\ session' = "live" /\ filters' = FALSE
  /\ status' = IF session = "zombie" THEN "offline" ELSE status
  /\ World /\ UNCHANGED <<configVars, loop, busVars, states, list, docs, moves>>

Disconnected ==
  /\ link = "dying" /\ link' = "connecting" /\ connected' = FALSE
  /\ Post(queue, <<"disconnected">>, "other", lost)
  /\ World /\ UNCHANGED <<configVars, loop, busVars, session, filters, retained, moves>>

\* MQTT_EVENT_DATA: a message the queue has no room for is lost.
Message(c) ==
  /\ link = "up" /\ filters /\ Move
  /\ Post(queue, <<"message", c>>, "message", lost)
  /\ World /\ UNCHANGED <<configVars, connected, loop, busVars, linkVars, retained>>

\* gw_event_handler: events are ignored while there is no connection, and without a
\* handler nobody hears them.
DeliverEvent ==
  /\ loop # <<>> /\ loop' = Tail(loop)
  /\ \/ connected /\ setup = "bound" /\ Post(queue, Head(loop), Head(loop)[1], lost)
     \/ connected /\ setup # "bound" /\ lost' = lost \cup {Head(loop)[1]} /\ UNCHANGED queue
     \/ ~connected /\ UNCHANGED <<queue, lost>>
  /\ World /\ UNCHANGED <<configVars, connected, busVars, linkVars, retained, moves>>

\* apply_config saves, and calls mqtt_iface_restart after it.
HttpSave ==
  /\ http = "idle" /\ http' = "saving" /\ Move /\ Compare("http")
  /\ World /\ UNCHANGED <<conf, setup, connected, queue, loop, busVars, linkVars, retained, lost>>
HttpAdopt ==
  /\ http = "saving" /\ (\E next \in {"idle", "saved"} : Saved("http", next) /\ http' = next)
  /\ World /\ UNCHANGED <<setup, connected, queue, loop, busVars, linkVars, retained, moves>>

\* worker_start without memory for the queue, for the task, or for the event handler: a
\* later call finds the queue and takes it that all of it is there.
StartFails ==
  /\ \/ setup' = "none" /\ worker' = FALSE
     \/ setup' = "queue" /\ worker' \in BOOLEAN
  /\ queue' = <<>> /\ lost' = lost \cup {"start"}
StartWorker ==
  \/ setup' = SetUp(conf.on) /\ worker' = conf.on /\ queue' = Started(conf.on) /\ UNCHANGED lost
  \/ conf.on /\ StartFails

HttpRestart ==
  /\ \/ http = "saved" /\ setup # "none" /\ http' = Decision
        /\ UNCHANGED <<setup, worker, queue, lost>>
     \/ http = "saved" /\ setup = "none" /\ http' = "idle" /\ StartWorker
     \/ http \in {"restart", "stop"} /\ PostDecided(http) /\ http' = "idle"
        /\ UNCHANGED <<setup, worker>>
  /\ UNCHANGED <<conf, draft, pc, client, connected, dirty, haPrefix, haMask, swept, synced, blind,
                 loop, busVars, linkVars, retained, moves>>

HttpPublishAll ==
  /\ connected /\ Move /\ Post(queue, <<"publish_all">>, "other", lost)
  /\ World /\ UNCHANGED <<configVars, connected, loop, busVars, linkVars, retained>>

-----------------------------------------------------------------------------
(* The bus task, the network, the broker and the power supply (external). *)

Registry ==
  /\ Move /\ World /\ UNCHANGED <<configVars, connected, queue, linkVars, retained>>

GearChanges(g) ==
  /\ \/ g \in present /\ level' = [level EXCEPT ![g] = 1 - @] /\ UNCHANGED present
     \/ UNCHANGED level /\ present' = IF g \in present THEN present \ {g} ELSE present \cup {g}
  /\ Announce(<<"gear", g>>, "gear") /\ UNCHANGED scanned /\ Registry

ScanEnds(S) ==
  /\ present' = S \cup (present \cap Group) /\ scanned' = TRUE /\ UNCHANGED level
  /\ Announce(<<"result">>, "result") /\ Registry

\* Named over HTTP, or found by a deep scan: no event says so.
GroupListed(k) ==
  /\ present' = IF k \in present THEN present \ {k} ELSE present \cup {k}
  /\ UNCHANGED <<level, scanned, loop, lost>> /\ Registry

LinkDies ==
  /\ link = "up" /\ link' = "dying" /\ Move
  /\ session' = "zombie" /\ UNCHANGED filters
  /\ World /\ UNCHANGED <<configVars, connected, queue, loop, busVars, retained, lost>>

Will ==
  /\ session = "zombie" /\ session' = "none" /\ status' = "offline"
  /\ World
  /\ UNCHANGED <<configVars, connected, queue, loop, busVars, link, filters, states, list, docs,
                 lost, moves>>

\* A reset: the configuration and the broker's copies outlive it.
Reboots ==
  /\ Blank /\ setup' = SetUp(conf.on) /\ worker' = conf.on /\ queue' = Started(conf.on)
  /\ session' = IF session = "live" THEN "zombie" ELSE session
  /\ UNCHANGED <<conf, level, retained, blind>>
Reset == Move /\ Reboots
\* cmd_reboot
Reboot == Take(<<"message", "reboot">>) /\ Reboots /\ UNCHANGED moves

Next ==
  \/ Worker \/ Reboot
  \/ Connected \/ Disconnected \/ (\E c \in Commands : Message(c)) \/ DeliverEvent
  \/ HttpSave \/ HttpAdopt \/ HttpRestart \/ HttpPublishAll
  \/ (\E g \in Gear : GearChanges(g)) \/ (\E S \in SUBSET Gear : ScanEnds(S))
  \/ (\E k \in Group : GroupListed(k)) \/ LinkDies \/ Will \/ Reset

Spec == Init /\ [][Next]_vars

\* Tasks run, and the broker answers whoever goes on trying.
FairSpec ==
  /\ Spec /\ WF_vars(Worker \/ Reboot) /\ WF_vars(Connected) /\ WF_vars(Disconnected)
  /\ WF_vars(DeliverEvent) /\ WF_vars(HttpAdopt \/ HttpRestart)

-----------------------------------------------------------------------------
(* What the adapter promises. *)

Idle == worker /\ pc = "idle" /\ queue = <<>> /\ loop = <<>> /\ http = "idle"
Settled == Idle /\ client # NoClient /\ link = "up"

\* Work done, nothing dropped: the adapter listens, the broker's copy is the registry,
\* although events are ignored until the connection is up and the snapshot is taken after
\* that, every gear has its entity under the prefix that is configured, and what the masks
\* say is there (ha_sync: "the advertised masks are authoritative").
RetainedIsCurrent ==
  Settled /\ lost = {} =>
    /\ filters /\ status = "online"
    /\ \A g \in present \cap Gear : states[g] = level[g]
    /\ list = present \cap Gear \/ dirty
    /\ haPrefix = conf.prefix
    /\ haPrefix # Off => /\ present \cap Gear \subseteq haMask
                         /\ \A l \in haMask : <<haPrefix, l>> \in docs

\* Once the gateway has looked at the broker's copy, there are documents under the prefix in
\* force only, none if discovery is off, and after the blind pass only those the masks
\* know, unless a removal was lost on its way or a prefix was given up before the pass
\* (ha_sync: "a changed - or switched off - prefix has to be emptied").
NoOrphan ==
  synced /\ ~blind => \A d \in docs : d[1] = haPrefix /\ (swept => d[2] \in haMask)

\* A gateway that merely rebooted does not drop its entities: a document goes only for a
\* gear or group that the registry lost since, after a scan, or with its prefix.
KeepsEntities ==
  [][\A d \in docs \ docs' : scanned \/ d[2] \in haMask]_vars

\* Whoever changed the configuration finds the client on it, once work is done.  Excepted by
\* name: a client or a worker that could not be started; a restart that found no room
\* (post_work's refusal is not looked at); one that another writer's save overtook between
\* its decision and its post; and a save whose comparison another writer's crossed, so
\* that no restart follows it.
ConfigAdopted ==
  Idle /\ lost \cap {"start", "restart", "overtaken", "crossed"} = {}
    => client = IF conf.on THEN conf.rev ELSE NoClient

\* The world left alone, the adapter comes to rest.
ComesToRest == <>[](conf.on /\ lost = {} => Settled /\ ~dirty)
=============================================================================
