-------------------------- MODULE HttpServerProofs --------------------------
(***************************************************************************)
(* Theorems about HttpServer, for any sockets, number of streams and       *)
(* length of the event loop: no table overflows, a stream with a gap has   *)
(* its close queued unless the server refused that, and the LED ends up    *)
(* telling the truth.                                                      *)
(***************************************************************************)
EXTENDS HttpServer, FiniteSetTheorems, SequenceTheorems, TLAPS

-----------------------------------------------------------------------------
(* Types. *)

\* The list of streams is finite although sockets may not be.
Types == TypeOK /\ IsFiniteSet(clients)

LEMMA EventIs ==
  ASSUME NEW ev \in Event
  PROVE  ev = <<ev[1], ev[2]>> /\ ev[2] \in BOOLEAN
<1>1. CASE ev \in Kind \X BOOLEAN
  BY <1>1
<1>2. CASE ev = <<"activity", TRUE>>
  BY <1>2
<1> QED BY <1>1, <1>2 DEF Event

LEMMA PostTypes ==
  ASSUME TypeOK, NEW ev \in Event, Post(ev)
  PROVE  loop' \in Seq(Event) /\ Len(loop') <= LoopDepth /\ stale' \subseteq Kind
<1>1. loop \in Seq(Event) /\ Len(loop) <= LoopDepth /\ LoopDepth \in Nat /\ stale \subseteq Kind
  BY SizeAssumption DEF TypeOK
<1>2. CASE Len(loop) < LoopDepth
  <2>1. loop' = Append(loop, ev) /\ stale' \subseteq stale
    BY <1>2 DEF Post
  <2>2. loop' \in Seq(Event) /\ Len(loop') = Len(loop) + 1
    BY <1>1, <2>1
  <2> QED BY <1>1, <1>2, <2>1, <2>2
<1>3. CASE ~(Len(loop) < LoopDepth)
  BY <1>1, <1>3 DEF Post
<1> QED BY <1>2, <1>3

LEMMA NeverPostedTypes ==
  ASSUME TypeOK, NeverPosted("ota")
  PROVE  loop' \in Seq(Event) /\ Len(loop') <= LoopDepth /\ stale' \subseteq Kind
  BY DEF TypeOK, NeverPosted, Kind

LEMMA SendTypes ==
  ASSUME Types, Send
  PROVE  /\ clients' \subseteq Fd /\ IsFiniteSet(clients') /\ Cardinality(clients') <= MaxClients
         /\ behind' \subseteq Fd /\ closing' \subseteq Fd /\ kept' \subseteq Fd /\ UNCHANGED conn
<1>1. PICK failing \in SUBSET clients :
        /\ Drop(failing)
        /\ behind' = behind \cup {f \in Fd : conn[f] = "stream" /\ f \notin clients \ failing}
  BY DEF Send
<1>2. clients' \subseteq clients /\ closing' \subseteq closing \cup clients /\ kept' \subseteq kept \cup clients
  BY <1>1 DEF Drop
<1>3. IsFiniteSet(clients') /\ Cardinality(clients') <= Cardinality(clients)
  BY <1>2, FS_Subset DEF Types
<1>4. Cardinality(clients') \in Nat /\ Cardinality(clients) \in Nat
  BY <1>3, FS_CardinalityType DEF Types
<1>5. Cardinality(clients') <= MaxClients
  BY <1>3, <1>4, SizeAssumption DEF Types, TypeOK
<1> QED BY <1>1, <1>2, <1>3, <1>5 DEF Types, TypeOK, Send

LEMMA OpenTypes ==
  ASSUME Types, NEW f \in Fd, Open(f)
  PROVE  clients' \subseteq Fd /\ IsFiniteSet(clients') /\ Cardinality(clients') <= MaxClients
<1>1. IsFiniteSet(clients) /\ clients \subseteq Fd /\ Cardinality(clients) <= MaxClients
      /\ Cardinality(clients) \in Nat /\ MaxClients \in Nat
  BY FS_CardinalityType, SizeAssumption DEF Types, TypeOK
<1>2. CASE clients' = clients \ {f}
  <2>1. IsFiniteSet(clients') /\ Cardinality(clients') <= Cardinality(clients)
    BY <1>1, <1>2, FS_Subset
  <2>2. Cardinality(clients') \in Nat
    BY <2>1, FS_CardinalityType
  <2> QED BY <1>1, <1>2, <2>1, <2>2
<1>3. CASE clients' = clients \cup {f} /\ f \in clients
  <2>1. clients' = clients
    BY <1>3
  <2> QED BY <1>1, <2>1
<1>4. CASE clients' = clients \cup {f} /\ f \notin clients
  <2>1. Cardinality(clients) < MaxClients
    BY <1>4 DEF Open
  <2>2. IsFiniteSet(clients') /\ Cardinality(clients') = Cardinality(clients) + 1
    BY <1>1, <1>4, FS_AddElement
  <2> QED BY <1>1, <1>4, <2>1, <2>2
<1> QED BY <1>2, <1>3, <1>4 DEF Open

LEMMA WatchTypes ==
  ASSUME TypeOK, NEW ev \in Event, Watch(ev)
  PROVE  /\ guard' \in {"off", "watch", "done", "failed"} /\ seen' \subseteq {"net", "bus"}
         /\ running' \in {"confirmed", "pending"}
<1>1. seen \subseteq {"net", "bus"} /\ guard \in {"off", "watch", "done", "failed"}
      /\ running \in {"confirmed", "pending"}
  BY DEF TypeOK
<1>2. Seen(ev) \subseteq {"net", "bus"}
  BY <1>1 DEF Seen
<1>3. CASE MarkValid
  BY <1>1, <1>3 DEF MarkValid
<1>4. CASE UNCHANGED <<guard, seen, running>>
  BY <1>1, <1>4
<1>5. CASE seen' = Seen(ev) /\ UNCHANGED <<guard, running>>
  BY <1>1, <1>2, <1>5
<1> QED BY <1>3, <1>4, <1>5 DEF Watch, watch

LEMMA InitTypes == Init => Types
<1> SUFFICES ASSUME Init PROVE Types
  OBVIOUS
<1>1. IsFiniteSet(clients) /\ Cardinality(clients) = 0
  BY FS_EmptySet DEF Init
<1>2. loop \in Seq(Event) /\ Len(loop) = 0
  BY DEF Init
<1>3. fact \in [Fact -> BOOLEAN] /\ led \in [Kind -> BOOLEAN] /\ conn \in [Fd -> {"closed", "rest", "stream"}]
  BY DEF Init, AtBoot, Quiet
<1> QED BY <1>1, <1>2, <1>3, SizeAssumption DEF Init, Types, TypeOK

LEMMA NextTypes == Types /\ [Next]_vars => Types'
<1> SUFFICES ASSUME Types, [Next]_vars PROVE Types'
  OBVIOUS
<1>0. TypeOK
  BY DEF Types
<1> USE DEF Types
<1>1. ASSUME NEW k \in Fact, Changes(k) PROVE Types'
  <2>1. fact' \in [Fact -> BOOLEAN] /\ <<k, fact'[k]>> \in Event
    BY <1>1, <1>0 DEF Changes, TypeOK, Event, Kind
  <2>2. loop' \in Seq(Event) /\ Len(loop') <= LoopDepth /\ stale' \subseteq Kind
    BY <1>0, <1>1, <2>1, PostTypes DEF Changes
  <2> QED BY <1>0, <1>1, <2>1, <2>2 DEF Changes, Elsewhere, TypeOK, sockets, images, watch
<1>2. CASE Transaction
  <2>1. loop' \in Seq(Event) /\ Len(loop') <= LoopDepth /\ stale' \subseteq Kind
    BY <1>0, <1>2, PostTypes DEF Transaction, Event
  <2> QED BY <1>0, <1>2, <2>1 DEF Transaction, Elsewhere, TypeOK, sockets, images, watch
<1>3. CASE Heartbeat
  <2>1. Send
    BY <1>3 DEF Heartbeat
  <2> QED BY <1>0, <1>3, <2>1, SendTypes DEF Heartbeat, TypeOK, images, watch, events
<1>4. ASSUME NEW f \in Fd, Accept(f) \/ Close(f) PROVE Types'
  <2>1. /\ conn' \in [Fd -> {"closed", "rest", "stream"}] /\ behind' \subseteq Fd
        /\ closing' \subseteq Fd /\ kept' \subseteq Fd
    BY <1>0, <1>4 DEF Accept, Close, TypeOK
  <2> QED BY <1>0, <1>4, <2>1 DEF Accept, Close, TypeOK, images, watch, events
<1>5. ASSUME NEW f \in Fd, Open(f) PROVE Types'
  <2>1. conn' \in [Fd -> {"closed", "rest", "stream"}] /\ closing' \subseteq Fd
    BY <1>0, <1>5 DEF Open, TypeOK
  <2> QED BY <1>0, <1>5, <2>1, OpenTypes DEF Open, TypeOK, images, watch, events
<1>6. CASE UploadBegins \/ Upload
  <2>1. <<"ota", TRUE>> \in Event /\ <<"ota", FALSE>> \in Event
    BY DEF Event, Kind
  <2>2. loop' \in Seq(Event) /\ Len(loop') <= LoopDepth /\ stale' \subseteq Kind
    <3>1. Post(<<"ota", TRUE>>) \/ Post(<<"ota", FALSE>>) \/ NeverPosted("ota") \/ UNCHANGED events
      BY <1>6 DEF UploadBegins, Upload, UploadProgress, UploadFails, UploadEnds, SaysInterrupted
    <3>2. CASE UNCHANGED events
      BY <1>0, <3>2 DEF events, TypeOK
    <3> QED BY <1>0, <2>1, <3>1, <3>2, PostTypes, NeverPostedTypes
  <2>3. /\ httpd' \in {"idle", "upload"} /\ spare' \in {"confirmed", "none", "new"}
        /\ selected' \in {"running", "spare"}
    BY <1>0, <1>6 DEF UploadBegins, Upload, UploadProgress, UploadFails, UploadEnds, TypeOK, images
  <2>4. UNCHANGED <<conn, clients, behind, closing, kept, fact, led, running, guard, seen>>
    BY <1>6 DEF UploadBegins, Upload, UploadProgress, UploadFails, UploadEnds, sockets, images, watch
  <2> QED BY <1>0, <2>2, <2>3, <2>4 DEF TypeOK
<1>7. CASE Deliver
  <2> DEFINE ev == Head(loop)
  <2>1. loop \in Seq(Event) /\ loop # <<>> /\ loop' = Tail(loop) /\ Len(loop) <= LoopDepth
        /\ LoopDepth \in Nat
    BY <1>0, <1>7, SizeAssumption DEF Deliver, TypeOK
  <2>2. ev \in Event /\ loop' \in Seq(Event) /\ Len(loop') = Len(loop) - 1 /\ Len(loop) \in Nat
    BY <2>1, HeadTailProperties, LenProperties
  <2>3. Len(loop') <= LoopDepth
    BY <2>1, <2>2
  <2>4. /\ Show(ev) /\ Watch(ev) /\ (Send \/ UNCHANGED sockets)
        /\ UNCHANGED <<stale, httpd, fact, spare, selected>>
    BY <1>7 DEF Deliver
  <2>5. led' \in [Kind -> BOOLEAN]
    <3>1. led \in [Kind -> BOOLEAN] /\ led' = IF ev[1] \in Kind THEN [led EXCEPT ![ev[1]] = ev[2]] ELSE led
      BY <1>0, <2>4 DEF TypeOK, Show
    <3>2. ev[2] \in BOOLEAN
      BY <2>2, EventIs
    <3> HIDE DEF ev
    <3> QED BY <3>1, <3>2
  <2>6. /\ guard' \in {"off", "watch", "done", "failed"} /\ seen' \subseteq {"net", "bus"}
        /\ running' \in {"confirmed", "pending"}
    BY <1>0, <2>2, <2>4, WatchTypes
  <2>7. /\ conn' \in [Fd -> {"closed", "rest", "stream"}]
        /\ clients' \subseteq Fd /\ IsFiniteSet(clients') /\ Cardinality(clients') <= MaxClients
        /\ behind' \subseteq Fd /\ closing' \subseteq Fd /\ kept' \subseteq Fd
    <3>1. CASE Send
      BY <1>0, <3>1, SendTypes DEF TypeOK
    <3>2. CASE UNCHANGED sockets
      BY <1>0, <3>2 DEF TypeOK, sockets
    <3> QED BY <2>4, <3>1, <3>2
  <2> HIDE DEF ev
  <2> QED BY <1>0, <2>2, <2>3, <2>4, <2>5, <2>6, <2>7 DEF TypeOK
<1>8. CASE GraceElapses \/ GuardStarts
  <2>1. /\ guard' \in {"off", "watch", "done", "failed"} /\ seen' \subseteq {"net", "bus"}
        /\ running' \in {"confirmed", "pending"}
    BY <1>0, <1>8 DEF GraceElapses, GuardStarts, Grace, MarkValid, TypeOK, images
  <2>2. UNCHANGED <<httpd, conn, clients, behind, closing, kept, loop, stale, fact, led, spare, selected>>
    BY <1>8 DEF GraceElapses, GuardStarts, sockets, events, images
  <2> QED BY <1>0, <2>1, <2>2 DEF TypeOK
<1>9. CASE Reset
  <2>1. clients' = {} /\ IsFiniteSet({}) /\ Cardinality({}) = 0
    BY <1>9, FS_EmptySet DEF Reset
  <2>2. loop' \in Seq(Event) /\ Len(loop') = 0 /\ stale' \subseteq Kind
    BY <1>9 DEF Reset
  <2>3. fact' \in [Fact -> BOOLEAN] /\ led' \in [Kind -> BOOLEAN] /\ conn' \in [Fd -> {"closed", "rest", "stream"}]
    BY <1>9 DEF Reset, AtBoot, Quiet
  <2>4. /\ httpd' = "idle" /\ behind' = {} /\ closing' = {} /\ kept' = {} /\ guard' = "off" /\ seen' = {}
    BY <1>9 DEF Reset
  <2>5. running' \in {"confirmed", "pending"} /\ spare' \in {"confirmed", "none", "new"} /\ selected' = "running"
    BY <1>0, <1>9 DEF Reset, Boots, TypeOK
  <2> QED BY <2>1, <2>2, <2>3, <2>4, <2>5, SizeAssumption DEF TypeOK
<1>10. CASE UNCHANGED vars
  BY <1>0, <1>10 DEF vars, sockets, images, watch, events, TypeOK
<1> QED BY <1>1, <1>2, <1>3, <1>4, <1>5, <1>6, <1>7, <1>8, <1>9, <1>10
     DEF Next, CloseQueued, ClientLeaves

LEMMA TypesAlways == Spec => []Types
  BY InitTypes, NextTypes, PTL DEF Spec

\* Neither the table of streams nor the event loop ever holds more than it has room for,
\* however sockets are accepted, purged and closed under them (http_sse_open, drop_locked).
THEOREM TypeCorrect == Spec => []TypeOK
<1>1. Types => TypeOK
  BY DEF Types
<1> QED BY <1>1, TypesAlways, PTL

-----------------------------------------------------------------------------
(* The gaps. *)

\* Who misses something is a stream whose close is queued or was refused, and so is a stream
\* that gets no frames.
Gaps ==
  /\ GapsAreClosed
  /\ \A f \in behind : conn[f] = "stream"
  /\ \A f \in Fd : conn[f] = "stream" => f \in clients \cup closing \cup kept

LEMMA SendGaps ==
  ASSUME Types, Gaps, Send
  PROVE  Gaps'
<1>0. PICK failing \in SUBSET clients :
        /\ Drop(failing)
        /\ behind' = behind \cup {f \in Fd : conn[f] = "stream" /\ f \notin clients \ failing}
  BY DEF Send
<1>1. PICK refused \in SUBSET failing :
        /\ clients' = clients \ failing
        /\ closing' = closing \cup {f \in failing \ refused : conn[f] # "closed"}
        /\ kept' = kept \cup {f \in refused : conn[f] = "stream"}
        /\ behind' = behind \cup {f \in Fd : conn[f] = "stream" /\ f \notin clients \ failing}
  BY <1>0 DEF Drop
<1>2. conn' = conn /\ clients \subseteq Fd
  BY DEF Send, Types, TypeOK
<1>3. ASSUME NEW f \in Fd, conn[f] = "stream" PROVE f \in clients' \cup closing' \cup kept'
  BY <1>1, <1>3 DEF Gaps
<1>4. ASSUME NEW f \in behind' PROVE conn[f] = "stream" /\ f \in closing' \cup kept'
  BY <1>1, <1>3, <1>4 DEF Gaps, GapsAreClosed
<1> QED BY <1>2, <1>3, <1>4 DEF Gaps, GapsAreClosed

LEMMA SameGaps ==
  ASSUME Gaps, UNCHANGED sockets
  PROVE  Gaps'
  BY DEF Gaps, GapsAreClosed, sockets

LEMMA NextGaps == Types /\ Gaps /\ [Next]_vars => Gaps'
<1> SUFFICES ASSUME Types, Gaps, [Next]_vars PROVE Gaps'
  OBVIOUS
<1>1. conn \in [Fd -> {"closed", "rest", "stream"}] /\ behind \subseteq Fd
  BY DEF Types, TypeOK
<1>2. CASE Heartbeat
  BY <1>2, SendGaps DEF Heartbeat
<1>3. CASE Deliver
  BY <1>3, SendGaps, SameGaps DEF Deliver
<1>4. ASSUME NEW f \in Fd, Accept(f) PROVE Gaps'
  <2>1. /\ conn' = [conn EXCEPT ![f] = "rest"] /\ behind' = behind \ {f}
        /\ kept' = kept \ {f} /\ UNCHANGED <<clients, closing>>
    BY <1>4 DEF Accept
  <2> QED BY <1>1, <2>1 DEF Gaps, GapsAreClosed
<1>5. ASSUME NEW f \in Fd, Open(f) PROVE Gaps'
  <2>1. conn[f] = "rest" /\ behind' = behind /\ kept' = kept /\ f \notin behind
    BY <1>5 DEF Open, Gaps
  <2>2. CASE clients' = clients \cup {f} /\ conn' = [conn EXCEPT ![f] = "stream"] /\ UNCHANGED closing
    BY <1>1, <2>1, <2>2 DEF Gaps, GapsAreClosed
  <2>3. CASE /\ clients' = clients \ {f} /\ conn' = [conn EXCEPT ![f] = "closed"]
             /\ closing' = closing \ {f}
    BY <1>1, <2>1, <2>3 DEF Gaps, GapsAreClosed
  <2> QED BY <1>5, <2>2, <2>3 DEF Open
<1>6. ASSUME NEW f \in Fd, Close(f) PROVE Gaps'
  <2>1. /\ conn' = [conn EXCEPT ![f] = "closed"] /\ behind' = behind \ {f}
        /\ closing' = closing \ {f} /\ kept' = kept \ {f} /\ UNCHANGED clients
    BY <1>6 DEF Close
  <2> QED BY <1>1, <2>1 DEF Gaps, GapsAreClosed
<1>7. CASE Reset
  BY <1>7 DEF Reset, Quiet, Gaps, GapsAreClosed
<1>8. CASE UNCHANGED sockets
  BY <1>8, SameGaps
<1>9. CASE \/ \E k \in Fact : Changes(k)
           \/ Transaction \/ UploadBegins \/ Upload \/ GraceElapses \/ GuardStarts \/ UNCHANGED vars
  <2>1. UNCHANGED sockets
    BY <1>9 DEF Changes, Transaction, Elsewhere, UploadBegins, Upload, UploadProgress, UploadFails,
                UploadEnds, GraceElapses, GuardStarts, vars
  <2> QED BY <1>8, <2>1
<1> QED BY <1>2, <1>3, <1>4, <1>5, <1>6, <1>7, <1>9 DEF Next, CloseQueued, ClientLeaves

\* However sends, drops, new sessions on old sockets and refusals alternate, each stream that
\* misses something has its close queued, or is one whose close the server refused when its
\* slot was freed: what GapsEnd needs before fairness enters (send_raw, drop_locked,
\* http_sse_open), for any number of sockets and of streams.
THEOREM GapsClosed == Spec => []GapsAreClosed
<1>1. Init => Gaps
  BY DEF Init, Quiet, Gaps, GapsAreClosed
<1>2. Gaps => GapsAreClosed
  BY DEF Gaps
<1> QED BY <1>1, <1>2, NextGaps, TypesAlways, PTL DEF Spec

-----------------------------------------------------------------------------
(* The LED. *)

Truth(k) == IF k = "ota" THEN httpd = "upload" ELSE fact[k]

\* The last event about k that waits says what is true, and without one the LED does.
Carried(k) ==
  \/ \E i \in 1..Len(loop) :
       /\ loop[i] = <<k, Truth(k)>>
       /\ \A j \in 1..Len(loop) : loop[j][1] = k => j <= i
  \/ /\ \A i \in 1..Len(loop) : loop[i][1] # k
     /\ led[k] = Truth(k)

NothingForgotten == \A k \in Kind \ stale : Carried(k)

LEMMA InitLed == Init => NothingForgotten
<1> SUFFICES ASSUME Init, NEW k \in Kind PROVE Carried(k)
  BY DEF NothingForgotten
<1>1. Len(loop) = 0 /\ httpd = "idle" /\ fact = AtBoot(Fact) /\ led = AtBoot(Kind)
  BY DEF Init
<1>2. led[k] = Truth(k)
  BY <1>1 DEF AtBoot, Truth, Fact, Kind
<1>3. \A i \in 1..Len(loop) : FALSE
  BY <1>1
<1> QED BY <1>2, <1>3 DEF Carried

\* Posting about k, with what is true of it afterwards, keeps everything.
LEMMA PostCarries ==
  ASSUME Types, NothingForgotten, NEW ev \in Event, Post(ev), UNCHANGED led,
         ev[1] \in Kind => ev[2] = Truth(ev[1])',
         \A k \in Kind : k # ev[1] => Truth(k)' = Truth(k)
  PROVE  NothingForgotten'
<1> SUFFICES ASSUME NEW k \in Kind \ stale' PROVE Carried(k)'
  BY DEF NothingForgotten
<1>1. loop \in Seq(Event) /\ Len(loop) \in Nat
  BY LenProperties DEF Types, TypeOK
<1>2. CASE Len(loop) < LoopDepth
  <2>1. loop' = Append(loop, ev) /\ stale' = stale \ {ev[1]}
    BY <1>2 DEF Post
  <2>2. /\ Len(loop') = Len(loop) + 1 /\ loop'[Len(loop) + 1] = ev
        /\ \A i \in 1..Len(loop) : loop'[i] = loop[i]
    BY <1>1, <2>1, AppendProperties
  <2>3. CASE k = ev[1]
    <3>1. ev = <<k, Truth(k)'>>
      BY <2>3, EventIs
    <3>2. Len(loop) + 1 \in 1..Len(loop') /\ \A j \in 1..Len(loop') : j <= Len(loop) + 1
      BY <1>1, <2>2
    <3> QED BY <2>2, <3>1, <3>2 DEF Carried
  <2>4. CASE k # ev[1]
    <3>1. Carried(k) /\ Truth(k)' = Truth(k)
      BY <2>1, <2>4 DEF NothingForgotten
    <3>2. CASE \E i \in 1..Len(loop) : /\ loop[i] = <<k, Truth(k)>>
                                       /\ \A j \in 1..Len(loop) : loop[j][1] = k => j <= i
      <4>1. PICK i \in 1..Len(loop) : /\ loop[i] = <<k, Truth(k)>>
                                      /\ \A j \in 1..Len(loop) : loop[j][1] = k => j <= i
        BY <3>2
      <4>2. i \in 1..Len(loop') /\ loop'[i] = <<k, Truth(k)'>>
        BY <1>1, <2>2, <3>1, <4>1
      <4>3. ASSUME NEW j \in 1..Len(loop'), loop'[j][1] = k PROVE j <= i
        <5>1. j \in 1..Len(loop)
          BY <1>1, <2>2, <2>4, <4>3
        <5> QED BY <2>2, <4>1, <4>3, <5>1
      <4> QED BY <4>2, <4>3 DEF Carried
    <3>3. CASE (\A i \in 1..Len(loop) : loop[i][1] # k) /\ led[k] = Truth(k)
      <4>1. \A i \in 1..Len(loop') : loop'[i][1] # k
        BY <1>1, <2>2, <2>4, <3>3
      <4>2. (led[k] = Truth(k))'
        BY <3>1, <3>3
      <4> QED BY <4>1, <4>2 DEF Carried
    <3> QED BY <3>1, <3>2, <3>3 DEF Carried
  <2> QED BY <2>3, <2>4
<1>3. CASE ~(Len(loop) < LoopDepth)
  <2>1. loop' = loop /\ stale' = stale \cup ({ev[1]} \cap Kind)
    BY <1>3 DEF Post
  <2>2. k # ev[1] /\ Carried(k) /\ Truth(k)' = Truth(k)
    BY <2>1 DEF NothingForgotten
  <2> QED BY <2>1, <2>2 DEF Carried
<1> QED BY <1>2, <1>3

\* What an error path says nothing of is excused.
LEMMA SilenceCarries ==
  ASSUME NothingForgotten, NeverPosted("ota"), UNCHANGED <<led, fact>>
  PROVE  NothingForgotten'
<1> SUFFICES ASSUME NEW k \in Kind \ stale' PROVE Carried(k)'
  BY DEF NothingForgotten
<1>1. loop' = loop /\ k # "ota" /\ Carried(k)
  BY DEF NeverPosted, NothingForgotten
<1>2. Truth(k)' = Truth(k)
  BY <1>1 DEF Truth
<1> QED BY <1>1, <1>2 DEF Carried

LEMMA StillCarried ==
  ASSUME NothingForgotten, UNCHANGED <<led, loop, stale, fact, httpd>>
  PROVE  NothingForgotten'
<1>1. \A k \in Kind : Truth(k)' = Truth(k)
  BY DEF Truth
<1> QED BY <1>1 DEF NothingForgotten, Carried

LEMMA DeliverCarries ==
  ASSUME Types, NothingForgotten, Deliver
  PROVE  NothingForgotten'
<1> SUFFICES ASSUME NEW k \in Kind \ stale' PROVE Carried(k)'
  BY DEF NothingForgotten
<1> DEFINE ev == Head(loop)
<1>1. /\ loop \in Seq(Event) /\ loop # <<>> /\ loop' = Tail(loop) /\ Show(ev)
      /\ UNCHANGED <<stale, httpd, fact>> /\ led \in [Kind -> BOOLEAN]
  BY DEF Deliver, Types, TypeOK
<1>2. /\ Len(loop) \in Nat /\ Len(loop) >= 1 /\ Len(loop') = Len(loop) - 1 /\ ev = loop[1]
      /\ \A i \in 1..Len(loop') : loop'[i] = loop[i + 1]
  BY <1>1, HeadTailProperties, LenProperties, EmptySeq
<1>3. Carried(k) /\ Truth(k)' = Truth(k)
  BY <1>1 DEF NothingForgotten, Truth
<1>4. led'[k] = IF ev[1] = k THEN ev[2] ELSE led[k]
  BY <1>1 DEF Show
<1> HIDE DEF ev
<1>5. CASE \E i \in 1..Len(loop) : /\ loop[i] = <<k, Truth(k)>>
                                   /\ \A j \in 1..Len(loop) : loop[j][1] = k => j <= i
  <2>1. PICK i \in 1..Len(loop) : /\ loop[i] = <<k, Truth(k)>>
                                  /\ \A j \in 1..Len(loop) : loop[j][1] = k => j <= i
    BY <1>5
  <2>2. CASE i = 1
    <3>1. \A j \in 1..Len(loop') : loop'[j][1] # k
      BY <1>2, <2>1, <2>2
    <3>2. led'[k] = Truth(k)'
      BY <1>2, <1>3, <1>4, <2>1, <2>2
    <3> QED BY <3>1, <3>2 DEF Carried
  <2>3. CASE i # 1
    <3>1. i - 1 \in 1..Len(loop') /\ loop'[i - 1] = <<k, Truth(k)'>>
      BY <1>2, <1>3, <2>1, <2>3
    <3>2. ASSUME NEW j \in 1..Len(loop'), loop'[j][1] = k PROVE j <= i - 1
      BY <1>2, <2>1, <3>2
    <3> QED BY <3>1, <3>2 DEF Carried
  <2> QED BY <2>2, <2>3
<1>6. CASE (\A i \in 1..Len(loop) : loop[i][1] # k) /\ led[k] = Truth(k)
  <2>1. (\A j \in 1..Len(loop') : loop'[j][1] # k) /\ ev[1] # k
    BY <1>2, <1>6
  <2>2. led'[k] = Truth(k)'
    BY <1>3, <1>4, <1>6, <2>1
  <2> QED BY <2>1, <2>2 DEF Carried
<1> QED BY <1>3, <1>5, <1>6 DEF Carried

LEMMA NextLed == Types /\ NothingForgotten /\ [Next]_vars => NothingForgotten'
<1> SUFFICES ASSUME Types, NothingForgotten, [Next]_vars PROVE NothingForgotten'
  OBVIOUS
<1>1. ASSUME NEW k \in Fact, Changes(k) PROVE NothingForgotten'
  <2>1. /\ fact \in [Fact -> BOOLEAN] /\ fact' = [fact EXCEPT ![k] = ~fact[k]]
        /\ Post(<<k, fact'[k]>>) /\ UNCHANGED <<led, httpd>>
    BY <1>1 DEF Changes, Elsewhere, Types, TypeOK
  <2>2. <<k, fact'[k]>> \in Event /\ k # "ota"
    BY <2>1 DEF Event, Kind, Fact
  <2>3. Truth(k)' = fact'[k] /\ \A h \in Kind : h # k => Truth(h)' = Truth(h)
    BY <2>1, <2>2 DEF Truth, Kind, Fact
  <2> QED BY <2>1, <2>2, <2>3, PostCarries
<1>2. CASE Transaction
  <2>1. Post(<<"activity", TRUE>>) /\ UNCHANGED <<led, httpd, fact>> /\ <<"activity", TRUE>> \in Event
    BY <1>2 DEF Transaction, Elsewhere, Event
  <2>2. "activity" \notin Kind /\ \A h \in Kind : Truth(h)' = Truth(h)
    BY <2>1 DEF Truth, Kind, Fact
  <2> QED BY <2>1, <2>2, PostCarries
<1>3. CASE \/ Heartbeat \/ GraceElapses \/ GuardStarts \/ UNCHANGED vars
           \/ \E f \in Fd : Accept(f) \/ Open(f) \/ CloseQueued(f) \/ ClientLeaves(f)
  <2>1. UNCHANGED <<led, loop, stale, fact, httpd>>
    BY <1>3 DEF Heartbeat, GraceElapses, GuardStarts, vars, Accept, Open, CloseQueued, ClientLeaves,
                Close, events
  <2> QED BY <2>1, StillCarried
<1>4. CASE UploadBegins \/ Upload
  <2>1. UNCHANGED <<led, fact>> /\ <<"ota", TRUE>> \in Event /\ <<"ota", FALSE>> \in Event
    BY <1>4 DEF UploadBegins, Upload, UploadProgress, UploadFails, UploadEnds, Event, Kind
  <2>2. \/ Post(<<"ota", TRUE>>) /\ httpd' = "upload"
        \/ Post(<<"ota", FALSE>>) /\ httpd' = "idle"
        \/ NeverPosted("ota")
        \/ UNCHANGED <<events, httpd>>
    BY <1>4 DEF UploadBegins, Upload, UploadProgress, UploadFails, UploadEnds, SaysInterrupted
  <2>3. \A h \in Kind : h # "ota" => Truth(h)' = Truth(h)
    BY <2>1 DEF Truth
  <2>4. Truth("ota")' = (httpd' = "upload")
    BY DEF Truth
  <2>5. CASE Post(<<"ota", TRUE>>) /\ httpd' = "upload"
    BY <2>1, <2>3, <2>4, <2>5, PostCarries
  <2>6. CASE Post(<<"ota", FALSE>>) /\ httpd' = "idle"
    BY <2>1, <2>3, <2>4, <2>6, PostCarries
  <2>7. CASE NeverPosted("ota")
    BY <2>1, <2>7, SilenceCarries
  <2>8. CASE UNCHANGED <<events, httpd>>
    BY <2>1, <2>8, StillCarried DEF events
  <2> QED BY <2>2, <2>5, <2>6, <2>7, <2>8
<1>5. CASE Deliver
  BY <1>5, DeliverCarries
<1>6. CASE Reset
  <2> SUFFICES ASSUME NEW k \in Kind PROVE Carried(k)'
    BY DEF NothingForgotten
  <2>1. loop' = <<>> /\ httpd' = "idle" /\ fact' = AtBoot(Fact) /\ led' = AtBoot(Kind)
    BY <1>6 DEF Reset
  <2>2. (led[k] = Truth(k))'
    BY <2>1 DEF AtBoot, Truth, Fact, Kind
  <2>3. \A i \in 1..Len(loop') : FALSE
    BY <2>1
  <2> QED BY <2>2, <2>3 DEF Carried
<1> QED BY <1>1, <1>2, <1>3, <1>4, <1>5, <1>6 DEF Next

\* Whatever order uploads, events, drops and deliveries take, the LED shows the most urgent
\* thing that is true once nothing waits and nothing was dropped (gw_event_post, on_gw_event,
\* effective_pattern), for an event loop of any length.
THEOREM LedIsTrue == Spec => []LedTellsTruth
<1>1. Types /\ NothingForgotten => LedTellsTruth
  <2> SUFFICES ASSUME Types, NothingForgotten, loop = <<>>, stale = {}
               PROVE  Pattern(led) = Pattern([k \in Kind |-> IF k = "ota" THEN httpd = "upload" ELSE fact[k]])
    BY DEF LedTellsTruth
  <2>1. ASSUME NEW k \in Kind PROVE led[k] = Truth(k)
    <3>1. Carried(k) /\ \A i \in 1..Len(loop) : FALSE
      BY DEF NothingForgotten
    <3> QED BY <3>1 DEF Carried
  <2>2. led = [k \in Kind |-> Truth(k)]
    BY <2>1 DEF Types, TypeOK
  <2> QED BY <2>2 DEF Truth
<1> QED BY <1>1, InitLed, NextLed, TypesAlways, PTL DEF Spec
=============================================================================
