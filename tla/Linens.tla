---------------------------------- MODULE Linens ----------------------------------
(***************************************************************************)
(* Tagged linens, the clock of their laundry, and the screens that follow  *)
(* them over a web socket.  A request reads a linen, updates it, records   *)
(* the scan, reads the row again (a bulk scan composes it instead), bumps  *)
(* the clock and publishes the row under the new clock.  Publishing puts   *)
(* into the bounded queue of each connection; one whose queue is full is   *)
(* dropped.                                                                *)
(*                                                                         *)
(* A screen is not part of the code.  What it does is what the protocol    *)
(* says of it (routers/realtime.py:15-31, realtime.py:18-21): it patches   *)
(* its rows from events, and when a connection greets it, or answers a     *)
(* ping, with a later clock than the last it saw, it loads the list.       *)
(***************************************************************************)
EXTENDS Integers, FiniteSets, Sequences, FiniteSetsExt, SequencesExt

CONSTANTS Linens,       \* tags
          Slots,        \* users with a request in flight
          Screens,      \* browsers
          None,         \* no linen
          Laundry,      \* the channel of everything
          Actions,      \* actions of single scans
          Edits,        \* statuses that PATCH is asked to set
          Batches,      \* [codes, action] of bulk scans; codes of bulk creations
          QueueMax,     \* QUEUE_MAXSIZE
          MaxChannels,  \* MAX_CHANNELS_PER_CONNECTION
          MaxRequests   \* bound: requests of a behaviour

ACTION_STATUS_MAP ==
  [collect |-> "COLLECTED", receive |-> "AT_LAUNDRY", start_wash |-> "WASHING",
   complete_wash |-> "DRYING", press |-> "PRESSING", ready |-> "READY",
   deliver |-> "DELIVERED", mark_missing |-> "MISSING", mark_damaged |-> "DAMAGED",
   retire |-> "RETIRED"]

LINEN_STATUSES == {"IN_STOCK", "AT_CLIENT"} \cup Range(ACTION_STATUS_MAP)

ASSUME LinensAssumption == /\ IsFiniteSet(Linens) /\ IsFiniteSet(Slots)
                           /\ IsFiniteSet(Screens)
                           /\ {None, Laundry} \cap Linens = {}
                           /\ Actions \subseteq DOMAIN ACTION_STATUS_MAP
                           /\ Edits \subseteq LINEN_STATUSES
                           /\ Batches \subseteq [codes: Seq(Linens), action: Actions]
                           /\ {QueueMax, MaxChannels} \subseteq Nat \ {0}
                           /\ MaxRequests \in Nat

VARIABLES docs,      \* linen -> status and wash_count
          clock,     \* live_clocks
          washed,    \* linen -> complete_wash rows of linen_events
          request,   \* user -> the request in flight
          conns,     \* screen -> its connection in the hub
          screens,   \* screen -> the rows it shows, the last clock it saw
          started,   \* requests so far, for the bound
          disturbed, \* history: linens of overlapping or broken-off requests
          missed     \* history: rows a screen will never get, and no clock tells it of

vars == <<docs, clock, washed, request, conns, screens, started, disturbed, missed>>

-----------------------------------------------------------------------------
(* State. *)

Row == [status: LINEN_STATUSES \cup {"UNBORN", "GONE"}, washes: Nat]

Unborn == [status |-> "UNBORN", washes |-> 0]

Gone == [status |-> "GONE", washes |-> 0]

NewLinen == [status |-> "IN_STOCK", washes |-> 0]

Exists(l) == docs[l].status \notin {"UNBORN", "GONE"}

(* A frame; of an event, `about` are the linens it names, `linen` and `row`  *)
(* what it lets a screen patch.                                              *)
Frame == [type: {"event", "clock", "reply", "end"}, clock: Nat,
          about: SUBSET Linens, linen: Linens \cup {None}, row: Row]

Event(c, ls, l, row) == [type |-> "event", clock |-> c, about |-> ls, linen |-> l, row |-> row]

Clock(c) == [Event(c, {}, None, Unborn) EXCEPT !.type = "clock"]

Reply == [Clock(0) EXCEPT !.type = "reply"]

(* The None that tells the writer to stop. *)
End == [Clock(0) EXCEPT !.type = "end"]

(* `asked` is the clock read for a ping that is being answered. *)
Connection == [state: {"absent", "registered", "greeted", "asking", "closed"},
               channels: SUBSET (Linens \cup {Laundry}), queue: Seq(Frame), asked: Nat]

NoConnection == [state |-> "absent", channels |-> {}, queue |-> <<>>, asked |-> 0]

Kinds == {"create", "bulkCreate", "update", "delete", "scan", "bulkScan"}

(* `todo` has the linens to come, the first of them in hand; `done` the rows *)
(* to publish.                                                               *)
Request == [pc: {"idle", "insert", "next", "write", "event", "reread", "clock", "publish"},
            kind: Kinds, action: Actions \cup Edits \cup {None}, todo: Seq(Linens),
            read: Row, done: Seq([linen: Linens, row: Row]), clock: Nat]

IdleRequest == [pc |-> "idle", kind |-> "scan", action |-> None, todo |-> <<>>,
                read |-> Unborn, done |-> <<>>, clock |-> 0]

Screen == [shows: [Linens -> Row], seen: Nat]

TypeOK == /\ docs \in [Linens -> Row]
          /\ clock \in 0..MaxRequests
          /\ washed \in [Linens -> Nat]
          /\ request \in [Slots -> Request]
          /\ conns \in [Screens -> Connection]
          /\ \A v \in Screens : /\ Len(conns[v].queue) <= QueueMax
                                /\ Cardinality(conns[v].channels) <= MaxChannels
          /\ screens \in [Screens -> Screen]
          /\ started \in 0..MaxRequests
          /\ disturbed \subseteq Linens
          /\ missed \subseteq Screens \X Linens

Init == /\ \E here \in SUBSET Linens :
             docs = [l \in Linens |-> IF l \in here THEN NewLinen ELSE Unborn]
        /\ clock = 0
        /\ washed = [l \in Linens |-> 0]
        /\ request = [s \in Slots |-> IdleRequest]
        /\ conns = [v \in Screens |-> NoConnection]
        /\ screens = [v \in Screens |-> [shows |-> docs, seen |-> 0]]
        /\ started = 0
        /\ disturbed = {}
        /\ missed = {}

-----------------------------------------------------------------------------
(* Requests on linens. *)

InHand(s) == Head(request[s].todo)

(* Linens a request works on until it has published them. *)
Touched(s) ==
  {request[s].done[i].linen : i \in DOMAIN request[s].done}
    \cup (IF request[s].pc \in {"insert", "write", "event", "reread"} THEN {InHand(s)} ELSE {})

Touch(s, l) ==
  disturbed' = disturbed \cup (IF \E t \in Slots \ {s} : l \in Touched(t) THEN {l} ELSE {})

Become(s, req) == request' = [request EXCEPT ![s] = req]

Begin(s, req) ==
  /\ request[s].pc = "idle" /\ started < MaxRequests
  /\ Become(s, req)
  /\ started' = started + 1
  /\ UNCHANGED <<docs, clock, washed, conns, screens, missed>>

(* The linen is read when it exists; else the request is refused. *)
BeginOn(s, l, kind, action) ==
  /\ Exists(l)
  /\ Begin(s, [IdleRequest EXCEPT !.pc = "write", !.kind = kind, !.action = action,
                                  !.todo = <<l>>, !.read = docs[l]])
  /\ Touch(s, l)

ScanLinen(s, l, action) == BeginOn(s, l, "scan", action)

UpdateLinen(s, l, st) == BeginOn(s, l, "update", st)

DeleteLinen(s, l) == BeginOn(s, l, "delete", None)

BulkScan(s, batch) ==
  /\ Begin(s, [IdleRequest EXCEPT !.pc = "next", !.kind = "bulkScan",
                                  !.action = batch.action, !.todo = batch.codes])
  /\ UNCHANGED disturbed

(* create_linen; create_linen_bulk and generate_tags, which publish no rows. *)
CreateLinens(s, codes, kind) ==
  /\ codes # <<>>
  /\ \A i \in DOMAIN codes :
       /\ docs[codes[i]] = Unborn
       /\ \A t \in Slots : codes[i] \notin ToSet(request[t].todo)
  /\ IsInjective(codes)
  /\ Begin(s, [IdleRequest EXCEPT !.pc = "insert", !.kind = kind, !.todo = codes])
  /\ UNCHANGED disturbed

InsertLinen(s) ==
  LET req == request[s] IN
  /\ req.pc = "insert"
  /\ docs' = [docs EXCEPT ![InHand(s)] = NewLinen]
  /\ Become(s, [req EXCEPT
       !.pc = IF Len(req.todo) = 1 THEN "clock" ELSE "insert", !.todo = Tail(@),
       !.done = Append(@, [linen |-> InHand(s), row |-> NewLinen])])
  /\ UNCHANGED <<clock, washed, conns, screens, started, disturbed, missed>>

(* The next code of a bulk scan is read; unknown codes are reported. *)
NextCode(s) ==
  LET req == request[s] IN
  /\ req.pc = "next"
  /\ IF req.todo = <<>>
     THEN /\ Become(s, IF req.done = <<>> THEN IdleRequest ELSE [req EXCEPT !.pc = "clock"])
          /\ UNCHANGED disturbed
     ELSE IF Exists(InHand(s))
     THEN /\ Become(s, [req EXCEPT !.pc = "write", !.read = docs[InHand(s)]])
          /\ Touch(s, InHand(s))
     ELSE Become(s, [req EXCEPT !.todo = Tail(@)]) /\ UNCHANGED disturbed
  /\ UNCHANGED <<docs, clock, washed, conns, screens, started, missed>>

(* Mutant: every scan counts as a wash. *)
Scanned_AnyAction(row, read, action) ==
  [status |-> ACTION_STATUS_MAP[action], washes |-> read.washes + 1]

(* The fields a scan sets: the status, and of a wash the count it had read,  *)
(* plus one.                                                                 *)
Scanned(row, read, action) ==
  [status |-> ACTION_STATUS_MAP[action],
   washes |-> IF action = "complete_wash" THEN read.washes + 1 ELSE row.washes]

(* update_one, or delete_one: only a scan does not mind that it is gone.  A  *)
(* delete event names the linen as it was; to a screen it is gone.           *)
WriteLinen(s) ==
  LET req == request[s]
      l   == InHand(s) IN
  /\ req.pc = "write"
  /\ docs' = IF ~Exists(l) THEN docs
             ELSE [docs EXCEPT ![l] =
               CASE req.kind = "delete" -> Gone
                 [] req.kind = "update" -> [@ EXCEPT !.status = req.action]
                 [] OTHER -> Scanned(@, req.read, req.action)]
  /\ Become(s,
       CASE req.kind \in {"scan", "bulkScan"} -> [req EXCEPT !.pc = "event"]
         [] req.kind = "update" /\ Exists(l) -> [req EXCEPT !.pc = "reread"]
         [] req.kind = "delete" /\ Exists(l) ->
              [req EXCEPT !.pc = "clock", !.done = <<[linen |-> l, row |-> Gone]>>]
         [] OTHER -> IdleRequest)
  /\ UNCHANGED <<clock, washed, conns, screens, started, disturbed, missed>>

(* The row of a bulk scan is what was read, with what was set. *)
RecordScan(s) ==
  LET req == request[s]
      l   == InHand(s) IN
  /\ req.pc = "event"
  /\ washed' = [washed EXCEPT ![l] = IF req.action = "complete_wash" THEN @ + 1 ELSE @]
  /\ Become(s, IF req.kind = "scan" THEN [req EXCEPT !.pc = "reread"]
               ELSE [req EXCEPT !.pc = "next", !.todo = Tail(@),
                      !.done = Append(@, [linen |-> l,
                                          row |-> Scanned(req.read, req.read, req.action)])])
  /\ UNCHANGED <<docs, clock, conns, screens, started, disturbed, missed>>

(* Of a linen that is gone there is no row to publish. *)
RereadLinen(s) ==
  LET req == request[s] IN
  /\ req.pc = "reread"
  /\ Become(s, [req EXCEPT !.pc = "clock",
       !.done = IF Exists(InHand(s)) THEN <<[linen |-> InHand(s), row |-> docs[InHand(s)]]>>
                ELSE <<>>])
  /\ UNCHANGED <<docs, clock, washed, conns, screens, started, disturbed, missed>>

BumpLiveClock(s) ==
  /\ request[s].pc = "clock"
  /\ clock' = clock + 1
  /\ Become(s, [request[s] EXCEPT !.pc = "publish", !.clock = clock + 1])
  /\ UNCHANGED <<docs, washed, conns, screens, started, disturbed, missed>>

-----------------------------------------------------------------------------
(* The hub. *)

Wants(c, m) == Laundry \in c.channels \/ (m.about \cap c.channels # {})

(* Mutant: an event that does not fit is skipped, the connection stays. *)
Put_Skip(c, m) ==
  IF Len(c.queue) < QueueMax THEN [c EXCEPT !.queue = Append(@, m)] ELSE c

(* Mutant: the queue has no bound. *)
Put_Unbounded(c, m) == [c EXCEPT !.queue = Append(@, m)]

(* put_nowait; a consumer that does not keep up is dropped. *)
Put(c, m) ==
  IF Len(c.queue) < QueueMax THEN [c EXCEPT !.queue = Append(@, m)]
  ELSE [c EXCEPT !.state = "closed", !.queue = Append(Tail(@), End), !.asked = 0]

Offer(c, m) == IF c.state \in {"absent", "closed"} \/ ~Wants(c, m) THEN c ELSE Put(c, m)

(* What a request publishes in one go, all under one clock. *)
Events(req) ==
  LET rows == [i \in DOMAIN req.done |->
                 Event(req.clock, {req.done[i].linen}, req.done[i].linen, req.done[i].row)]
      all  == {req.done[i].linen : i \in DOMAIN req.done} IN
  CASE req.kind = "bulkScan"   -> <<Event(req.clock, all, None, Unborn)>> \o rows
    [] req.kind = "bulkCreate" -> <<Event(req.clock, all, None, Unborn)>>
    [] OTHER -> IF req.done = <<>> THEN <<Event(req.clock, {}, None, Unborn)>> ELSE rows

(* One after the other. *)
Offered(c, ms) ==
  LET after[n \in 0..Len(ms)] == IF n = 0 THEN c ELSE Offer(after[n - 1], ms[n])
  IN  after[Len(ms)]

(* Clocks a screen has seen, or has still coming. *)
Clocks(v, c) == {screens[v].seen} \cup {c.queue[i].clock : i \in DOMAIN c.queue}

(* Rows that do not reach `v`, published now or thrown out of its queue.  It *)
(* will not know: it was connected without following them (between greeting  *)
(* and subscription, say), or the clock they came with is one it sees all    *)
(* the same.                                                                 *)
Unheard(v, ms) ==
  LET before   == conns[v]
      after    == Offered(before, ms)
      unwanted == {m \in ToSet(ms) : before.state \in {"registered", "greeted", "asking"}
                                     /\ ~Wants(before, m)}
      lost     == {m \in ToSet(ms) \cup ToSet(before.queue) :
                     /\ m \notin ToSet(after.queue)
                     /\ \E c \in Clocks(v, after) : c >= m.clock} IN
  {m.linen : m \in unwanted \cup lost} \ {None}

Publish(s) ==
  LET ms == Events(request[s]) IN
  /\ request[s].pc = "publish"
  /\ conns' = [v \in Screens |-> Offered(conns[v], ms)]
  /\ missed' = missed \cup UNION {{v} \X Unheard(v, ms) : v \in Screens}
  /\ Become(s, IdleRequest)
  /\ UNCHANGED <<docs, clock, washed, screens, started, disturbed>>

-----------------------------------------------------------------------------
(* The connection of a screen. *)

HubStep == UNCHANGED <<docs, clock, washed, request, started, disturbed>>

(* Rows of frames that are thrown away although their clock has been seen. *)
Discarded(v, ms, seen) ==
  {v} \X {m.linen : m \in {k \in ToSet(ms) : k.linen # None /\ k.clock <= seen}}

(* The handler ends: unregistered, and the writer is cancelled. *)
Ended(v) ==
  /\ conns' = [conns EXCEPT ![v] = NoConnection]
  /\ missed' = missed \cup Discarded(v, conns[v].queue, screens[v].seen)
  /\ UNCHANGED screens

Connect(v) ==
  /\ conns[v].state = "absent"
  /\ conns' = [conns EXCEPT ![v].state = "registered"]
  /\ UNCHANGED <<screens, missed>> /\ HubStep

(* The clock is read, and sent through the queue. *)
Greet(v) ==
  /\ conns[v].state = "registered"
  /\ conns' = [conns EXCEPT ![v].state = "greeted", ![v].queue = Append(@, Clock(clock))]
  /\ UNCHANGED <<screens, missed>> /\ HubStep

(* A frame of the browser is answered through the queue: one that is full    *)
(* raises, and a dropped connection is noticed here.                         *)
Answer(v, channels, frame) ==
  LET c == conns[v] IN
  /\ IF c.state = "closed" \/ Len(c.queue) = QueueMax THEN Ended(v)
     ELSE /\ conns' = [conns EXCEPT ![v] =
               [c EXCEPT !.state = "greeted", !.channels = channels,
                         !.queue = Append(@, frame), !.asked = 0]]
          /\ UNCHANGED <<screens, missed>>
  /\ HubStep

Subscribe(v, ch) ==
  LET old == conns[v].channels IN
  /\ conns[v].state \in {"greeted", "closed"}
  /\ Answer(v, IF Cardinality(old) < MaxChannels THEN old \cup {ch} ELSE old, Reply)

Unsubscribe(v, ch) ==
  /\ conns[v].state \in {"greeted", "closed"}
  /\ Answer(v, conns[v].channels \ {ch}, Reply)

(* ping, and resync: the clock is read, events may be queued meanwhile. *)
Ping(v) ==
  /\ conns[v].state = "greeted"
  /\ conns' = [conns EXCEPT ![v].state = "asking", ![v].asked = clock]
  /\ UNCHANGED <<screens, missed>> /\ HubStep

Pong(v) ==
  /\ conns[v].state = "asking"
  /\ Answer(v, conns[v].channels, Clock(conns[v].asked))

(* The network or the browser goes away. *)
Disconnect(v) == conns[v].state # "absent" /\ Ended(v) /\ HubStep

(* What a screen makes of a frame. *)
Shown(screen, m) ==
  CASE m.type = "event" -> [shows |-> IF m.linen = None THEN screen.shows
                                      ELSE [screen.shows EXCEPT ![m.linen] = m.row],
                            seen  |-> m.clock]
    [] m.type = "clock" /\ m.clock > screen.seen -> [shows |-> docs, seen |-> m.clock]
    [] OTHER -> screen

(* The writer sends the oldest frame; of a closed connection it is the last. *)
Pump(v) ==
  LET c == conns[v]
      m == Head(c.queue)
      new == Shown(screens[v], m)
      rest == IF c.state = "closed" THEN Tail(c.queue) ELSE <<>>
      next == IF c.state = "closed" THEN <<>> ELSE Tail(c.queue)
      known == IF m.type = "clock" /\ m.clock > screens[v].seen
               THEN {v} \X {l \in Linens : \A i \in DOMAIN next : next[i].linen # l} ELSE {} IN
  /\ c.queue # <<>>
  /\ screens' = [screens EXCEPT ![v] = new]
  /\ conns' = [conns EXCEPT ![v].queue = next]
  /\ missed' = (missed \ known) \cup Discarded(v, rest, new.seen)
  /\ HubStep

(* The process dies: every request and every connection with it.  What a     *)
(* request had written before is known to no clock.                          *)
Crash ==
  /\ \E s \in Slots : request[s].pc # "idle"
  /\ request' = [s \in Slots |-> IdleRequest]
  /\ disturbed' = disturbed \cup UNION {Touched(s) : s \in Slots}
  /\ conns' = [v \in Screens |-> NoConnection]
  /\ missed' = missed \cup UNION {Discarded(v, conns[v].queue, screens[v].seen) : v \in Screens}
  /\ UNCHANGED <<docs, clock, washed, screens, started>>

Next ==
  \/ \E s \in Slots :
       \/ \E l \in Linens : \/ \E a \in Actions : ScanLinen(s, l, a)
                            \/ \E st \in Edits : UpdateLinen(s, l, st)
                            \/ DeleteLinen(s, l)
                            \/ CreateLinens(s, <<l>>, "create")
       \/ \E b \in Batches : BulkScan(s, b) \/ CreateLinens(s, b.codes, "bulkCreate")
       \/ InsertLinen(s) \/ NextCode(s) \/ WriteLinen(s) \/ RecordScan(s)
       \/ RereadLinen(s) \/ BumpLiveClock(s) \/ Publish(s)
  \/ \E v \in Screens :
       \/ Connect(v) \/ Greet(v) \/ Ping(v) \/ Pong(v) \/ Disconnect(v) \/ Pump(v)
       \/ \E ch \in Linens \cup {Laundry} : Subscribe(v, ch) \/ Unsubscribe(v, ch)
  \/ Crash

Spec == Init /\ [][Next]_vars

-----------------------------------------------------------------------------
(* Properties. *)

(* Requests that have counted a wash of `l` and not recorded it yet. *)
Unrecorded(l) ==
  {s \in Slots : /\ request[s].pc = "event" /\ InHand(s) = l
                 /\ request[s].action = "complete_wash"}

(* wash_count is the number of washes in the audit trail, and of one whose   *)
(* row is about to be inserted, over single and bulk scans, edits and        *)
(* creations; two requests that met on the linen, or a death between update  *)
(* and insert, are what it does not survive (linens.py:582-610).             *)
WashesCounted ==
  \A l \in Linens \ disturbed :
    Exists(l) => docs[l].washes = washed[l] + Cardinality(Unrecorded(l))

(* "a dropped socket cannot leave a screen silently stale"                   *)
(* (routers/realtime.py:29): a row that a screen shows and that is not the   *)
(* linen's is on its way in a request or in the queue, or the clock is ahead *)
(* of what the screen has seen, so the next greeting or ping tells.  Holds   *)
(* through overflows, drops, reconnections and crashes, but for linens that  *)
(* two requests met on, and but for the rows in `missed`: published before   *)
(* the subscription was in, or lost together with nothing newer, as when     *)
(* the rows of one bulk scan share a clock.                                  *)
NeverSilentlyStale ==
  \A v \in Screens, l \in Linens \ disturbed :
    LET shown == screens[v].shows[l] IN
    \/ shown = docs[l] \/ shown = Unborn
    \/ \E s \in Slots : l \in Touched(s)
    \/ \E i \in DOMAIN conns[v].queue : conns[v].queue[i].linen = l
    \/ screens[v].seen < clock
    \/ <<v, l>> \in missed

=============================================================================
