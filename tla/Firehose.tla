------------------------------ MODULE Firehose ------------------------------
(***************************************************************************)
(* The /events firehose of the knot server: the emission primitive that    *)
(* every mutation handler calls (vlecht-atp/src/lex/events.rs), the events *)
(* table it writes (vlecht-db/src/store.rs) and the websocket readers that *)
(* drain the table in batches (vlecht/src/events.rs).                      *)
(*                                                                         *)
(* An emitter stamps an event from a process-wide high-water clock, then   *)
(* awaits the INSERT, then rings a broadcast channel.  A reader subscribes *)
(* to the channel, drains every row with created > cursor, and sleeps      *)
(* until the channel rings.  The clock lives in memory: a restart forgets  *)
(* it, while the table and the clients' cursors survive.                   *)
(***************************************************************************)
EXTENDS Integers, FiniteSets, Sequences

CONSTANTS
    Emitters,          \* tasks that emit events: HTTP, SSH and XRPC handlers
    Readers,           \* websocket clients, each with the cursor it remembers
    Nsids,             \* event types: didAssign, memberUpdate, refUpdate, ...
    Batch,             \* BATCH_SIZE
    MaxBatches,        \* MAX_BATCHES_PER_DRAIN
    ChannelCap,        \* capacity of the broadcast channel
    NanosPerTid,       \* clock ticks per tick of the record key (TIDs count microseconds)
    ClockStepsBack,    \* may the wall clock be behind after a restart?
    HandlersCancelled, \* may the HTTP server drop a handler at an await?
    MaxNanos,          \* bound: ticks of the wall clock
    MaxEmits,          \* bound: emissions per emitter
    MaxFaults          \* bound: disconnects, database errors, cancellations, crashes

ASSUME FirehoseAssumption ==
    /\ Nsids # {}
    /\ Batch \in Nat \ {0}
    /\ MaxBatches \in Nat \ {0}
    /\ ChannelCap \in Nat \ {0}
    /\ NanosPerTid \in Nat \ {0}
    /\ ClockStepsBack \in BOOLEAN
    /\ HandlersCancelled \in BOOLEAN
    /\ MaxNanos \in Nat
    /\ MaxEmits \in Nat
    /\ MaxFaults \in Nat

VARIABLES
    wall,       \* SystemTime::now(), in nanoseconds
    lastNanos,  \* LAST_NANOS
    events,     \* the rows of the events table
    pc,         \* pc[e]: where emit() stands in e
    draft,      \* draft[e]: the EventRow emit() is building in e
    emitted,    \* emitted[e]: emissions e has begun
    conn,       \* conn[r]: the server's task for r's websocket
    stream,     \* stream[r]: history of the rows sent to r that r may still see
    got,        \* got[r]: how many rows of stream[r] have reached the client
    faults      \* faults so far, for the bound

emitVars == <<wall, lastNanos, events, pc, draft, emitted>>
readVars == <<conn, stream, got>>
vars == <<emitVars, readVars, faults>>

(***************************************************************************)
(* A row carries, beside the columns, which emission it records (its       *)
(* payload): the seq-th of emitter src.                                    *)
(***************************************************************************)
EventRow == [src : Emitters, seq : Nat, nsid : Nsids, rkey : Nat, created : Nat]

Task == [mode    : {"off", "capped", "fetch", "send", "wait"},
         cursor  : Nat,
         batch   : SUBSET EventRow,
         full    : BOOLEAN,
         rounds  : Nat,
         wakeups : Nat]

Offline == [mode |-> "off", cursor |-> 0, batch |-> {}, full |-> FALSE,
            rounds |-> 0, wakeups |-> 0]

Larger(a, b) == IF a < b THEN b ELSE a

(* PRIMARY KEY (rkey, nsid). *)
KeyTaken(ev) == \E o \in events : o.rkey = ev.rkey /\ o.nsid = ev.nsid

(* Mutant: the cursor is inclusive. *)
NotOlder(c) == {ev \in events : ev.created >= c}

(* WHERE created > c *)
Newer(c) == {ev \in events : ev.created > c}

(* The cursor a client reconnects with: `created` of the last row it got. *)
ClientCursor(r) == IF got[r] = 0 THEN 0 ELSE stream[r][got[r]].created

(* emit() holds no row before it builds one and after it returns. *)
NoRow(e) == [src |-> e, seq |-> 0, nsid |-> CHOOSE n \in Nsids : TRUE,
             rkey |-> 0, created |-> 0]

-----------------------------------------------------------------------------
(* Emission: emit() and next_nanos(). *)

Fault == faults < MaxFaults /\ faults' = faults + 1

Return(e) ==
    /\ pc' = [pc EXCEPT ![e] = "idle"]
    /\ draft' = [draft EXCEPT ![e] = NoRow(e)]

Tick ==
    /\ wall < MaxNanos
    /\ wall' = wall + 1
    /\ UNCHANGED <<lastNanos, events, pc, draft, emitted, readVars, faults>>

(* emit() builds the row: new_rkey() reads the clock for the record key and
   next_nanos() reads it for `now`. *)
ReadClock(e) ==
    /\ pc[e] = "idle"
    /\ emitted[e] < MaxEmits
    /\ \E nsid \in Nsids :
         draft' = [draft EXCEPT ![e] =
                     [src |-> e, seq |-> emitted[e] + 1, nsid |-> nsid,
                      rkey |-> wall \div NanosPerTid, created |-> wall]]
    /\ emitted' = [emitted EXCEPT ![e] = @ + 1]
    /\ pc' = [pc EXCEPT ![e] = "read"]
    /\ UNCHANGED <<wall, lastNanos, events, readVars, faults>>

(* Mutant: the high-water mark is not consulted. *)
NextNanosNoHighWater(now) == now + 1

(* Mutant: the counter steps the wrong way. *)
NextNanosBackwards(now) == Larger(now, lastNanos) - 1

NextNanos(now) == Larger(now, lastNanos) + 1

(* The compare_exchange that succeeds. *)
Allocate(e) ==
    /\ pc[e] = "read"
    /\ lastNanos' = NextNanos(draft[e].created)
    /\ draft' = [draft EXCEPT ![e].created = NextNanos(@)]
    /\ pc' = [pc EXCEPT ![e] = "stamped"]
    /\ UNCHANGED <<wall, events, emitted, readVars, faults>>

InsertEvent(e) ==
    /\ pc[e] = "stamped"
    /\ ~KeyTaken(draft[e])
    /\ events' = events \cup {draft[e]}
    /\ pc' = [pc EXCEPT ![e] = "stored"]
    /\ UNCHANGED <<wall, lastNanos, draft, emitted, readVars, faults>>

(* The INSERT hits the primary key: logged, and emit() returns. *)
InsertCollides(e) ==
    /\ pc[e] = "stamped"
    /\ KeyTaken(draft[e])
    /\ Return(e)
    /\ UNCHANGED <<wall, lastNanos, events, emitted, readVars, faults>>

(* The INSERT fails for another reason (SQLITE_BUSY, disk full). *)
InsertFails(e) ==
    /\ pc[e] = "stamped"
    /\ Fault
    /\ Return(e)
    /\ UNCHANGED <<wall, lastNanos, events, emitted, readVars>>

(* Mutant: the sender wakes only a reader that is already asleep. *)
NotifiedIfWaiting(c) ==
    IF c.mode # "wait" THEN c
    ELSE [c EXCEPT !.wakeups = IF @ > ChannelCap THEN @ ELSE @ + 1]

(* tx.send(()): every subscribed receiver has one more message.  A receiver
   more than ChannelCap behind has lagged: its next recv() reports that and it
   resumes at the oldest message retained. *)
Notified(c) ==
    IF c.mode \in {"off", "capped"} THEN c
    ELSE [c EXCEPT !.wakeups = IF @ > ChannelCap THEN @ ELSE @ + 1]

Wake(e) ==
    /\ pc[e] = "stored"
    /\ conn' = [r \in Readers |-> Notified(conn[r])]
    /\ Return(e)
    /\ UNCHANGED <<wall, lastNanos, events, emitted, stream, got, faults>>

(* The HTTP server drops the handler's future while it awaits the INSERT, whose
   statement the database worker may or may not have run: no wakeup follows. *)
CancelHandler(e) ==
    /\ HandlersCancelled
    /\ pc[e] = "stamped"
    /\ Fault
    /\ \/ events' = events
       \/ ~KeyTaken(draft[e]) /\ events' = events \cup {draft[e]}
    /\ Return(e)
    /\ UNCHANGED <<wall, lastNanos, emitted, readVars>>

-----------------------------------------------------------------------------
(* The reader: stream(), drain() and get_events(). *)

(* events_handler and stream(): the client presents its cursor, the task
   subscribes, and only then drains.  What was still on a broken socket is
   lost; the close frame of a capped drain comes after every row sent. *)
Connect(r) ==
    /\ \/ conn[r].mode = "off"
       \/ conn[r].mode = "capped" /\ got[r] = Len(stream[r])
    /\ conn' = [conn EXCEPT ![r] = [Offline EXCEPT !.mode = "fetch",
                                                   !.cursor = ClientCursor(r)]]
    /\ stream' = [stream EXCEPT ![r] = SubSeq(@, 1, got[r])]
    /\ UNCHANGED <<emitVars, got, faults>>

(* Mutant: the ORDER BY is forgotten. *)
IsBatchUnordered(b, c) ==
    Cardinality(b) = IF Cardinality(Newer(c)) < Batch
                     THEN Cardinality(Newer(c)) ELSE Batch

(* SELECT ... WHERE created > c ORDER BY created ASC LIMIT Batch *)
IsBatch(b, c) ==
    /\ \A x \in b, y \in Newer(c) \ b : x.created <= y.created
    /\ Cardinality(b) = IF Cardinality(Newer(c)) < Batch
                        THEN Cardinality(Newer(c)) ELSE Batch

(* Mutant: a full batch is taken for the last one. *)
AfterBatchStops(t) == [t EXCEPT !.mode = "wait"]

(* The end of one round of drain()'s loop: a short batch ends the drain, a full
   one starts the next round, and the last round ends in DrainCap. *)
AfterBatch(t) ==
    IF ~t.full THEN [t EXCEPT !.mode = "wait"]
    ELSE IF t.rounds + 1 < MaxBatches
         THEN [t EXCEPT !.mode = "fetch", !.rounds = @ + 1]
         ELSE [t EXCEPT !.mode = "capped"]

Fetch(r) ==
    /\ conn[r].mode = "fetch"
    /\ \E b \in SUBSET Newer(conn[r].cursor) :
         /\ IsBatch(b, conn[r].cursor)
         /\ LET t == [conn[r] EXCEPT !.batch = b, !.full = (Cardinality(b) = Batch)]
            IN  conn' = [conn EXCEPT ![r] = IF b = {} THEN AfterBatch(t)
                                            ELSE [t EXCEPT !.mode = "send"]]
    /\ UNCHANGED <<emitVars, stream, got, faults>>

(* Mutant: the rows of a batch come in any order. *)
SendAnyOrder(r) ==
    /\ conn[r].mode = "send"
    /\ \E ev \in conn[r].batch :
         /\ stream' = [stream EXCEPT ![r] = Append(@, ev)]
         /\ LET t == [conn[r] EXCEPT !.batch = @ \ {ev}, !.cursor = ev.created]
            IN  conn' = [conn EXCEPT ![r] = IF t.batch = {} THEN AfterBatch(t) ELSE t]
    /\ UNCHANGED <<emitVars, got, faults>>

(* The next row of the batch goes to the socket, and the cursor moves past it. *)
Send(r) ==
    /\ conn[r].mode = "send"
    /\ \E ev \in conn[r].batch :
         /\ \A o \in conn[r].batch : ev.created <= o.created
         /\ stream' = [stream EXCEPT ![r] = Append(@, ev)]
         /\ LET t == [conn[r] EXCEPT !.batch = @ \ {ev}, !.cursor = ev.created]
            IN  conn' = [conn EXCEPT ![r] = IF t.batch = {} THEN AfterBatch(t) ELSE t]
    /\ UNCHANGED <<emitVars, got, faults>>

(* rx.recv() returns, with a message or with Lagged: either way, drain. *)
Wakeup(r) ==
    /\ conn[r].mode = "wait"
    /\ conn[r].wakeups > 0
    /\ conn' = [conn EXCEPT ![r].mode = "fetch", ![r].rounds = 0,
                            ![r].wakeups = @ - 1]
    /\ UNCHANGED <<emitVars, stream, got, faults>>

(* The socket delivers, in order. *)
Receive(r) ==
    /\ got[r] < Len(stream[r])
    /\ got' = [got EXCEPT ![r] = @ + 1]
    /\ UNCHANGED <<emitVars, conn, stream, faults>>

(* The task returns: the client closed, a ping or a send failed or timed out,
   or get_events reported an error.  Or the task has returned at the cap and
   the socket breaks under the rows it still carries. *)
Disconnect(r) ==
    /\ conn[r].mode \in {"fetch", "send", "wait", "capped"}
    /\ Fault
    /\ conn' = [conn EXCEPT ![r].mode = "off"]
    /\ UNCHANGED <<emitVars, stream, got>>

-----------------------------------------------------------------------------
(* The server process dies and starts again: LAST_NANOS is a fresh static, the
   handlers and sockets are gone.  Restarting takes longer than the few
   nanoseconds by which the counter can lead the clock, so unless the clock was
   set back it is past the counter. *)
Crash ==
    /\ Fault
    /\ lastNanos' = 0
    /\ IF ClockStepsBack THEN wall' \in 0 .. wall
       ELSE wall' = Larger(wall, lastNanos)
    /\ pc' = [e \in Emitters |-> "idle"]
    /\ draft' = [e \in Emitters |-> NoRow(e)]
    /\ conn' = [r \in Readers |-> [conn[r] EXCEPT !.mode = "off"]]
    /\ UNCHANGED <<events, emitted, stream, got>>

Init ==
    /\ wall = 0
    /\ lastNanos = 0
    /\ events = {}
    /\ pc = [e \in Emitters |-> "idle"]
    /\ draft = [e \in Emitters |-> NoRow(e)]
    /\ emitted = [e \in Emitters |-> 0]
    /\ conn = [r \in Readers |-> Offline]
    /\ stream = [r \in Readers |-> <<>>]
    /\ got = [r \in Readers |-> 0]
    /\ faults = 0

Emit(e) ==
    \/ ReadClock(e)
    \/ Allocate(e)
    \/ InsertEvent(e)
    \/ InsertCollides(e)
    \/ InsertFails(e)
    \/ Wake(e)
    \/ CancelHandler(e)

Read(r) ==
    \/ Connect(r)
    \/ Fetch(r)
    \/ Send(r)
    \/ Wakeup(r)
    \/ Receive(r)
    \/ Disconnect(r)

Next ==
    \/ Tick
    \/ \E e \in Emitters : Emit(e)
    \/ \E r \in Readers : Read(r)
    \/ Crash

(* The runtime polls every ready task, the database answers, a socket write
   ends within WRITE_TIMEOUT, and a client that was cut off reconnects. *)
Fairness ==
    /\ \A e \in Emitters :
         /\ WF_vars(Allocate(e))
         /\ WF_vars(InsertEvent(e))
         /\ WF_vars(Wake(e))
    /\ \A r \in Readers :
         /\ WF_vars(Connect(r))
         /\ WF_vars(Fetch(r))
         /\ WF_vars(Send(r))
         /\ WF_vars(Wakeup(r))
         /\ WF_vars(Receive(r))

Spec == Init /\ [][Next]_vars

FairSpec == Spec /\ Fairness

-----------------------------------------------------------------------------
TypeOK ==
    /\ wall \in Nat
    /\ lastNanos \in Nat
    /\ events \in SUBSET EventRow
    /\ pc \in [Emitters -> {"idle", "read", "stamped", "stored"}]
    /\ draft \in [Emitters -> EventRow]
    /\ emitted \in [Emitters -> Nat]
    /\ conn \in [Readers -> Task]
    /\ stream \in [Readers -> Seq(EventRow)]
    /\ got \in [Readers -> Nat]
    /\ \A r \in Readers : got[r] <= Len(stream[r])
    /\ faults \in Nat

(* What the client of r has seen, across all its connections. *)
Received(r) == SubSeq(stream[r], 1, got[r])

Sent(r) == {stream[r][i] : i \in 1 .. Len(stream[r])}

(* The rows the task has fetched and has still to send. *)
Pending(r) == IF conn[r].mode = "send" THEN conn[r].batch ELSE {}

(* Rows that no later SELECT of the task returns although r was never sent
   them: they are behind the cursor, or will be once the batch is sent. *)
Missed(r) ==
    {ev \in events \ (Sent(r) \cup Pending(r)) :
        \/ ev.created <= conn[r].cursor
        \/ \E o \in Pending(r) : ev.created <= o.created}

(* Across drains, wakeups, reconnects and restarts a client never gets the same
   event twice: drain() moves the cursor past each row it sends, and a client
   resumes from the last row it got. *)
AtMostOnce ==
    \A r \in Readers : \A i, j \in 1 .. got[r] :
        i # j => <<stream[r][i].src, stream[r][i].seq>> # <<stream[r][j].src, stream[r][j].seq>>

(* A client gets events in strictly increasing `created`, so it may use the
   last one as its cursor: across reconnects, restarts and interleaved
   emitters. *)
Ascending ==
    \A r \in Readers : \A i, j \in 1 .. got[r] :
        i < j => stream[r][i].created < stream[r][j].created

(* The events of one task (the refUpdates of one push, say) reach every client
   in the order in which they were emitted, whatever other tasks emit. *)
EmitterOrder ==
    \A r \in Readers : \A i, j \in 1 .. got[r] :
        i < j /\ stream[r][i].src = stream[r][j].src => stream[r][i].seq < stream[r][j].seq

(* No reader step ever loses a row: a row becomes unreachable for a reader only
   in the very step that inserts it, below what the reader has already fetched
   (emit() stamps the row before it awaits the INSERT). *)
OnlyLateInsertsAreMissed ==
    [][\A r \in Readers : Missed(r)' \ Missed(r) \subseteq events' \ events]_vars

Ringing(ev) == \E e \in Emitters : pc[e] = "stored" /\ draft[e] = ev

(* Rows ahead of r's cursor that r will not look for: its last batch was short
   and has been selected, no message is in its channel, and no emitter is about
   to send one for the row. *)
Unannounced(r) ==
    {ev \in Newer(conn[r].cursor) \ Pending(r) :
        /\ conn[r].mode = "wait" \/ (conn[r].mode = "send" /\ ~conn[r].full)
        /\ conn[r].wakeups = 0
        /\ ~Ringing(ev)}

(* No wakeup is lost, whatever order a SELECT, an INSERT, a message and the sleep
   come in: a reader goes to sleep over a row only if the row's handler was
   dropped in the step that stored it.  The reader subscribes before it drains,
   and a message sent during a drain or to a full channel is still there, or
   another in its place, when the drain is over. *)
NoWakeupIsLost ==
    [][\A r \in Readers : Unannounced(r)' \ Unannounced(r) \subseteq events' \ events]_vars

Settled(r, e, n) ==
    \E ev \in events : ev.src = e /\ ev.seq = n /\ ev.created <= ClientCursor(r)

(* The firehose's progress: once emit() has stored a row and is about to ring
   the channel, the row eventually reaches every client that keeps
   reconnecting, unless the client's cursor is already past it.  No wakeup is
   lost between a drain and the sleep that follows it, a lagged channel still
   wakes its reader, and a drain cut off at the cap resumes. *)
EveryRowSettles ==
    \A r \in Readers, e \in Emitters, n \in 1 .. MaxEmits :
        (pc[e] = "stored" /\ draft[e].seq = n) ~> Settled(r, e, n)

(***************************************************************************)
(* With any number of emitters and no step of the wall clock backwards,    *)
(* the firehose is a log with late rows: a client misses nothing but rows  *)
(* stored below what its task had fetched, gets all others in order and    *)
(* with no gap, and a reconnect never costs it a row.                      *)
(***************************************************************************)
Late == INSTANCE LateLog WITH log <- events, seen <- [r \in Readers |-> Received(r)],
                              lost <- [r \in Readers |-> Missed(r)]

ImplementsLateLog == Late!Spec

(***************************************************************************)
(* With a single emitter and no step of the wall clock backwards, the      *)
(* firehose is the ordered log: clients see every stored row exactly once  *)
(* in order, across batches, wakeups, drain caps, lost sockets and         *)
(* restarts, and never stop short of the end.                              *)
(***************************************************************************)
Log == INSTANCE EventLog WITH log <- events, seen <- [r \in Readers |-> Received(r)]

ImplementsLog == Log!FairSpec
=============================================================================
