--------------------------- MODULE FirehoseProofs ---------------------------
(***************************************************************************)
(* Theorems about Firehose, for every number of emitters and readers,      *)
(* every batch size and every bound.                                       *)
(***************************************************************************)
EXTENDS Firehose, SequenceTheorems, FiniteSetTheorems, TLAPS

LEMMA LargerNat == ASSUME NEW a \in Nat, NEW b \in Nat
                   PROVE  Larger(a, b) \in Nat /\ Larger(a, b) >= a /\ Larger(a, b) >= b
BY DEF Larger

LEMMA DivNat == ASSUME NEW a \in Nat, NEW b \in Nat \ {0}
                PROVE  a \div b \in Nat
BY SMT

LEMMA NoRowType == ASSUME NEW e \in Emitters
                   PROVE  NoRow(e) \in EventRow
BY FirehoseAssumption DEF NoRow, EventRow

(* A round of a drain ends in a well-formed task. *)
LEMMA AfterBatchType == ASSUME NEW t \in Task
                        PROVE  AfterBatch(t) \in Task
<1>1. [t EXCEPT !.mode = "wait"] \in Task
  BY DEF Task
<1>2. [t EXCEPT !.mode = "fetch", !.rounds = t.rounds + 1] \in Task
  <2>1. t.rounds + 1 \in Nat
    BY DEF Task
  <2>2. \A n \in Nat : [t EXCEPT !.mode = "fetch", !.rounds = n] \in Task
    BY DEF Task
  <2> QED
    BY <2>1, <2>2
<1>3. [t EXCEPT !.mode = "capped"] \in Task
  BY DEF Task
<1> QED
  BY <1>1, <1>2, <1>3, Zenon DEF AfterBatch

LEMMA NotifiedType == ASSUME NEW t \in Task
                      PROVE  Notified(t) \in Task
BY FirehoseAssumption DEF Notified, Task

-----------------------------------------------------------------------------
(* Every reachable state is well formed: no action of an emitter, of a reader
   or of a restart takes the clock, the rows, the cursors or the sockets'
   contents out of their domains. *)
THEOREM TypeCorrect == Spec => []TypeOK
<1>1. Init => TypeOK
  <2> SUFFICES ASSUME Init PROVE TypeOK
    OBVIOUS
  <2>1. Offline \in Task
    BY DEF Offline, Task
  <2>2. draft \in [Emitters -> EventRow]
    BY NoRowType DEF Init
  <2>3. \A r \in Readers : stream[r] = <<>> /\ got[r] = 0
    BY DEF Init
  <2> QED
    BY <2>1, <2>2, <2>3 DEF Init, TypeOK
<1>2. TypeOK /\ [Next]_vars => TypeOK'
  <2> SUFFICES ASSUME TypeOK, [Next]_vars PROVE TypeOK'
    OBVIOUS
  <2> USE FirehoseAssumption
  <2>1. CASE Tick
    BY <2>1 DEF TypeOK, Tick, readVars
  <2>2. ASSUME NEW e \in Emitters, ReadClock(e) PROVE TypeOK'
    <3>1. PICK nsid \in Nsids :
            draft' = [draft EXCEPT ![e] =
                        [src |-> e, seq |-> emitted[e] + 1, nsid |-> nsid,
                         rkey |-> wall \div NanosPerTid, created |-> wall]]
      BY <2>2 DEF ReadClock
    <3>2. wall \div NanosPerTid \in Nat
      BY DivNat DEF TypeOK
    <3>3. draft' \in [Emitters -> EventRow]
      BY <3>1, <3>2 DEF TypeOK, EventRow
    <3>4. emitted' \in [Emitters -> Nat]
      BY <2>2 DEF ReadClock, TypeOK
    <3> QED
      BY <2>2, <3>3, <3>4 DEF TypeOK, ReadClock, readVars
  <2>3. ASSUME NEW e \in Emitters, Allocate(e) PROVE TypeOK'
    <3>1. NextNanos(draft[e].created) \in Nat
      BY DEF NextNanos, Larger, TypeOK, EventRow
    <3>2. draft' \in [Emitters -> EventRow]
      BY <2>3, <3>1 DEF TypeOK, EventRow, Allocate
    <3> QED
      BY <2>3, <3>1, <3>2 DEF TypeOK, Allocate, readVars
  <2>4. ASSUME NEW e \in Emitters, InsertEvent(e) PROVE TypeOK'
    BY <2>4 DEF TypeOK, InsertEvent, readVars
  <2>5. ASSUME NEW e \in Emitters, InsertCollides(e) PROVE TypeOK'
    BY <2>5, NoRowType DEF TypeOK, InsertCollides, Return, readVars
  <2>6. ASSUME NEW e \in Emitters, InsertFails(e) PROVE TypeOK'
    BY <2>6, NoRowType DEF TypeOK, InsertFails, Return, Fault, readVars
  <2>7. ASSUME NEW e \in Emitters, Wake(e) PROVE TypeOK'
    <3>1. conn' \in [Readers -> Task]
      BY <2>7, NotifiedType DEF TypeOK, Wake
    <3> QED
      BY <2>7, <3>1, NoRowType DEF TypeOK, Wake, Return
  <2>8. ASSUME NEW e \in Emitters, CancelHandler(e) PROVE TypeOK'
    BY <2>8, NoRowType DEF TypeOK, CancelHandler, Return, Fault, readVars
  <2>9. ASSUME NEW r \in Readers, Connect(r) PROVE TypeOK'
    <3>1. ClientCursor(r) \in Nat
      <4>1. CASE got[r] = 0
        BY <4>1 DEF ClientCursor
      <4>2. CASE got[r] # 0
        <5>1. got[r] \in 1 .. Len(stream[r]) /\ stream[r] \in Seq(EventRow)
          BY <4>2 DEF TypeOK
        <5>2. stream[r][got[r]] \in EventRow
          BY <5>1
        <5> QED
          BY <4>2, <5>2 DEF ClientCursor, EventRow
      <4> QED
        BY <4>1, <4>2
    <3>2. conn' \in [Readers -> Task]
      BY <2>9, <3>1 DEF TypeOK, Connect, Offline, Task
    <3>3. SubSeq(stream[r], 1, got[r]) \in Seq(EventRow) /\ Len(SubSeq(stream[r], 1, got[r])) = got[r]
      BY SubSeqProperties DEF TypeOK
    <3>4. stream' \in [Readers -> Seq(EventRow)]
      BY <2>9, <3>3 DEF TypeOK, Connect
    <3>5. \A q \in Readers : got'[q] <= Len(stream'[q])
      BY <2>9, <3>3 DEF TypeOK, Connect
    <3> QED
      BY <2>9, <3>2, <3>4, <3>5 DEF TypeOK, Connect, emitVars
  <2>10. ASSUME NEW r \in Readers, Fetch(r) PROVE TypeOK'
    <3>1. PICK b \in SUBSET Newer(conn[r].cursor) :
            LET t == [conn[r] EXCEPT !.batch = b, !.full = (Cardinality(b) = Batch)]
            IN  conn' = [conn EXCEPT ![r] = IF b = {} THEN AfterBatch(t)
                                            ELSE [t EXCEPT !.mode = "send"]]
      BY <2>10 DEF Fetch
    <3> DEFINE t == [conn[r] EXCEPT !.batch = b, !.full = (Cardinality(b) = Batch)]
    <3>2. b \in SUBSET EventRow
      BY DEF Newer, TypeOK
    <3>3. t \in Task
      BY <3>2 DEF TypeOK, Task
    <3>4. [t EXCEPT !.mode = "send"] \in Task
      BY <3>3 DEF Task
    <3>5. conn' \in [Readers -> Task]
      BY <3>1, <3>3, <3>4, AfterBatchType DEF TypeOK
    <3> QED
      BY <2>10, <3>5 DEF TypeOK, Fetch, emitVars
  <2>11. ASSUME NEW r \in Readers, Send(r) PROVE TypeOK'
    <3>1. PICK ev \in conn[r].batch :
            /\ stream' = [stream EXCEPT ![r] = Append(@, ev)]
            /\ LET t == [conn[r] EXCEPT !.batch = @ \ {ev}, !.cursor = ev.created]
               IN  conn' = [conn EXCEPT ![r] = IF t.batch = {} THEN AfterBatch(t) ELSE t]
      BY <2>11 DEF Send
    <3> DEFINE t == [conn[r] EXCEPT !.batch = conn[r].batch \ {ev}, !.cursor = ev.created]
    <3>2. ev \in EventRow /\ ev.created \in Nat
      BY DEF TypeOK, Task, EventRow
    <3>3. t \in Task
      <4>1. conn[r].batch \ {ev} \in SUBSET EventRow /\ conn[r] \in Task
        BY DEF TypeOK, Task
      <4> QED
        BY <3>2, <4>1 DEF Task
    <3>4. conn' \in [Readers -> Task]
      BY <3>1, <3>3, AfterBatchType DEF TypeOK
    <3>5. stream' \in [Readers -> Seq(EventRow)]
      BY <3>1, <3>2 DEF TypeOK
    <3>6. \A q \in Readers : got'[q] <= Len(stream'[q])
      BY <2>11, <3>1, <3>2 DEF TypeOK, Send
    <3> QED
      BY <2>11, <3>4, <3>5, <3>6 DEF TypeOK, Send, emitVars
  <2>12. ASSUME NEW r \in Readers, Wakeup(r) PROVE TypeOK'
    <3>1. conn[r] \in Task /\ conn[r].wakeups - 1 \in Nat
      BY <2>12 DEF TypeOK, Task, Wakeup
    <3>2. conn' \in [Readers -> Task]
      BY <2>12, <3>1 DEF TypeOK, Task, Wakeup
    <3> QED
      BY <2>12, <3>2 DEF TypeOK, Wakeup, emitVars
  <2>13. ASSUME NEW r \in Readers, Receive(r) PROVE TypeOK'
    BY <2>13 DEF TypeOK, Receive, emitVars
  <2>14. ASSUME NEW r \in Readers, Disconnect(r) PROVE TypeOK'
    <3>1. conn' \in [Readers -> Task]
      BY <2>14 DEF TypeOK, Task, Disconnect
    <3> QED
      BY <2>14, <3>1 DEF TypeOK, Disconnect, Fault, emitVars
  <2>15. CASE Crash
    <3>1. conn' \in [Readers -> Task]
      BY <2>15 DEF TypeOK, Task, Crash
    <3>2. wall' \in Nat
      BY <2>15, LargerNat DEF TypeOK, Crash
    <3> QED
      BY <2>15, <3>1, <3>2, NoRowType DEF TypeOK, Crash, Fault
  <2>16. CASE UNCHANGED vars
    BY <2>16 DEF TypeOK, vars, emitVars, readVars
  <2> QED
    BY <2>1, <2>2, <2>3, <2>4, <2>5, <2>6, <2>7, <2>8, <2>9, <2>10, <2>11,
       <2>12, <2>13, <2>14, <2>15, <2>16 DEF Next, Emit, Read
<1> QED
  BY <1>1, <1>2, PTL DEF Spec

-----------------------------------------------------------------------------
(***************************************************************************)
(* What holds however the clock is set: what readers hold and have sent,   *)
(* and how rows are told apart.                                            *)
(***************************************************************************)
LEMMA ReadFrame == ASSUME NEW r \in Readers, Read(r)
                   PROVE  UNCHANGED emitVars
BY DEF Read, Connect, Fetch, Send, Wakeup, Receive, Disconnect
LEMMA EmitFrame == ASSUME TypeOK, NEW e \in Emitters, Emit(e)
                   PROVE  /\ events \subseteq events' /\ stream' = stream /\ got' = got
                          /\ \A r \in Readers :
                               /\ conn'[r].cursor = conn[r].cursor
                               /\ conn'[r].batch = conn[r].batch
                               /\ conn'[r].mode = conn[r].mode
<1>1. CASE Wake(e)
  BY <1>1 DEF Wake, Notified, TypeOK, Task
<1>2. CASE ReadClock(e) \/ Allocate(e) \/ InsertEvent(e) \/ InsertCollides(e)
           \/ InsertFails(e) \/ CancelHandler(e)
  BY <1>2 DEF ReadClock, Allocate, InsertEvent, InsertCollides, InsertFails,
              CancelHandler, readVars
<1> QED
  BY <1>1, <1>2 DEF Emit

(* What a task has sent is stored, each row once, none before an older one, and
   its cursor is at the last; what it has still to send is stored, not older, and
   not sent yet. *)
SentOK(r) ==
    /\ \A i \in 1 .. Len(stream[r]) : stream[r][i] \in events /\ 0 < stream[r][i].created
    /\ \A i, j \in 1 .. Len(stream[r]) :
         i < j => /\ stream[r][i].created <= stream[r][j].created
                  /\ stream[r][i] # stream[r][j]
    /\ conn[r].cursor = IF Len(stream[r]) = 0 THEN 0 ELSE stream[r][Len(stream[r])].created
    /\ conn[r].batch \subseteq events
    /\ conn[r].mode = "send" =>
         \A ev \in conn[r].batch :
             /\ 0 < ev.created /\ conn[r].cursor <= ev.created
             /\ \A i \in 1 .. Len(stream[r]) : stream[r][i] # ev

SentInv == \A r \in Readers : SentOK(r)

(* Steps that neither send nor select rows. *)
LEMMA SentFrame ==
    ASSUME SentInv, events \subseteq events', stream' = stream,
           \A r \in Readers :
               /\ conn'[r].cursor = conn[r].cursor
               /\ conn'[r].batch = conn[r].batch
               /\ conn'[r].mode = "send" => conn[r].mode = "send"
    PROVE  SentInv'
BY DEF SentInv, SentOK

(* The cursor is behind nothing that was sent. *)
LEMMA SentBehindCursor ==
    ASSUME TypeOK, NEW r \in Readers, SentOK(r)
    PROVE  \A i \in 1 .. Len(stream[r]) : stream[r][i].created <= conn[r].cursor
<1> SUFFICES ASSUME NEW i \in 1 .. Len(stream[r])
             PROVE  stream[r][i].created <= conn[r].cursor
  OBVIOUS
<1> DEFINE n == Len(stream[r])
<1>1. n \in Nat /\ n # 0 /\ i \in 1 .. n /\ n \in 1 .. n /\ (i = n \/ i < n)
  BY DEF TypeOK
<1>2. stream[r][i] \in EventRow
  BY DEF TypeOK
<1>3. conn[r].cursor = stream[r][n].created
  BY <1>1 DEF SentOK
<1>4. CASE i = n
  BY <1>2, <1>3, <1>4 DEF EventRow
<1>5. CASE i < n
  BY <1>1, <1>3, <1>5 DEF SentOK
<1> QED
  BY <1>1, <1>4, <1>5

LEMMA SentStep ==
    ASSUME TypeOK, SentInv, [Next]_vars
    PROVE  SentInv'
<1>1. CASE Tick
  BY <1>1, SentFrame DEF Tick, readVars
<1>2. ASSUME NEW e \in Emitters, Emit(e) PROVE SentInv'
  BY <1>2, EmitFrame, SentFrame
<1>3. ASSUME NEW r \in Readers, Connect(r) PROVE SentInv'
  <2>1. stream[r] \in Seq(EventRow) /\ got[r] \in 0 .. Len(stream[r])
    BY DEF TypeOK
  <2> DEFINE s == SubSeq(stream[r], 1, got[r])
  <2>2. Len(s) = got[r] /\ \A i \in 1 .. got[r] : s[i] = stream[r][i]
    BY <2>1, SubSeqProperties
  <2>3. /\ events' = events
        /\ conn' = [conn EXCEPT ![r] = [Offline EXCEPT !.mode = "fetch", !.cursor = ClientCursor(r)]]
        /\ stream' = [stream EXCEPT ![r] = s]
    BY <1>3 DEF Connect, emitVars
  <2>4. /\ stream'[r] = s
        /\ conn'[r].cursor = ClientCursor(r)
        /\ conn'[r].batch = {}
        /\ conn'[r].mode = "fetch"
        /\ \A q \in Readers \ {r} : stream'[q] = stream[q] /\ conn'[q] = conn[q]
    BY <2>3 DEF TypeOK, Offline
  <2>5. ClientCursor(r) = IF Len(s) = 0 THEN 0 ELSE s[Len(s)].created
    BY <2>1, <2>2 DEF ClientCursor
  <2>6. \A i \in 1 .. Len(s) : s[i] \in events /\ 0 < s[i].created
    BY <2>1, <2>2 DEF SentInv, SentOK
  <2>7. \A i, j \in 1 .. Len(s) : i < j => s[i].created <= s[j].created /\ s[i] # s[j]
    <3>1. \A i \in 1 .. Len(s) : i \in 1 .. Len(stream[r]) /\ s[i] = stream[r][i]
      BY <2>1, <2>2
    <3> HIDE DEF s
    <3> QED
      BY <3>1 DEF SentInv, SentOK
  <2>8. SentOK(r)'
    <3> HIDE DEF s
    <3> QED
      BY <2>3, <2>4, <2>5, <2>6, <2>7 DEF SentOK
  <2>9. ASSUME NEW q \in Readers \ {r} PROVE SentOK(q)'
    BY <2>3, <2>4 DEF SentInv, SentOK
  <2> QED
    BY <2>8, <2>9 DEF SentInv
<1>4. ASSUME NEW r \in Readers, Fetch(r) PROVE SentInv'
  <2>1. PICK b \in SUBSET Newer(conn[r].cursor) :
          LET t == [conn[r] EXCEPT !.batch = b, !.full = (Cardinality(b) = Batch)]
          IN  conn' = [conn EXCEPT ![r] = IF b = {} THEN AfterBatch(t)
                                          ELSE [t EXCEPT !.mode = "send"]]
    BY <1>4 DEF Fetch
  <2>2. /\ conn'[r].cursor = conn[r].cursor
        /\ conn'[r].batch = b
        /\ \A q \in Readers \ {r} : conn'[q] = conn[q]
    BY <2>1 DEF TypeOK, Task, AfterBatch
  <2>3. ASSUME NEW ev \in b
        PROVE  /\ ev \in events /\ 0 < ev.created /\ conn[r].cursor <= ev.created
               /\ \A i \in 1 .. Len(stream[r]) : stream[r][i] # ev
    <3>1. ev \in events /\ ev.created > conn[r].cursor
      BY DEF Newer
    <3>2. ev.created \in Nat /\ conn[r].cursor \in Nat
      BY <3>1 DEF TypeOK, Task, EventRow
    <3>3. ASSUME NEW i \in 1 .. Len(stream[r]) PROVE stream[r][i] # ev
      BY <3>1, <3>2, SentBehindCursor DEF SentInv
    <3> QED
      BY <3>1, <3>2, <3>3
  <2>4. stream' = stream /\ events' = events
    BY <1>4 DEF Fetch, emitVars
  <2>5. SentOK(r)'
    BY <2>2, <2>3, <2>4 DEF SentInv, SentOK
  <2>6. ASSUME NEW q \in Readers \ {r} PROVE SentOK(q)'
    BY <2>2, <2>4 DEF SentInv, SentOK
  <2> QED
    BY <2>5, <2>6 DEF SentInv
<1>5. ASSUME NEW r \in Readers, Send(r) PROVE SentInv'
  <2>1. PICK ev \in conn[r].batch :
          /\ \A o \in conn[r].batch : ev.created <= o.created
          /\ stream' = [stream EXCEPT ![r] = Append(@, ev)]
          /\ LET t == [conn[r] EXCEPT !.batch = @ \ {ev}, !.cursor = ev.created]
             IN  conn' = [conn EXCEPT ![r] = IF t.batch = {} THEN AfterBatch(t) ELSE t]
    BY <1>5 DEF Send
  <2>2. /\ conn'[r].cursor = ev.created
        /\ conn'[r].batch = conn[r].batch \ {ev}
        /\ \A q \in Readers \ {r} : conn'[q] = conn[q] /\ stream'[q] = stream[q]
        /\ stream'[r] = Append(stream[r], ev)
    BY <2>1 DEF TypeOK, Task, AfterBatch
  <2>3. /\ conn[r].batch \subseteq events
        /\ 0 < ev.created /\ conn[r].cursor <= ev.created
        /\ \A o \in conn[r].batch : 0 < o.created
        /\ \A o \in conn[r].batch : \A i \in 1 .. Len(stream[r]) : stream[r][i] # o
        /\ ev \in EventRow /\ conn[r].cursor \in Nat /\ ev.created \in Nat
    <3>1. conn[r].mode = "send" /\ SentOK(r)
      BY <1>5 DEF SentInv, Send
    <3>2. ev \in EventRow /\ conn[r].cursor \in Nat
      BY DEF TypeOK, Task
    <3> QED
      BY <3>1, <3>2 DEF SentOK, EventRow
  <2>4. events' = events
    BY <1>5 DEF Send, emitVars
  <2> DEFINE s == stream'[r]  n == Len(stream[r])
  <2>5. stream[r] \in Seq(EventRow) /\ n \in Nat /\ Len(s) = n + 1
        /\ s[n + 1] = ev /\ \A i \in 1 .. n : s[i] = stream[r][i]
    BY <2>2, <2>3 DEF TypeOK
  <2>6. ASSUME NEW i \in 1 .. n
        PROVE  s[i] \in events /\ 0 < s[i].created /\ s[i].created <= ev.created /\ s[i] # ev
    <3>1. s[i] \in events /\ 0 < s[i].created /\ s[i].created <= conn[r].cursor /\ s[i] # ev
      BY <2>3, <2>5, SentBehindCursor DEF SentInv, SentOK
    <3>2. s[i].created \in Nat
      BY <3>1 DEF TypeOK, EventRow
    <3> QED
      BY <2>3, <3>1, <3>2
  <2>7. \A i \in 1 .. Len(s) : s[i] \in events /\ 0 < s[i].created
    BY <2>3, <2>5, <2>6
  <2>8. ASSUME NEW i \in 1 .. Len(s), NEW j \in 1 .. Len(s), i < j
        PROVE  s[i].created <= s[j].created /\ s[i] # s[j]
    <3>1. i \in 1 .. n
      BY <2>5, <2>8
    <3>2. CASE j = n + 1
      BY <2>5, <2>6, <3>1, <3>2
    <3>3. CASE j # n + 1
      <4>1. j \in 1 .. n
        BY <2>5, <3>3
      <4>2. stream[r][i].created <= stream[r][j].created /\ stream[r][i] # stream[r][j]
        BY <2>5, <2>8, <3>1, <4>1 DEF SentInv, SentOK
      <4> QED
        BY <2>5, <3>1, <4>1, <4>2
    <3> QED
      BY <3>2, <3>3
  <2>9. ASSUME NEW o \in conn'[r].batch
        PROVE  /\ 0 < o.created /\ ev.created <= o.created
               /\ \A i \in 1 .. Len(s) : s[i] # o
    <3>1. o \in conn[r].batch /\ o # ev
      BY <2>2
    <3>2. ASSUME NEW i \in 1 .. Len(s) PROVE s[i] # o
      <4>1. i \in 1 .. n \/ i = n + 1
        BY <2>5
      <4> QED
        BY <2>3, <2>5, <3>1, <4>1
    <3> QED
      BY <2>1, <2>3, <3>1, <3>2
  <2>10. SentOK(r)'
    <3>1. conn'[r].cursor = IF Len(s) = 0 THEN 0 ELSE s[Len(s)].created
      BY <2>2, <2>5
    <3>2. conn'[r].batch \subseteq events
      BY <2>2, <2>3
    <3> QED
      BY <2>2, <2>4, <2>7, <2>8, <2>9, <3>1, <3>2 DEF SentOK
  <2>11. ASSUME NEW q \in Readers \ {r} PROVE SentOK(q)'
    BY <2>2, <2>4 DEF SentInv, SentOK
  <2> QED
    BY <2>10, <2>11 DEF SentInv
<1>6. ASSUME NEW r \in Readers, Wakeup(r) \/ Disconnect(r) PROVE SentInv'
  <2>1. /\ events' = events /\ stream' = stream
        /\ \A q \in Readers \ {r} : conn'[q] = conn[q]
    BY <1>6 DEF Wakeup, Disconnect, emitVars, TypeOK
  <2>2. /\ conn'[r].cursor = conn[r].cursor /\ conn'[r].batch = conn[r].batch
        /\ conn'[r].mode # "send"
    BY <1>6 DEF Wakeup, Disconnect, TypeOK, Task
  <2> QED
    BY <2>1, <2>2, SentFrame
<1>7. ASSUME NEW r \in Readers, Receive(r) PROVE SentInv'
  BY <1>7, SentFrame DEF Receive, emitVars
<1>8. CASE Crash
  <2>1. /\ events' = events /\ stream' = stream
        /\ \A q \in Readers : /\ conn'[q].cursor = conn[q].cursor
                              /\ conn'[q].batch = conn[q].batch
                              /\ conn'[q].mode = "off"
    BY <1>8 DEF Crash, TypeOK, Task
  <2> QED
    BY <2>1, SentFrame
<1>9. CASE UNCHANGED vars
  BY <1>9, SentFrame DEF vars, emitVars, readVars
<1> QED
  BY <1>1, <1>2, <1>3, <1>4, <1>5, <1>6, <1>7, <1>8, <1>9 DEF Next, Read

(* Rows are told apart by emitter and sequence number, and every stamp is
   positive. *)
NumberedInv ==
    /\ \A x \in events : x.seq <= emitted[x.src]
    /\ \A x, y \in events : x.src = y.src /\ x.seq = y.seq => x = y
    /\ \A e \in Emitters :
         /\ pc[e] # "idle" => draft[e].src = e /\ draft[e].seq = emitted[e]
         /\ pc[e] \in {"read", "stamped"} =>
              \A x \in events : x.src = e => x.seq < draft[e].seq
         /\ pc[e] = "stamped" => 0 < draft[e].created

LEMMA NumberedStep ==
    ASSUME TypeOK, NumberedInv, [Next]_vars
    PROVE  NumberedInv'
<1> USE DEF NumberedInv
<1>1. CASE Tick
  BY <1>1 DEF Tick
<1>2. ASSUME NEW e \in Emitters, ReadClock(e) PROVE NumberedInv'
  <2>1. /\ draft'[e].src = e /\ draft'[e].seq = emitted[e] + 1
        /\ emitted'[e] = emitted[e] + 1 /\ pc'[e] = "read"
        /\ \A f \in Emitters \ {e} :
             draft'[f] = draft[f] /\ pc'[f] = pc[f] /\ emitted'[f] = emitted[f]
        /\ events' = events
    BY <1>2 DEF ReadClock, TypeOK
  <2>2. \A x \in events : x.seq \in Nat /\ x.src \in Emitters /\ emitted[x.src] \in Nat
    BY DEF TypeOK, EventRow
  <2>3. \A x \in events : x.seq <= emitted'[x.src]
    BY <2>1, <2>2
  <2>4. \A x \in events : x.src = e => x.seq < draft'[e].seq
    BY <2>1, <2>2
  <2> QED
    BY <2>1, <2>3, <2>4
<1>3. ASSUME NEW e \in Emitters, Allocate(e) PROVE NumberedInv'
  <2>1. /\ draft'[e].src = draft[e].src /\ draft'[e].seq = draft[e].seq
        /\ pc[e] = "read" /\ pc'[e] = "stamped"
        /\ \A f \in Emitters \ {e} : draft'[f] = draft[f] /\ pc'[f] = pc[f]
        /\ events' = events /\ emitted' = emitted
    BY <1>3 DEF Allocate, TypeOK, EventRow
  <2>2. 0 < draft'[e].created
    BY <1>3 DEF Allocate, NextNanos, Larger, TypeOK, EventRow
  <2> QED
    BY <2>1, <2>2
<1>4. ASSUME NEW e \in Emitters, InsertEvent(e) \/ CancelHandler(e) PROVE NumberedInv'
  <2>1. /\ pc[e] = "stamped" /\ pc'[e] \in {"stored", "idle"}
        /\ pc'[e] = "stored" => draft'[e] = draft[e]
        /\ \A f \in Emitters \ {e} : draft'[f] = draft[f] /\ pc'[f] = pc[f]
        /\ events' \subseteq events \cup {draft[e]} /\ emitted' = emitted
    BY <1>4 DEF InsertEvent, CancelHandler, Return, TypeOK
  <2>2. /\ draft[e].src = e /\ draft[e].seq = emitted[e] /\ draft[e].seq \in Nat
        /\ \A x \in events : x.src = e => x.seq < draft[e].seq
    BY <2>1 DEF TypeOK, EventRow
  <2>3. \A x \in events : x.seq \in Nat
    BY DEF TypeOK, EventRow
  <2>4. \A x \in events' : x.seq <= emitted'[x.src]
    BY <2>1, <2>2
  <2>5. \A x, y \in events' : x.src = y.src /\ x.seq = y.seq => x = y
    BY <2>1, <2>2, <2>3
  <2>6. ASSUME NEW f \in Emitters
        PROVE  /\ pc'[f] # "idle" => draft'[f].src = f /\ draft'[f].seq = emitted'[f]
               /\ pc'[f] \in {"read", "stamped"} =>
                    \A x \in events' : x.src = f => x.seq < draft'[f].seq
               /\ pc'[f] = "stamped" => 0 < draft'[f].created
    <3>1. CASE f = e
      BY <2>1, <2>2, <3>1
    <3>2. CASE f # e
      BY <2>1, <2>2, <3>2
    <3> QED
      BY <3>1, <3>2
  <2> QED
    BY <2>4, <2>5, <2>6
<1>5. ASSUME NEW e \in Emitters, InsertCollides(e) \/ InsertFails(e) \/ Wake(e)
      PROVE NumberedInv'
  <2>1. /\ pc'[e] = "idle"
        /\ \A f \in Emitters \ {e} : draft'[f] = draft[f] /\ pc'[f] = pc[f]
        /\ events' = events /\ emitted' = emitted
    BY <1>5 DEF InsertCollides, InsertFails, Wake, Return, TypeOK
  <2> QED
    BY <2>1
<1>6. ASSUME NEW r \in Readers, Read(r) PROVE NumberedInv'
  BY <1>6, ReadFrame DEF emitVars
<1>7. CASE Crash
  BY <1>7 DEF Crash
<1>8. CASE UNCHANGED vars
  BY <1>8 DEF vars, emitVars
<1> QED
  BY <1>1, <1>2, <1>3, <1>4, <1>5, <1>6, <1>7, <1>8 DEF Next, Emit

LEMMA FinitelyManyEvents ==
    ASSUME IsFiniteSet(events), [Next]_vars PROVE IsFiniteSet(events')
<1>1. events' = events \/ \E e \in Emitters : events' = events \cup {draft[e]}
  BY ReadFrame DEF Next, Tick, Emit, ReadClock, Allocate, InsertEvent, InsertCollides, InsertFails,
     Wake, CancelHandler, Crash, vars, emitVars
<1>2. \A x : IsFiniteSet(events \cup {x})
  BY FS_AddElement
<1> QED
  BY <1>1, <1>2

RowsInv == SentInv /\ NumberedInv /\ IsFiniteSet(events)

(* What holds however the clock is set. *)
LEMMA RowsInvariant == Spec => [](TypeOK /\ RowsInv)
<1>1. Init => RowsInv
  BY FS_EmptySet DEF Init, RowsInv, SentInv, SentOK, NumberedInv, Offline
<1>2. TypeOK /\ RowsInv /\ [Next]_vars => RowsInv'
  BY SentStep, NumberedStep, FinitelyManyEvents DEF RowsInv
<1> QED
  BY <1>1, <1>2, TypeCorrect, PTL DEF Spec

(* No client ever gets the same emission twice, though the clock be set back
   across a restart and rows share a stamp. *)
THEOREM DeliveredAtMostOnce == Spec => []AtMostOnce
<1>1. TypeOK /\ RowsInv => AtMostOnce
  <2> SUFFICES ASSUME TypeOK, RowsInv, NEW r \in Readers,
                      NEW i \in 1 .. got[r], NEW j \in 1 .. got[r], i # j
               PROVE  <<stream[r][i].src, stream[r][i].seq>> # <<stream[r][j].src, stream[r][j].seq>>
    BY DEF AtMostOnce
  <2>1. i \in 1 .. Len(stream[r]) /\ j \in 1 .. Len(stream[r]) /\ (i < j \/ j < i)
    BY DEF TypeOK
  <2>2. stream[r][i] \in events /\ stream[r][j] \in events /\ stream[r][i] # stream[r][j]
    BY <2>1 DEF RowsInv, SentInv, SentOK
  <2> QED
    BY <2>2 DEF RowsInv, NumberedInv
<1> QED
  BY <1>1, RowsInvariant, PTL

(* A short batch is all there is to select. *)
LEMMA ShortBatchIsAll ==
  ASSUME IsFiniteSet(events), NEW c, NEW b \in SUBSET Newer(c), IsBatch(b, c), Cardinality(b) # Batch
  PROVE  b = Newer(c)
<1>1. IsFiniteSet(Newer(c))
  BY FS_Subset DEF Newer
<1>2. Cardinality(b) = Cardinality(Newer(c))
  BY DEF IsBatch
<1> QED
  BY <1>1, <1>2, FS_Subset

(* Steps that leave a task where it is, and its cursor and batch alone. *)
LEMMA UnannouncedFrame ==
  ASSUME NEW r \in Readers,
         conn'[r].cursor = conn[r].cursor, conn'[r].batch = conn[r].batch,
         conn'[r].mode = conn[r].mode, conn'[r].full = conn[r].full,
         conn'[r].wakeups = 0 => conn[r].wakeups = 0 /\ \A ev \in events : Ringing(ev) => Ringing(ev)'
  PROVE  Unannounced(r)' \ Unannounced(r) \subseteq events' \ events
BY DEF Unannounced, Newer, Pending

LEMMA UnannouncedStep ==
  ASSUME TypeOK, RowsInv, [Next]_vars, NEW r \in Readers
  PROVE  Unannounced(r)' \ Unannounced(r) \subseteq events' \ events
<1>1. ASSUME conn'[r] = conn[r], UNCHANGED <<pc, draft>>
      PROVE  Unannounced(r)' \ Unannounced(r) \subseteq events' \ events
  BY <1>1, UnannouncedFrame DEF Ringing
<1>2. CASE Tick
  BY <1>1, <1>2 DEF Tick, readVars
<1>3. ASSUME NEW e \in Emitters, Emit(e), ~Wake(e)
      PROVE  Unannounced(r)' \ Unannounced(r) \subseteq events' \ events
  <2>1. conn' = conn /\ pc[e] # "stored"
    BY <1>3 DEF Emit, ReadClock, Allocate, InsertEvent, InsertCollides, InsertFails, CancelHandler, readVars
  <2>2. \A f \in Emitters \ {e} : pc'[f] = pc[f] /\ draft'[f] = draft[f]
    BY <1>3 DEF Emit, ReadClock, Allocate, InsertEvent, InsertCollides, InsertFails, CancelHandler,
       Return, TypeOK
  <2>3. \A ev : Ringing(ev) => Ringing(ev)'
    BY <2>1, <2>2 DEF Ringing
  <2> QED
    BY <2>1, <2>3, UnannouncedFrame
<1>4. ASSUME NEW e \in Emitters, Wake(e)
      PROVE  Unannounced(r)' \ Unannounced(r) \subseteq events' \ events
  <2>1. conn[r] \in Task /\ conn'[r] = Notified(conn[r])
    BY <1>4 DEF Wake, TypeOK
  <2>2. CASE conn[r].mode \in {"off", "capped"}
    BY <2>1, <2>2 DEF Notified, Unannounced
  <2>3. CASE conn[r].mode \notin {"off", "capped"}
    <3>1. conn'[r].wakeups # 0
      BY <2>1, <2>3, FirehoseAssumption DEF Notified, Task
    <3> QED
      BY <3>1 DEF Unannounced
  <2> QED
    BY <2>2, <2>3
<1>5. ASSUME NEW q \in Readers, Read(q), q # r
      PROVE  Unannounced(r)' \ Unannounced(r) \subseteq events' \ events
  <2>1. conn'[r] = conn[r]
    BY <1>5 DEF Read, Connect, Fetch, Send, Wakeup, Receive, Disconnect, TypeOK
  <2> QED
    BY <1>1, <1>5, <2>1, ReadFrame DEF emitVars
<1>6. CASE Connect(r) \/ Wakeup(r) \/ Disconnect(r) \/ Crash
  <2>1. conn'[r].mode = "off" \/ conn'[r].mode = "fetch"
    <3>1. CASE Connect(r)
      BY <3>1 DEF Connect, Offline, TypeOK
    <3>2. CASE Wakeup(r)
      BY <3>2 DEF Wakeup, TypeOK, Task
    <3>3. CASE Disconnect(r)
      BY <3>3 DEF Disconnect, TypeOK, Task
    <3>4. CASE Crash
      BY <3>4 DEF Crash, TypeOK, Task
    <3> QED
      BY <1>6, <3>1, <3>2, <3>3, <3>4
  <2> QED
    BY <2>1 DEF Unannounced
<1>7. CASE Fetch(r)
  <2>1. PICK b \in SUBSET Newer(conn[r].cursor) :
          /\ IsBatch(b, conn[r].cursor)
          /\ LET t == [conn[r] EXCEPT !.batch = b, !.full = (Cardinality(b) = Batch)]
             IN  conn' = [conn EXCEPT ![r] = IF b = {} THEN AfterBatch(t)
                                             ELSE [t EXCEPT !.mode = "send"]]
    BY <1>7 DEF Fetch
  <2>2. /\ conn'[r].cursor = conn[r].cursor /\ conn'[r].batch = b
        /\ conn'[r].full = (Cardinality(b) = Batch)
        /\ b # {} => conn'[r].mode = "send"
    BY <2>1 DEF TypeOK, Task, AfterBatch
  <2>3. events' = events
    BY <1>7 DEF Fetch, emitVars
  <2>4. CASE Cardinality(b) = Batch
    <3>1. b # {}
      BY <2>4, FS_EmptySet, FirehoseAssumption
    <3> QED
      BY <2>2, <2>4, <3>1 DEF Unannounced
  <2>5. CASE Cardinality(b) # Batch
    <3>1. b = Newer(conn[r].cursor)
      BY <2>1, <2>5, ShortBatchIsAll DEF RowsInv
    <3>2. \A ev \in events' : ev.created > conn'[r].cursor => ev \in b
      BY <2>2, <2>3, <3>1 DEF Newer
    <3>3. \A ev \in b : ev \in Pending(r)'
      BY <2>2 DEF Pending
    <3> QED
      BY <3>2, <3>3 DEF Unannounced, Newer
  <2> QED
    BY <2>4, <2>5
<1>8. CASE Send(r)
  <2>1. PICK s \in conn[r].batch :
          LET t == [conn[r] EXCEPT !.batch = @ \ {s}, !.cursor = s.created]
          IN  conn' = [conn EXCEPT ![r] = IF t.batch = {} THEN AfterBatch(t) ELSE t]
    BY <1>8 DEF Send
  <2>2. /\ conn'[r].cursor = s.created /\ conn'[r].batch = conn[r].batch \ {s}
        /\ conn'[r].wakeups = conn[r].wakeups
        /\ conn[r].full => conn'[r].full /\ conn'[r].mode # "wait"
        /\ conn'[r].mode = "send" \/ conn'[r].batch = {}
        /\ conn[r].mode = "send"
    <3> DEFINE t == [conn[r] EXCEPT !.batch = conn[r].batch \ {s}, !.cursor = s.created]
    <3>1. /\ conn'[r] = IF t.batch = {} THEN AfterBatch(t) ELSE t
          /\ conn[r] \in Task /\ conn[r].mode = "send"
      BY <1>8, <2>1 DEF TypeOK, Send
    <3>2. /\ t.cursor = s.created /\ t.batch = conn[r].batch \ {s} /\ t.mode = "send"
          /\ t.wakeups = conn[r].wakeups /\ t.full = conn[r].full
      BY <3>1 DEF Task
    <3>3. /\ AfterBatch(t).cursor = t.cursor /\ AfterBatch(t).batch = t.batch
          /\ AfterBatch(t).wakeups = t.wakeups /\ AfterBatch(t).full = t.full
          /\ t.full => AfterBatch(t).mode # "wait"
      BY <3>1 DEF Task, AfterBatch
    <3> HIDE DEF t
    <3> QED
      BY <3>1, <3>2, <3>3
  <2> SUFFICES ASSUME NEW ev \in Unannounced(r)' PROVE ev \in Unannounced(r)
    OBVIOUS
  <2>3. events' = events /\ pc' = pc /\ draft' = draft
    BY <1>8 DEF Send, emitVars
  <2>4. /\ ev \in events /\ ev.created > s.created /\ ev \notin Pending(r)'
        /\ conn[r].wakeups = 0 /\ ~Ringing(ev)
        /\ ~conn[r].full
    BY <2>2, <2>3 DEF Unannounced, Newer, Ringing
  <2>5. ev \notin conn[r].batch
    <3>1. ev # s
      BY <2>4 DEF TypeOK, EventRow
    <3> QED
      BY <2>2, <2>4, <3>1 DEF Pending
  <2>6. ev.created > conn[r].cursor
    <3>1. conn[r].cursor <= s.created /\ s \in EventRow
      BY <2>2 DEF RowsInv, SentInv, SentOK, TypeOK, Task
    <3>2. ev.created \in Nat /\ s.created \in Nat /\ conn[r].cursor \in Nat
      BY <2>4, <3>1 DEF TypeOK, EventRow, Task
    <3> QED
      BY <2>4, <3>1, <3>2
  <2> QED
    BY <2>2, <2>4, <2>5, <2>6 DEF Unannounced, Pending, Newer
<1>9. CASE Receive(r)
  BY <1>1, <1>9 DEF Receive, emitVars
<1>10. CASE UNCHANGED vars
  BY <1>1, <1>10 DEF vars, emitVars, readVars
<1> QED
  BY <1>2, <1>3, <1>4, <1>5, <1>6, <1>7, <1>8, <1>9, <1>10 DEF Next, Read

(* However SELECTs, INSERTs and messages interleave, a reader goes to sleep over
   no row but one whose handler was dropped. *)
THEOREM EveryWakeupCounts == Spec => NoWakeupIsLost
<1>1. TypeOK /\ RowsInv /\ [Next]_vars =>
        [\A r \in Readers : Unannounced(r)' \ Unannounced(r) \subseteq events' \ events]_vars
  BY UnannouncedStep
<1> QED
  BY <1>1, RowsInvariant, PTL DEF Spec, NoWakeupIsLost

-----------------------------------------------------------------------------
(***************************************************************************)
(* The inductive invariants behind the order of delivery, which needs a    *)
(* clock that is not set back.                                             *)
(***************************************************************************)

(* A row's stamp is behind the counter, or, if an earlier life of the process
   gave it, behind the wall clock and behind every reading of it in flight. *)
StampBound ==
    /\ \A ev \in events :
         \/ ev.created <= lastNanos
         \/ /\ ev.created <= wall
            /\ \A e \in Emitters : pc[e] = "read" => ev.created <= draft[e].created
    /\ \A e \in Emitters : pc[e] = "stamped" => draft[e].created <= lastNanos

(* No two emissions share a stamp. *)
UniqueStamps ==
    /\ \A x, y \in events : x.created = y.created => x = y
    /\ \A e \in Emitters : pc[e] = "stamped" =>
         \A x \in events : x.created # draft[e].created
    /\ \A e, f \in Emitters :
         pc[e] = "stamped" /\ pc[f] = "stamped" /\ e # f =>
             draft[e].created # draft[f].created

(* What a task has sent is stored, in order and behind its cursor; what it has
   still to send is stored and ahead of it. *)
StreamOK(r) ==
    /\ \A i \in 1 .. Len(stream[r]) :
         /\ stream[r][i] \in events
         /\ 0 < stream[r][i].created
         /\ stream[r][i].created <= conn[r].cursor
    /\ \A i, j \in 1 .. Len(stream[r]) :
         i < j => stream[r][i].created < stream[r][j].created
    /\ conn[r].batch \subseteq events
    /\ conn[r].mode = "send" =>
         \A ev \in conn[r].batch : conn[r].cursor < ev.created

StreamInv == \A r \in Readers : StreamOK(r)

(* The sequence numbers of an emitter grow together with the stamps. *)
EmissionInv ==
    /\ \A x, y \in events : x.src = y.src /\ x.created < y.created => x.seq < y.seq
    /\ \A e \in Emitters : pc[e] = "stamped" =>
         \A x \in events : x.src = e => x.created < draft[e].created

DeliveryInv == StampBound /\ UniqueStamps /\ StreamInv /\ EmissionInv

LEMMA StampBoundStep ==
    ASSUME TypeOK, StampBound, ~ClockStepsBack, [Next]_vars
    PROVE  StampBound'
<1> USE DEF StampBound
<1>1. CASE Tick
  BY <1>1 DEF Tick, TypeOK, EventRow
<1>2. ASSUME NEW e \in Emitters, ReadClock(e) PROVE StampBound'
  <2>1. /\ draft'[e].created = wall
        /\ \A f \in Emitters \ {e} : draft'[f] = draft[f] /\ pc'[f] = pc[f]
        /\ pc'[e] = "read"
        /\ UNCHANGED <<wall, lastNanos, events>>
    BY <1>2 DEF ReadClock, TypeOK
  <2>2. ASSUME NEW ev \in events, ev.created <= wall,
               \A f \in Emitters : pc[f] = "read" => ev.created <= draft[f].created,
               NEW f \in Emitters, pc'[f] = "read"
        PROVE  ev.created <= draft'[f].created
    BY <2>1, <2>2
  <2>3. \A f \in Emitters : pc'[f] = "stamped" => f # e /\ pc[f] = "stamped" /\ draft'[f] = draft[f]
    BY <2>1
  <2>4. ASSUME NEW ev \in events, ~(ev.created <= lastNanos)
        PROVE  /\ ev.created <= wall
               /\ \A f \in Emitters : pc'[f] = "read" => ev.created <= draft'[f].created
    BY <2>2, <2>4
  <2>5. \A f \in Emitters : pc'[f] = "stamped" => draft'[f].created <= lastNanos
    BY <2>3
  <2> QED
    BY <2>1, <2>4, <2>5
<1>3. ASSUME NEW e \in Emitters, Allocate(e) PROVE StampBound'
  <2>1. /\ draft'[e].created = lastNanos'
        /\ \A f \in Emitters \ {e} : draft'[f] = draft[f] /\ pc'[f] = pc[f]
        /\ pc'[e] = "stamped"
    BY <1>3 DEF Allocate, TypeOK, EventRow
  <2>2. lastNanos < lastNanos'
    BY <1>3 DEF Allocate, NextNanos, Larger, TypeOK, EventRow
  <2>3. events' = events /\ wall' = wall
    BY <1>3 DEF Allocate
  <2>4. lastNanos \in Nat /\ lastNanos' \in Nat
    BY <1>3 DEF Allocate, NextNanos, Larger, TypeOK, EventRow
  <2>5. ASSUME NEW ev \in events, ~(ev.created <= lastNanos')
        PROVE  /\ ev.created <= wall
               /\ \A f \in Emitters : pc'[f] = "read" => ev.created <= draft'[f].created
    <3>1. ~(ev.created <= lastNanos)
      BY <2>2, <2>4, <2>5 DEF TypeOK, EventRow
    <3> QED
      BY <2>1, <3>1
  <2>6. ASSUME NEW f \in Emitters, pc'[f] = "stamped"
        PROVE  draft'[f].created <= lastNanos'
    <3>1. CASE f = e
      BY <2>1, <2>4, <3>1
    <3>2. CASE f # e
      BY <2>1, <2>2, <2>4, <2>6, <3>2 DEF TypeOK, EventRow
    <3> QED
      BY <3>1, <3>2
  <2> QED
    BY <2>3, <2>5, <2>6
<1>4. ASSUME NEW e \in Emitters, InsertEvent(e) PROVE StampBound'
  BY <1>4 DEF InsertEvent, TypeOK, EventRow
<1>5. ASSUME NEW e \in Emitters, InsertCollides(e) \/ InsertFails(e) \/ Wake(e)
      PROVE StampBound'
  <2>1. /\ \A f \in Emitters \ {e} : draft'[f] = draft[f] /\ pc'[f] = pc[f]
        /\ pc'[e] = "idle"
        /\ UNCHANGED <<wall, lastNanos, events>>
    BY <1>5 DEF InsertCollides, InsertFails, Wake, Return, TypeOK
  <2> QED
    BY <2>1
<1>6. ASSUME NEW e \in Emitters, CancelHandler(e) PROVE StampBound'
  <2>1. /\ \A f \in Emitters \ {e} : draft'[f] = draft[f] /\ pc'[f] = pc[f]
        /\ pc'[e] = "idle" /\ pc[e] = "stamped"
        /\ UNCHANGED <<wall, lastNanos>>
        /\ events' \subseteq events \cup {draft[e]}
    BY <1>6 DEF CancelHandler, Return, TypeOK
  <2>2. \A f \in Emitters : pc'[f] # "idle" => pc[f] = pc'[f] /\ draft'[f] = draft[f]
    BY <2>1
  <2>3. draft[e].created <= lastNanos
    BY <2>1
  <2>4. ASSUME NEW ev \in events', ev # draft[e], ~(ev.created <= lastNanos')
        PROVE  /\ ev.created <= wall'
               /\ \A f \in Emitters : pc'[f] = "read" => ev.created <= draft'[f].created
    BY <2>1, <2>2, <2>4
  <2> QED
    BY <2>1, <2>2, <2>3, <2>4
<1>7. ASSUME NEW r \in Readers, Read(r) PROVE StampBound'
  BY <1>7, ReadFrame DEF emitVars
<1>8. CASE Crash
  <2>1. wall' >= wall /\ wall' >= lastNanos
    BY <1>8, LargerNat DEF Crash, TypeOK
  <2>2. \A e \in Emitters : pc'[e] = "idle"
    BY <1>8 DEF Crash
  <2>3. ASSUME NEW ev \in events PROVE ev.created <= wall'
    <3>1. ev.created \in Nat /\ wall \in Nat /\ lastNanos \in Nat /\ wall' \in Nat
      BY <1>8, LargerNat DEF Crash, TypeOK, EventRow
    <3>2. ev.created <= lastNanos \/ ev.created <= wall
      OBVIOUS
    <3> QED
      BY <2>1, <3>1, <3>2
  <2>4. events' = events
    BY <1>8 DEF Crash
  <2> QED
    BY <2>2, <2>3, <2>4
<1>9. CASE UNCHANGED vars
  BY <1>9 DEF vars, emitVars
<1> QED
  BY <1>1, <1>2, <1>3, <1>4, <1>5, <1>6, <1>7, <1>8, <1>9 DEF Next, Emit

(* A new stamp is above every row in the table, whichever life of the process
   stored it. *)
LEMMA NewStampIsAbove ==
    ASSUME TypeOK, StampBound, NEW e \in Emitters, Allocate(e), NEW x \in events
    PROVE  x.created < draft'[e].created
<1>1. draft'[e].created = lastNanos' /\ pc[e] = "read"
  BY DEF Allocate, TypeOK, EventRow
<1>2. lastNanos < lastNanos' /\ draft[e].created < lastNanos' /\ lastNanos' \in Nat
  BY DEF Allocate, NextNanos, Larger, TypeOK, EventRow
<1>3. x.created \in Nat /\ lastNanos \in Nat /\ draft[e].created \in Nat
  BY DEF TypeOK, EventRow
<1>4. x.created <= lastNanos \/ x.created <= draft[e].created
  BY <1>1 DEF StampBound
<1> QED
  BY <1>1, <1>2, <1>3, <1>4

LEMMA UniqueStampsStep ==
    ASSUME TypeOK, StampBound, UniqueStamps, [Next]_vars
    PROVE  UniqueStamps'
<1> USE DEF UniqueStamps
<1>1. CASE Tick
  BY <1>1 DEF Tick
<1>2. ASSUME NEW e \in Emitters, ReadClock(e) PROVE UniqueStamps'
  <2>1. /\ \A f \in Emitters \ {e} : draft'[f] = draft[f] /\ pc'[f] = pc[f]
        /\ pc'[e] = "read"
        /\ events' = events
    BY <1>2 DEF ReadClock, TypeOK
  <2> QED
    BY <2>1
<1>3. ASSUME NEW e \in Emitters, Allocate(e) PROVE UniqueStamps'
  <2>1. /\ draft'[e].created = lastNanos'
        /\ \A f \in Emitters \ {e} : draft'[f] = draft[f] /\ pc'[f] = pc[f]
        /\ pc'[e] = "stamped" /\ pc[e] = "read"
        /\ events' = events
    BY <1>3 DEF Allocate, TypeOK, EventRow
  <2>2. lastNanos < lastNanos' /\ lastNanos' \in Nat
    BY <1>3 DEF Allocate, NextNanos, Larger, TypeOK, EventRow
  <2>3. ASSUME NEW x \in events PROVE x.created # draft'[e].created
    <3>1. x.created \in Nat /\ draft'[e].created \in Nat
      BY <2>1, <2>2 DEF TypeOK, EventRow
    <3> QED
      BY <1>3, <3>1, NewStampIsAbove
  <2>4. ASSUME NEW f \in Emitters, pc[f] = "stamped"
        PROVE  draft[f].created # lastNanos'
    <3>1. draft[f].created \in Nat /\ lastNanos \in Nat
      BY DEF TypeOK, EventRow
    <3>2. draft[f].created <= lastNanos
      BY <2>4 DEF StampBound
    <3> QED
      BY <2>2, <3>1, <3>2
  <2> QED
    BY <2>1, <2>3, <2>4
<1>4. ASSUME NEW e \in Emitters,
             InsertEvent(e) \/ InsertCollides(e) \/ InsertFails(e) \/ Wake(e) \/ CancelHandler(e)
      PROVE UniqueStamps'
  <2>1. /\ \A f \in Emitters \ {e} : draft'[f] = draft[f] /\ pc'[f] = pc[f]
        /\ pc'[e] # "stamped"
        /\ events' = events \/ (pc[e] = "stamped" /\ events' = events \cup {draft[e]})
    BY <1>4 DEF InsertEvent, InsertCollides, InsertFails, Wake, CancelHandler, Return, TypeOK
  <2> QED
    BY <2>1
<1>5. ASSUME NEW r \in Readers, Read(r) PROVE UniqueStamps'
  BY <1>5, ReadFrame DEF emitVars
<1>6. CASE Crash
  BY <1>6 DEF Crash
<1>7. CASE UNCHANGED vars
  BY <1>7 DEF vars, emitVars
<1> QED
  BY <1>1, <1>2, <1>3, <1>4, <1>5, <1>6, <1>7 DEF Next, Emit

(* As no two rows share a stamp, rows in order of their stamps are in strict
   order. *)
LEMMA StrictOrder ==
    ASSUME TypeOK, UniqueStamps, SentInv
    PROVE  StreamInv
<1> SUFFICES ASSUME NEW r \in Readers PROVE StreamOK(r)
  BY DEF StreamInv
<1> DEFINE n == Len(stream[r])
<1>1. SentOK(r) /\ n \in Nat
  BY DEF SentInv, TypeOK
<1>2. \A i \in 1 .. n : stream[r][i] \in events /\ stream[r][i].created \in Nat
  BY <1>1 DEF SentOK, TypeOK, EventRow
<1>3. ASSUME NEW i \in 1 .. n, NEW j \in 1 .. n, i < j
      PROVE  stream[r][i].created < stream[r][j].created
  <2>1. /\ stream[r][i].created <= stream[r][j].created
        /\ stream[r][i] # stream[r][j]
    BY <1>1, <1>3 DEF SentOK
  <2>2. stream[r][i].created # stream[r][j].created
    BY <1>2, <2>1 DEF UniqueStamps
  <2> QED
    BY <1>2, <2>1, <2>2
<1>4. ASSUME conn[r].mode = "send", NEW ev \in conn[r].batch
      PROVE  conn[r].cursor < ev.created
  <2>1. /\ ev \in events /\ 0 < ev.created /\ conn[r].cursor <= ev.created
        /\ \A i \in 1 .. n : stream[r][i] # ev
    BY <1>1, <1>4 DEF SentOK
  <2>2. ev.created \in Nat /\ conn[r].cursor \in Nat
    BY <2>1 DEF TypeOK, EventRow, Task
  <2>3. CASE n = 0
    BY <1>1, <2>1, <2>3 DEF SentOK
  <2>4. CASE n # 0
    <3>1. n \in 1 .. n /\ conn[r].cursor = stream[r][n].created
      BY <1>1, <2>4 DEF SentOK
    <3>2. ev.created # stream[r][n].created
      BY <1>2, <2>1, <3>1 DEF UniqueStamps
    <3> QED
      BY <2>1, <2>2, <3>1, <3>2
  <2> QED
    BY <2>3, <2>4
<1> QED
  BY <1>1, <1>3, <1>4, SentBehindCursor DEF StreamOK, SentOK

LEMMA EmissionInvStep ==
    ASSUME TypeOK, NumberedInv, StampBound, EmissionInv, [Next]_vars
    PROVE  EmissionInv'
<1> USE DEF EmissionInv
<1>1. CASE Tick
  BY <1>1 DEF Tick
<1>2. ASSUME NEW e \in Emitters, ReadClock(e) PROVE EmissionInv'
  <2>1. /\ pc'[e] = "read" /\ events' = events
        /\ \A f \in Emitters \ {e} : draft'[f] = draft[f] /\ pc'[f] = pc[f]
    BY <1>2 DEF ReadClock, TypeOK
  <2> QED
    BY <2>1
<1>3. ASSUME NEW e \in Emitters, Allocate(e) PROVE EmissionInv'
  <2>1. /\ events' = events
        /\ \A f \in Emitters \ {e} : draft'[f] = draft[f] /\ pc'[f] = pc[f]
    BY <1>3 DEF Allocate, TypeOK
  <2>2. \A x \in events : x.created < draft'[e].created
    BY <1>3, NewStampIsAbove
  <2> QED
    BY <2>1, <2>2
<1>4. ASSUME NEW e \in Emitters, InsertEvent(e) \/ CancelHandler(e) PROVE EmissionInv'
  <2>1. /\ pc[e] = "stamped" /\ pc'[e] # "stamped"
        /\ \A f \in Emitters \ {e} : draft'[f] = draft[f] /\ pc'[f] = pc[f]
        /\ events' \subseteq events \cup {draft[e]}
    BY <1>4 DEF InsertEvent, CancelHandler, Return, TypeOK
  <2>2. /\ draft[e] \in EventRow /\ draft[e].src = e /\ draft[e].created \in Nat
        /\ \A x \in events : x.src = e => x.seq < draft[e].seq /\ x.created < draft[e].created
    BY <2>1 DEF TypeOK, EventRow, NumberedInv
  <2>3. ASSUME NEW x \in events', NEW y \in events', x.src = y.src, x.created < y.created
        PROVE  x.seq < y.seq
    <3>1. CASE x \in events /\ y \in events
      BY <2>3, <3>1
    <3>2. CASE x = draft[e] /\ y = draft[e]
      BY <2>2, <2>3, <3>2
    <3>3. CASE x = draft[e] /\ y \in events
      <4>1. y.created < x.created /\ y.created \in Nat /\ x.created \in Nat
        BY <2>2, <2>3, <3>3 DEF TypeOK, EventRow
      <4> QED
        BY <2>3, <4>1
    <3>4. CASE x \in events /\ y = draft[e]
      BY <2>2, <2>3, <3>4
    <3> QED
      BY <2>1, <3>1, <3>2, <3>3, <3>4
  <2>4. ASSUME NEW f \in Emitters, pc'[f] = "stamped"
        PROVE  \A x \in events' : x.src = f => x.created < draft'[f].created
    BY <2>1, <2>2, <2>4
  <2> QED
    BY <2>3, <2>4
<1>5. ASSUME NEW e \in Emitters, InsertCollides(e) \/ InsertFails(e) \/ Wake(e)
      PROVE EmissionInv'
  <2>1. /\ pc'[e] = "idle" /\ events' = events
        /\ \A f \in Emitters \ {e} : draft'[f] = draft[f] /\ pc'[f] = pc[f]
    BY <1>5 DEF InsertCollides, InsertFails, Wake, Return, TypeOK
  <2> QED
    BY <2>1
<1>6. ASSUME NEW r \in Readers, Read(r) PROVE EmissionInv'
  BY <1>6, ReadFrame DEF emitVars
<1>7. CASE Crash
  BY <1>7 DEF Crash
<1>8. CASE UNCHANGED vars
  BY <1>8 DEF vars, emitVars
<1> QED
  BY <1>1, <1>2, <1>3, <1>4, <1>5, <1>6, <1>7, <1>8 DEF Next, Emit

(* Together with what holds of any clock, the invariants are inductive when the
   wall clock does not step back across a restart. *)
LEMMA DeliveryInvariant ==
    ASSUME ~ClockStepsBack
    PROVE  Spec => [](TypeOK /\ RowsInv /\ DeliveryInv)
<1> DEFINE Ordered == StampBound /\ UniqueStamps /\ EmissionInv
<1>1. Init => Ordered
  BY DEF Init, StampBound, UniqueStamps, EmissionInv
<1>2. TypeOK /\ RowsInv /\ Ordered /\ [Next]_vars => Ordered'
  BY StampBoundStep, UniqueStampsStep, EmissionInvStep DEF RowsInv
<1>3. TypeOK /\ RowsInv /\ Ordered => DeliveryInv
  BY StrictOrder DEF DeliveryInv, RowsInv
<1> QED
  BY <1>1, <1>2, <1>3, RowsInvariant, PTL DEF Spec

-----------------------------------------------------------------------------
(* Whatever the emitters interleave, and however often sockets break or the
   process restarts, a client gets events in strictly increasing `created`. *)
THEOREM AscendingDelivery ==
    ASSUME ~ClockStepsBack
    PROVE  Spec => []Ascending
<1>1. TypeOK /\ DeliveryInv => Ascending
  <2> SUFFICES ASSUME TypeOK, DeliveryInv, NEW r \in Readers,
                      NEW i \in 1 .. got[r], NEW j \in 1 .. got[r], i < j
               PROVE  stream[r][i].created < stream[r][j].created
    BY DEF Ascending
  <2>1. i \in 1 .. Len(stream[r]) /\ j \in 1 .. Len(stream[r])
    BY DEF TypeOK
  <2> QED
    BY <2>1 DEF DeliveryInv, StreamInv, StreamOK
<1> QED
  BY <1>1, DeliveryInvariant, PTL

(* Each client gets the events of one task in the order of emission. *)
THEOREM EmitterOrderKept ==
    ASSUME ~ClockStepsBack
    PROVE  Spec => []EmitterOrder
<1>1. TypeOK /\ DeliveryInv => EmitterOrder
  <2> SUFFICES ASSUME TypeOK, DeliveryInv, NEW r \in Readers,
                      NEW i \in 1 .. got[r], NEW j \in 1 .. got[r], i < j,
                      stream[r][i].src = stream[r][j].src
               PROVE  stream[r][i].seq < stream[r][j].seq
    BY DEF EmitterOrder
  <2>1. i \in 1 .. Len(stream[r]) /\ j \in 1 .. Len(stream[r])
    BY DEF TypeOK
  <2>2. /\ stream[r][i] \in events /\ stream[r][j] \in events
        /\ stream[r][i].created < stream[r][j].created
    BY <2>1 DEF DeliveryInv, StreamInv, StreamOK
  <2> QED
    BY <2>2 DEF DeliveryInv, EmissionInv
<1> QED
  BY <1>1, DeliveryInvariant, PTL

-----------------------------------------------------------------------------
(* Steps that leave a task's place in the table alone miss nothing new but what
   they insert. *)
LEMMA MissedFrame ==
    ASSUME TypeOK, StreamInv, NEW r \in Readers, stream'[r] = stream[r],
           conn'[r].cursor = conn[r].cursor,
           conn'[r].batch = conn[r].batch,
           conn'[r].mode = "send" => conn[r].mode = "send"
    PROVE  Missed(r)' \ Missed(r) \subseteq events' \ events
<1> SUFFICES ASSUME NEW ev \in Missed(r)', ev \in events
             PROVE  ev \in Missed(r)
  BY DEF Missed
<1>1. Sent(r)' = Sent(r) /\ Pending(r)' \subseteq Pending(r)
  BY DEF Sent, Pending
<1>2. ev \notin Sent(r) /\ ev \notin Pending(r)'
  BY <1>1 DEF Missed
<1>3. CASE ev.created <= conn[r].cursor
  <2>1. ev.created \in Nat /\ conn[r].cursor \in Nat
    BY DEF TypeOK, EventRow, Task
  <2>2. ev \notin Pending(r)
    BY <1>3, <2>1 DEF StreamInv, StreamOK, Pending
  <2> QED
    BY <1>2, <1>3, <2>2 DEF Missed
<1>4. CASE ~(ev.created <= conn[r].cursor)
  <2>1. PICK o \in Pending(r)' : ev.created <= o.created
    BY <1>4 DEF Missed
  <2>2. conn'[r].mode = "send"
    BY <2>1 DEF Pending
  <2>3. Pending(r)' = Pending(r)
    BY <2>2 DEF Pending
  <2> QED
    BY <1>2, <2>1, <2>3 DEF Missed
<1> QED
  BY <1>3, <1>4

LEMMA MissedStep ==
    ASSUME TypeOK, UniqueStamps, StreamInv, [Next]_vars, NEW r \in Readers
    PROVE  Missed(r)' \ Missed(r) \subseteq events' \ events
<1>1. CASE Tick
  BY <1>1, MissedFrame DEF Tick, readVars
<1>2. ASSUME NEW e \in Emitters, Emit(e)
      PROVE  Missed(r)' \ Missed(r) \subseteq events' \ events
  BY <1>2, EmitFrame, MissedFrame
<1>3. ASSUME NEW q \in Readers, Read(q), q # r
      PROVE  Missed(r)' \ Missed(r) \subseteq events' \ events
  <2>1. conn'[r] = conn[r]
    BY <1>3 DEF Read, Connect, Fetch, Send, Wakeup, Receive, Disconnect, TypeOK
  <2>2. stream'[r] = stream[r]
    BY <1>3 DEF Read, Connect, Fetch, Send, Wakeup, Receive, Disconnect, TypeOK
  <2> QED
    BY <2>1, <2>2, MissedFrame
<1>4. CASE Connect(r)
  <2> SUFFICES ASSUME NEW ev \in Missed(r)' PROVE ev \in Missed(r)
    OBVIOUS
  <2>1. stream[r] \in Seq(EventRow) /\ got[r] \in 0 .. Len(stream[r])
    BY DEF TypeOK
  <2> DEFINE s == SubSeq(stream[r], 1, got[r])
  <2>2. Len(s) = got[r] /\ \A i \in 1 .. got[r] : s[i] = stream[r][i]
    BY <2>1, SubSeqProperties
  <2>3. /\ events' = events
        /\ stream'[r] = s
        /\ conn'[r].cursor = ClientCursor(r)
        /\ conn'[r].mode = "fetch"
    BY <1>4 DEF Connect, emitVars, TypeOK, Offline
  <2>4. conn[r].mode # "send" /\ Pending(r)' = {}
    BY <1>4, <2>3 DEF Connect, Pending
  <2>5. ev \in events /\ ev \notin Sent(r)' /\ ev.created <= ClientCursor(r)
    <3> HIDE DEF s
    <3> QED
      BY <2>3, <2>4 DEF Missed
  <2>6. ev.created \in Nat /\ conn[r].cursor \in Nat
    BY <2>5 DEF TypeOK, EventRow, Task
  <2>7. ASSUME NEW i \in 1 .. Len(stream[r])
        PROVE  stream[r][i].created \in Nat /\ stream[r][i].created <= conn[r].cursor
               /\ 0 < stream[r][i].created
    <3>1. stream[r][i] \in EventRow
      BY <2>1
    <3> QED
      BY <3>1 DEF StreamInv, StreamOK, EventRow
  <2>8. ClientCursor(r) \in Nat /\ ClientCursor(r) <= conn[r].cursor
    <3>1. CASE got[r] = 0
      BY <2>6, <3>1 DEF ClientCursor
    <3>2. CASE got[r] # 0
      BY <2>1, <2>7, <3>2 DEF ClientCursor
    <3> QED
      BY <3>1, <3>2
  <2>9. ASSUME NEW i \in 1 .. Len(stream[r]), ev = stream[r][i]
        PROVE  FALSE
    <3>1. i \notin 1 .. got[r]
      <4>1. Sent(r)' = {s[n] : n \in 1 .. Len(s)}
        BY <2>3 DEF Sent
      <4> HIDE DEF s
      <4> QED
        BY <2>2, <2>5, <2>9, <4>1
    <3>2. CASE got[r] = 0
      BY <2>5, <2>6, <2>7, <2>9, <3>2 DEF ClientCursor
    <3>3. CASE got[r] # 0
      <4>1. got[r] \in 1 .. Len(stream[r]) /\ got[r] < i
        BY <2>1, <3>1, <3>3
      <4>2. stream[r][got[r]].created < stream[r][i].created
        BY <4>1 DEF StreamInv, StreamOK
      <4>3. ev.created <= stream[r][got[r]].created
        BY <2>5, <3>3 DEF ClientCursor
      <4> QED
        BY <2>7, <2>9, <4>1, <4>2, <4>3
    <3> QED
      BY <3>2, <3>3
  <2> QED
    BY <2>4, <2>5, <2>6, <2>8, <2>9 DEF Missed, Sent, Pending
<1>5. CASE Fetch(r)
  <2> SUFFICES ASSUME NEW ev \in Missed(r)' PROVE ev \in Missed(r)
    OBVIOUS
  <2>1. PICK b \in SUBSET Newer(conn[r].cursor) :
          /\ IsBatch(b, conn[r].cursor)
          /\ LET t == [conn[r] EXCEPT !.batch = b, !.full = (Cardinality(b) = Batch)]
             IN  conn' = [conn EXCEPT ![r] = IF b = {} THEN AfterBatch(t)
                                             ELSE [t EXCEPT !.mode = "send"]]
    BY <1>5 DEF Fetch
  <2>2. /\ conn'[r].cursor = conn[r].cursor
        /\ conn'[r].batch = b
        /\ b # {} => conn'[r].mode = "send"
    BY <2>1 DEF TypeOK, Task, AfterBatch
  <2>3. stream' = stream /\ events' = events /\ conn[r].mode # "send"
    BY <1>5 DEF Fetch, emitVars
  <2>4. Pending(r)' = b /\ Pending(r) = {} /\ Sent(r)' = Sent(r)
    BY <2>2, <2>3 DEF Pending, Sent
  <2>5. ev \in events /\ ev \notin Sent(r) /\ ev \notin b
    BY <2>3, <2>4 DEF Missed
  <2>6. ev.created \in Nat /\ conn[r].cursor \in Nat
    BY <2>5 DEF TypeOK, EventRow, Task
  <2>7. CASE ev.created <= conn[r].cursor
    BY <2>4, <2>5, <2>7 DEF Missed
  <2>8. CASE ~(ev.created <= conn[r].cursor)
    <3>1. PICK o \in b : ev.created <= o.created
      BY <2>2, <2>4, <2>8 DEF Missed
    <3>2. ev \in Newer(conn[r].cursor) \ b /\ o \in events
      BY <2>5, <2>6, <2>8 DEF Newer
    <3>3. o.created <= ev.created
      BY <2>1, <3>2 DEF IsBatch
    <3>4. o.created = ev.created
      BY <2>6, <3>1, <3>2, <3>3 DEF TypeOK, EventRow
    <3> QED
      BY <2>5, <3>2, <3>4 DEF UniqueStamps
  <2> QED
    BY <2>7, <2>8
<1>6. CASE Send(r)
  <2> SUFFICES ASSUME NEW ev \in Missed(r)' PROVE ev \in Missed(r)
    OBVIOUS
  <2>1. PICK s \in conn[r].batch :
          /\ \A o \in conn[r].batch : s.created <= o.created
          /\ stream' = [stream EXCEPT ![r] = Append(@, s)]
          /\ LET t == [conn[r] EXCEPT !.batch = @ \ {s}, !.cursor = s.created]
             IN  conn' = [conn EXCEPT ![r] = IF t.batch = {} THEN AfterBatch(t) ELSE t]
    BY <1>6 DEF Send
  <2>2. /\ conn'[r].cursor = s.created
        /\ conn'[r].batch = conn[r].batch \ {s}
        /\ stream'[r] = Append(stream[r], s)
        /\ conn'[r].batch # {} => conn'[r].mode = "send"
        /\ conn[r].mode = "send"
    BY <1>6, <2>1 DEF TypeOK, Task, AfterBatch, Send
  <2>3. events' = events
    BY <1>6 DEF Send, emitVars
  <2>4. Pending(r) = conn[r].batch /\ Pending(r)' = conn[r].batch \ {s}
    BY <2>2 DEF Pending
  <2>5. Sent(r)' = Sent(r) \cup {s}
    <3>1. stream[r] \in Seq(EventRow) /\ s \in EventRow
      BY DEF TypeOK, Task
    <3>2. /\ Len(stream'[r]) = Len(stream[r]) + 1 /\ Len(stream[r]) \in Nat
          /\ stream'[r][Len(stream[r]) + 1] = s
          /\ \A i \in 1 .. Len(stream[r]) : stream'[r][i] = stream[r][i]
      BY <2>2, <3>1
    <3> QED
      BY <3>2 DEF Sent
  <2>6. ev \in events /\ ev \notin Sent(r) /\ ev \notin Pending(r)
    BY <2>3, <2>4, <2>5 DEF Missed
  <2>7. \E o \in Pending(r) : ev.created <= o.created
    BY <2>2, <2>4 DEF Missed
  <2> QED
    BY <2>6, <2>7 DEF Missed
<1>7. CASE Wakeup(r) \/ Disconnect(r)
  <2>1. conn'[r].cursor = conn[r].cursor /\ conn'[r].batch = conn[r].batch /\ stream' = stream
    BY <1>7 DEF Wakeup, Disconnect, TypeOK, Task
  <2>2. conn'[r].mode # "send"
    BY <1>7 DEF Wakeup, Disconnect, TypeOK, Task
  <2> QED
    BY <2>1, <2>2, MissedFrame
<1>8. CASE Receive(r)
  BY <1>8, MissedFrame DEF Receive
<1>9. CASE Crash
  <2>1. /\ stream' = stream
        /\ conn'[r].cursor = conn[r].cursor
        /\ conn'[r].batch = conn[r].batch
        /\ conn'[r].mode = "off"
    BY <1>9 DEF Crash, TypeOK, Task
  <2> QED
    BY <2>1, MissedFrame
<1>10. CASE UNCHANGED vars
  BY <1>10, MissedFrame DEF vars, readVars
<1> QED
  BY <1>1, <1>2, <1>3, <1>4, <1>5, <1>6, <1>7, <1>8, <1>9, <1>10 DEF Next, Read

(* No step of a reader, of the socket or of a restart loses a stored row: a row
   escapes a reader only in the step that inserts it late. *)
THEOREM OnlyLateInserts ==
    ASSUME ~ClockStepsBack
    PROVE  Spec => OnlyLateInsertsAreMissed
<1>1. TypeOK /\ DeliveryInv /\ [Next]_vars =>
        [\A r \in Readers : Missed(r)' \ Missed(r) \subseteq events' \ events]_vars
  BY MissedStep DEF DeliveryInv
<1> QED
  BY <1>1, DeliveryInvariant, PTL DEF Spec, OnlyLateInsertsAreMissed

-----------------------------------------------------------------------------
(***************************************************************************)
(* Any number of emitters: the firehose implements the log with late rows. *)
(***************************************************************************)
seenBar == [r \in Readers |-> Received(r)]
lostBar == [r \in Readers |-> Missed(r)]

(* The only step that changes what a client has seen is the arrival of the next
   row, which is the least stored row it has neither seen nor missed. *)
LEMMA ReceiveDelivers ==
    ASSUME TypeOK, DeliveryInv, NEW r \in Readers, Receive(r)
    PROVE  Late!Deliver(r)
<1> DEFINE n == got[r]  ev == stream[r][n + 1]
<1>1. stream[r] \in Seq(EventRow) /\ n \in Nat /\ n + 1 \in 1 .. Len(stream[r])
  BY DEF Receive, TypeOK
<1>2. /\ events' = events /\ stream' = stream /\ conn' = conn
      /\ got'[r] = n + 1 /\ \A q \in Readers \ {r} : got'[q] = got[q]
  BY DEF Receive, emitVars, TypeOK
<1>3. /\ Len(Received(r)) = n
      /\ \A i \in 1 .. n : Received(r)[i] = stream[r][i]
  BY <1>1, SubSeqProperties DEF Received
<1>4. Late!Expected(r) = events \ ({stream[r][i] : i \in 1 .. n} \cup Missed(r))
  BY <1>3 DEF Late!Expected, Late!Seen
<1>5. ev \in events /\ ev \in EventRow
  BY <1>1 DEF DeliveryInv, StreamInv, StreamOK
<1>6. \A i \in 1 .. n : stream[r][i].created < ev.created /\ stream[r][i] \in EventRow
  BY <1>1 DEF DeliveryInv, StreamInv, StreamOK
<1>7. ev \in Late!Expected(r)
  <2>1. ev \notin Missed(r)
    BY <1>1 DEF Missed, Sent
  <2> QED
    BY <1>4, <1>5, <1>6, <2>1 DEF EventRow
<1>8. ASSUME NEW o \in Late!Expected(r) PROVE ev.created <= o.created
  <2>1. o \in events /\ o \notin Missed(r) /\ \A i \in 1 .. n : o # stream[r][i]
    BY <1>4
  <2>2. o.created \in Nat /\ ev.created \in Nat /\ conn[r].cursor \in Nat
    BY <1>5, <2>1 DEF TypeOK, EventRow, Task
  <2>3. ev.created <= conn[r].cursor
    BY <1>1 DEF DeliveryInv, StreamInv, StreamOK
  <2>4. CASE o \in Sent(r)
    <3>1. PICK i \in 1 .. Len(stream[r]) : o = stream[r][i]
      BY <2>4 DEF Sent
    <3>2. i = n + 1 \/ n + 1 < i
      BY <1>1, <2>1, <3>1
    <3> QED
      BY <1>1, <2>2, <3>1, <3>2 DEF DeliveryInv, StreamInv, StreamOK
  <2>5. CASE o \in Pending(r)
    <3>1. conn[r].cursor < o.created
      BY <2>5 DEF Pending, DeliveryInv, StreamInv, StreamOK
    <3> QED
      BY <2>2, <2>3, <3>1
  <2>6. CASE o \notin Sent(r) /\ o \notin Pending(r)
    <3>1. ~(o.created <= conn[r].cursor)
      BY <2>1, <2>6 DEF Missed
    <3> QED
      BY <2>2, <2>3, <3>1
  <2> QED
    BY <2>4, <2>5, <2>6
<1>9. seenBar' = [seenBar EXCEPT ![r] = Append(@, ev)]
  <2>1. SubSeq(stream[r], 1, n + 1) = Append(SubSeq(stream[r], 1, n), ev)
    <3>1. /\ SubSeq(stream[r], 1, n + 1) \in Seq(EventRow)
          /\ Len(SubSeq(stream[r], 1, n + 1)) = n + 1
          /\ \A i \in 1 .. n + 1 : SubSeq(stream[r], 1, n + 1)[i] = stream[r][i]
      BY <1>1, SubSeqProperties
    <3>2. /\ SubSeq(stream[r], 1, n) \in Seq(EventRow)
          /\ Len(SubSeq(stream[r], 1, n)) = n
          /\ \A i \in 1 .. n : SubSeq(stream[r], 1, n)[i] = stream[r][i]
      BY <1>1, SubSeqProperties
    <3> DEFINE a == SubSeq(stream[r], 1, n + 1)  b == SubSeq(stream[r], 1, n)
    <3> HIDE DEF a, b
    <3>3. /\ Append(b, ev) \in Seq(EventRow) /\ Len(Append(b, ev)) = n + 1
          /\ Append(b, ev)[n + 1] = ev
          /\ \A i \in 1 .. n : Append(b, ev)[i] = b[i]
      BY <1>5, <3>2 DEF b
    <3>4. /\ a \in Seq(EventRow) /\ Len(a) = n + 1
          /\ \A i \in 1 .. n + 1 : a[i] = stream[r][i]
      BY <3>1 DEF a
    <3>5. ASSUME NEW i \in 1 .. n + 1 PROVE a[i] = Append(b, ev)[i]
      <4>1. CASE i = n + 1
        BY <3>3, <3>4, <4>1
      <4>2. CASE i # n + 1
        <5>1. i \in 1 .. n
          BY <1>1, <4>2
        <5>2. b[i] = stream[r][i]
          BY <3>2, <5>1 DEF b
        <5> QED
          BY <3>3, <3>4, <5>1, <5>2
      <4> QED
        BY <4>1, <4>2
    <3>6. a = Append(b, ev)
      BY <1>1, <3>3, <3>4, <3>5, SeqEqual
    <3> QED
      BY <3>6 DEF a, b
  <2>2. Received(r)' = Append(Received(r), ev)
    BY <1>2, <2>1 DEF Received
  <2>3. \A q \in Readers \ {r} : Received(q)' = Received(q)
    BY <1>2 DEF Received
  <2> QED
    BY <2>2, <2>3 DEF seenBar
<1>10. lostBar' = lostBar
  BY <1>2 DEF lostBar, Missed, Sent, Pending
<1> QED
  BY <1>2, <1>7, <1>8, <1>9, <1>10 DEF Late!Deliver, seenBar, lostBar

(* What a client has seen is not touched by what the server sends or drops. *)
LEMMA ReadStutters ==
    ASSUME TypeOK, NEW r \in Readers, Read(r), ~Receive(r)
    PROVE  UNCHANGED <<events, seenBar>>
<1>1. events' = events
  BY ReadFrame DEF emitVars
<1>2. got' = got
  BY DEF Read, Connect, Fetch, Send, Wakeup, Disconnect
<1>3. \A q \in Readers : stream[q] \in Seq(EventRow) /\ got[q] \in Nat /\ got[q] <= Len(stream[q])
  BY DEF TypeOK
<1>4. \A q \in Readers \ {r} : stream'[q] = stream[q]
  BY DEF Read, Connect, Fetch, Send, Wakeup, Disconnect, TypeOK
<1>5. Received(r)' = Received(r)
  <2> DEFINE n == got[r]  s == stream[r]
  <2>1. s \in Seq(EventRow) /\ n \in Nat /\ n <= Len(s)
    BY <1>3
  <2>2. CASE Connect(r)
    <3>1. stream'[r] = SubSeq(s, 1, n)
      BY <2>2 DEF Connect, TypeOK
    <3>2. SubSeq(SubSeq(s, 1, n), 1, n) = SubSeq(s, 1, n)
      <4>1. /\ SubSeq(s, 1, n) \in Seq(EventRow)
            /\ Len(SubSeq(s, 1, n)) = n
        BY <2>1, SubSeqProperties
      <4> DEFINE a == SubSeq(s, 1, n)
      <4> HIDE DEF a, n, s
      <4>2. /\ SubSeq(a, 1, n) \in Seq(EventRow)
            /\ Len(SubSeq(a, 1, n)) = n
            /\ \A i \in 1 .. n : SubSeq(a, 1, n)[i] = a[i]
        BY <2>1, <4>1, SubSeqProperties DEF a
      <4> QED
        BY <2>1, <4>1, <4>2, SeqEqual DEF a
    <3> QED
      BY <1>2, <3>1, <3>2 DEF Received
  <2>3. CASE Send(r)
    <3>1. PICK ev \in conn[r].batch : stream' = [stream EXCEPT ![r] = Append(@, ev)]
      BY <2>3 DEF Send
    <3>2. stream'[r] = Append(s, ev) /\ ev \in EventRow
      BY <3>1 DEF TypeOK, Task
    <3> HIDE DEF n, s
    <3>3. /\ Append(s, ev) \in Seq(EventRow) /\ n <= Len(Append(s, ev))
          /\ \A i \in 1 .. n : Append(s, ev)[i] = s[i]
      BY <2>1, <3>2
    <3>4. /\ SubSeq(Append(s, ev), 1, n) \in Seq(EventRow)
          /\ Len(SubSeq(Append(s, ev), 1, n)) = n
          /\ \A i \in 1 .. n : SubSeq(Append(s, ev), 1, n)[i] = Append(s, ev)[i]
      BY <2>1, <3>3, SubSeqProperties
    <3>5. /\ SubSeq(s, 1, n) \in Seq(EventRow)
          /\ Len(SubSeq(s, 1, n)) = n
          /\ \A i \in 1 .. n : SubSeq(s, 1, n)[i] = s[i]
      BY <2>1, SubSeqProperties
    <3>6. SubSeq(Append(s, ev), 1, n) = SubSeq(s, 1, n)
      BY <2>1, <3>3, <3>4, <3>5, SeqEqual
    <3> QED
      BY <1>2, <3>2, <3>6 DEF Received, n, s
  <2>4. CASE Fetch(r) \/ Wakeup(r) \/ Disconnect(r)
    BY <1>2, <2>4 DEF Fetch, Wakeup, Disconnect, Received
  <2> QED
    BY <2>2, <2>3, <2>4 DEF Read
<1>6. \A q \in Readers : Received(q)' = Received(q)
  BY <1>2, <1>4, <1>5 DEF Received
<1> QED
  BY <1>1, <1>6 DEF seenBar

(* A row stored late is lost at once to who has passed it, may be lost to who has
   fetched a newer one, and is lost to no one else. *)
LEMMA InsertExtends ==
    ASSUME TypeOK, RowsInv, DeliveryInv, NEW e \in Emitters, Emit(e), events' # events
    PROVE  Late!Extend
<1> DEFINE ev == draft[e]
<1>1. /\ pc[e] = "stamped" /\ events' = events \cup {ev}
      /\ conn' = conn /\ stream' = stream /\ got' = got
  BY DEF Emit, ReadClock, Allocate, InsertEvent, InsertCollides, InsertFails, Wake, CancelHandler, readVars
<1>2. ev \in events' \ events
  BY <1>1
<1>3. /\ ev.created \in Nat /\ 0 < ev.created
      /\ \A x \in events : x.created \in Nat /\ x.created # ev.created
  BY <1>1 DEF TypeOK, EventRow, RowsInv, NumberedInv, DeliveryInv, UniqueStamps
<1> HIDE DEF ev
<1>4. seenBar' = seenBar
  BY <1>1 DEF seenBar, Received
<1>5. ASSUME NEW r \in Readers
      PROVE  /\ Late!Passed(r, ev) => ev \in Missed(r)'
             /\ \/ Missed(r)' = Missed(r)
                \/ /\ Missed(r)' = Missed(r) \cup {ev}
                   /\ \E o \in events : ev.created < o.created
  <2>1. StreamOK(r) /\ SentOK(r)
    BY DEF DeliveryInv, StreamInv, RowsInv, SentInv
  <2>2. /\ Sent(r)' = Sent(r) /\ Pending(r)' = Pending(r)
        /\ Sent(r) \subseteq events /\ Pending(r) \subseteq events
    BY <1>1, <2>1 DEF Sent, Pending, StreamOK
  <2>3. /\ Missed(r) \subseteq Missed(r)'
        /\ Missed(r)' \subseteq Missed(r) \cup {ev}
    BY <1>1, <2>2 DEF Missed
  <2>4. ASSUME ev \in Missed(r)' PROVE \E o \in events : ev.created < o.created
    <3>1. CASE ev.created <= conn[r].cursor
      <4>1. Len(stream[r]) \in Nat /\ Len(stream[r]) # 0
        BY <1>3, <2>1, <3>1 DEF SentOK, TypeOK
      <4>2. /\ stream[r][Len(stream[r])] \in events
            /\ conn[r].cursor = stream[r][Len(stream[r])].created
        BY <2>1, <4>1 DEF SentOK
      <4> QED
        BY <1>3, <3>1, <4>2
    <3>2. CASE ~(ev.created <= conn[r].cursor)
      <4>1. PICK o \in Pending(r) : ev.created <= o.created
        BY <1>1, <2>2, <2>4, <3>2 DEF Missed
      <4> QED
        BY <1>3, <2>2, <4>1
    <3> QED
      BY <3>1, <3>2
  <2>5. ASSUME Late!Passed(r, ev) PROVE ev \in Missed(r)'
    <3>1. PICK i \in 1 .. Len(Received(r)) : ev.created < Received(r)[i].created
      BY <2>5 DEF Late!Passed, Late!Seen
    <3>2. /\ got[r] \in Nat /\ got[r] <= Len(stream[r]) /\ stream[r] \in Seq(EventRow)
          /\ i \in 1 .. Len(stream[r]) /\ Received(r)[i] = stream[r][i]
      BY <3>1, SubSeqProperties DEF Received, TypeOK
    <3>3. stream[r][i].created <= conn[r].cursor /\ conn[r].cursor \in Nat /\ stream[r][i] \in events
      BY <2>1, <3>2 DEF StreamOK, TypeOK, Task
    <3>4. ev.created <= conn[r].cursor
      BY <1>3, <3>1, <3>2, <3>3
    <3>5. ev \notin Sent(r) /\ ev \notin Pending(r)
      BY <1>2, <2>2
    <3> QED
      BY <1>1, <1>2, <2>2, <3>4, <3>5 DEF Missed
  <2> QED
    BY <2>3, <2>4, <2>5
<1> QED
  BY <1>1, <1>2, <1>4, <1>5 DEF Late!Extend, seenBar, lostBar

(* A row a client has passed stays missed, whatever its task does. *)
LEMMA PassedStaysMissed ==
    ASSUME TypeOK, TypeOK', StreamInv', UNCHANGED <<events, seenBar>>,
           NEW r \in Readers, NEW ev \in Missed(r), Late!Passed(r, ev)
    PROVE  ev \in Missed(r)'
<1>1. PICK i \in 1 .. Len(Received(r)) : ev.created < Received(r)[i].created
  BY DEF Late!Passed, Late!Seen
<1>2. Received(r)' = Received(r)
  BY DEF seenBar
<1>3. /\ got[r] \in Nat /\ stream[r] \in Seq(EventRow)
      /\ Len(Received(r)) = got[r] /\ got[r] <= Len(stream[r])
      /\ \A k \in 1 .. got[r] : Received(r)[k] = stream[r][k]
  BY SubSeqProperties DEF Received, TypeOK
<1>4. /\ got'[r] \in Nat /\ stream'[r] \in Seq(EventRow)
      /\ Len(Received(r)') = got'[r] /\ got'[r] <= Len(stream'[r])
      /\ \A k \in 1 .. got'[r] : Received(r)'[k] = stream'[r][k]
  BY SubSeqProperties DEF Received, TypeOK
<1>5. /\ got'[r] = got[r] /\ i \in 1 .. Len(stream'[r])
      /\ ev.created < stream'[r][i].created
  BY <1>1, <1>2, <1>3, <1>4
<1>6. ev \in events /\ ev \in events' /\ ev.created \in Nat /\ ev \notin Sent(r)
  BY DEF Missed, TypeOK, EventRow
<1>7. StreamOK(r)' /\ conn'[r].cursor \in Nat /\ stream'[r][i].created \in Nat
  <2>1. StreamOK(r)'
    BY DEF StreamInv
  <2>2. stream'[r][i] \in EventRow
    BY <1>4, <1>5
  <2> QED
    BY <2>1, <2>2 DEF TypeOK, Task, EventRow
<1>8. ev.created < conn'[r].cursor
  <2>1. stream'[r][i].created <= conn'[r].cursor
    BY <1>5, <1>7 DEF StreamOK
  <2> QED
    BY <1>5, <1>6, <1>7, <2>1
<1>9. ev \notin Pending(r)'
  <2>1. \A o \in Pending(r)' : conn'[r].cursor < o.created
    BY <1>7 DEF StreamOK, Pending
  <2> QED
    BY <1>6, <1>7, <1>8, <2>1
<1>10. ASSUME NEW k \in 1 .. Len(stream'[r]), ev = stream'[r][k] PROVE FALSE
  <2>1. k < i
    <3>1. i < k => stream'[r][i].created < stream'[r][k].created
      BY <1>5, <1>7 DEF StreamOK
    <3> QED
      BY <1>5, <1>6, <1>7, <1>10, <3>1
  <2>2. k \in 1 .. got[r] /\ k \in 1 .. Len(stream[r])
    BY <1>1, <1>3, <1>5, <2>1
  <2>3. ev = stream[r][k]
    BY <1>2, <1>3, <1>4, <1>5, <1>10, <2>2
  <2> QED
    BY <1>6, <2>2, <2>3 DEF Sent
<1>11. ev \notin Sent(r)'
  BY <1>10 DEF Sent
<1> QED
  BY <1>6, <1>7, <1>8, <1>9, <1>11 DEF Missed

(* If the clock is not set back, every behaviour of the firehose is one of the log
   with late rows, for any number of emitters and readers, batch size, drain cap
   and channel capacity. *)
THEOREM FirehoseImplementsLateLog ==
    ASSUME ~ClockStepsBack
    PROVE  Spec => ImplementsLateLog
<1> DEFINE I == TypeOK /\ RowsInv /\ DeliveryInv
<1>1. Init => Late!Init
  <2> SUFFICES ASSUME Init PROVE Late!Init
    OBVIOUS
  <2>1. \A r \in Readers : Received(r) = <<>> /\ Missed(r) = {}
    BY DEF Init, Received, Missed
  <2> QED
    BY <2>1 DEF Init, Late!Init
<1>2. I /\ I' /\ [Next]_vars => [Late!Next]_(Late!vars)
  <2> SUFFICES ASSUME I, I', [Next]_vars PROVE Late!Next
    OBVIOUS
  <2>1. ASSUME NEW e \in Emitters, Emit(e), events' # events PROVE Late!Next
    BY <2>1, InsertExtends DEF Late!Next
  <2>2. ASSUME NEW r \in Readers, Receive(r) PROVE Late!Next
    BY <2>2, ReceiveDelivers DEF Late!Next
  <2>3. ASSUME UNCHANGED <<events, seenBar>> PROVE Late!Next
    <3>1. \A r \in Readers : Missed(r)' \subseteq Missed(r)
      BY <2>3, MissedStep DEF DeliveryInv
    <3>2. \A r \in Readers : \A ev \in Missed(r) : Late!Passed(r, ev) => ev \in Missed(r)'
      BY <2>3, PassedStaysMissed DEF DeliveryInv
    <3> QED
      BY <2>3, <3>1, <3>2 DEF Late!Next, Late!Resume, seenBar
  <2>4. ASSUME NEW e \in Emitters, Emit(e), events' = events PROVE Late!Next
    BY <2>3, <2>4, EmitFrame DEF seenBar, Received
  <2>5. ASSUME NEW r \in Readers, Read(r), ~Receive(r) PROVE Late!Next
    BY <2>3, <2>5, ReadStutters
  <2>6. CASE Tick
    BY <2>3, <2>6 DEF Tick, readVars, seenBar, Received
  <2>7. CASE Crash
    BY <2>3, <2>7 DEF Crash, seenBar, Received
  <2>8. CASE UNCHANGED vars
    BY <2>3, <2>8 DEF vars, emitVars, readVars, seenBar, Received
  <2> QED
    BY <2>1, <2>2, <2>4, <2>5, <2>6, <2>7, <2>8 DEF Next
<1> QED
  BY <1>1, <1>2, DeliveryInvariant, PTL DEF Spec, ImplementsLateLog, Late!Spec

-----------------------------------------------------------------------------
(***************************************************************************)
(* One emitter: no row comes late, and the firehose implements the ordered *)
(* log.                                                                    *)
(***************************************************************************)
SingleEmitter == \A e, f \in Emitters : e = f

(* No reader ever passes a row: the row being emitted is ahead of all others. *)
LogInv ==
    /\ \A r \in Readers : Missed(r) = {}
    /\ \A e \in Emitters : pc[e] = "stamped" =>
         \A x \in events : x.created < draft[e].created

LEMMA StampedAboveStep ==
    ASSUME TypeOK, StampBound, SingleEmitter, LogInv, [Next]_vars,
           NEW e \in Emitters, pc'[e] = "stamped"
    PROVE  \A x \in events' : x.created < draft'[e].created
<1>1. CASE Allocate(e)
  <2>1. events' = events
    BY <1>1 DEF Allocate
  <2> QED
    BY <1>1, <2>1, NewStampIsAbove
<1>2. ASSUME pc[e] = "stamped", draft' = draft, events' = events
      PROVE  \A x \in events' : x.created < draft'[e].created
  BY <1>2 DEF LogInv
<1>3. CASE Tick
  BY <1>2, <1>3 DEF Tick
<1>4. ASSUME Emit(e), ~Allocate(e) PROVE FALSE
  BY <1>4 DEF Emit, ReadClock, InsertEvent, InsertCollides, InsertFails, Wake,
              CancelHandler, Return, TypeOK
<1>5. ASSUME NEW r \in Readers, Read(r)
      PROVE  pc[e] = "stamped" /\ draft' = draft /\ events' = events
  BY <1>5, ReadFrame DEF emitVars
<1>6. CASE Crash
  BY <1>6 DEF Crash
<1>7. CASE UNCHANGED vars
  BY <1>2, <1>7 DEF vars, emitVars
<1> QED
  BY <1>1, <1>2, <1>3, <1>4, <1>5, <1>6, <1>7 DEF Next, SingleEmitter

LEMMA LogInvStep ==
    ASSUME TypeOK, RowsInv, DeliveryInv, SingleEmitter, LogInv, [Next]_vars
    PROVE  LogInv'
<1>1. \A e \in Emitters : pc'[e] = "stamped" => \A x \in events' : x.created < draft'[e].created
  BY StampedAboveStep DEF DeliveryInv
<1>2. ASSUME NEW r \in Readers PROVE Missed(r)' = {}
  <2> SUFFICES ASSUME NEW ev \in Missed(r)' PROVE FALSE
    OBVIOUS
  <2>1. ev \in events' /\ ev \notin events
    BY MissedStep DEF DeliveryInv, LogInv, Missed
  <2>2. PICK e \in Emitters : Emit(e)
    BY <2>1, ReadFrame DEF Next, Tick, Crash, vars, emitVars
  <2>3. Late!Extend
    BY <2>1, <2>2, InsertExtends
  <2>4. \E o \in events : ev.created < o.created
    BY <2>1, <2>3 DEF Late!Extend, LogInv, lostBar
  <2>5. pc[e] = "stamped" /\ ev = draft[e]
    BY <2>1, <2>2 DEF Emit, ReadClock, Allocate, InsertEvent, InsertCollides, InsertFails, Wake,
       CancelHandler
  <2>6. ev.created \in Nat /\ \A x \in events : x.created < ev.created /\ x.created \in Nat
    BY <2>5 DEF LogInv, TypeOK, EventRow
  <2> QED
    BY <2>4, <2>6
<1> QED
  BY <1>1, <1>2 DEF LogInv

LEMMA LogInvariant ==
    ASSUME ~ClockStepsBack, SingleEmitter
    PROVE  Spec => [](TypeOK /\ RowsInv /\ DeliveryInv /\ LogInv)
<1>1. Init => LogInv
  BY DEF Init, LogInv, Missed
<1>2. TypeOK /\ RowsInv /\ DeliveryInv /\ LogInv /\ [Next]_vars => LogInv'
  BY LogInvStep
<1> QED
  BY <1>1, <1>2, DeliveryInvariant, PTL DEF Spec

(* An insert extends the log at its end, and nothing else changes it. *)
LEMMA InsertAppends ==
    ASSUME TypeOK, LogInv, NEW e \in Emitters, Emit(e)
    PROVE  Log!Extend \/ UNCHANGED <<events, seenBar>>
<1>1. seenBar' = seenBar
  BY EmitFrame DEF seenBar, Received
<1>2. CASE events' = events
  BY <1>1, <1>2
<1>3. CASE events' # events
  <2>1. pc[e] = "stamped" /\ events' = events \cup {draft[e]}
    BY <1>3 DEF Emit, ReadClock, Allocate, InsertEvent, InsertCollides, InsertFails, Wake,
                CancelHandler
  <2>2. \A o \in events : o.created < draft[e].created
    BY <2>1 DEF LogInv
  <2>3. draft[e] \in events' \ events
    BY <1>3, <2>1
  <2> QED
    BY <1>1, <2>1, <2>2, <2>3 DEF Log!Extend, seenBar
<1> QED
  BY <1>2, <1>3

(* With one emitter and a clock that is not set back, every behaviour of the
   firehose is a behaviour of the ordered log, for any number of readers, batch
   size, drain cap and channel capacity. *)
THEOREM FirehoseImplementsLog ==
    ASSUME ~ClockStepsBack, SingleEmitter
    PROVE  Spec => Log!Spec
<1> DEFINE I == TypeOK /\ RowsInv /\ DeliveryInv /\ LogInv
<1>1. Init => Log!Init
  <2> SUFFICES ASSUME Init PROVE Log!Init
    OBVIOUS
  <2>1. \A r \in Readers : Received(r) = <<>>
    BY DEF Init, Received
  <2> QED
    BY <2>1 DEF Init, Log!Init
<1>2. I /\ [Next]_vars => [Log!Next]_(Log!vars)
  <2> SUFFICES ASSUME I, [Next]_vars
               PROVE  Log!Next \/ UNCHANGED <<events, seenBar>>
    BY DEF Log!vars, seenBar
  <2>1. ASSUME NEW e \in Emitters, Emit(e) PROVE Log!Next \/ UNCHANGED <<events, seenBar>>
    BY <2>1, InsertAppends DEF Log!Next
  <2>2. ASSUME NEW r \in Readers, Receive(r) PROVE Log!Next
    <3>1. Late!Deliver(r) /\ Missed(r) = {}
      BY <2>2, ReceiveDelivers DEF LogInv
    <3>2. Late!Expected(r) = Log!Unseen(r)
      BY <3>1 DEF Late!Expected, Late!Seen, Log!Unseen
    <3> QED
      BY <3>1, <3>2 DEF Late!Deliver, Log!Deliver, Log!Next
  <2>3. ASSUME NEW r \in Readers, Read(r), ~Receive(r) PROVE UNCHANGED <<events, seenBar>>
    BY <2>3, ReadStutters
  <2>4. CASE Tick
    BY <2>4 DEF Tick, readVars, seenBar, Received
  <2>5. CASE Crash
    BY <2>5 DEF Crash, seenBar, Received
  <2>6. CASE UNCHANGED vars
    BY <2>6 DEF vars, emitVars, readVars, seenBar, Received
  <2> QED
    BY <2>1, <2>2, <2>3, <2>4, <2>5, <2>6 DEF Next
<1> QED
  BY <1>1, <1>2, LogInvariant, PTL DEF Spec, Log!Spec
=============================================================================
