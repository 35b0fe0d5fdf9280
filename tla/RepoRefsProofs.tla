--------------------------- MODULE RepoRefsProofs ---------------------------
(***************************************************************************)
(* Theorems about RepoRefs, for every number of pushers and maintainers,   *)
(* every commit graph and all wishes and bounds.                           *)
(***************************************************************************)
EXTENDS RepoRefs, SequenceTheorems, TLAPS

LEMMA ResolveType == ASSUME refs \in [Refs -> Values], NEW n \in Names
                     PROVE  Resolve(n) \in Values
BY DEF Resolve, Refs, Kinds

LEMMA HistoryType == ASSUME NEW v \in Values
                     PROVE  History(v) \subseteq Commits
BY RefsAssumption DEF History, Values

(* A best common ancestor is a common ancestor. *)
LEMMA MergeBasesMeet == ASSUME NEW a \in Commits, NEW b \in Commits,
                               NEW base \in MergeBases(a, b)
                        PROVE  /\ base \in Values
                               /\ base # Absent => base \in Anc[a] \cap Anc[b]
<1>1. Anc[a] \subseteq Commits
  BY RefsAssumption
<1>2. CASE Anc[a] \cap Anc[b] = {}
  BY <1>2 DEF MergeBases, Values
<1>3. CASE Anc[a] \cap Anc[b] # {}
  BY <1>1, <1>3 DEF MergeBases, Values
<1> QED
  BY <1>2, <1>3

LEMMA NoPushType == NoPush \in Push
<1>1. <<>> \in Seq(Command) /\ <<>> \in Seq(Change)
  OBVIOUS
<1> QED
  BY <1>1 DEF NoPush, Push

LEMMA NoTaskType == ASSUME Names # {}
                    PROVE  NoTask \in Task
<1>1. (CHOOSE n \in Names : TRUE) \in Names
  OBVIOUS
<1> QED
  BY <1>1 DEF NoTask, Task, Values

(* What holds of one push, and of one owner request, beyond its type. *)
PushOK(q) ==
    /\ q \in Push
    /\ q.phase \in {"unpack", "edit"} => q.cmds # <<>>
    /\ q.phase = "emit" => q.changes # <<>>

TaskOK(t) ==
    /\ t \in Task
    /\ t.phase \in {"ours", "theirs", "compare", "ff", "hide"} => t.oid # Absent
    /\ t.phase \in {"theirs", "compare", "ff"} => t.ours # Absent
    /\ t.phase \in {"compare", "ff"} =>
         t.theirs # Absent /\ t.base \in MergeBases(t.ours, t.theirs)
    /\ t.phase = "ff" => IsAncestor(t)
    /\ t.phase = "delete" => t.branch # t.target

(* TypeOK, with what is_ancestor has established so far: merge_base found the
   base between the values it read, and in "ff" the branch was read again and
   is that base. *)
WellFormed ==
    /\ refs \in [Refs -> Values]
    /\ head \in Names
    /\ objects \in SUBSET Commits
    /\ push \in [Pushers -> Push]
    /\ \A p \in Pushers : PushOK(push[p])
    /\ task \in [Maintainers -> Task]
    /\ \A m \in Maintainers : TaskOK(task[m])
    /\ announced \in SUBSET Event
    /\ lost \in SUBSET Event
    /\ begun \in Nat
    /\ faults \in Nat

LEMMA WellFormedTyped == WellFormed => TypeOK
BY DEF WellFormed, TypeOK, PushOK, TaskOK

LEMMA IdlePushOK == PushOK(NoPush)
BY NoPushType DEF PushOK, NoPush

LEMMA IdleTaskOK == ASSUME Names # {}
                    PROVE  TaskOK(NoTask)
BY NoTaskType DEF TaskOK, NoTask

(* One push moves and the rest stay as they are; likewise one request. *)
LEMMA OnePush == ASSUME WellFormed, NEW p \in Pushers, NEW q,
                        push' = [push EXCEPT ![p] = q], PushOK(q)
                 PROVE  push' \in [Pushers -> Push] /\ \A s \in Pushers : PushOK(push'[s])
BY DEF WellFormed, PushOK

LEMMA OneTask == ASSUME WellFormed, NEW m \in Maintainers, NEW t,
                        task' = [task EXCEPT ![m] = t], TaskOK(t)
                 PROVE  task' \in [Maintainers -> Task] /\ \A s \in Maintainers : TaskOK(task'[s])
<1>1. t \in Task
  BY DEF TaskOK
<1>2. task' \in [Maintainers -> Task]
  BY <1>1 DEF WellFormed
<1>3. \A s \in Maintainers : task'[s] = task[s] \/ task'[s] = t
  BY DEF WellFormed
<1>4. \A s \in Maintainers : TaskOK(task[s])
  BY DEF WellFormed
<1>5. \A s \in Maintainers : TaskOK(task'[s])
  BY <1>3, <1>4
<1> QED
  BY <1>2, <1>5

LEMMA AfterCommandOK ==
    ASSUME NEW q, PushOK(q), q.phase = "edit", NEW made \in Seq(Change)
    PROVE  PushOK(AfterCommand(q, made))
<1>1. q.cmds \in Seq(Command) /\ q.cmds # <<>> /\ q.changes \in Seq(Change)
  BY DEF PushOK, Push
<1>2. Tail(q.cmds) \in Seq(Command) /\ q.changes \o made \in Seq(Change)
  BY <1>1
<1>3. CASE Tail(q.cmds) # <<>>
  <2>1. AfterCommand(q, made) = [q EXCEPT !.cmds = Tail(q.cmds), !.changes = q.changes \o made]
    BY <1>3 DEF AfterCommand
  <2>2. AfterCommand(q, made) \in Push
    BY <1>2, <2>1 DEF PushOK, Push
  <2>3. AfterCommand(q, made).phase = "edit" /\ AfterCommand(q, made).cmds # <<>>
    BY <1>3, <2>1 DEF PushOK, Push
  <2> QED
    BY <2>2, <2>3 DEF PushOK
<1>4. CASE Tail(q.cmds) = <<>> /\ q.changes \o made # <<>>
  <2>1. AfterCommand(q, made) = [q EXCEPT !.phase = "emit", !.cmds = <<>>,
                                          !.changes = q.changes \o made]
    BY <1>4 DEF AfterCommand
  <2>2. <<>> \in Seq(Command)
    OBVIOUS
  <2>3. AfterCommand(q, made) \in Push
    BY <1>2, <2>1, <2>2 DEF PushOK, Push
  <2>4. AfterCommand(q, made).phase = "emit" /\ AfterCommand(q, made).changes # <<>>
    BY <1>4, <2>1 DEF PushOK, Push
  <2> QED
    BY <2>3, <2>4 DEF PushOK
<1>5. CASE Tail(q.cmds) = <<>> /\ q.changes \o made = <<>>
  BY <1>5, IdlePushOK DEF AfterCommand
<1> QED
  BY <1>3, <1>4, <1>5

-----------------------------------------------------------------------------
LEMMA WellFormedInit == Init => WellFormed
<1> SUFFICES ASSUME Init PROVE WellFormed
  OBVIOUS
<1>1. refs \in [Refs -> Values]
  BY RefsAssumption DEF Init
<1>2. \A r \in Refs : History(refs[r]) \subseteq Commits
  BY <1>1, HistoryType
<1>3. objects \in SUBSET Commits
  BY <1>2 DEF Init
<1>4. Names # {}
  BY DEF Init
<1>5. push \in [Pushers -> Push] /\ \A p \in Pushers : PushOK(push[p])
  BY NoPushType, IdlePushOK DEF Init
<1>6. task \in [Maintainers -> Task] /\ \A m \in Maintainers : TaskOK(task[m])
  BY <1>4, NoTaskType, IdleTaskOK DEF Init
<1> QED
  BY <1>1, <1>3, <1>5, <1>6 DEF Init, WellFormed

(* The push a client sends. *)
LEMMA SendPushSends ==
    ASSUME NEW p \in Pushers, SendPush(p)
    PROVE  \E w \in Wishes, sent \in SUBSET Commits :
        push' = [push EXCEPT ![p] =
                   [phase |-> "unpack", id |-> begun',
                    cmds |-> [i \in 1 .. Len(w) |-> [ref |-> w[i].ref, old |-> refs[w[i].ref],
                                                     new |-> w[i].new]],
                    pack |-> sent, changes |-> <<>>]]
<1>1. PICK w \in Wishes :
        LET cmds == [i \in 1 .. Len(w) |-> [ref |-> w[i].ref, old |-> refs[w[i].ref],
                                            new |-> w[i].new]]
            new  == {w[i].new : i \in 1 .. Len(w)} \cap Commits
            pack == (UNION {Anc[c] : c \in new}) \ (UNION {History(refs[r]) : r \in Refs})
        IN  \E sent \in {pack, {}} :
              push' = [push EXCEPT ![p] = [phase |-> "unpack", id |-> begun', cmds |-> cmds,
                                           pack |-> sent, changes |-> <<>>]]
  BY DEF SendPush
<1> DEFINE new == {w[i].new : i \in 1 .. Len(w)} \cap Commits
           pack == (UNION {Anc[c] : c \in new}) \ (UNION {History(refs[r]) : r \in Refs})
<1>2. pack \in SUBSET Commits
  BY RefsAssumption
<1> QED
  BY <1>1, <1>2

LEMMA SendPushWellFormed ==
    ASSUME WellFormed, NEW p \in Pushers, SendPush(p)
    PROVE  WellFormed'
<1>1. begun' \in Nat
  BY DEF SendPush, Request, WellFormed
<1>2. PICK w \in Wishes, sent \in SUBSET Commits :
        push' = [push EXCEPT ![p] =
                   [phase |-> "unpack", id |-> begun',
                    cmds |-> [i \in 1 .. Len(w) |-> [ref |-> w[i].ref, old |-> refs[w[i].ref],
                                                     new |-> w[i].new]],
                    pack |-> sent, changes |-> <<>>]]
  BY SendPushSends
<1> DEFINE cmds == [i \in 1 .. Len(w) |-> [ref |-> w[i].ref, old |-> refs[w[i].ref],
                                           new |-> w[i].new]]
           q == [phase |-> "unpack", id |-> begun', cmds |-> cmds, pack |-> sent,
                 changes |-> <<>>]
<1>3. w \in Seq([ref : Refs, new : Values \cup {Malformed}]) /\ Len(w) \in Nat \ {0}
  <2>1. w # <<>> /\ w \in Seq([ref : Refs, new : Values \cup {Malformed}])
    BY RefsAssumption
  <2> QED
    BY <2>1, EmptySeq, LenProperties
<1>4. \A i \in 1 .. Len(w) : cmds[i] \in Command
  <2> SUFFICES ASSUME NEW i \in 1 .. Len(w) PROVE cmds[i] \in Command
    OBVIOUS
  <2>1. w[i] \in [ref : Refs, new : Values \cup {Malformed}]
    BY <1>3, ElementOfSeq
  <2>2. w[i].ref \in Refs /\ w[i].new \in Values \cup {Malformed}
    BY <2>1
  <2>3. refs[w[i].ref] \in Values
    BY <2>2 DEF WellFormed
  <2> QED
    BY <2>2, <2>3 DEF Command
<1>5. cmds \in Seq(Command) /\ cmds # <<>>
  <2>1. cmds \in [1 .. Len(w) -> Command]
    BY <1>4
  <2>2. cmds \in Seq(Command)
    BY <1>3, <2>1
  <2>3. Len(cmds) = Len(w)
    BY <1>3, <2>2
  <2> QED
    BY <1>3, <2>2, <2>3
<1>6. <<>> \in Seq(Change)
  OBVIOUS
<1>7. PushOK(q)
  BY <1>1, <1>5, <1>6 DEF PushOK, Push
<1>8. push' \in [Pushers -> Push] /\ \A s \in Pushers : PushOK(push'[s])
  BY <1>2, <1>7, OnePush
<1> QED
  BY <1>1, <1>8 DEF WellFormed, SendPush

LEMMA PushStepWellFormed ==
    ASSUME WellFormed, NEW p \in Pushers, PushStep(p)
    PROVE  WellFormed'
<1>1. CASE SendPush(p)
  BY <1>1, SendPushWellFormed
<1>2. PushOK(push[p])
  BY DEF WellFormed
<1>3. CASE Unpack(p)
  <2>1. PushOK([push[p] EXCEPT !.phase = "edit"])
    BY <1>2, <1>3 DEF Unpack, PushOK, Push
  <2>2. push' \in [Pushers -> Push] /\ \A s \in Pushers : PushOK(push'[s])
    BY <1>3, <2>1, OnePush DEF Unpack
  <2>3. objects' \in SUBSET Commits
    BY <1>2, <1>3 DEF Unpack, PushOK, Push, WellFormed
  <2> QED
    BY <1>3, <2>2, <2>3 DEF WellFormed, Unpack
<1>4. CASE UnpackFails(p)
  <2>1. push' \in [Pushers -> Push] /\ \A s \in Pushers : PushOK(push'[s])
    BY <1>4, IdlePushOK, OnePush DEF UnpackFails
  <2>2. objects' \in SUBSET Commits
    BY <1>2, <1>4 DEF UnpackFails, PushOK, Push, WellFormed
  <2> QED
    BY <1>4, <2>1, <2>2 DEF WellFormed, UnpackFails, Fault
<1>5. CASE EditRef(p)
  <2> DEFINE c == Head(push[p].cmds)
  <2>1. c \in Command /\ Accepted(c) /\ push[p].phase = "edit"
    BY <1>2, <1>5 DEF EditRef, PushOK, Push
  <2>2. c \in Change /\ c.ref \in Refs /\ c.new \in Values
    BY <2>1 DEF Command, Change, Accepted
  <2>3. <<c>> \in Seq(Change)
    BY <2>2
  <2>4. PushOK(AfterCommand(push[p], <<c>>))
    BY <1>2, <2>1, <2>3, AfterCommandOK
  <2>5. push' \in [Pushers -> Push] /\ \A s \in Pushers : PushOK(push'[s])
    BY <1>5, <2>4, OnePush DEF EditRef
  <2>6. refs' \in [Refs -> Values]
    BY <1>5, <2>2 DEF EditRef, WellFormed
  <2> QED
    BY <1>5, <2>5, <2>6 DEF WellFormed, EditRef
<1>6. CASE RefuseCommand(p)
  <2>1. <<>> \in Seq(Change)
    OBVIOUS
  <2>2. PushOK(AfterCommand(push[p], <<>>))
    BY <1>2, <1>6, <2>1, AfterCommandOK DEF RefuseCommand
  <2>3. push' \in [Pushers -> Push] /\ \A s \in Pushers : PushOK(push'[s])
    BY <1>6, <2>2, OnePush DEF RefuseCommand
  <2> QED
    BY <1>6, <2>3 DEF WellFormed, RefuseCommand
<1>7. CASE AbortPush(p)
  <2>1. push' \in [Pushers -> Push] /\ \A s \in Pushers : PushOK(push'[s])
    BY <1>7, IdlePushOK, OnePush DEF AbortPush
  <2> QED
    BY <1>7, <2>1 DEF WellFormed, AbortPush
<1>8. CASE Announce(p) \/ LoseEvent(p)
  <2> DEFINE q == push[p]
  <2>1. q.changes \in Seq(Change) /\ q.changes # <<>> /\ q \in Push /\ q.phase = "emit"
    BY <1>2, <1>8 DEF Announce, LoseEvent, PushOK, Push
  <2>2. Head(q.changes) \in Change /\ Tail(q.changes) \in Seq(Change)
    BY <2>1
  <2>3. PushOK(AfterChange(q))
    <3>1. CASE Tail(q.changes) = <<>>
      BY <3>1, IdlePushOK DEF AfterChange
    <3>2. CASE Tail(q.changes) # <<>>
      BY <2>1, <2>2, <3>2 DEF PushOK, Push, AfterChange
    <3> QED
      BY <3>1, <3>2
  <2>4. push' \in [Pushers -> Push] /\ \A s \in Pushers : PushOK(push'[s])
    BY <1>8, <2>3, OnePush DEF Announce, LoseEvent
  <2>5. NextEvent(p) \in Event
    BY <2>1, <2>2 DEF Event, Push, NextEvent
  <2>6. announced' \in SUBSET Event /\ lost' \in SUBSET Event
    BY <1>8, <2>5 DEF Announce, LoseEvent, WellFormed
  <2> QED
    BY <1>8, <2>4, <2>6 DEF WellFormed, Announce, LoseEvent
<1>9. CASE AnnouncementLost(p)
  <2>1. push' \in [Pushers -> Push] /\ \A s \in Pushers : PushOK(push'[s])
    BY <1>9, IdlePushOK, OnePush DEF AnnouncementLost
  <2> QED
    BY <1>9, <2>1 DEF WellFormed, AnnouncementLost, Fault
<1> QED
  BY <1>1, <1>3, <1>4, <1>5, <1>6, <1>7, <1>8, <1>9 DEF PushStep

LEMMA OwnerStepWellFormed ==
    ASSUME WellFormed, NEW m \in Maintainers, OwnerStep(m)
    PROVE  WellFormed'
<1>1. TaskOK(task[m]) /\ TaskOK(NoTask) /\ NoTask \in Task
  BY IdleTaskOK, NoTaskType DEF WellFormed
<1>2. ASSUME NEW t, TaskOK(t), task' = [task EXCEPT ![m] = t]
      PROVE  task' \in [Maintainers -> Task] /\ \A s \in Maintainers : TaskOK(task'[s])
  BY <1>2, OneTask
<1>3. Finish(m) => task' \in [Maintainers -> Task] /\ \A s \in Maintainers : TaskOK(task'[s])
  BY <1>1, <1>2 DEF Finish
<1>4. \A n \in Names : Resolve(n) \in Values
  BY ResolveType DEF WellFormed
<1>5. CASE BeginMerge(m)
  <2>1. PICK n \in Names :
          task' = [task EXCEPT ![m] = [NoTask EXCEPT !.phase = "target", !.branch = head,
                                                     !.target = n, !.reread = TRUE]]
    BY <1>5 DEF BeginMerge
  <2>2. TaskOK([NoTask EXCEPT !.phase = "target", !.branch = head, !.target = n,
                              !.reread = TRUE])
    BY <1>1 DEF TaskOK, Task, WellFormed
  <2>3. task' \in [Maintainers -> Task] /\ \A s \in Maintainers : TaskOK(task'[s])
    BY <1>2, <2>1, <2>2
  <2> QED
    BY <1>5, <2>3 DEF WellFormed, BeginMerge, Request
<1>6. CASE ReadTarget(m)
  <2> DEFINE t == [task[m] EXCEPT !.oid = Resolve(task[m].target), !.phase = "ours"]
  <2>1. task' = [task EXCEPT ![m].oid = Resolve(task[m].target), ![m].phase = "ours"]
        => task' = [task EXCEPT ![m] = t]
    BY DEF WellFormed
  <2>2. Resolve(task[m].target) \in Values
    BY <1>1, <1>4 DEF TaskOK, Task
  <2>3. ASSUME Resolve(task[m].target) # Absent PROVE TaskOK(t)
    BY <1>1, <2>2, <2>3 DEF TaskOK, Task
  <2>4. task' \in [Maintainers -> Task] /\ \A s \in Maintainers : TaskOK(task'[s])
    BY <1>2, <1>3, <1>6, <2>1, <2>3 DEF ReadTarget
  <2> QED
    BY <1>6, <2>4 DEF WellFormed, ReadTarget
<1>7. CASE BeginForkSync(m)
  <2>1. PICK b \in Names, h \in Names :
          /\ refs[<<"hidden", h>>] # Absent
          /\ task' = [task EXCEPT ![m] = [NoTask EXCEPT !.phase = "ours", !.branch = b,
                                                        !.oid = refs[<<"hidden", h>>]]]
    BY <1>7 DEF BeginForkSync
  <2>2. refs[<<"hidden", h>>] \in Values
    BY DEF WellFormed, Refs, Kinds
  <2>3. TaskOK([NoTask EXCEPT !.phase = "ours", !.branch = b, !.oid = refs[<<"hidden", h>>]])
    BY <1>1, <2>1, <2>2 DEF TaskOK, Task
  <2>4. task' \in [Maintainers -> Task] /\ \A s \in Maintainers : TaskOK(task'[s])
    BY <1>2, <2>1, <2>3
  <2> QED
    BY <1>7, <2>4 DEF WellFormed, BeginForkSync, Request
<1>8. CASE ReadOurs(m)
  <2> DEFINE t == [task[m] EXCEPT !.ours = Resolve(task[m].branch), !.phase = "theirs"]
  <2>1. task' = [task EXCEPT ![m].ours = Resolve(task[m].branch), ![m].phase = "theirs"]
        => task' = [task EXCEPT ![m] = t]
    BY DEF WellFormed
  <2>2. Resolve(task[m].branch) \in Values
    BY <1>1, <1>4 DEF TaskOK, Task
  <2>3. ASSUME Resolve(task[m].branch) # Absent PROVE TaskOK(t)
    BY <1>1, <1>8, <2>2, <2>3 DEF TaskOK, Task, ReadOurs
  <2>4. task' \in [Maintainers -> Task] /\ \A s \in Maintainers : TaskOK(task'[s])
    BY <1>2, <1>3, <1>8, <2>1, <2>3 DEF ReadOurs
  <2> QED
    BY <1>8, <2>4 DEF WellFormed, ReadOurs
<1>9. CASE ReadTheirs(m)
  <2> DEFINE t == task[m]
             theirs == IF t.reread THEN Resolve(t.target) ELSE t.oid
  <2>1. theirs \in Values /\ t.ours \in Commits /\ t.oid # Absent /\ t.phase = "theirs"
    BY <1>1, <1>4, <1>9 DEF TaskOK, Task, Values, ReadTheirs
  <2>2. ASSUME theirs # Absent, NEW base \in MergeBases(t.ours, theirs)
        PROVE  TaskOK([t EXCEPT !.theirs = theirs, !.base = base, !.phase = "compare"])
    <3>1. theirs \in Commits
      BY <2>1, <2>2 DEF Values
    <3>2. base \in Values
      BY <2>1, <3>1, MergeBasesMeet
    <3> DEFINE s == [t EXCEPT !.theirs = theirs, !.base = base, !.phase = "compare"]
    <3>3. s \in Task
      BY <1>1, <2>1, <3>2 DEF TaskOK, Task
    <3>4. /\ s.phase = "compare" /\ s.oid = t.oid /\ s.ours = t.ours
          /\ s.theirs = theirs /\ s.base = base
      BY <1>1 DEF TaskOK, Task
    <3>5. s.ours # Absent
      BY <1>1, <2>1, <3>4 DEF TaskOK
    <3>6. s.theirs # Absent /\ s.base \in MergeBases(s.ours, s.theirs)
      BY <2>2, <3>4
    <3>7. s.oid # Absent
      BY <2>1, <3>4
    <3>8. s.phase \notin {"ff", "delete"}
      BY <3>4
    <3>9. TaskOK(s)
      <4> HIDE DEF s
      <4> QED
        BY <3>3, <3>5, <3>6, <3>7, <3>8 DEF TaskOK
    <3> QED
      BY <3>9
  <2>3. task' \in [Maintainers -> Task] /\ \A s \in Maintainers : TaskOK(task'[s])
    <3>1. CASE theirs = Absent
      BY <1>3, <1>9, <3>1 DEF ReadTheirs
    <3>2. CASE theirs # Absent
      <4>1. PICK base \in MergeBases(t.ours, theirs) :
              task' = [task EXCEPT ![m] = [t EXCEPT !.theirs = theirs, !.base = base,
                                                    !.phase = "compare"]]
        BY <1>9, <3>2 DEF ReadTheirs
      <4>2. TaskOK([t EXCEPT !.theirs = theirs, !.base = base, !.phase = "compare"])
        BY <2>2, <3>2
      <4> QED
        BY <1>2, <4>1, <4>2
    <3> QED
      BY <3>1, <3>2
  <2> QED
    BY <1>9, <2>3 DEF WellFormed, ReadTheirs
<1>10. CASE Compare(m)
  <2> DEFINE t == [task[m] EXCEPT !.again = Resolve(task[m].branch), !.phase = "ff"]
  <2>1. Resolve(task[m].branch) \in Values /\ task[m].phase = "compare"
    BY <1>1, <1>4, <1>10 DEF TaskOK, Task, Compare
  <2>2. ASSUME IsAncestor(t) PROVE TaskOK(t)
    <3>1. t \in Task
      BY <1>1, <2>1 DEF TaskOK, Task
    <3>2. /\ t.phase = "ff" /\ t.oid = task[m].oid /\ t.ours = task[m].ours
          /\ t.theirs = task[m].theirs /\ t.base = task[m].base
      BY <1>1 DEF TaskOK, Task
    <3> HIDE DEF t
    <3> QED
      BY <1>1, <2>1, <2>2, <3>1, <3>2 DEF TaskOK
  <2>3. task' \in [Maintainers -> Task] /\ \A s \in Maintainers : TaskOK(task'[s])
    <3>1. CASE IsAncestor(t)
      <4>1. task' = [task EXCEPT ![m] = t]
        BY <1>10, <3>1 DEF Compare
      <4> QED
        BY <1>2, <2>2, <3>1, <4>1
    <3>2. CASE ~IsAncestor(t)
      BY <1>3, <1>10, <3>2 DEF Compare
    <3> QED
      BY <3>1, <3>2
  <2> QED
    BY <1>10, <2>3 DEF WellFormed, Compare
<1>11. CASE FastForward(m)
  <2>1. task[m].branch \in Names /\ task[m].oid \in Values
    BY <1>1 DEF TaskOK, Task
  <2>2. refs' \in [Refs -> Values]
    BY <1>11, <2>1 DEF FastForward, WellFormed
  <2> QED
    BY <1>3, <1>11, <2>2 DEF WellFormed, FastForward
<1>12. CASE BeginDelete(m)
  <2>1. PICK b \in Names :
          /\ b # head
          /\ task' = [task EXCEPT ![m] = [NoTask EXCEPT !.phase = "delete", !.branch = b,
                                                        !.target = head]]
    BY <1>12 DEF BeginDelete
  <2>2. TaskOK([NoTask EXCEPT !.phase = "delete", !.branch = b, !.target = head])
    BY <1>1, <2>1 DEF TaskOK, Task, WellFormed
  <2>3. task' \in [Maintainers -> Task] /\ \A s \in Maintainers : TaskOK(task'[s])
    BY <1>2, <2>1, <2>2
  <2> QED
    BY <1>12, <2>3 DEF WellFormed, BeginDelete, Request
<1>13. CASE DeleteBranch(m)
  <2>1. refs' \in [Refs -> Values]
    BY <1>13 DEF DeleteBranch, WellFormed, Values
  <2> QED
    BY <1>3, <1>13, <2>1 DEF WellFormed, DeleteBranch
<1>14. CASE BeginHide(m)
  <2>1. PICK n \in Names, h \in Names :
          /\ Resolve(n) # Absent
          /\ task' = [task EXCEPT ![m] = [NoTask EXCEPT !.phase = "hide", !.branch = h,
                                                        !.oid = Resolve(n)]]
    BY <1>14 DEF BeginHide
  <2>2. TaskOK([NoTask EXCEPT !.phase = "hide", !.branch = h, !.oid = Resolve(n)])
    BY <1>1, <1>4, <2>1 DEF TaskOK, Task
  <2>3. task' \in [Maintainers -> Task] /\ \A s \in Maintainers : TaskOK(task'[s])
    BY <1>2, <2>1, <2>2
  <2> QED
    BY <1>14, <2>3 DEF WellFormed, BeginHide, Request
<1>15. CASE SetHiddenRef(m)
  <2>1. task[m].oid \in Values
    BY <1>1 DEF TaskOK, Task
  <2>2. refs' \in [Refs -> Values]
    BY <1>15, <2>1 DEF SetHiddenRef, WellFormed
  <2> QED
    BY <1>3, <1>15, <2>2 DEF WellFormed, SetHiddenRef
<1>16. CASE SetDefaultBranch(m)
  BY <1>16 DEF WellFormed, SetDefaultBranch, Request
<1>17. CASE EditFails(m)
  BY <1>3, <1>17 DEF WellFormed, EditFails
<1> QED
  BY <1>5, <1>6, <1>7, <1>8, <1>9, <1>10, <1>11, <1>12, <1>13, <1>14, <1>15, <1>16, <1>17
     DEF OwnerStep

LEMMA WellFormedStep == WellFormed /\ [Next]_vars => WellFormed'
<1> SUFFICES ASSUME WellFormed, [Next]_vars PROVE WellFormed'
  OBVIOUS
<1>1. CASE Crash
  <2>1. push' \in [Pushers -> Push] /\ \A p \in Pushers : PushOK(push'[p])
    BY <1>1, NoPushType, IdlePushOK DEF Crash
  <2>2. task' \in [Maintainers -> Task] /\ \A m \in Maintainers : TaskOK(task'[m])
    BY <1>1, NoTaskType, IdleTaskOK DEF Crash, WellFormed
  <2> QED
    BY <1>1, <2>1, <2>2 DEF WellFormed, Crash, Fault
<1>2. CASE UNCHANGED vars
  BY <1>2 DEF WellFormed, vars
<1> QED
  BY <1>1, <1>2, PushStepWellFormed, OwnerStepWellFormed DEF Next

(* Every reachable state is well formed, and a request in "ff" holds two reads of
   its branch that agree on an ancestor of its target. *)
THEOREM AlwaysWellFormed == Spec => []WellFormed
BY WellFormedInit, WellFormedStep, PTL DEF Spec

(* Every reachable state is well formed: a push whose commands are being carried
   out has one left, one that announces has a change left, and an owner request
   never compares or writes a value it did not find. *)
THEOREM RefsTypeCorrect == Spec => []TypeOK
BY AlwaysWellFormed, WellFormedTyped, PTL

-----------------------------------------------------------------------------
(* HistoryIsStored is not inductive: what a push in "unpack" holds will be added
   to the objects, and what an owner request holds will be written to a ref. *)
ObjectsClosed(stored) == \A c \in stored : Anc[c] \subseteq stored

Stored ==
    /\ ObjectsClosed(objects)
    /\ \A r \in Refs : History(refs[r]) \subseteq objects
    /\ \A p \in Pushers :
         push[p].phase = "unpack" => ObjectsClosed(objects \cup push[p].pack)
    /\ \A m \in Maintainers : History(task[m].oid) \subseteq objects

LEMMA ResolveStored == ASSUME Stored, NEW n \in Names
                       PROVE  History(Resolve(n)) \subseteq objects
BY DEF Resolve, Stored, Refs, Kinds

LEMMA NothingStored == History(NoTask.oid) = {}
BY DEF History, NoTask

LEMMA StoredInit == Init => Stored
<1> SUFFICES ASSUME Init PROVE Stored
  OBVIOUS
<1>1. \A r \in Refs : refs[r] \in Values
  BY RefsAssumption DEF Init
<1>2. ObjectsClosed(objects)
  <2> SUFFICES ASSUME NEW c \in objects PROVE Anc[c] \subseteq objects
    BY DEF ObjectsClosed
  <2>1. PICK r \in Refs : c \in History(refs[r])
    BY DEF Init
  <2>2. refs[r] \in Commits /\ c \in Anc[refs[r]]
    BY <1>1, <2>1 DEF History, Values
  <2>3. Anc[c] \subseteq History(refs[r])
    BY <2>1, <2>2, RefsAssumption DEF History
  <2> QED
    BY <2>3 DEF Init
<1>3. \A p \in Pushers : push[p].phase = "idle"
  BY DEF Init, NoPush
<1>4. \A m \in Maintainers : History(task[m].oid) = {}
  BY NothingStored DEF Init
<1> QED
  BY <1>2, <1>3, <1>4 DEF Init, Stored

(* Objects are only added, and together with their history. *)
LEMMA PackClosed ==
    ASSUME WellFormed, Stored, NEW new \in SUBSET Commits,
           NEW sent \in {(UNION {Anc[c] : c \in new}) \ (UNION {History(refs[r]) : r \in Refs}), {}}
    PROVE  ObjectsClosed(objects \cup sent)
<1>1. CASE sent = {}
  BY <1>1 DEF Stored, ObjectsClosed
<1>2. CASE sent = (UNION {Anc[c] : c \in new}) \ (UNION {History(refs[r]) : r \in Refs})
  <2> SUFFICES ASSUME NEW c \in objects \cup sent PROVE Anc[c] \subseteq objects \cup sent
    BY DEF ObjectsClosed
  <2>1. CASE c \in objects
    BY <2>1 DEF Stored, ObjectsClosed
  <2>2. CASE c \in sent
    <3>1. PICK n \in new : c \in Anc[n]
      BY <1>2, <2>2
    <3>2. Anc[c] \subseteq Anc[n]
      BY <3>1, RefsAssumption
    <3>3. Anc[n] \subseteq UNION {Anc[d] : d \in new}
      OBVIOUS
    <3>4. UNION {History(refs[r]) : r \in Refs} \subseteq objects
      BY DEF Stored
    <3> QED
      BY <1>2, <3>2, <3>3, <3>4
  <2> QED
    BY <2>1, <2>2
<1> QED
  BY <1>1, <1>2

LEMMA PushStepStored ==
    ASSUME WellFormed, Stored, NEW p \in Pushers, PushStep(p)
    PROVE  Stored'
<1>1. CASE SendPush(p)
  <2> DEFINE packs(w) ==
               {(UNION {Anc[c] : c \in {w[i].new : i \in 1 .. Len(w)} \cap Commits})
                  \ (UNION {History(refs[r]) : r \in Refs}), {}}
  <2>1. PICK w \in Wishes : \E sent \in packs(w) : \E cmds :
          push' = [push EXCEPT ![p] = [phase |-> "unpack", id |-> begun', cmds |-> cmds,
                                       pack |-> sent, changes |-> <<>>]]
    BY <1>1 DEF SendPush
  <2>2. PICK sent \in packs(w) : \E cmds :
          push' = [push EXCEPT ![p] = [phase |-> "unpack", id |-> begun', cmds |-> cmds,
                                       pack |-> sent, changes |-> <<>>]]
    BY <2>1
  <2>3. ObjectsClosed(objects \cup sent)
    BY <2>2, PackClosed
  <2>4. push'[p].pack = sent /\ \A s \in Pushers \ {p} : push'[s] = push[s]
    BY <2>2 DEF WellFormed
  <2> QED
    BY <1>1, <2>3, <2>4 DEF Stored, SendPush, ObjectsClosed, History
<1>2. ASSUME objects \subseteq objects', ObjectsClosed(objects'), refs' = refs, task' = task,
             \A s \in Pushers : push'[s].phase = "unpack" => push'[s] = push[s]
      PROVE  Stored'
  <2>1. \A r \in Refs : History(refs'[r]) \subseteq objects'
    BY <1>2 DEF Stored
  <2>2. ASSUME NEW s \in Pushers, push'[s].phase = "unpack"
        PROVE  ObjectsClosed(objects' \cup push'[s].pack)
    <3>1. ObjectsClosed(objects \cup push[s].pack) /\ push'[s] = push[s]
      BY <1>2, <2>2 DEF Stored
    <3> QED
      BY <1>2, <3>1 DEF ObjectsClosed
  <2>3. \A m \in Maintainers : History(task'[m].oid) \subseteq objects'
    BY <1>2 DEF Stored
  <2> QED
    BY <1>2, <2>1, <2>2, <2>3 DEF Stored, ObjectsClosed, History
<1>3. ObjectsClosed(objects) /\ push \in [Pushers -> Push] /\ NoPush.phase # "unpack"
  BY DEF Stored, WellFormed, NoPush
<1>4. CASE Unpack(p)
  <2>1. ObjectsClosed(objects') /\ objects \subseteq objects'
    BY <1>4 DEF Unpack, Stored
  <2>2. \A s \in Pushers : push'[s].phase = "unpack" => push'[s] = push[s]
    BY <1>3, <1>4 DEF Unpack, Push
  <2> QED
    BY <1>2, <1>4, <2>1, <2>2 DEF Unpack
<1>5. CASE UnpackFails(p)
  <2>1. ObjectsClosed(objects') /\ objects \subseteq objects'
    BY <1>3, <1>5 DEF UnpackFails, Stored
  <2>2. \A s \in Pushers : push'[s].phase = "unpack" => push'[s] = push[s]
    BY <1>3, <1>5 DEF UnpackFails
  <2> QED
    BY <1>2, <1>5, <2>1, <2>2 DEF UnpackFails
<1>6. PushOK(push[p])
  BY DEF WellFormed
<1>7. ASSUME push[p].phase = "edit", NEW made,
             push' = [push EXCEPT ![p] = AfterCommand(push[p], made)]
      PROVE  \A s \in Pushers : push'[s].phase = "unpack" => push'[s] = push[s]
  <2>1. AfterCommand(push[p], made).phase # "unpack"
    BY <1>3, <1>6, <1>7 DEF AfterCommand, PushOK, Push
  <2> QED
    BY <1>3, <1>7, <2>1
<1>8. CASE EditRef(p)
  <2> DEFINE c == Head(push[p].cmds)
  <2>1. c \in Command /\ Accepted(c) /\ push[p].phase = "edit"
    BY <1>6, <1>8 DEF EditRef, PushOK, Push
  <2>2. History(c.new) \subseteq objects
    BY <1>3, <2>1 DEF Accepted, History, ObjectsClosed
  <2>3. \A r \in Refs : refs'[r] = refs[r] \/ refs'[r] = c.new
    BY <1>8, <2>1 DEF EditRef, WellFormed, Command
  <2>4. \A r \in Refs : History(refs'[r]) \subseteq objects
    BY <2>2, <2>3 DEF Stored
  <2>5. \A s \in Pushers : push'[s].phase = "unpack" => push'[s] = push[s]
    BY <1>7, <1>8 DEF EditRef
  <2> QED
    BY <1>8, <2>4, <2>5 DEF EditRef, Stored, ObjectsClosed, History
<1>9. CASE RefuseCommand(p)
  <2>1. \A s \in Pushers : push'[s].phase = "unpack" => push'[s] = push[s]
    BY <1>7, <1>9 DEF RefuseCommand
  <2> QED
    BY <1>2, <1>3, <1>9, <2>1 DEF RefuseCommand
<1>10. CASE AbortPush(p)
  <2>1. \A s \in Pushers : push'[s].phase = "unpack" => push'[s] = push[s]
    BY <1>3, <1>10 DEF AbortPush
  <2> QED
    BY <1>2, <1>3, <1>10, <2>1 DEF AbortPush
<1>11. CASE Announce(p) \/ LoseEvent(p)
  <2>1. \A s \in Pushers : push'[s].phase = "unpack" => push'[s] = push[s]
    BY <1>3, <1>11 DEF Announce, LoseEvent, AfterChange, Push
  <2> QED
    BY <1>2, <1>3, <1>11, <2>1 DEF Announce, LoseEvent
<1>12. CASE AnnouncementLost(p)
  <2>1. \A s \in Pushers : push'[s].phase = "unpack" => push'[s] = push[s]
    BY <1>3, <1>12 DEF AnnouncementLost
  <2> QED
    BY <1>2, <1>3, <1>12, <2>1 DEF AnnouncementLost
<1> QED
  BY <1>1, <1>4, <1>5, <1>8, <1>9, <1>10, <1>11, <1>12 DEF PushStep

LEMMA OwnerStepStored ==
    ASSUME WellFormed, Stored, NEW m \in Maintainers, OwnerStep(m)
    PROVE  Stored'
<1>1. /\ TaskOK(task[m]) /\ task \in [Maintainers -> Task]
      /\ refs \in [Refs -> Values] /\ NoTask \in Task
  BY NoTaskType DEF WellFormed
<1>2. ASSUME NEW t, History(t.oid) \subseteq objects, task' = [task EXCEPT ![m] = t]
      PROVE  \A s \in Maintainers : History(task'[s].oid) \subseteq objects
  BY <1>1, <1>2 DEF Stored
<1>3. Finish(m) => \A s \in Maintainers : History(task'[s].oid) \subseteq objects
  BY <1>2, NothingStored DEF Finish
<1>4. ASSUME \A s \in Maintainers : History(task'[s].oid) \subseteq objects,
             UNCHANGED <<refs, objects, push>>
      PROVE  Stored'
  BY <1>4 DEF Stored, ObjectsClosed, History
(* An edit writes what the request holds, or nothing. *)
<1>5. ASSUME NEW r \in Refs, NEW v, History(v) \subseteq objects,
             refs' = [refs EXCEPT ![r] = v], Finish(m), UNCHANGED <<objects, push>>
      PROVE  Stored'
  <2>1. \A q \in Refs : refs'[q] = refs[q] \/ refs'[q] = v
    BY <1>1, <1>5
  <2>2. \A q \in Refs : History(refs'[q]) \subseteq objects
    BY <1>5, <2>1 DEF Stored
  <2> QED
    BY <1>3, <1>5, <2>2 DEF Stored, ObjectsClosed, History
<1>6. History(task[m].oid) \subseteq objects /\ task[m].branch \in Names
  BY <1>1 DEF Stored, TaskOK, Task
<1>7. CASE BeginMerge(m)
  <2>1. PICK n \in Names :
          task' = [task EXCEPT ![m] = [NoTask EXCEPT !.phase = "target", !.branch = head,
                                                     !.target = n, !.reread = TRUE]]
    BY <1>7 DEF BeginMerge
  <2>2. [NoTask EXCEPT !.phase = "target", !.branch = head, !.target = n, !.reread = TRUE].oid
          = NoTask.oid
    BY DEF NoTask
  <2>3. \A s \in Maintainers : History(task'[s].oid) \subseteq objects
    BY <1>2, <2>1, <2>2, NothingStored
  <2> QED
    BY <1>4, <1>7, <2>3 DEF BeginMerge
<1>8. CASE ReadTarget(m)
  <2> DEFINE t == [task[m] EXCEPT !.oid = Resolve(task[m].target), !.phase = "ours"]
  <2>1. task' = [task EXCEPT ![m].oid = Resolve(task[m].target), ![m].phase = "ours"]
        => task' = [task EXCEPT ![m] = t]
    BY <1>1
  <2>2. t.oid = Resolve(task[m].target) /\ task[m].target \in Names
    BY <1>1 DEF TaskOK, Task
  <2>3. History(t.oid) \subseteq objects
    BY <2>2, ResolveStored
  <2>4. \A s \in Maintainers : History(task'[s].oid) \subseteq objects
    BY <1>2, <1>3, <1>8, <2>1, <2>3 DEF ReadTarget
  <2> QED
    BY <1>4, <1>8, <2>4 DEF ReadTarget
<1>9. CASE BeginForkSync(m)
  <2>1. PICK b \in Names, h \in Names :
          task' = [task EXCEPT ![m] = [NoTask EXCEPT !.phase = "ours", !.branch = b,
                                                     !.oid = refs[<<"hidden", h>>]]]
    BY <1>9 DEF BeginForkSync
  <2>2. [NoTask EXCEPT !.phase = "ours", !.branch = b, !.oid = refs[<<"hidden", h>>]].oid
          = refs[<<"hidden", h>>]
    BY DEF NoTask
  <2>3. History(refs[<<"hidden", h>>]) \subseteq objects
    BY DEF Stored, Refs, Kinds
  <2>4. \A s \in Maintainers : History(task'[s].oid) \subseteq objects
    BY <1>2, <2>1, <2>2, <2>3
  <2> QED
    BY <1>4, <1>9, <2>4 DEF BeginForkSync
<1>10. CASE ReadOurs(m)
  <2> DEFINE t == [task[m] EXCEPT !.ours = Resolve(task[m].branch), !.phase = "theirs"]
  <2>1. task' = [task EXCEPT ![m].ours = Resolve(task[m].branch), ![m].phase = "theirs"]
        => task' = [task EXCEPT ![m] = t]
    BY <1>1
  <2>2. t.oid = task[m].oid
    BY <1>1 DEF TaskOK, Task
  <2>3. \A s \in Maintainers : History(task'[s].oid) \subseteq objects
    BY <1>2, <1>3, <1>6, <1>10, <2>1, <2>2 DEF ReadOurs
  <2> QED
    BY <1>4, <1>10, <2>3 DEF ReadOurs
<1>11. CASE ReadTheirs(m)
  <2> DEFINE theirs == IF task[m].reread THEN Resolve(task[m].target) ELSE task[m].oid
  <2>1. ASSUME NEW base, task' = [task EXCEPT ![m] = [task[m] EXCEPT !.theirs = theirs,
                                    !.base = base, !.phase = "compare"]]
        PROVE  \A s \in Maintainers : History(task'[s].oid) \subseteq objects
    <3>1. [task[m] EXCEPT !.theirs = theirs, !.base = base, !.phase = "compare"].oid = task[m].oid
      BY <1>1 DEF TaskOK, Task
    <3> QED
      BY <1>2, <1>6, <2>1, <3>1
  <2>2. \A s \in Maintainers : History(task'[s].oid) \subseteq objects
    <3>1. CASE theirs = Absent
      BY <1>3, <1>11, <3>1 DEF ReadTheirs
    <3>2. CASE theirs # Absent
      <4>1. PICK base :
              task' = [task EXCEPT ![m] = [task[m] EXCEPT !.theirs = theirs, !.base = base,
                                                          !.phase = "compare"]]
        BY <1>11, <3>2 DEF ReadTheirs
      <4> QED
        BY <2>1, <4>1
    <3> QED
      BY <3>1, <3>2
  <2> QED
    BY <1>4, <1>11, <2>2 DEF ReadTheirs
<1>12. CASE Compare(m)
  <2> DEFINE t == [task[m] EXCEPT !.again = Resolve(task[m].branch), !.phase = "ff"]
  <2>1. t.oid = task[m].oid
    BY <1>1 DEF TaskOK, Task
  <2>2. task' = [task EXCEPT ![m] = t] \/ Finish(m)
    BY <1>12 DEF Compare
  <2>3. \A s \in Maintainers : History(task'[s].oid) \subseteq objects
    BY <1>2, <1>3, <1>6, <2>1, <2>2
  <2> QED
    BY <1>4, <1>12, <2>3 DEF Compare
<1>13. CASE FastForward(m)
  <2>1. <<"heads", task[m].branch>> \in Refs
    BY <1>6 DEF Refs, Kinds
  <2> QED
    BY <1>5, <1>6, <1>13, <2>1 DEF FastForward
<1>14. CASE BeginDelete(m)
  <2>1. PICK b \in Names :
          task' = [task EXCEPT ![m] = [NoTask EXCEPT !.phase = "delete", !.branch = b,
                                                     !.target = head]]
    BY <1>14 DEF BeginDelete
  <2>2. [NoTask EXCEPT !.phase = "delete", !.branch = b, !.target = head].oid = NoTask.oid
    BY DEF NoTask
  <2>3. \A s \in Maintainers : History(task'[s].oid) \subseteq objects
    BY <1>2, <2>1, <2>2, NothingStored
  <2> QED
    BY <1>4, <1>14, <2>3 DEF BeginDelete
<1>15. CASE DeleteBranch(m)
  <2>1. <<"heads", task[m].branch>> \in Refs
    BY <1>6 DEF Refs, Kinds
  <2>2. History(Absent) \subseteq objects
    BY DEF History
  <2> QED
    BY <1>5, <1>15, <2>1, <2>2 DEF DeleteBranch
<1>16. CASE BeginHide(m)
  <2>1. PICK n \in Names, h \in Names :
          task' = [task EXCEPT ![m] = [NoTask EXCEPT !.phase = "hide", !.branch = h,
                                                     !.oid = Resolve(n)]]
    BY <1>16 DEF BeginHide
  <2>2. [NoTask EXCEPT !.phase = "hide", !.branch = h, !.oid = Resolve(n)].oid = Resolve(n)
    BY DEF NoTask
  <2>3. \A s \in Maintainers : History(task'[s].oid) \subseteq objects
    BY <1>2, <2>1, <2>2, ResolveStored
  <2> QED
    BY <1>4, <1>16, <2>3 DEF BeginHide
<1>17. CASE SetHiddenRef(m)
  <2>1. <<"hidden", task[m].branch>> \in Refs
    BY <1>6 DEF Refs, Kinds
  <2> QED
    BY <1>5, <1>6, <1>17, <2>1 DEF SetHiddenRef
<1>18. CASE SetDefaultBranch(m)
  BY <1>18 DEF SetDefaultBranch, Stored, ObjectsClosed, History
<1>19. CASE EditFails(m)
  BY <1>3, <1>4, <1>19 DEF EditFails
<1> QED
  BY <1>7, <1>8, <1>9, <1>10, <1>11, <1>12, <1>13, <1>14, <1>15, <1>16, <1>17, <1>18, <1>19
     DEF OwnerStep

LEMMA StoredStep == WellFormed /\ Stored /\ [Next]_vars => Stored'
<1> SUFFICES ASSUME WellFormed, Stored, [Next]_vars PROVE Stored'
  OBVIOUS
<1>1. CASE Crash
  <2>1. \A p \in Pushers : push'[p].phase # "unpack"
    BY <1>1 DEF Crash, NoPush
  <2>2. \A m \in Maintainers : History(task'[m].oid) \subseteq objects
    BY <1>1, NothingStored DEF Crash
  <2> QED
    BY <1>1, <2>1, <2>2 DEF Stored, Crash, ObjectsClosed, History
<1>2. CASE UNCHANGED vars
  BY <1>2 DEF Stored, vars, ObjectsClosed, History
<1> QED
  BY <1>1, <1>2, PushStepStored, OwnerStepStored DEF Next

(* Every ref points at a commit whose whole history is in the object database,
   although receive_pack looks up only the new tip: packs that fail or never
   came, refused commands, merges, fork syncs and crashes in any order. *)
THEOREM RefsBackedByHistory == Spec => []HistoryIsStored
<1>1. Stored => HistoryIsStored
  BY DEF Stored, HistoryIsStored
<1> QED
  BY <1>1, AlwaysWellFormed, StoredInit, StoredStep, PTL DEF Spec

(* A step that loses no object and moves at most one ref is a change of the store. *)
LEMMA StoreChanges ==
    ASSUME WellFormed, WellFormed', Stored', objects \subseteq objects',
           \/ refs' = refs
           \/ \E r \in Refs, v \in Values : refs' = [refs EXCEPT ![r] = v]
    PROVE  Store!Change
<1>1. objects' \in SUBSET Commits
  BY DEF WellFormed
<1>2. objects' = objects \cup Store!Wholes(objects')
  <2>1. \A c \in objects' : c \in Anc[c] /\ Anc[c] \subseteq objects'
    BY <1>1, RefsAssumption DEF Stored, ObjectsClosed
  <2>2. Store!Wholes(objects') = objects'
    BY <2>1 DEF Store!Wholes
  <2> QED
    BY <2>2
<1>3. ASSUME NEW r \in Refs, NEW v \in Values, refs' = [refs EXCEPT ![r] = v]
      PROVE  Store!Move
  <2>1. refs'[r] = v
    BY <1>3 DEF WellFormed
  <2>2. v # Absent => Anc[v] \subseteq objects'
    BY <2>1 DEF Stored, History
  <2> QED
    BY <1>3, <2>2 DEF Store!Move, Values
<1> QED
  BY <1>1, <1>2, <1>3 DEF Store!Change

(* To its readers a repository is a store, whatever pushes and owner requests are
   under way, fail or are cut off: objects stay and come with their history, and refs
   move one at a time, to what is stored in full. *)
THEOREM RefsImplementStore == Spec => ImplementsStore
<1>1. Init => Store!Init
  <2> SUFFICES ASSUME Init PROVE Store!Init
    OBVIOUS
  <2>1. refs \in [Refs -> Values]
    BY RefsAssumption DEF Init
  <2>2. \A r \in Refs : History(refs[r]) = IF refs[r] \in Store!Named THEN Anc[refs[r]] ELSE {}
    BY DEF History, Store!Named
  <2>3. UNION {History(refs[r]) : r \in Refs} = Store!Wholes(Store!Named)
    BY <2>2 DEF Store!Wholes, Store!Named
  <2> QED
    BY <2>1, <2>3 DEF Init, Store!Init, Values
<1>2. WellFormed /\ WellFormed' /\ Stored' /\ [Next]_vars => [Store!Change]_(Store!vars)
  <2> SUFFICES ASSUME WellFormed, WellFormed', Stored', [Next]_vars
               PROVE  Store!Change \/ UNCHANGED <<refs, objects>>
    BY DEF Store!vars
  <2>1. CASE Crash \/ UNCHANGED vars
    BY <2>1 DEF Crash, vars
  <2>2. ASSUME NEW p \in Pushers, PushStep(p)
        PROVE  Store!Change \/ UNCHANGED <<refs, objects>>
    <3>1. CASE Unpack(p) \/ UnpackFails(p)
      BY <3>1, StoreChanges DEF Unpack, UnpackFails
    <3>2. CASE EditRef(p)
      <4>1. Head(push[p].cmds) \in Command /\ Accepted(Head(push[p].cmds))
        BY <3>2 DEF WellFormed, PushOK, Push, EditRef
      <4>2. \E r \in Refs, v \in Values : refs' = [refs EXCEPT ![r] = v]
        BY <3>2, <4>1 DEF EditRef, Command, Accepted
      <4> QED
        BY <3>2, <4>2, StoreChanges DEF EditRef
    <3>3. CASE \/ SendPush(p) \/ RefuseCommand(p) \/ AbortPush(p)
               \/ Announce(p) \/ LoseEvent(p) \/ AnnouncementLost(p)
      BY <3>3 DEF SendPush, RefuseCommand, AbortPush, Announce, LoseEvent, AnnouncementLost
    <3> QED
      BY <2>2, <3>1, <3>2, <3>3 DEF PushStep
  <2>3. ASSUME NEW m \in Maintainers, OwnerStep(m)
        PROVE  Store!Change \/ UNCHANGED <<refs, objects>>
    <3>1. task[m].branch \in Names /\ task[m].oid \in Values /\ Absent \in Values
      BY DEF WellFormed, Task, Values
    <3>2. CASE FastForward(m) \/ DeleteBranch(m) \/ SetHiddenRef(m)
      <4>1. \E r \in Refs, v \in Values : refs' = [refs EXCEPT ![r] = v]
        BY <3>1, <3>2 DEF FastForward, DeleteBranch, SetHiddenRef, Refs, Kinds
      <4>2. objects' = objects
        BY <3>2 DEF FastForward, DeleteBranch, SetHiddenRef
      <4> QED
        BY <4>1, <4>2, StoreChanges
    <3>3. CASE ~(FastForward(m) \/ DeleteBranch(m) \/ SetHiddenRef(m))
      BY <2>3, <3>3
      DEF OwnerStep, BeginMerge, ReadTarget, BeginForkSync, ReadOurs, ReadTheirs, Compare,
          BeginDelete, BeginHide, SetDefaultBranch, EditFails
    <3> QED
      BY <3>2, <3>3
  <2> QED
    BY <2>1, <2>2, <2>3 DEF Next
<1>3. WellFormed /\ Stored /\ [Next]_vars => Stored'
  BY StoredStep
<1> QED
  BY <1>1, <1>2, <1>3, StoredInit, AlwaysWellFormed, PTL DEF Spec, ImplementsStore, Store!Spec

-----------------------------------------------------------------------------
(* What is_ancestor found still holds of the commits it read: a fast-forward
   whose reads are not stale goes from a commit to one that descends from it. *)
LEMMA FreshFastForward ==
    ASSUME WellFormed, NEW m \in Maintainers, FastForward(m), ~ReadsAreStale(m)
    PROVE  History(refs[<<"heads", task[m].branch>>])
             \subseteq History(refs'[<<"heads", task[m].branch>>])
<1> DEFINE t == task[m]
           r == <<"heads", task[m].branch>>
<1>1. TaskOK(t) /\ t.phase = "ff" /\ t.branch \in Names
  BY DEF WellFormed, FastForward, TaskOK, Task
<1>2. /\ t.ours \in Commits /\ t.theirs \in Commits /\ t.oid # Absent
      /\ t.base \in MergeBases(t.ours, t.theirs)
      /\ t.base # Absent /\ t.base = t.again
  BY <1>1 DEF TaskOK, Task, Values, IsAncestor
<1>3. t.base \in Anc[t.theirs]
  BY <1>2, MergeBasesMeet
<1>4. Anc[t.base] \subseteq Anc[t.theirs]
  BY <1>2, <1>3, RefsAssumption
<1>5. t.ours = refs[r] /\ t.again = t.ours /\ t.theirs = t.oid
  BY DEF ReadsAreStale
<1>6. refs'[r] = t.oid
  BY <1>1 DEF FastForward, WellFormed, Refs, Kinds
<1>7. History(refs[r]) = Anc[t.base] /\ History(refs'[r]) = Anc[t.theirs]
  BY <1>2, <1>5, <1>6 DEF History
<1> QED
  BY <1>4, <1>7

(* Nothing drops commits of a branch but a push that named the value it replaces,
   deleteBranch, and a fast-forward whose reads are stale. *)
THEOREM OnlyStaleReadsLoseCommits == Spec => CommitsLostOnlyToStaleReads
<1> DEFINE Kept(b) == History(refs[<<"heads", b>>]) \subseteq History(refs'[<<"heads", b>>])
           Replaced(b) == \E p \in Pushers :
                            /\ EditRef(p)
                            /\ Head(push[p].cmds).ref = <<"heads", b>>
                            /\ Head(push[p].cmds).old = refs[<<"heads", b>>]
           Dropped(b) == \E m \in Maintainers :
                            /\ task[m].branch = b
                            /\ \/ DeleteBranch(m)
                               \/ FastForward(m) /\ ReadsAreStale(m)
<1>1. ASSUME WellFormed, [Next]_vars, NEW b \in Names
      PROVE  Kept(b) \/ Replaced(b) \/ Dropped(b)
  <2> DEFINE r == <<"heads", b>>
  <2>1. r \in Refs /\ refs \in [Refs -> Values]
    BY <1>1 DEF WellFormed, Refs, Kinds
  <2>2. refs'[r] = refs[r] => Kept(b)
    OBVIOUS
  <2>3. ASSUME NEW p \in Pushers, EditRef(p) PROVE Kept(b) \/ Replaced(b)
    <3> DEFINE c == Head(push[p].cmds)
    <3>1. refs' = [refs EXCEPT ![c.ref] = c.new] /\ Matches(c.ref, c.old)
      BY <2>3 DEF EditRef, Accepted
    <3>2. CASE c.ref # r
      BY <2>1, <2>2, <3>1, <3>2
    <3>3. CASE c.ref = r /\ refs[r] = Absent
      BY <3>3 DEF History
    <3>4. CASE c.ref = r /\ refs[r] = c.old
      BY <2>3, <3>4
    <3> QED
      BY <3>1, <3>2, <3>3, <3>4 DEF Matches
  <2>4. ASSUME NEW p \in Pushers, PushStep(p), ~EditRef(p) PROVE refs' = refs
    BY <2>4 DEF PushStep, SendPush, Unpack, UnpackFails, RefuseCommand, AbortPush, Announce,
                LoseEvent, AnnouncementLost
  <2>5. ASSUME NEW m \in Maintainers, FastForward(m) PROVE Kept(b) \/ Dropped(b)
    <3>1. CASE task[m].branch # b
      <4>1. refs'[r] = refs[r]
        BY <2>1, <2>5, <3>1 DEF FastForward
      <4> QED
        BY <2>2, <4>1
    <3>2. CASE task[m].branch = b /\ ReadsAreStale(m)
      BY <2>5, <3>2
    <3>3. CASE task[m].branch = b /\ ~ReadsAreStale(m)
      BY <1>1, <2>5, <3>3, FreshFastForward
    <3> QED
      BY <3>1, <3>2, <3>3
  <2>6. ASSUME NEW m \in Maintainers, DeleteBranch(m) PROVE Kept(b) \/ Dropped(b)
    <3>1. CASE task[m].branch # b
      <4>1. refs'[r] = refs[r]
        BY <2>1, <2>6, <3>1 DEF DeleteBranch
      <4> QED
        BY <2>2, <4>1
    <3>2. CASE task[m].branch = b
      BY <2>6, <3>2
    <3> QED
      BY <3>1, <3>2
  <2>7. ASSUME NEW m \in Maintainers, SetHiddenRef(m) PROVE refs'[r] = refs[r]
    BY <2>1, <2>7 DEF SetHiddenRef
  <2>8. ASSUME NEW m \in Maintainers, OwnerStep(m), ~FastForward(m), ~DeleteBranch(m),
               ~SetHiddenRef(m)
        PROVE  refs' = refs
    BY <2>8 DEF OwnerStep, BeginMerge, ReadTarget, BeginForkSync, ReadOurs, ReadTheirs, Compare,
                BeginDelete, BeginHide, SetDefaultBranch, EditFails
  <2>9. CASE Crash \/ UNCHANGED vars
    BY <2>9 DEF Crash, vars
  <2> HIDE DEF Kept, Replaced, Dropped
  <2> QED
    BY <1>1, <2>2, <2>3, <2>4, <2>5, <2>6, <2>7, <2>8, <2>9 DEF Next
<1>2. WellFormed /\ [Next]_vars =>
        [\A b \in Names :
           \/ History(refs[<<"heads", b>>]) \subseteq History(refs'[<<"heads", b>>])
           \/ \E p \in Pushers :
                /\ EditRef(p)
                /\ Head(push[p].cmds).ref = <<"heads", b>>
                /\ Head(push[p].cmds).old = refs[<<"heads", b>>]
           \/ \E m \in Maintainers :
                /\ task[m].branch = b
                /\ \/ DeleteBranch(m)
                   \/ FastForward(m) /\ ReadsAreStale(m)]_vars
  BY <1>1
<1> QED
  BY <1>2, AlwaysWellFormed, PTL DEF Spec, CommitsLostOnlyToStaleReads

(* The default branch is deleted by a push that named its value, or because HEAD
   moved to it after deleteBranch had looked. *)
THEOREM DefaultOutlastsDeleteBranch == Spec => DefaultDeletedOnlyByStaleCheck
<1> DEFINE default == <<"heads", head>>
           Pushed == \E p \in Pushers :
                        /\ EditRef(p)
                        /\ Head(push[p].cmds).ref = default
                        /\ Head(push[p].cmds).old = refs[default]
           Raced == \E m \in Maintainers :
                        DeleteBranch(m) /\ task[m].branch = head /\ task[m].target # head
<1>1. ASSUME WellFormed, [Next]_vars, refs[default] # Absent, refs'[default] = Absent
      PROVE  Pushed \/ Raced
  <2>1. default \in Refs /\ refs \in [Refs -> Values]
    BY <1>1 DEF WellFormed, Refs, Kinds
  <2>2. refs' # refs
    BY <1>1
  <2>3. ASSUME NEW p \in Pushers, EditRef(p) PROVE Pushed
    <3> DEFINE c == Head(push[p].cmds)
    <3>1. refs' = [refs EXCEPT ![c.ref] = c.new] /\ Matches(c.ref, c.old)
      BY <2>3 DEF EditRef, Accepted
    <3>2. c.ref = default
      BY <1>1, <2>1, <3>1
    <3> QED
      BY <1>1, <2>3, <3>1, <3>2 DEF Matches
  <2>4. ASSUME NEW p \in Pushers, PushStep(p), ~EditRef(p) PROVE FALSE
    BY <2>2, <2>4 DEF PushStep, SendPush, Unpack, UnpackFails, RefuseCommand, AbortPush, Announce,
                      LoseEvent, AnnouncementLost
  <2>5. ASSUME NEW m \in Maintainers, OwnerStep(m) PROVE Raced
    <3>1. TaskOK(task[m]) /\ task[m].branch \in Names
      BY <1>1 DEF WellFormed, TaskOK, Task
    <3>2. CASE DeleteBranch(m)
      <4>1. task[m].phase = "delete"
            /\ refs' = [refs EXCEPT ![<<"heads", task[m].branch>>] = Absent]
        BY <3>2 DEF DeleteBranch
      <4>2. task[m].branch = head
        BY <1>1, <2>1, <4>1
      <4>3. task[m].target # head
        BY <3>1, <4>1, <4>2 DEF TaskOK
      <4> QED
        BY <3>2, <4>2, <4>3
    <3>3. CASE FastForward(m)
      <4>1. refs' = [refs EXCEPT ![<<"heads", task[m].branch>>] = task[m].oid]
            /\ task[m].oid # Absent
        BY <3>1, <3>3 DEF FastForward, TaskOK
      <4> QED
        BY <1>1, <2>1, <4>1
    <3>4. CASE SetHiddenRef(m)
      <4>1. refs' = [refs EXCEPT ![<<"hidden", task[m].branch>>] = task[m].oid]
        BY <3>4 DEF SetHiddenRef
      <4>2. default # <<"hidden", task[m].branch>>
        OBVIOUS
      <4> QED
        BY <1>1, <2>1, <4>1, <4>2
    <3> QED
      BY <2>2, <2>5, <3>2, <3>3, <3>4
      DEF OwnerStep, BeginMerge, ReadTarget, BeginForkSync, ReadOurs, ReadTheirs, Compare,
          BeginDelete, BeginHide, SetDefaultBranch, EditFails
  <2>6. ~Crash /\ ~UNCHANGED vars
    BY <2>2 DEF Crash, vars
  <2> QED
    BY <1>1, <2>3, <2>4, <2>5, <2>6 DEF Next
<1>2. WellFormed /\ [Next]_vars
        => [LET d == <<"heads", head>> IN
            refs[d] # Absent /\ refs'[d] = Absent =>
              \/ \E p \in Pushers :
                   /\ EditRef(p)
                   /\ Head(push[p].cmds).ref = d
                   /\ Head(push[p].cmds).old = refs[d]
              \/ \E m \in Maintainers : DeleteBranch(m) /\ task[m].branch = head
                                                       /\ task[m].target # head]_vars
  BY <1>1
<1> QED
  BY <1>2, AlwaysWellFormed, PTL DEF Spec, DefaultDeletedOnlyByStaleCheck

-----------------------------------------------------------------------------
(* How the steps of a push show in the journal. *)
Changes == [p \in Pushers |-> push[p].changes]
Told == {ev.change : ev \in announced}
Lost == {ev.change : ev \in lost}

Dooms(cmds) == \E i \in 1 .. Len(cmds) : Aborts(cmds[i])

Doomed == {p \in Pushers : Dooms(push[p].cmds)}

(* What the journal sees of a state. *)
Shown == <<refs, Changes, Told, Lost, Doomed, faults>>

(* A connection that does not push owes no event, and no command is left once a
   push is being announced. *)
Quiet(q) == /\ q.phase = "idle" => q.changes = <<>>
            /\ q.phase \in {"idle", "emit"} => q.cmds = <<>>

Rested == \A p \in Pushers : Quiet(push[p])

LEMMA HeadPassed ==
    ASSUME NEW cmds \in Seq(Command), cmds # <<>>, ~Aborts(Head(cmds))
    PROVE  Dooms(Tail(cmds)) <=> Dooms(cmds)
<1>1. /\ Len(cmds) \in Nat \ {0} /\ Head(cmds) = cmds[1]
      /\ Len(Tail(cmds)) = Len(cmds) - 1
      /\ \A i \in 1 .. Len(cmds) - 1 : Tail(cmds)[i] = cmds[i + 1]
  OBVIOUS
<1>2. ASSUME Dooms(Tail(cmds)) PROVE Dooms(cmds)
  <2>1. PICK i \in 1 .. Len(cmds) - 1 : Aborts(cmds[i + 1])
    BY <1>1, <1>2 DEF Dooms
  <2>2. i + 1 \in 1 .. Len(cmds)
    BY <1>1
  <2> QED
    BY <2>1, <2>2 DEF Dooms
<1>3. ASSUME Dooms(cmds) PROVE Dooms(Tail(cmds))
  <2>1. PICK i \in 1 .. Len(cmds) : Aborts(cmds[i])
    BY <1>3 DEF Dooms
  <2>2. i # 1
    BY <1>1, <2>1
  <2>3. i - 1 \in 1 .. Len(cmds) - 1 /\ Tail(cmds)[i - 1] = cmds[i]
    BY <1>1, <2>2
  <2> QED
    BY <1>1, <2>1, <2>3 DEF Dooms
<1> QED
  BY <1>2, <1>3 DEF Dooms

LEMMA AfterCommandLeaves ==
    ASSUME NEW q \in Push, q.cmds # <<>>, NEW made
    PROVE  AfterCommand(q, made).cmds = Tail(q.cmds)
<1>1. CASE Tail(q.cmds) # <<>>
  BY <1>1 DEF AfterCommand, Push
<1>2. CASE Tail(q.cmds) = <<>>
  BY <1>2 DEF AfterCommand, Push, NoPush
<1> QED
  BY <1>1, <1>2

LEMMA AlwaysRested == Spec => []Rested
<1>1. Init => Rested
  BY DEF Init, Rested, Quiet, NoPush
<1>2. WellFormed /\ Rested /\ [Next]_vars => Rested'
  <2> SUFFICES ASSUME WellFormed, Rested, [Next]_vars PROVE Rested'
    OBVIOUS
  <2>0. ASSUME NEW p \in Pushers, NEW q, push' = [push EXCEPT ![p] = q],
               Quiet(q)
        PROVE  Rested'
    <3>1. \A s \in Pushers : push'[s] = IF s = p THEN q ELSE push[s]
      BY <2>0 DEF WellFormed
    <3> QED
      BY <2>0, <3>1 DEF Rested
  <2>1. CASE Crash \/ UNCHANGED vars
    BY <2>1 DEF Crash, vars, Rested, Quiet, NoPush
  <2>2. ASSUME NEW m \in Maintainers, OwnerStep(m) PROVE Rested'
    <3>1. UNCHANGED push
      BY <2>2 DEF OwnerStep, BeginMerge, ReadTarget, BeginForkSync, ReadOurs, ReadTheirs, Compare,
                  FastForward, BeginDelete, DeleteBranch, BeginHide, SetHiddenRef, SetDefaultBranch,
                  EditFails
    <3> QED
      BY <3>1 DEF Rested
  <2>3. ASSUME NEW p \in Pushers, PushStep(p) PROVE Rested'
    <3>q. push[p] \in Push /\ PushOK(push[p])
      BY DEF WellFormed, PushOK
    <3>n. Quiet(NoPush)
      BY DEF Quiet, NoPush
    <3>1. CASE SendPush(p)
      <4>1. PICK k, cmds, sent :
              push' = [push EXCEPT ![p] = [phase |-> "unpack", id |-> k, cmds |-> cmds,
                                           pack |-> sent, changes |-> <<>>]]
        BY <3>1, SendPushSends
      <4> QED
        BY <2>0, <4>1 DEF Quiet
    <3>2. CASE Unpack(p)
      <4>1. [push[p] EXCEPT !.phase = "edit"].phase = "edit"
        BY <3>q DEF Push
      <4> QED
        BY <2>0, <3>2, <4>1 DEF Unpack, Quiet
    <3>3. CASE UnpackFails(p) \/ AbortPush(p) \/ AnnouncementLost(p)
      BY <2>0, <3>3, <3>n DEF UnpackFails, AbortPush, AnnouncementLost
    <3>4. CASE EditRef(p) \/ RefuseCommand(p)
      <4>1. PICK made : push' = [push EXCEPT ![p] = AfterCommand(push[p], made)] /\ push[p].phase = "edit"
        BY <3>4 DEF EditRef, RefuseCommand
      <4>2. Quiet(AfterCommand(push[p], made))
        BY <3>q, <3>n, <4>1 DEF AfterCommand, Push, Quiet
      <4> QED
        BY <2>0, <4>1, <4>2
    <3>5. CASE Announce(p) \/ LoseEvent(p)
      <4> DEFINE q == [push[p] EXCEPT !.changes = Tail(push[p].changes)]
      <4>1. q.phase = "emit" /\ q.cmds = push[p].cmds /\ push[p].cmds = <<>>
        BY <3>5, <3>q DEF Announce, LoseEvent, Push, Rested, Quiet
      <4>2. Quiet(AfterChange(push[p]))
        BY <3>n, <4>1 DEF Quiet, AfterChange
      <4>3. push' = [push EXCEPT ![p] = AfterChange(push[p])]
        BY <3>5 DEF Announce, LoseEvent
      <4> QED
        BY <2>0, <4>2, <4>3
    <3> QED
      BY <2>3, <3>1, <3>2, <3>3, <3>4, <3>5 DEF PushStep
  <2> QED
    BY <2>1, <2>2, <2>3 DEF Next
<1> QED
  BY <1>1, <1>2, AlwaysWellFormed, PTL DEF Spec

LEMMA QueuesOfOne ==
    ASSUME WellFormed, NEW p \in Pushers, NEW q, push' = [push EXCEPT ![p] = q]
    PROVE  /\ Changes' = [Changes EXCEPT ![p] = q.changes]
           /\ Doomed' = IF Dooms(q.cmds) THEN Doomed \cup {p} ELSE Doomed \ {p}
<1>1. push \in [Pushers -> Push]
  BY DEF WellFormed
<1>2. push' = [s \in Pushers |-> IF s = p THEN q ELSE push[s]]
  BY <1>1
<1>3. Changes' = [s \in Pushers |-> IF s = p THEN q.changes ELSE push[s].changes]
  BY <1>2 DEF Changes
<1>4. Doomed' = {s \in Pushers : IF s = p THEN Dooms(q.cmds) ELSE Dooms(push[s].cmds)}
  BY <1>2 DEF Doomed
<1> QED
  BY <1>3, <1>4 DEF Changes, Doomed

LEMMA ForgottenByOne ==
    ASSUME WellFormed, NEW p \in Pushers, push' = [push EXCEPT ![p] = NoPush]
    PROVE  /\ Changes' = [Changes EXCEPT ![p] = <<>>]
           /\ Doomed' = Doomed \ {p}
<1>1. NoPush.changes = <<>> /\ NoPush.cmds = <<>>
  BY DEF NoPush
<1>2. ~Dooms(<<>>)
  BY DEF Dooms
<1> QED
  BY <1>1, <1>2, QueuesOfOne

LEMMA FailureOfOne ==
    ASSUME WellFormed, NEW p \in Pushers, push' = [push EXCEPT ![p] = NoPush], Fault,
           UNCHANGED <<refs, announced, lost>>
    PROVE  Journal!Fail
<1>1. Changes' = [s \in Pushers |-> IF s \in {p} THEN <<>> ELSE Changes[s]]
  BY ForgottenByOne DEF Changes
<1>2. Doomed' = Doomed \ {p}
  BY ForgottenByOne
<1> QED
  BY <1>1, <1>2 DEF Journal!Fail, Changes, Doomed, Dooms, Fault

LEMMA ToldOfOne == ASSUME NEW ev, announced' = announced \cup {ev}
                   PROVE  Told' = Told \cup {ev.change}
BY DEF Told

LEMMA LostOfOne == ASSUME NEW ev, lost' = lost \cup {ev}
                   PROVE  Lost' = Lost \cup {ev.change}
BY DEF Lost

LEMMA PushStepTells ==
    ASSUME WellFormed, Rested, NEW p \in Pushers, PushStep(p)
    PROVE  Journal!Next \/ UNCHANGED Shown
<1>q. PushOK(push[p]) /\ push[p] \in Push /\ refs \in [Refs -> Values] /\ Quiet(push[p])
  BY DEF WellFormed, PushOK, Rested
<1>c. push[p].changes \in Seq(Change) /\ push[p].cmds \in Seq(Command)
  BY <1>q DEF Push
<1>v. Changes[p] = push[p].changes /\ (p \in Doomed <=> Dooms(push[p].cmds))
  BY DEF Changes, Doomed
<1>1. CASE SendPush(p)
  <2>1. push[p].changes = <<>> /\ push[p].cmds = <<>>
    BY <1>1, <1>q DEF SendPush, Quiet
  <2>2. PICK k, cmds, sent :
          push' = [push EXCEPT ![p] = [phase |-> "unpack", id |-> k, cmds |-> cmds,
                                       pack |-> sent, changes |-> <<>>]]
    BY <1>1, SendPushSends
  <2> DEFINE q == [phase |-> "unpack", id |-> k, cmds |-> cmds, pack |-> sent, changes |-> <<>>]
  <2>3. q.changes = <<>> /\ q.cmds = cmds /\ push' = [push EXCEPT ![p] = q]
    BY <2>2
  <2> HIDE DEF q
  <2>6. p \notin Doomed
    BY <1>v, <2>1 DEF Dooms
  <2>4. Changes' = [Changes EXCEPT ![p] = <<>>] /\ Doomed' \in {Doomed, Doomed \cup {p}}
    BY <2>3, <2>6, QueuesOfOne
  <2>5. Changes' = Changes
    BY <1>v, <2>1, <2>4 DEF Changes
  <2>7. UNCHANGED <<refs, Told, Lost, faults>>
    BY <1>1 DEF SendPush, Told, Lost
  <2>8. Journal!Begin(p)
    BY <1>v, <2>1, <2>4, <2>5, <2>6, <2>7 DEF Journal!Begin, Changes, Doomed, Dooms, Told, Lost
  <2> QED
    BY <2>8 DEF Journal!Next
<1>2. CASE Unpack(p)
  <2> DEFINE q == [push[p] EXCEPT !.phase = "edit"]
  <2>1. q.changes = push[p].changes /\ q.cmds = push[p].cmds /\ push' = [push EXCEPT ![p] = q]
    BY <1>2, <1>q DEF Push, Unpack
  <2> HIDE DEF q
  <2>2. UNCHANGED <<Changes, Doomed>>
    BY <1>v, <2>1, QueuesOfOne DEF Changes, Doomed
  <2> QED
    BY <1>2, <2>2 DEF Unpack, Shown, Told, Lost
<1>3. CASE UnpackFails(p) \/ AnnouncementLost(p)
  <2>1. Journal!Fail
    BY <1>3, FailureOfOne DEF UnpackFails, AnnouncementLost
  <2> QED
    BY <2>1 DEF Journal!Next
<1>7. CASE AbortPush(p)
  <2>1. push[p].cmds # <<>> /\ Aborts(Head(push[p].cmds))
    BY <1>7, <1>q DEF AbortPush, PushOK
  <2>2. p \in Doomed
    BY <1>c, <1>v, <2>1 DEF Dooms
  <2>3. Changes' = [Changes EXCEPT ![p] = <<>>] /\ Doomed' = Doomed \ {p}
    BY <1>7, ForgottenByOne DEF AbortPush
  <2>4. UNCHANGED <<refs, Told, Lost, faults>>
    BY <1>7 DEF AbortPush, Told, Lost
  <2>5. Journal!Abandon(p)
    BY <2>2, <2>3, <2>4 DEF Journal!Abandon, Changes, Doomed, Dooms, Told, Lost
  <2> QED
    BY <2>5 DEF Journal!Next
<1>4. CASE EditRef(p)
  <2> DEFINE c == Head(push[p].cmds)
  <2>1. /\ c \in Command /\ Accepted(c) /\ push[p].phase = "edit" /\ push[p].cmds # <<>>
        /\ refs' = [refs EXCEPT ![c.ref] = c.new] /\ UNCHANGED <<announced, lost, faults>>
        /\ push' = [push EXCEPT ![p] = AfterCommand(push[p], <<c>>)]
    BY <1>c, <1>q, <1>4 DEF EditRef, PushOK
  <2> HIDE DEF c
  <2>2. c \in Change /\ c.ref \in {r \in Refs : IsPushable(r)} /\ refs[c.ref] \in {c.old, Absent}
    BY <2>1 DEF Command, Change, Accepted, Matches
  <2>3. push[p].changes \o <<c>> # <<>>
    BY <1>c, <2>2
  <2>4. AfterCommand(push[p], <<c>>).changes = push[p].changes \o <<c>>
    BY <1>q, <2>3 DEF AfterCommand, Push
  <2>5. Changes' = [Changes EXCEPT ![p] = Changes[p] \o <<c>>]
    <3> DEFINE q == AfterCommand(push[p], <<c>>)
    <3>1. push' = [push EXCEPT ![p] = q] /\ q.changes = push[p].changes \o <<c>>
      BY <2>1, <2>4
    <3> HIDE DEF q
    <3>2. Changes' = [Changes EXCEPT ![p] = q.changes]
      BY <3>1, QueuesOfOne
    <3> QED
      BY <1>v, <3>1, <3>2
  <2>7. Doomed' = Doomed
    <3> DEFINE q == AfterCommand(push[p], <<c>>)
    <3>1. push' = [push EXCEPT ![p] = q] /\ q.cmds = Tail(push[p].cmds)
      BY <1>q, <2>1, AfterCommandLeaves
    <3> HIDE DEF q
    <3>2. ~Aborts(Head(push[p].cmds))
      BY <2>1 DEF c, Accepted, Aborts
    <3>3. Dooms(q.cmds) <=> p \in Doomed
      BY <1>c, <1>v, <2>1, <3>1, <3>2, HeadPassed
    <3> QED
      BY <3>1, <3>3, QueuesOfOne DEF Doomed
  <2>8. Told' = Told /\ Lost' = Lost
    BY <2>1 DEF Told, Lost
  <2>6. Journal!Push(p)
    BY <2>1, <2>2, <2>5, <2>7, <2>8 DEF Journal!Push, Journal!Change, Change, Changes, Doomed, Dooms, Told, Lost
  <2> QED
    BY <2>6 DEF Journal!Next
<1>5. CASE RefuseCommand(p)
  <2> DEFINE q == AfterCommand(push[p], <<>>)
  <2>1. /\ push' = [push EXCEPT ![p] = q] /\ push[p].cmds # <<>> /\ ~Aborts(Head(push[p].cmds))
        /\ UNCHANGED <<refs, announced, lost, faults>> /\ push[p].phase = "edit"
    BY <1>5, <1>q DEF RefuseCommand, PushOK
  <2>2. push[p].changes \o <<>> = push[p].changes
    BY <1>c
  <2>3. q.changes = push[p].changes
    BY <1>q, <2>2 DEF AfterCommand, Push, NoPush
  <2>4. Dooms(q.cmds) <=> Dooms(push[p].cmds)
    BY <1>c, <1>q, <2>1, AfterCommandLeaves, HeadPassed
  <2> HIDE DEF q
  <2>5. UNCHANGED <<Changes, Doomed>>
    BY <1>v, <2>1, <2>3, <2>4, QueuesOfOne DEF Changes, Doomed
  <2> QED
    BY <2>1, <2>5 DEF Shown, Told, Lost
<1>6. CASE Announce(p) \/ LoseEvent(p)
  <2> DEFINE q == push[p]
             next == AfterChange(q)
             ev == NextEvent(p)
  <2>1. /\ q.changes # <<>> /\ q.cmds = <<>> /\ UNCHANGED <<refs, faults>>
        /\ push' = [push EXCEPT ![p] = next]
    BY <1>q, <1>6 DEF Announce, LoseEvent, PushOK, Quiet
  <2>8. \/ announced' = announced \cup {ev} /\ lost' = lost
        \/ lost' = lost \cup {ev} /\ announced' = announced
    BY <1>6 DEF Announce, LoseEvent
  <2>2. next.changes = Tail(q.changes) /\ next.cmds = <<>>
    <3>1. CASE Tail(q.changes) = <<>>
      BY <3>1 DEF NoPush, AfterChange
    <3>2. CASE Tail(q.changes) # <<>>
      BY <1>q, <2>1, <3>2 DEF Push, AfterChange
    <3> QED
      BY <3>1, <3>2
  <2>3. ev.change = Head(q.changes)
    BY DEF NextEvent
  <2> HIDE DEF next, ev
  <2>4. Changes' = [Changes EXCEPT ![p] = Tail(Changes[p])]
    <3>1. Changes' = [Changes EXCEPT ![p] = next.changes]
      BY <2>1, QueuesOfOne
    <3> QED
      BY <1>v, <2>2, <3>1
  <2>7. p \notin Doomed /\ Doomed' = Doomed
    <3>1. ~Dooms(next.cmds) /\ ~Dooms(q.cmds)
      BY <2>1, <2>2 DEF Dooms
    <3>2. p \notin Doomed
      BY <1>v, <3>1
    <3>3. Doomed' = Doomed \ {p}
      BY <2>1, <3>1, QueuesOfOne
    <3> QED
      BY <3>2, <3>3
  <2>5. \/ Told' = Told \cup {Head(Changes[p])} /\ Lost' = Lost
        \/ Lost' = Lost \cup {Head(Changes[p])} /\ Told' = Told
    <3>1. CASE announced' = announced \cup {ev} /\ lost' = lost
      BY <1>v, <2>3, <3>1, ToldOfOne DEF Lost
    <3>2. CASE lost' = lost \cup {ev} /\ announced' = announced
      BY <1>v, <2>3, <3>2, LostOfOne DEF Told
    <3> QED
      BY <2>8, <3>1, <3>2
  <2>6. Journal!Tell(p)
    BY <1>v, <2>1, <2>4, <2>5, <2>7 DEF Journal!Tell, Changes, Doomed, Dooms, Told, Lost
  <2> QED
    BY <2>6 DEF Journal!Next
<1> QED
  BY <1>1, <1>2, <1>3, <1>4, <1>5, <1>6, <1>7 DEF PushStep

LEMMA OwnerStepTells ==
    ASSUME WellFormed, NEW m \in Maintainers, OwnerStep(m)
    PROVE  Journal!Next \/ UNCHANGED Shown
<1>1. UNCHANGED <<push, announced, lost, faults>>
  BY DEF OwnerStep, BeginMerge, ReadTarget, BeginForkSync, ReadOurs, ReadTheirs, Compare, FastForward,
         BeginDelete, DeleteBranch, BeginHide, SetHiddenRef, SetDefaultBranch, EditFails
<1>2. UNCHANGED <<Changes, Told, Lost, Doomed>>
  BY <1>1 DEF Changes, Told, Lost, Doomed
<1>3. ASSUME NEW kind \in {"heads", "hidden"}, NEW v \in Values,
             refs' = [refs EXCEPT ![<<kind, task[m].branch>>] = v]
      PROVE  Journal!Next
  <2>1. task[m].branch \in Names
    BY DEF WellFormed, Task
  <2>2. <<kind, task[m].branch>> \in {r \in Refs : r[1] \in {"heads", "hidden"}}
    BY <1>3, <2>1 DEF Refs, Kinds
  <2>3. Journal!Edit
    BY <1>1, <1>2, <1>3, <2>2 DEF Journal!Edit, Changes, Told, Lost, Doomed, Dooms
  <2> QED
    BY <2>3 DEF Journal!Next
<1>4. task[m].oid \in Values /\ Absent \in Values
  BY DEF WellFormed, Task, Values
<1>5. CASE FastForward(m) \/ DeleteBranch(m) \/ SetHiddenRef(m)
  BY <1>3, <1>4, <1>5 DEF FastForward, DeleteBranch, SetHiddenRef
<1>6. CASE ~(FastForward(m) \/ DeleteBranch(m) \/ SetHiddenRef(m))
  <2>1. refs' = refs
    BY <1>6 DEF OwnerStep, BeginMerge, ReadTarget, BeginForkSync, ReadOurs, ReadTheirs, Compare,
                BeginDelete, BeginHide, SetDefaultBranch, EditFails
  <2> QED
    BY <1>1, <1>2, <2>1 DEF Shown
<1> QED
  BY <1>5, <1>6

(* Every behaviour of the refs is one of the journal: what events tell of was done,
   and in that order, whatever is refused, aborted, lost or cut off.  An event that
   emit() cannot store is the only one of its push that is lost; else a change leaves
   the queue of its push untold only with all that is left there, when the push asks for
   something receive_pack cannot parse, or in a step that counts as a failure. *)
THEOREM RefsImplementJournal == Spec => ImplementsJournal
<1>1. Init => Journal!Init
  <2> SUFFICES ASSUME Init PROVE Journal!Init
    OBVIOUS
  <2>1. Changes = [p \in Pushers |-> <<>>] /\ Doomed = {}
    BY DEF Init, NoPush, Changes, Doomed, Dooms
  <2>2. Told = {} /\ Lost = {}
    BY DEF Init, Told, Lost
  <2>3. refs \in [Refs -> Values] /\ faults = 0
    BY RefsAssumption DEF Init
  <2> QED
    BY <2>1, <2>2, <2>3 DEF Journal!Init, Changes, Doomed, Dooms, Told, Lost
<1>2. WellFormed /\ Rested /\ [Next]_vars => [Journal!Next]_(Journal!vars)
  <2> SUFFICES ASSUME WellFormed, Rested, [Next]_vars
               PROVE  Journal!Next \/ UNCHANGED Shown
    BY DEF Journal!vars, Shown, Changes, Doomed, Dooms, Told, Lost
  <2>1. CASE Crash
    <3>1. Changes' = [p \in Pushers |-> IF p \in Pushers THEN <<>> ELSE Changes[p]]
      BY <2>1 DEF Crash, Changes, NoPush
    <3>3. Doomed' = Doomed \ Pushers
      BY <2>1 DEF Crash, Doomed, Dooms, NoPush
    <3>2. Journal!Fail
      BY <2>1, <3>1, <3>3 DEF Crash, Fault, Journal!Fail, Changes, Doomed, Dooms, Told, Lost
    <3> QED
      BY <3>2 DEF Journal!Next
  <2>2. CASE UNCHANGED vars
    BY <2>2 DEF vars, Shown, Changes, Doomed, Told, Lost
  <2> QED
    BY <2>1, <2>2, PushStepTells, OwnerStepTells DEF Next
<1> QED
  BY <1>1, <1>2, AlwaysWellFormed, AlwaysRested, PTL DEF Spec, ImplementsJournal, Journal!Spec
=============================================================================
