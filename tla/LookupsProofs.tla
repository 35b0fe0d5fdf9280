--------------------------- MODULE LookupsProofs ---------------------------
(* Theorems about Lookups, for any number of lookers, keys and DIDs, any TTLs
   and any bound on how long a question takes. *)
EXTENDS Lookups, TLAPS

(* What a cache entry or an open question says about time. *)
Entries ==
    \A s \in Subjects : cache[s].present =>
        /\ cache[s].asOf <= now
        /\ cache[s].until <= cache[s].asOf + Patience + Ttl(cache[s].answer)

Questions ==
    \A l \in Lookers :
        /\ task[l].phase \in {"asked", "answered"} =>
             /\ task[l].asked <= now
             /\ now <= task[l].asked + Patience
        /\ task[l].phase = "answered" =>
             /\ task[l].asked <= task[l].asOf
             /\ task[l].asOf <= now

Timely == TypeOK /\ Entries /\ Questions

LEMMA TtlType == \A a : Ttl(a) \in Nat /\ Ttl(a) >= 1
  BY LookupsAssumption DEF Ttl

LEMMA NoTaskType == NoTask \in Task /\ NoTask.answer = Failed /\ NoTask.subject = "handle"
                    /\ NoTask.phase = "idle" /\ NoTask.known = FALSE
  <1>1. (CHOOSE k \in Keys : TRUE) \in Keys
    BY LookupsAssumption
  <1>2. Failed \in AllAnswers
    BY DEF AllAnswers, Answers
  <1> QED
    BY <1>1, <1>2 DEF NoTask, Task, Subjects

LEMMA AnswerTypes == \A s \in Subjects : Answers[s] \subseteq AllAnswers /\ Failed \in Answers[s]
  BY DEF Subjects, Answers, AllAnswers

(* Decided changes nothing but the phase. *)
LEMMA DecidedType ==
  ASSUME NEW t \in Task
  PROVE  /\ Decided(t) \in Task
         /\ Decided(t).phase \in {"persist", "done"}
         /\ Decided(t).phase = "persist" => Found(Decided(t))
         /\ Decided(t).answer = t.answer /\ Decided(t).asOf = t.asOf
         /\ Decided(t).subject = t.subject /\ Decided(t).known = t.known
  BY DEF Decided, Task, Found

-----------------------------------------------------------------------------
LEMMA InitTimely == Init => Timely
  BY NoTaskType, AnswerTypes, LookupsAssumption
  DEF Init, Timely, TypeOK, Entries, Questions, Entry, NoEntry, Subjects, Answers, AllAnswers

(* A step that replaces one task, with one that is well formed. *)
LEMMA TaskStep ==
  ASSUME Timely, NEW l \in Lookers, NEW t \in Task, task' = [task EXCEPT ![l] = t],
         t.answer \in Answers[t.subject], t.phase = "persist" => Found(t),
         t.phase \in {"asked", "answered"} => t.asked <= now /\ now <= t.asked + Patience,
         t.phase = "answered" => t.asked <= t.asOf /\ t.asOf <= now,
         now' = now
  PROVE  /\ task' \in [Lookers -> Task]
         /\ \A m \in Lookers : /\ task'[m].answer \in Answers[task'[m].subject]
                               /\ task'[m].phase = "persist" => Found(task'[m])
         /\ Questions'
  <1> USE DEF Timely, TypeOK, Questions
  <1>1. task'[l] = t /\ \A m \in Lookers \ {l} : task'[m] = task[m]
    OBVIOUS
  <1>2. task' \in [Lookers -> Task]
    OBVIOUS
  <1>3. \A m \in Lookers : /\ task'[m].answer \in Answers[task'[m].subject]
                           /\ task'[m].phase = "persist" => Found(task'[m])
    BY <1>1
  <1>4. Questions'
    BY <1>1
  <1> QED
    BY <1>2, <1>3, <1>4

LEMMA NextTimely == Timely /\ [Next]_vars => Timely'
  <1> SUFFICES ASSUME Timely, [Next]_vars PROVE Timely'
    OBVIOUS
  <1> USE DEF Timely
  <1>t. TypeOK /\ Entries /\ Questions
    OBVIOUS
  <1>n. now \in Nat /\ Patience \in Nat
    BY LookupsAssumption DEF TypeOK
  <1>q. ASSUME NEW l \in Lookers
        PROVE  /\ task[l] \in Task /\ task[l].subject \in Subjects
               /\ task[l].answer \in Answers[task[l].subject]
               /\ task[l].asked \in Nat /\ task[l].asOf \in Nat
    BY <1>t DEF TypeOK, Task
  <1>1. CASE Tick
    <2>1. now' = now + 1 /\ UNCHANGED <<cache, table, task>>
      BY <1>1 DEF Tick
    <2>2. TypeOK'
      BY <1>n, <1>t, <2>1 DEF TypeOK, Found
    <2>3. Entries'
      <3> SUFFICES ASSUME NEW s \in Subjects, cache[s].present
                   PROVE  /\ cache[s].asOf <= now + 1
                          /\ cache[s].until <= cache[s].asOf + Patience + Ttl(cache[s].answer)
        BY <2>1 DEF Entries, Ttl
      <3>1. cache[s].asOf \in Nat
        BY DEF TypeOK, Entry
      <3> QED
        BY <1>n, <3>1 DEF Entries
    <2>4. Questions'
      <3> SUFFICES ASSUME NEW l \in Lookers
                   PROVE  /\ task[l].phase \in {"asked", "answered"} =>
                               task[l].asked <= now + 1 /\ now + 1 <= task[l].asked + Patience
                          /\ task[l].phase = "answered" =>
                               task[l].asked <= task[l].asOf /\ task[l].asOf <= now + 1
        BY <2>1 DEF Questions
      <3> QED
        BY <1>1, <1>n, <1>q DEF Questions, Tick
    <2> QED
      BY <2>2, <2>3, <2>4
  <1>2. CASE Restart
    BY <1>2, NoTaskType, AnswerTypes, LookupsAssumption
    DEF Restart, TypeOK, Entries, Questions, Entry, NoEntry, Subjects, Answers, AllAnswers
  <1>3. CASE UNCHANGED vars
    BY <1>3 DEF vars, TypeOK, Entries, Questions, Found, Ttl
  <1>4. ASSUME NEW l \in Lookers, NEW k \in Keys, AcceptKnown(l, k) PROVE Timely'
    <2> DEFINE t == [NoTask EXCEPT !.phase = "done", !.subject = "keys", !.key = k, !.known = TRUE]
    <2>1. task' = [task EXCEPT ![l] = t] /\ UNCHANGED <<now, cache, table>>
      BY <1>4 DEF AcceptKnown
    <2>2. t \in Task /\ t.answer \in Answers[t.subject] /\ t.phase = "done"
      BY NoTaskType, AnswerTypes DEF NoTask, Task, Subjects
    <2> HIDE DEF t
    <2>3. /\ task' \in [Lookers -> Task]
          /\ \A m \in Lookers : /\ task'[m].answer \in Answers[task'[m].subject]
                                /\ task'[m].phase = "persist" => Found(task'[m])
          /\ Questions'
      BY <2>1, <2>2, TaskStep
    <2> QED
      BY <1>t, <2>1, <2>3 DEF TypeOK, Entries, Found, Ttl
  <1>b. ASSUME NEW l \in Lookers, NEW s \in Subjects, NEW k \in Keys, BeginLookup(l, s, k)
        PROVE  Timely'
    <2> DEFINE t == [NoTask EXCEPT !.phase = "looking", !.subject = s, !.key = k]
    <2>1. task' = [task EXCEPT ![l] = t] /\ UNCHANGED <<now, cache, table>>
      BY <1>b DEF BeginLookup
    <2>2. t \in Task /\ t.answer \in Answers[t.subject] /\ t.phase = "looking"
      BY NoTaskType, AnswerTypes DEF NoTask, Task
    <2> HIDE DEF t
    <2>3. /\ task' \in [Lookers -> Task]
          /\ \A m \in Lookers : /\ task'[m].answer \in Answers[task'[m].subject]
                                /\ task'[m].phase = "persist" => Found(task'[m])
          /\ Questions'
      BY <2>1, <2>2, TaskStep
    <2> QED
      BY <1>t, <2>1, <2>3 DEF TypeOK, Entries, Found, Ttl
  <1>u. ASSUME NEW l \in Lookers, UserUnresolved(l) PROVE Timely'
    <2> DEFINE t == [task[l] EXCEPT !.phase = "done", !.asOf = now]
    <2>1. task' = [task EXCEPT ![l] = t] /\ UNCHANGED <<now, cache, table>>
      BY <1>u DEF UserUnresolved
    <2>2. t \in Task /\ t.answer \in Answers[t.subject] /\ t.phase = "done"
      BY <1>n, <1>q DEF Task
    <2> HIDE DEF t
    <2>3. /\ task' \in [Lookers -> Task]
          /\ \A m \in Lookers : /\ task'[m].answer \in Answers[task'[m].subject]
                                /\ task'[m].phase = "persist" => Found(task'[m])
          /\ Questions'
      BY <2>1, <2>2, TaskStep
    <2> QED
      BY <1>t, <2>1, <2>3 DEF TypeOK, Entries, Found, Ttl
  <1>5. ASSUME NEW l \in Lookers, AnswerFromCache(l) PROVE Timely'
    <2> DEFINE e == cache[task[l].subject]
               u == [task[l] EXCEPT !.answer = e.answer, !.asOf = e.asOf]
    <2>1. task' = [task EXCEPT ![l] = Decided(u)] /\ UNCHANGED <<now, cache, table>>
      BY <1>5 DEF AnswerFromCache
    <2>2. u \in Task /\ u.answer \in Answers[u.subject]
      <3>1. e \in Entry /\ e.answer \in Answers[task[l].subject]
        BY <1>q, <1>t DEF TypeOK
      <3> QED
        BY <1>q, <3>1 DEF Task, Entry
    <2> HIDE DEF u, e
    <2>3. /\ Decided(u) \in Task /\ Decided(u).phase \in {"persist", "done"}
          /\ Decided(u).phase = "persist" => Found(Decided(u))
          /\ Decided(u).answer \in Answers[Decided(u).subject]
      BY <2>2, DecidedType
    <2>4. /\ task' \in [Lookers -> Task]
          /\ \A m \in Lookers : /\ task'[m].answer \in Answers[task'[m].subject]
                                /\ task'[m].phase = "persist" => Found(task'[m])
          /\ Questions'
      BY <2>1, <2>3, TaskStep
    <2> QED
      BY <1>t, <2>1, <2>4 DEF TypeOK, Entries, Found, Ttl
  <1>6. ASSUME NEW l \in Lookers, AskNetwork(l) PROVE Timely'
    <2> DEFINE t == [task[l] EXCEPT !.phase = "asked", !.asked = now]
    <2>1. /\ task' = [task EXCEPT ![l] = t] /\ UNCHANGED <<now, table>>
          /\ cache' \in {cache, [cache EXCEPT !["keys"] = NoEntry]}
      BY <1>6 DEF AskNetwork
    <2>2. t \in Task /\ t.answer \in Answers[t.subject] /\ t.phase = "asked" /\ t.asked = now
      BY <1>n, <1>q DEF Task
    <2> HIDE DEF t
    <2>r. t.asked <= now /\ now <= t.asked + Patience /\ t.phase # "answered" /\ t.phase # "persist"
      BY <1>n, <2>2
    <2>3. /\ task' \in [Lookers -> Task]
          /\ \A m \in Lookers : /\ task'[m].answer \in Answers[task'[m].subject]
                                /\ task'[m].phase = "persist" => Found(task'[m])
          /\ Questions'
      <3>1. task' = [task EXCEPT ![l] = t] /\ now' = now
        BY <2>1
      <3> QED
        BY <2>2, <2>r, <3>1, TaskStep
    <2>4. NoEntry \in Entry /\ ~NoEntry.present /\ NoEntry.answer = Failed
      BY DEF NoEntry, Entry, AllAnswers, Answers
    <2>5. cache' \in [Subjects -> Entry] /\ \A r \in Subjects : cache'[r] \in {cache[r], NoEntry}
      BY <1>t, <2>1, <2>4 DEF TypeOK
    <2>6. TypeOK'
      BY <1>t, <2>1, <2>3, <2>4, <2>5, AnswerTypes DEF TypeOK
    <2>7. Entries'
      BY <1>t, <2>1, <2>4, <2>5 DEF Entries, Ttl
    <2> QED
      BY <2>3, <2>6, <2>7
  <1>7. ASSUME NEW l \in Lookers, Answer(l) PROVE Timely'
    <2>1. PICK answer \in Answers[task[l].subject] :
            task' = [task EXCEPT ![l] = [task[l] EXCEPT !.phase = "answered", !.answer = answer,
                                                        !.asOf = now]]
      BY <1>7 DEF Answer
    <2> DEFINE t == [task[l] EXCEPT !.phase = "answered", !.answer = answer, !.asOf = now]
    <2>2. UNCHANGED <<now, cache, table>> /\ task[l].phase = "asked"
      BY <1>7 DEF Answer
    <2>3. /\ t \in Task /\ t.answer \in Answers[t.subject] /\ t.phase = "answered"
          /\ t.asked = task[l].asked /\ t.asOf = now
      BY <1>n, <1>q, AnswerTypes DEF Task
    <2>4. /\ t.asked <= now /\ now <= t.asked + Patience
          /\ t.asked <= t.asOf /\ t.asOf <= now /\ t.phase # "persist"
      BY <1>n, <1>t, <2>2, <2>3 DEF Questions
    <2>5. task' = [task EXCEPT ![l] = t]
      BY <2>1
    <2> HIDE DEF t
    <2>6. /\ task' \in [Lookers -> Task]
          /\ \A m \in Lookers : /\ task'[m].answer \in Answers[task'[m].subject]
                                /\ task'[m].phase = "persist" => Found(task'[m])
          /\ Questions'
      <3>1. now' = now
        BY <2>2
      <3> QED
        BY <2>3, <2>4, <2>5, <3>1, TaskStep
    <2> QED
      BY <1>t, <2>2, <2>6 DEF TypeOK, Entries, Found, Ttl
  <1>8. ASSUME NEW l \in Lookers, StoreAnswer(l) PROVE Timely'
    <2> DEFINE e == [present |-> TRUE, answer |-> task[l].answer,
                     until |-> now + Ttl(task[l].answer), asOf |-> task[l].asOf]
    <2>1. /\ task' = [task EXCEPT ![l] = Decided(task[l])] /\ UNCHANGED <<now, table>>
          /\ cache' = [cache EXCEPT ![task[l].subject] = e] /\ task[l].phase = "answered"
      BY <1>8 DEF StoreAnswer
    <2>2. /\ Decided(task[l]) \in Task /\ Decided(task[l]).phase \in {"persist", "done"}
          /\ Decided(task[l]).phase = "persist" => Found(Decided(task[l]))
          /\ Decided(task[l]).answer \in Answers[Decided(task[l]).subject]
      BY <1>q, DecidedType
    <2>3. /\ task' \in [Lookers -> Task]
          /\ \A m \in Lookers : /\ task'[m].answer \in Answers[task'[m].subject]
                                /\ task'[m].phase = "persist" => Found(task'[m])
          /\ Questions'
      BY <2>1, <2>2, TaskStep
    <2>4. Ttl(task[l].answer) \in Nat
      BY TtlType
    <2>5. e \in Entry
      BY <1>n, <1>q, <2>4, AnswerTypes DEF Entry
    <2>6. /\ task[l].asOf <= now
          /\ now + Ttl(task[l].answer) <= task[l].asOf + Patience + Ttl(task[l].answer)
      BY <1>n, <1>q, <1>t, <2>1, <2>4 DEF Questions
    <2>7. \A s \in Subjects : cache'[s] = IF s = task[l].subject THEN e ELSE cache[s]
      BY <1>t, <2>1 DEF TypeOK
    <2>8. TypeOK'
      BY <1>q, <1>t, <2>1, <2>3, <2>5, <2>7 DEF TypeOK
    <2>9. Entries'
      BY <1>t, <2>1, <2>6, <2>7 DEF Entries, Ttl
    <2> QED
      BY <2>3, <2>8, <2>9
  <1>9. ASSUME NEW l \in Lookers, PersistKey(l) PROVE Timely'
    <2> DEFINE t == [task[l] EXCEPT !.phase = "done"]
    <2>1. task' = [task EXCEPT ![l] = t] /\ UNCHANGED <<now, cache>>
      BY <1>9 DEF PersistKey
    <2>2. t \in Task /\ t.answer \in Answers[t.subject] /\ t.phase = "done"
      BY <1>q DEF Task
    <2>3. table' \subseteq Keys
      BY <1>9, <1>q, <1>t DEF PersistKey, TypeOK, Task
    <2> HIDE DEF t
    <2>4. /\ task' \in [Lookers -> Task]
          /\ \A m \in Lookers : /\ task'[m].answer \in Answers[task'[m].subject]
                                /\ task'[m].phase = "persist" => Found(task'[m])
          /\ Questions'
      BY <2>1, <2>2, TaskStep
    <2> QED
      BY <1>t, <2>1, <2>3, <2>4 DEF TypeOK, Entries, Found, Ttl
  <1>10. ASSUME NEW l \in Lookers, Return(l) PROVE Timely'
    <2>1. task' = [task EXCEPT ![l] = NoTask] /\ UNCHANGED <<now, cache, table>>
      BY <1>10 DEF Return
    <2>2. NoTask \in Task /\ NoTask.answer \in Answers[NoTask.subject] /\ NoTask.phase = "idle"
      BY NoTaskType, AnswerTypes DEF Subjects
    <2>3. /\ task' \in [Lookers -> Task]
          /\ \A m \in Lookers : /\ task'[m].answer \in Answers[task'[m].subject]
                                /\ task'[m].phase = "persist" => Found(task'[m])
          /\ Questions'
      BY <2>1, <2>2, TaskStep
    <2> QED
      BY <1>t, <2>1, <2>3 DEF TypeOK, Entries, Found, Ttl
  <1> QED
    BY <1>1, <1>2, <1>3, <1>4, <1>b, <1>u, <1>5, <1>6, <1>7, <1>8,
       <1>9, <1>10 DEF Next, Step

(* Every entry and every open question is as the clock, the TTLs and the timeouts
   imply, in every reachable state. *)
THEOREM AlwaysTimely == Spec => []Timely
  BY InitTimely, NextTimely, PTL DEF Spec

(* Every reachable state of the lookups is well formed. *)
THEOREM LookupsTypeCorrect == Spec => []TypeOK
  <1>1. Timely => TypeOK
    BY DEF Timely
  <1> QED
    BY <1>1, AlwaysTimely, PTL

-----------------------------------------------------------------------------
LEMMA RecentStep ==
  Timely /\ [Next]_vars =>
    [\A l \in Lookers :
       Settles(l) => now < task'[l].asOf + Ttl(task'[l].answer) + Patience]_vars
  <1> SUFFICES ASSUME Timely, Next, NEW l \in Lookers, Settles(l)
               PROVE  now < task'[l].asOf + Ttl(task'[l].answer) + Patience
    OBVIOUS
  <1>n. now \in Nat /\ Patience \in Nat
    BY LookupsAssumption DEF Timely, TypeOK
  <1>t. task \in [Lookers -> Task] /\ cache \in [Subjects -> Entry]
    BY DEF Timely, TypeOK
  <1>s. /\ task[l].phase \in {"idle", "looking", "answered"}
        /\ task'[l].phase \in {"persist", "done"} /\ ~task'[l].known
    BY DEF Settles
  <1>u. task'[l] # task[l]
    BY <1>s
  <1>1. CASE Tick
    BY <1>1, <1>u DEF Tick
  <1>2. CASE Restart
    BY <1>2, <1>s, NoTaskType DEF Restart
  <1>3. ASSUME NEW m \in Lookers, Step(m)
        PROVE  now < task'[l].asOf + Ttl(task'[l].answer) + Patience
    <2>1. m = l
      <3> SUFFICES ASSUME m # l PROVE task'[l] = task[l]
        BY <1>u
      <3> QED
        BY <1>3, <1>t DEF Step, AcceptKnown, BeginLookup, UserUnresolved, AnswerFromCache,
                          AskNetwork, Answer, StoreAnswer, PersistKey, Return
    <2>2. ASSUME NEW k \in Keys, AcceptKnown(l, k) PROVE FALSE
      <3>1. task'[l].known
        BY <1>t, <2>2, NoTaskType DEF AcceptKnown, NoTask
      <3> QED
        BY <1>s, <3>1
    <2>3. ASSUME AnswerFromCache(l)
          PROVE  now < task'[l].asOf + Ttl(task'[l].answer) + Patience
      <3> DEFINE e == cache[task[l].subject]
                 u == [task[l] EXCEPT !.answer = e.answer, !.asOf = e.asOf]
      <3>1. task'[l] = Decided(u)
        BY <1>t, <2>3 DEF AnswerFromCache
      <3>4. /\ e \in Entry /\ now < e.until /\ e.until \in Nat /\ e.asOf \in Nat
            /\ e.until <= e.asOf + Patience + Ttl(e.answer)
        <4>1. task[l].subject \in Subjects /\ Fresh(e)
          BY <1>t, <2>3 DEF Task, AnswerFromCache
        <4> QED
          BY <1>t, <4>1 DEF Fresh, Timely, Entries, Entry
      <3>2. u \in Task /\ u.answer = e.answer /\ u.asOf = e.asOf
        BY <1>t, <3>4 DEF Task, Entry
      <3> HIDE DEF u
      <3>3. task'[l].answer = e.answer /\ task'[l].asOf = e.asOf
        BY <3>1, <3>2, DecidedType
      <3>5. Ttl(e.answer) \in Nat
        BY TtlType
      <3> QED
        BY <1>n, <3>3, <3>4, <3>5
    <2>6. ASSUME UserUnresolved(l)
          PROVE  now < task'[l].asOf + Ttl(task'[l].answer) + Patience
      <3>1. task'[l].asOf = now
        BY <1>t, <2>6 DEF UserUnresolved, Task
      <3>2. Ttl(task'[l].answer) \in Nat /\ Ttl(task'[l].answer) >= 1
        BY TtlType
      <3> QED
        BY <1>n, <3>1, <3>2
    <2>4. ASSUME StoreAnswer(l)
          PROVE  now < task'[l].asOf + Ttl(task'[l].answer) + Patience
      <3>1. task'[l] = Decided(task[l]) /\ task[l] \in Task /\ task[l].phase = "answered"
        BY <1>t, <2>4 DEF StoreAnswer
      <3>2. task'[l].answer = task[l].answer /\ task'[l].asOf = task[l].asOf
        BY <3>1, DecidedType
      <3>3. /\ task[l].asked \in Nat /\ task[l].asOf \in Nat
            /\ now <= task[l].asked + Patience /\ task[l].asked <= task[l].asOf
        BY <3>1 DEF Timely, Questions, Task
      <3>4. Ttl(task[l].answer) \in Nat /\ Ttl(task[l].answer) >= 1
        BY TtlType
      <3> QED
        BY <1>n, <3>2, <3>3, <3>4
    <2>5. ASSUME \/ Answer(l) \/ PersistKey(l) \/ Return(l) \/ AskNetwork(l)
                 \/ \E s \in Subjects, k \in Keys : BeginLookup(l, s, k)
          PROVE  task'[l].phase \in {"looking", "asked", "answered", "idle"}
                 \/ task[l].phase \notin {"idle", "looking", "answered"}
      <3>1. CASE Answer(l)
        BY <1>t, <3>1 DEF Answer
      <3>2. CASE PersistKey(l)
        BY <3>2 DEF PersistKey
      <3>3. CASE Return(l)
        BY <1>t, <3>3, NoTaskType DEF Return
      <3>4. CASE AskNetwork(l)
        BY <1>t, <3>4 DEF AskNetwork, Task
      <3>5. ASSUME NEW s \in Subjects, NEW k \in Keys, BeginLookup(l, s, k)
            PROVE  task'[l].phase = "looking"
        BY <1>t, <3>5 DEF BeginLookup, NoTask
      <3> QED
        BY <2>5, <3>1, <3>2, <3>3, <3>4, <3>5
    <2> QED
      BY <1>3, <1>s, <2>1, <2>2, <2>3, <2>4, <2>5, <2>6 DEF Step
  <1> QED
    BY <1>1, <1>2, <1>3 DEF Next

(* No lookup settles on an answer older than its TTL and the time a question may
   take, however many lookups of the name overlap. *)
THEOREM RecentAnswers == Spec => AnswersAreRecent
  BY AlwaysTimely, RecentStep, PTL DEF Spec, AnswersAreRecent

-----------------------------------------------------------------------------
LEMMA BackStep ==
  Timely /\ [Next]_vars =>
    [\A s \in Subjects :
       cache[s].present /\ cache'[s].present => cache'[s].asOf >= cache[s].asOf - Patience]_vars
  <1> SUFFICES ASSUME Timely, Next, NEW s \in Subjects, cache[s].present, cache'[s].present
               PROVE  cache'[s].asOf >= cache[s].asOf - Patience
    OBVIOUS
  <1>n. now \in Nat /\ Patience \in Nat /\ cache[s].asOf \in Nat /\ cache[s].asOf <= now
    BY LookupsAssumption DEF Timely, TypeOK, Entries, Entry
  <1>t. task \in [Lookers -> Task] /\ cache \in [Subjects -> Entry]
    BY DEF Timely, TypeOK
  <1>1. CASE cache'[s] = cache[s]
    BY <1>1, <1>n
  <1>2. ASSUME NEW l \in Lookers, StoreAnswer(l), s = task[l].subject
        PROVE  cache'[s].asOf >= cache[s].asOf - Patience
    <2>1. cache'[s].asOf = task[l].asOf
      BY <1>2, <1>t DEF StoreAnswer
    <2>2. /\ task[l].asked \in Nat /\ task[l].asOf \in Nat
          /\ now <= task[l].asked + Patience /\ task[l].asked <= task[l].asOf
      BY <1>2, <1>t DEF StoreAnswer, Timely, Questions, Task
    <2> QED
      BY <1>n, <2>1, <2>2
  <1>3. CASE Tick
    BY <1>1, <1>3 DEF Tick
  <1>4. CASE Restart
    BY <1>4 DEF Restart, NoEntry
  <1>5. ASSUME NEW l \in Lookers, Step(l), ~(StoreAnswer(l) /\ s = task[l].subject)
        PROVE  cache'[s] = cache[s] \/ ~cache'[s].present
    <2>1. CASE StoreAnswer(l)
      BY <1>5, <1>t, <2>1 DEF StoreAnswer
    <2>2. CASE AskNetwork(l)
      BY <1>t, <2>2 DEF AskNetwork, NoEntry
    <2> QED
      BY <1>5, <2>1, <2>2 DEF Step, AcceptKnown, BeginLookup, UserUnresolved,
                            AnswerFromCache, Answer, PersistKey, Return
  <1> QED
    BY <1>1, <1>2, <1>3, <1>4, <1>5 DEF Next

(* An answer that replaces a newer one in the cache is older by no more than the
   time a question may take. *)
THEOREM LittleBack == Spec => AnswersGoBackLittle
  BY AlwaysTimely, BackStep, PTL DEF Spec, AnswersGoBackLittle
=============================================================================
