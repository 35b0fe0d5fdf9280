---------------------------- MODULE FetchProofs ----------------------------
(* Theorems about Fetch, for every object graph, any number of clients and refs *)
(* and every bound on pushes, deletions and fetches; and whatever others do to  *)
(* the repository, within what RepoStore promises.                              *)
EXTENDS Fetch, FiniteSetTheorems, TLAPS

(* Sequences as sets. *)
LEMMA SetOf ==
  ASSUME NEW S, NEW s \in Seq(S)
  PROVE  /\ ToSet(s) \subseteq S
         /\ \A e : e \in ToSet(s) <=> \E i \in 1..Len(s) : s[i] = e
  <1>1. DOMAIN s = 1..Len(s) /\ \A i \in 1..Len(s) : s[i] \in S
    OBVIOUS
  <1> QED
    BY <1>1 DEF ToSet

LEMMA SetOfAppend ==
  ASSUME NEW S, NEW s \in Seq(S), NEW e \in S
  PROVE  /\ Append(s, e) \in Seq(S) /\ Len(Append(s, e)) = Len(s) + 1
         /\ ToSet(Append(s, e)) = ToSet(s) \cup {e}
  <1>1. /\ Append(s, e) \in Seq(S) /\ Len(s) \in Nat /\ Len(Append(s, e)) = Len(s) + 1
        /\ Append(s, e)[Len(s) + 1] = e
        /\ \A i \in 1..Len(s) : Append(s, e)[i] = s[i]
    OBVIOUS
  <1>2. ASSUME NEW n PROVE n \in ToSet(Append(s, e)) <=> n \in ToSet(s) \cup {e}
    <2>1. n \in ToSet(Append(s, e)) <=> \E i \in 1..Len(s) + 1 : Append(s, e)[i] = n
      <3> DEFINE u == Append(s, e)
      <3>1. u \in Seq(S) /\ Len(u) = Len(s) + 1
        BY <1>1
      <3> HIDE DEF u
      <3>2. n \in ToSet(u) <=> \E i \in 1..Len(u) : u[i] = n
        BY <3>1, SetOf
      <3>3. n \in ToSet(u) <=> \E i \in 1..Len(s) + 1 : u[i] = n
        BY <3>1, <3>2
      <3> QED
        BY <3>3 DEF u
    <2>2. \A i : i \in 1..Len(s) + 1 <=> i \in 1..Len(s) \/ i = Len(s) + 1
      BY <1>1
    <2>3. n \in ToSet(s) <=> \E i \in 1..Len(s) : s[i] = n
      BY SetOf
    <2> QED
      BY <1>1, <2>1, <2>2, <2>3
  <1> QED
    BY <1>1, <1>2

LEMMA SetOfTail ==
  ASSUME NEW S, NEW s \in Seq(S), s # <<>>
  PROVE  /\ Head(s) \in S /\ Tail(s) \in Seq(S)
         /\ ToSet(s) = {Head(s)} \cup ToSet(Tail(s))
  <1>1. /\ Tail(s) \in Seq(S) /\ Len(s) \in Nat /\ Len(s) >= 1 /\ Len(Tail(s)) = Len(s) - 1
        /\ Head(s) = s[1] /\ Head(s) \in S
        /\ \A i \in 1..Len(s) - 1 : Tail(s)[i] = s[i + 1]
    OBVIOUS
  <1>2. ASSUME NEW n PROVE n \in ToSet(s) <=> n \in {Head(s)} \cup ToSet(Tail(s))
    <2>1. n \in ToSet(s) <=> \E i \in 1..Len(s) : s[i] = n
      BY SetOf
    <2>2. n \in ToSet(Tail(s)) <=> \E i \in 1..Len(s) - 1 : Tail(s)[i] = n
      <3> DEFINE u == Tail(s)
      <3>1. u \in Seq(S) /\ Len(u) = Len(s) - 1
        BY <1>1
      <3> HIDE DEF u
      <3>2. n \in ToSet(u) <=> \E i \in 1..Len(u) : u[i] = n
        BY <3>1, SetOf
      <3>3. n \in ToSet(u) <=> \E i \in 1..Len(s) - 1 : u[i] = n
        BY <3>1, <3>2
      <3> QED
        BY <3>3 DEF u
    <2>3. \A i \in 1..Len(s) : i = 1 \/ (i - 1 \in 1..Len(s) - 1 /\ Tail(s)[i - 1] = s[i])
      BY <1>1
    <2>4. \A i \in 1..Len(s) - 1 : i + 1 \in 1..Len(s)
      BY <1>1
    <2>5. 1 \in 1..Len(s)
      BY <1>1
    <2> QED
      BY <1>1, <2>1, <2>2, <2>3, <2>4, <2>5
  <1> QED
    BY <1>1, <1>2

LEMMA SetOfConcat ==
  ASSUME NEW S, NEW s \in Seq(S), NEW t \in Seq(S)
  PROVE  /\ s \o t \in Seq(S)
         /\ ToSet(s \o t) = ToSet(s) \cup ToSet(t)
  <1>1. /\ s \o t \in Seq(S) /\ Len(s) \in Nat /\ Len(t) \in Nat /\ Len(s \o t) = Len(s) + Len(t)
        /\ \A i \in 1..Len(s) : (s \o t)[i] = s[i]
        /\ \A i \in 1..Len(t) : (s \o t)[Len(s) + i] = t[i]
    OBVIOUS
  <1>2. ASSUME NEW n PROVE n \in ToSet(s \o t) <=> n \in ToSet(s) \cup ToSet(t)
    <2>1. n \in ToSet(s \o t) <=> \E i \in 1..Len(s) + Len(t) : (s \o t)[i] = n
      <3> DEFINE u == s \o t
      <3>1. u \in Seq(S) /\ Len(u) = Len(s) + Len(t)
        BY <1>1
      <3> HIDE DEF u
      <3>2. n \in ToSet(u) <=> \E i \in 1..Len(u) : u[i] = n
        BY <3>1, SetOf
      <3>3. n \in ToSet(u) <=> \E i \in 1..Len(s) + Len(t) : u[i] = n
        BY <3>1, <3>2
      <3> QED
        BY <3>3 DEF u
    <2>2. n \in ToSet(s) <=> \E i \in 1..Len(s) : s[i] = n
      BY SetOf
    <2>3. n \in ToSet(t) <=> \E i \in 1..Len(t) : t[i] = n
      BY SetOf
    <2>4. \A i \in 1..Len(s) + Len(t) :
            i \in 1..Len(s) \/ (i - Len(s) \in 1..Len(t) /\ i = Len(s) + (i - Len(s)))
      BY <1>1
    <2>5. /\ \A i \in 1..Len(s) : i \in 1..Len(s) + Len(t)
          /\ \A i \in 1..Len(t) : Len(s) + i \in 1..Len(s) + Len(t)
      BY <1>1
    <2>6. n \in ToSet(s \o t) => n \in ToSet(s) \cup ToSet(t)
      BY <1>1, <2>1, <2>2, <2>3, <2>4
    <2>7. n \in ToSet(s) \cup ToSet(t) => n \in ToSet(s \o t)
      BY <1>1, <2>1, <2>2, <2>3, <2>5
    <2> QED
      BY <2>6, <2>7
  <1> QED
    BY <1>1, <1>2

LEMMA SetOfEmpty == ToSet(<<>>) = {}
  <1>1. DOMAIN <<>> = {}
    OBVIOUS
  <1> QED
    BY <1>1 DEF ToSet

LEMMA SetOfOne == \A n : ToSet(<<n>>) = {n}
  <1>1. \A n : DOMAIN <<n>> = {1} /\ <<n>>[1] = n
    OBVIOUS
  <1> QED
    BY <1>1 DEF ToSet

-----------------------------------------------------------------------------
(* What an object names. *)
LEMMA PartsOf ==
  ASSUME NEW o \in Objects
  PROVE  /\ Parts(o) \subseteq Objects
         /\ Kind[o] \in Kinds /\ Content[o] \in Seq(Objects)
         /\ Kind[o] = "commit" =>
              /\ Content[o] # <<>> /\ Head(Content[o]) \in Of("tree")
              /\ Parents(o) \subseteq Of("commit")
              /\ Parts(o) = {Head(Content[o])} \cup Parents(o)
         /\ Kind[o] = "tree" =>
              /\ Parts(o) = ToSet(Content[o]) \ Of("commit")
              /\ ToSet(Content[o]) \subseteq Objects \ Of("tag")
         /\ Kind[o] = "blob" => Parts(o) = {}
         /\ Kind[o] = "tag" => Content[o][1] \in Of("commit") /\ Parts(o) = {Content[o][1]}
  <1>1. Kind[o] \in Kinds /\ Content[o] \in Seq(Objects)
    BY FetchAssumption
  <1>2. ToSet(Content[o]) \subseteq Objects
    BY <1>1, SetOf
  <1>3. ASSUME Kind[o] = "commit"
        PROVE  /\ Content[o] # <<>> /\ Head(Content[o]) \in Of("tree")
               /\ Parents(o) \subseteq Of("commit")
               /\ Parts(o) = {Head(Content[o])} \cup Parents(o)
    <2>1. o \in Of("commit")
      BY <1>3 DEF Of
    <2>2. Content[o] # <<>> /\ Head(Content[o]) \in Of("tree") /\ Parents(o) \subseteq Of("commit")
      BY <2>1, FetchAssumption DEF Parents
    <2>3. ToSet(Content[o]) = {Head(Content[o])} \cup Parents(o)
      BY <1>1, <2>2, SetOfTail DEF Parents
    <2> QED
      BY <1>3, <2>2, <2>3 DEF Parts
  <1>4. ASSUME Kind[o] = "tree"
        PROVE  /\ Parts(o) = ToSet(Content[o]) \ Of("commit")
               /\ ToSet(Content[o]) \subseteq Objects \ Of("tag")
    <2>1. o \in Of("tree")
      BY <1>4 DEF Of
    <2> QED
      BY <1>2, <1>4, <2>1, FetchAssumption DEF Parts, Of
  <1>5. ASSUME Kind[o] = "blob" PROVE Parts(o) = {}
    <2>1. Content[o] = <<>>
      BY <1>5, FetchAssumption DEF Of
    <2>2. ToSet(Content[o]) = {}
      BY <2>1, SetOfEmpty
    <2> QED
      BY <2>2 DEF Parts
  <1>6. ASSUME Kind[o] = "tag" PROVE Content[o][1] \in Of("commit") /\ Parts(o) = {Content[o][1]}
    <2>1. PICK n \in Of("commit") : Content[o] = <<n>>
      BY <1>6, FetchAssumption DEF Of
    <2>2. Content[o][1] = n /\ Len(Content[o]) = 1
      BY <2>1
    <2>3. \A e : e \in ToSet(Content[o]) <=> e = n
      BY <1>1, <2>2, SetOf
    <2> QED
      BY <1>6, <2>1, <2>2, <2>3 DEF Parts
  <1> QED
    BY <1>1, <1>2, <1>3, <1>4, <1>5, <1>6 DEF Parts

(* From(S) is the least closed set with S. *)
LEMMA FromIsLeast ==
  ASSUME NEW S \in SUBSET Objects
  PROVE  /\ S \subseteq From(S) /\ From(S) \subseteq Objects
         /\ Closed(From(S))
         /\ \A U \in SUBSET Objects : S \subseteq U /\ Closed(U) => From(S) \subseteq U
  <1>1. \A o \in S : Reach[o] = {n \in Objects : \A U \in SUBSET Objects : o \in U /\ Closed(U) => n \in U}
    BY DEF Reach
  <1>2. \A n : n \in From(S) <=> \E o \in S : n \in Reach[o]
    BY DEF From
  <1>3. S \subseteq From(S) /\ From(S) \subseteq Objects
    BY <1>1, <1>2
  <1>4. ASSUME NEW n \in From(S) PROVE Parts(n) \subseteq From(S)
    <2>1. PICK o \in S : n \in Reach[o]
      BY <1>2
    <2>2. ASSUME NEW m \in Parts(n), NEW U \in SUBSET Objects, o \in U, Closed(U) PROVE m \in U
      BY <1>1, <2>1, <2>2 DEF Closed
    <2>3. Parts(n) \subseteq Objects
      BY <1>3, PartsOf
    <2>4. Parts(n) \subseteq Reach[o]
      BY <1>1, <2>2, <2>3
    <2> QED
      BY <1>2, <2>4
  <1>5. ASSUME NEW U \in SUBSET Objects, S \subseteq U, Closed(U) PROVE From(S) \subseteq U
    BY <1>1, <1>2, <1>5
  <1> QED
    BY <1>3, <1>4, <1>5 DEF Closed

LEMMA FromOne == \A o \in Objects : From({o}) = Reach[o]
  BY DEF From

LEMMA FromMonotonic ==
  ASSUME NEW S \in SUBSET Objects, NEW U \in SUBSET Objects, S \subseteq From(U)
  PROVE  From(S) \subseteq From(U)
  BY FromIsLeast

-----------------------------------------------------------------------------
(* What a client asked for, and what it was shown then. *)
Requested(c) ==
    /\ task[c].since <= deletions
    /\ task[c].wants \subseteq Of("commit") \cup Of("tag")
    /\ task[c].haves \subseteq has[c] \cap Of("commit")
    /\ Undisturbed(c) => From(task[c].wants) \subseteq objects
    /\ task[c].phase = "idle" => task[c].wants = {}
    /\ task[c].phase \in {"idle", "listed"} =>
         /\ task[c].frontier = {} /\ task[c].walked = {} /\ task[c].seen = {}
         /\ task[c].stack = <<>> /\ task[c].oids = <<>>
    /\ task[c].phase = "failed" => ~Undisturbed(c)

(* The pack, and what else was seen. *)
Chosen(c) ==
    /\ ToSet(task[c].oids) \subseteq From(task[c].wants) \ task[c].haves
    /\ IsFiniteSet(ToSet(task[c].oids))
    /\ Len(task[c].oids) = Cardinality(ToSet(task[c].oids))
    /\ ToSet(task[c].oids) \subseteq task[c].seen
    /\ task[c].seen \subseteq ToSet(task[c].oids) \cup task[c].haves \cup Submodules(c)
    /\ task[c].phase = "walk" => task[c].haves \subseteq task[c].seen

(* The walk over commits: below those visited everything is queued. *)
Walked(c) ==
    /\ task[c].frontier \subseteq task[c].walked
    /\ task[c].walked \subseteq From(task[c].wants)
    /\ task[c].phase \in {"walk", "answered"} => task[c].wants \subseteq task[c].walked
    /\ Undisturbed(c) =>
         \A o \in task[c].walked \ task[c].frontier :
            Kind[o] = "commit" => o \in task[c].seen /\ Parents(o) \subseteq task[c].walked
    /\ task[c].phase = "answered" => task[c].frontier = {} /\ task[c].stack = <<>>

(* The descent into trees: what the pack names is seen or on the stack. *)
Pending(c) ==
    /\ \A n \in ToSet(task[c].stack) :
         IF Kind[n] = "commit" THEN n \in Submodules(c)
         ELSE n \in From(task[c].wants) /\ Kind[n] # "tag"
    /\ task[c].phase # "failed" =>
         \A o \in ToSet(task[c].oids) :
            /\ Kind[o] = "commit" => Head(Content[o]) \in task[c].seen \cup ToSet(task[c].stack)
            /\ Kind[o] = "tree" => Parts(o) \subseteq task[c].seen \cup ToSet(task[c].stack)

Good(c) == Closed(has[c]) /\ Requested(c) /\ Chosen(c) /\ Walked(c) /\ Pending(c)

Backed == \A r \in Refs : refs[r] # NoRef =>
            refs[r] \in Of("commit") \cup Of("tag") /\ Reach[refs[r]] \subseteq objects

FetchInv == TypeOK /\ Backed /\ \A c \in Clients : Good(c)

-----------------------------------------------------------------------------
LEMMA TaskType ==
  ASSUME TypeOK, NEW c \in Clients
  PROVE  /\ task[c] \in Task
         /\ task[c].phase \in {"idle", "listed", "walk", "answered", "failed"}
         /\ task[c].v2 \in BOOLEAN
         /\ task[c].wants \subseteq Objects /\ task[c].haves \subseteq Of("commit")
         /\ task[c].frontier \subseteq Objects /\ task[c].walked \subseteq Of("commit") \cup Of("tag")
         /\ task[c].seen \subseteq Objects
         /\ task[c].stack \in Seq(Objects) /\ task[c].oids \in Seq(Objects)
         /\ task[c].since \in Nat /\ deletions \in Nat
         /\ has[c] \subseteq Objects
         /\ task[c].stack # <<>> => task[c].phase = "walk"
  BY DEF TypeOK, Task

LEMMA NoTaskType ==
  /\ NoTask \in Task
  /\ NoTask.phase = "idle" /\ NoTask.since = 0
  /\ NoTask.wants = {} /\ NoTask.haves = {} /\ NoTask.frontier = {} /\ NoTask.walked = {}
  /\ NoTask.seen = {} /\ NoTask.stack = <<>> /\ NoTask.oids = <<>>
  BY DEF NoTask, Task

LEMMA SubmoduleTypes ==
  ASSUME NEW c \in Clients PROVE Submodules(c) \subseteq Of("commit")
  BY DEF Submodules

LEMMA Nothing == From({}) = {} /\ ToSet(<<>>) = {} /\ Cardinality({}) = 0 /\ IsFiniteSet({})
  <1>1. From({}) = {}
    BY DEF From
  <1>2. ToSet(<<>>) = {}
    BY SetOfEmpty
  <1> QED
    BY <1>1, <1>2, FS_EmptySet

LEMMA IdleIsGood ==
  ASSUME NEW c \in Clients, TypeOK, Closed(has[c]), task[c] = NoTask
  PROVE  Good(c)
  <1>1. deletions \in Nat
    BY DEF TypeOK
  <1>2. Requested(c)
    BY <1>1, NoTaskType, Nothing DEF Requested, Undisturbed
  <1>3. Chosen(c)
    BY NoTaskType, Nothing DEF Chosen
  <1>4. Walked(c)
    BY NoTaskType, Nothing DEF Walked
  <1>5. Pending(c)
    BY NoTaskType, Nothing DEF Pending
  <1> QED
    BY <1>2, <1>3, <1>4, <1>5 DEF Good

(* What others do does not harm a fetch. *)
LEMMA Undamaged ==
  ASSUME NEW c \in Clients, TypeOK, Good(c), task'[c] = task[c], has'[c] = has[c],
         \/ deletions' = deletions /\ objects \subseteq objects'
         \/ deletions' = deletions + 1
  PROVE  Good(c)'
  <1>1. task[c].since \in Nat /\ deletions \in Nat
    BY TaskType
  <1>2. Submodules(c)' = Submodules(c)
    BY DEF Submodules
  <1>3. task[c].since <= deletions' /\ (Undisturbed(c)' => Undisturbed(c) /\ objects \subseteq objects')
    BY <1>1 DEF Good, Requested, Undisturbed
  <1>4. Closed(has[c])' /\ Requested(c)'
    BY <1>3 DEF Good, Requested, Closed
  <1>5. Chosen(c)'
    BY <1>2 DEF Good, Chosen
  <1>6. Walked(c)'
    BY <1>3 DEF Good, Walked
  <1>7. Pending(c)'
    BY <1>2 DEF Good, Pending
  <1> QED
    BY <1>4, <1>5, <1>6, <1>7 DEF Good

-----------------------------------------------------------------------------
LEMMA InitFetchInv == Init => FetchInv
  <1> SUFFICES ASSUME Init PROVE FetchInv
    OBVIOUS
  <1>1. \A c \in Clients : task[c] = NoTask /\ has[c] \subseteq Objects /\ Closed(has[c])
    BY FetchAssumption DEF Init
  <1>2. TypeOK
    BY <1>1, NoTaskType DEF Init, TypeOK
  <1>3. Backed
    BY DEF Init, Backed
  <1> QED
    BY <1>1, <1>2, <1>3, IdleIsGood DEF FetchInv

(* A step of one fetch to a task that is well formed. *)
LEMMA OneTask ==
  ASSUME FetchInv, NEW c \in Clients,
         task' \in [Clients -> Task],
         \A d \in Clients : d # c => task'[d] = task[d] /\ has'[d] = has[d],
         has' \in [Clients -> SUBSET Objects],
         task'[c].haves \subseteq Of("commit"),
         task'[c].walked \subseteq Of("commit") \cup Of("tag"),
         task'[c].stack # <<>> => task'[c].phase = "walk",
         UNCHANGED <<objects, refs, deletions>>, pushes' \in Nat, fetches' \in Nat,
         Good(c)'
  PROVE  FetchInv'
  <1>1. TypeOK'
    BY DEF FetchInv, TypeOK
  <1>2. Backed'
    BY DEF FetchInv, Backed
  <1>3. ASSUME NEW d \in Clients, d # c PROVE Good(d)'
    BY <1>3, Undamaged DEF FetchInv
  <1> QED
    BY <1>1, <1>2, <1>3 DEF FetchInv

LEMMA AdvertisedIsBacked ==
  ASSUME TypeOK, Backed, NEW v2 \in BOOLEAN, NEW o \in Advertised(v2)
  PROVE  /\ o \in Of("commit") \cup Of("tag")
         /\ From({o}) \subseteq objects
  <1>1. PICK r \in Refs : refs[r] # NoRef /\ o = IF v2 THEN refs[r] ELSE Peeled(refs[r])
    BY DEF Advertised
  <1> DEFINE q == refs[r]
  <1>2. q \in Of("commit") \cup Of("tag") /\ q \in Objects /\ From({q}) \subseteq objects
    BY <1>1, FromOne DEF Backed, Of
  <1> HIDE DEF q
  <1>3. CASE o = q
    BY <1>2, <1>3
  <1>4. CASE o # q
    <2>1. Kind[q] = "tag" /\ o = Content[q][1]
      BY <1>1, <1>4 DEF Peeled, q
    <2>2. o \in Of("commit") /\ o \in Parts(q) /\ o \in Objects
      BY <1>2, <2>1, PartsOf DEF Of
    <2>3. o \in From({q})
      BY <1>2, <2>2, FromIsLeast DEF Closed
    <2>4. From({o}) \subseteq From({q})
      BY <1>2, <2>2, <2>3, FromMonotonic
    <2> QED
      BY <1>2, <2>2, <2>4
  <1> QED
    BY <1>3, <1>4

LEMMA ListGood ==
  ASSUME FetchInv, NEW c \in Clients, ListRefs(c)
  PROVE  FetchInv'
  <1>t. TypeOK /\ Backed /\ Good(c) /\ deletions \in Nat /\ fetches \in Nat /\ pushes \in Nat
    BY DEF FetchInv, TypeOK
  <1>1. PICK v2 \in BOOLEAN : \E wants \in SUBSET (Advertised(v2) \ has[c]) \ {{}} :
          task' = [task EXCEPT ![c] = [NoTask EXCEPT !.phase = "listed", !.v2 = v2,
                                                     !.wants = wants, !.since = deletions]]
    BY DEF ListRefs
  <1>2. PICK wants \in SUBSET (Advertised(v2) \ has[c]) :
          task' = [task EXCEPT ![c] = [NoTask EXCEPT !.phase = "listed", !.v2 = v2,
                                                     !.wants = wants, !.since = deletions]]
    BY <1>1
  <1>3. \A o \in wants : o \in Of("commit") \cup Of("tag") /\ From({o}) \subseteq objects
    BY <1>t, <1>2, AdvertisedIsBacked
  <1>4. wants \subseteq Objects
    BY <1>3 DEF Of
  <1>5. From(wants) \subseteq objects
    BY <1>3, <1>4, FromOne DEF From
  <1> DEFINE u == [NoTask EXCEPT !.phase = "listed", !.v2 = v2, !.wants = wants, !.since = deletions]
  <1>6. /\ u \in Task
        /\ u.phase = "listed" /\ u.wants = wants /\ u.haves = {}
        /\ u.frontier = {} /\ u.walked = {} /\ u.seen = {}
        /\ u.stack = <<>> /\ u.oids = <<>> /\ u.since = deletions
    BY <1>t, <1>4, NoTaskType DEF Task
  <1>8. task' = [task EXCEPT ![c] = u]
    BY <1>2
  <1> HIDE DEF u
  <1>9. /\ task' \in [Clients -> Task] /\ task'[c] = u
        /\ \A d \in Clients : d # c => task'[d] = task[d]
    BY <1>t, <1>6, <1>8 DEF TypeOK
  <1>10. /\ task'[c].phase = "listed" /\ task'[c].wants = wants /\ task'[c].haves = {}
         /\ task'[c].frontier = {} /\ task'[c].walked = {} /\ task'[c].seen = {}
         /\ task'[c].stack = <<>> /\ task'[c].oids = <<>> /\ task'[c].since = deletions
    BY <1>6, <1>9
  <1>11. UNCHANGED <<objects, refs, has, pushes, deletions>> /\ fetches' \in Nat
    BY <1>t DEF ListRefs
  <1>12. Closed(has[c])'
    BY <1>t, <1>11 DEF Good, Closed
  <1>16. Requested(c)'
    <2>1. task'[c].since <= deletions' /\ task'[c].wants \subseteq Of("commit") \cup Of("tag")
      <3>1. wants \subseteq Of("commit") \cup Of("tag")
        BY <1>3
      <3>2. deletions <= deletions
        BY <1>t
      <3> QED
        BY <1>10, <1>11, <3>1, <3>2
    <2>2. From(task'[c].wants) \subseteq objects'
      BY <1>5, <1>10, <1>11
    <2> QED
      BY <1>10, <2>1, <2>2 DEF Requested
  <1>13. Chosen(c)' /\ Walked(c)' /\ Pending(c)'
    BY <1>10, Nothing DEF Chosen, Walked, Pending
  <1>14. Good(c)'
    BY <1>12, <1>13, <1>16 DEF Good
  <1>15. has' \in [Clients -> SUBSET Objects] /\ \A d \in Clients : has'[d] = has[d]
    BY <1>t, <1>11 DEF TypeOK
  <1> QED
    BY <1>t, <1>9, <1>10, <1>11, <1>14, <1>15, OneTask

LEMMA NegotiateGood ==
  ASSUME FetchInv, NEW c \in Clients, Negotiate(c)
  PROVE  FetchInv'
  <1>t. TypeOK /\ Good(c) /\ task[c] \in Task /\ pushes \in Nat /\ fetches \in Nat
    BY TaskType DEF FetchInv, TypeOK
  <1>1. PICK tried \in SUBSET (has[c] \cap Of("commit")) :
          task' = [task EXCEPT ![c].haves = @ \cup {o \in tried : Present(o)}]
    BY DEF Negotiate
  <1> DEFINE more == {o \in tried : Present(o)}
             u == [task[c] EXCEPT !.haves = task[c].haves \cup more]
  <1>2. more \subseteq has[c] \cap Of("commit")
    OBVIOUS
  <1>3. task' = [task EXCEPT ![c] = u]
    BY <1>1
  <1> HIDE DEF more
  <1>4. has[c] \subseteq Objects
    BY <1>t, TaskType
  <1>5. /\ u \in Task
        /\ u.phase = task[c].phase /\ u.wants = task[c].wants /\ u.haves = task[c].haves \cup more
        /\ u.frontier = task[c].frontier /\ u.walked = task[c].walked /\ u.seen = task[c].seen
        /\ u.stack = task[c].stack /\ u.oids = task[c].oids /\ u.since = task[c].since
    BY <1>t, <1>2, <1>4 DEF Task
  <1> HIDE DEF u
  <1>6. /\ task' \in [Clients -> Task] /\ task'[c] = u
        /\ \A d \in Clients : d # c => task'[d] = task[d]
    BY <1>t, <1>3, <1>5 DEF TypeOK
  <1>7. UNCHANGED <<objects, refs, has, pushes, deletions, fetches>> /\ task[c].phase = "listed"
    BY DEF Negotiate
  <1>8. Closed(has[c])' /\ Requested(c)'
    BY <1>t, <1>2, <1>5, <1>6, <1>7 DEF Good, Requested, Undisturbed, Closed
  <1>9. task[c].oids = <<>> /\ task[c].seen = {} /\ task[c].walked = {} /\ task[c].frontier = {} /\ task[c].stack = <<>>
    BY <1>t, <1>7 DEF Good, Requested
  <1>10. Chosen(c)' /\ Walked(c)' /\ Pending(c)'
    <2>1. /\ task'[c].phase = "listed"
          /\ task'[c].oids = <<>> /\ task'[c].seen = {} /\ task'[c].walked = {}
          /\ task'[c].frontier = {} /\ task'[c].stack = <<>>
      BY <1>5, <1>6, <1>7, <1>9
    <2>2. Chosen(c)'
      BY <2>1, Nothing DEF Chosen
    <2>3. Walked(c)' /\ Pending(c)'
      BY <2>1, Nothing DEF Walked, Pending
    <2> QED
      BY <2>2, <2>3
  <1>11. Good(c)'
    BY <1>8, <1>10 DEF Good
  <1>12. has' \in [Clients -> SUBSET Objects] /\ \A d \in Clients : has'[d] = has[d]
    BY <1>t, <1>7 DEF TypeOK
  <1>13. task'[c].haves \subseteq Of("commit") /\ task'[c].walked = {} /\ task'[c].stack = <<>>
    BY <1>t, <1>2, <1>5, <1>6, <1>9, TaskType
  <1> QED
    BY <1>t, <1>6, <1>7, <1>11, <1>12, <1>13, OneTask

LEMMA AskGood ==
  ASSUME FetchInv, NEW c \in Clients, Ask(c)
  PROVE  FetchInv'
  <1>t. TypeOK /\ Good(c) /\ task[c] \in Task /\ pushes \in Nat /\ fetches \in Nat
    BY TaskType DEF FetchInv, TypeOK
  <1>1. PICK more \in SUBSET (has[c] \cap Of("commit")) :
          task' = [task EXCEPT ![c] =
               IF task[c].v2 /\ \E o \in task[c].wants : ~Present(o)
               THEN [task[c] EXCEPT !.phase = "failed"]
               ELSE [task[c] EXCEPT !.phase = "walk", !.haves = task[c].haves \cup more,
                        !.frontier = task[c].wants, !.walked = task[c].wants,
                        !.seen = task[c].haves \cup more]]
    BY DEF Ask
  <1>2. UNCHANGED <<objects, refs, has, pushes, deletions, fetches>> /\ task[c].phase = "listed"
    BY DEF Ask
  <1>3. /\ task[c].oids = <<>> /\ task[c].seen = {} /\ task[c].walked = {} /\ task[c].frontier = {}
        /\ task[c].stack = <<>>
    BY <1>t, <1>2 DEF Good, Requested
  <1>4. has' \in [Clients -> SUBSET Objects] /\ \A d \in Clients : has'[d] = has[d]
    BY <1>t, <1>2 DEF TypeOK
  <1>5. /\ task[c].wants \subseteq Objects /\ task[c].wants \subseteq From(task[c].wants)
        /\ task[c].wants \subseteq Of("commit") \cup Of("tag")
        /\ task[c].haves \cup more \subseteq has[c] \cap Of("commit")
        /\ task[c].haves \cup more \subseteq Objects
    BY <1>t, TaskType, FromIsLeast DEF Good, Requested
  <1>6. CASE task[c].v2 /\ \E o \in task[c].wants : ~Present(o)
    <2> DEFINE u == [task[c] EXCEPT !.phase = "failed"]
    <2>1. task' = [task EXCEPT ![c] = u]
      BY <1>1, <1>6
    <2>2. /\ u \in Task
          /\ u.phase = "failed" /\ u.wants = task[c].wants /\ u.haves = task[c].haves
          /\ u.frontier = {} /\ u.walked = {} /\ u.seen = {}
          /\ u.stack = <<>> /\ u.oids = <<>> /\ u.since = task[c].since
      BY <1>t, <1>3 DEF Task
    <2> HIDE DEF u
    <2>3. /\ task' \in [Clients -> Task] /\ task'[c] = u
          /\ \A d \in Clients : d # c => task'[d] = task[d]
      BY <1>t, <2>1, <2>2 DEF TypeOK
    <2>4. ~Undisturbed(c)
      BY <1>t, <1>5, <1>6 DEF Good, Requested, Present
    <2>5. Closed(has[c])' /\ Requested(c)'
      BY <1>t, <1>2, <1>5, <2>2, <2>3, <2>4 DEF Good, Requested, Undisturbed, Closed
    <2>6. Chosen(c)' /\ Walked(c)' /\ Pending(c)'
      <3>1. /\ task'[c].phase = "failed"
            /\ task'[c].oids = <<>> /\ task'[c].seen = {} /\ task'[c].walked = {}
            /\ task'[c].frontier = {} /\ task'[c].stack = <<>>
        BY <2>2, <2>3
      <3>2. Chosen(c)'
        BY <3>1, Nothing DEF Chosen
      <3>3. Walked(c)' /\ Pending(c)'
        BY <3>1, Nothing DEF Walked, Pending
      <3> QED
        BY <3>2, <3>3
    <2>7. Good(c)'
      BY <2>5, <2>6 DEF Good
    <2>8. task'[c].haves \subseteq Of("commit") /\ task'[c].walked = {} /\ task'[c].stack = <<>>
      BY <1>5, <2>2, <2>3
    <2> QED
      BY <1>t, <1>2, <1>4, <2>3, <2>7, <2>8, OneTask
  <1>7. CASE ~(task[c].v2 /\ \E o \in task[c].wants : ~Present(o))
    <2> DEFINE haves == task[c].haves \cup more
               u == [task[c] EXCEPT !.phase = "walk", !.haves = haves, !.frontier = task[c].wants,
                                    !.walked = task[c].wants, !.seen = haves]
    <2>1. task' = [task EXCEPT ![c] = u]
      BY <1>1, <1>7
    <2>2. haves \subseteq has[c] \cap Of("commit") /\ haves \subseteq Objects
      BY <1>5
    <2> HIDE DEF haves
    <2>3. /\ u \in Task
          /\ u.phase = "walk" /\ u.wants = task[c].wants /\ u.haves = haves
          /\ u.frontier = task[c].wants /\ u.walked = task[c].wants /\ u.seen = haves
          /\ u.stack = <<>> /\ u.oids = <<>> /\ u.since = task[c].since
      BY <1>t, <1>3, <1>5, <2>2 DEF Task
    <2> HIDE DEF u
    <2>4. /\ task' \in [Clients -> Task] /\ task'[c] = u
          /\ \A d \in Clients : d # c => task'[d] = task[d]
      BY <1>t, <2>1, <2>3 DEF TypeOK
    <2>5. Closed(has[c])' /\ Requested(c)'
      BY <1>t, <1>2, <1>5, <2>2, <2>3, <2>4 DEF Good, Requested, Undisturbed, Closed
    <2>6. Chosen(c)' /\ Walked(c)' /\ Pending(c)'
      <3>1. /\ task'[c].phase = "walk" /\ task'[c].oids = <<>> /\ task'[c].stack = <<>>
            /\ task'[c].seen = haves /\ task'[c].haves = haves
            /\ task'[c].wants = task[c].wants /\ task'[c].walked = task[c].wants
            /\ task'[c].frontier = task[c].wants
        BY <2>3, <2>4
      <3>2. Chosen(c)'
        BY <3>1, Nothing DEF Chosen
      <3>3. Walked(c)'
        BY <1>5, <3>1 DEF Walked
      <3>4. Pending(c)'
        BY <3>1, Nothing DEF Pending
      <3> QED
        BY <3>2, <3>3, <3>4
    <2>7. Good(c)'
      BY <2>5, <2>6 DEF Good
    <2>8. /\ task'[c].haves \subseteq Of("commit") /\ task'[c].stack = <<>>
          /\ task'[c].walked \subseteq Of("commit") \cup Of("tag")
      BY <1>5, <2>2, <2>3, <2>4
    <2> QED
      BY <1>t, <1>2, <1>4, <2>4, <2>7, <2>8, OneTask
  <1> QED
    BY <1>6, <1>7
(* An object that was not seen goes into the pack once. *)
LEMMA PackGrows ==
  ASSUME FetchInv, NEW c \in Clients, NEW o \in Objects, o \notin task[c].seen
  PROVE  /\ Append(task[c].oids, o) \in Seq(Objects)
         /\ ToSet(Append(task[c].oids, o)) = ToSet(task[c].oids) \cup {o}
         /\ IsFiniteSet(ToSet(Append(task[c].oids, o)))
         /\ Len(Append(task[c].oids, o)) = Cardinality(ToSet(Append(task[c].oids, o)))
  <1>1. /\ task[c].oids \in Seq(Objects) /\ o \notin ToSet(task[c].oids)
        /\ IsFiniteSet(ToSet(task[c].oids)) /\ Len(task[c].oids) = Cardinality(ToSet(task[c].oids))
    BY TaskType DEF FetchInv, Good, Chosen
  <1>2. /\ Append(task[c].oids, o) \in Seq(Objects)
        /\ Len(Append(task[c].oids, o)) = Len(task[c].oids) + 1
        /\ ToSet(Append(task[c].oids, o)) = ToSet(task[c].oids) \cup {o}
    BY <1>1, SetOfAppend
  <1>3. /\ IsFiniteSet(ToSet(task[c].oids) \cup {o})
        /\ Cardinality(ToSet(task[c].oids) \cup {o}) = Cardinality(ToSet(task[c].oids)) + 1
    BY <1>1, FS_AddElement
  <1> QED
    BY <1>1, <1>2, <1>3

(* A step of the walk leaves what was asked for and what the client has as they are. *)
LEMMA OneWalkStep ==
  ASSUME FetchInv, NEW c \in Clients, NEW u \in Task,
         task[c].phase = "walk", task' = [task EXCEPT ![c] = u],
         UNCHANGED <<objects, refs, has, pushes, deletions, fetches>>,
         u.phase \in {"walk", "answered", "failed"}, u.phase = "failed" => ~Undisturbed(c),
         u.wants = task[c].wants, u.haves = task[c].haves, u.since = task[c].since,
         u.walked \subseteq Of("commit") \cup Of("tag"),
         u.stack # <<>> => u.phase = "walk",
         task'[c] = u => Chosen(c)' /\ Walked(c)' /\ Pending(c)'
  PROVE  FetchInv'
  <1>t. TypeOK /\ Good(c) /\ pushes \in Nat /\ fetches \in Nat /\ task[c].haves \subseteq Of("commit")
    BY TaskType DEF FetchInv, TypeOK
  <1>1. /\ task' \in [Clients -> Task] /\ task'[c] = u
        /\ \A d \in Clients : d # c => task'[d] = task[d]
    BY <1>t DEF TypeOK
  <1>2. has' \in [Clients -> SUBSET Objects] /\ \A d \in Clients : has'[d] = has[d]
    BY <1>t DEF TypeOK
  <1>3. Closed(has[c])' /\ Requested(c)'
    BY <1>t, <1>1 DEF Good, Requested, Undisturbed, Closed
  <1>4. Good(c)'
    BY <1>1, <1>3 DEF Good
  <1> QED
    BY <1>t, <1>1, <1>2, <1>4, OneTask

LEMMA WalkGood ==
  ASSUME FetchInv, NEW c \in Clients, WalkCommit(c)
  PROVE  FetchInv'
  <1>t. TypeOK /\ Good(c) /\ task[c] \in Task
    BY TaskType DEF FetchInv, TypeOK
  <1>a. Requested(c) /\ Chosen(c) /\ Walked(c) /\ Pending(c)
    BY <1>t DEF Good
  <1>s. /\ task[c].wants \subseteq Objects /\ task[c].haves \subseteq Of("commit")
        /\ task[c].frontier \subseteq Objects /\ task[c].walked \subseteq Of("commit") \cup Of("tag")
        /\ task[c].seen \subseteq Objects /\ task[c].oids \in Seq(Objects)
    BY <1>t, TaskType
  <1>0. /\ task[c].phase = "walk" /\ task[c].stack = <<>>
        /\ UNCHANGED <<objects, refs, has, pushes, deletions, fetches>>
    BY DEF WalkCommit
  <1>1. PICK o \in task[c].frontier :
          task' = [task EXCEPT ![c] =
             IF IsYielded(o) /\ o \notin [task[c] EXCEPT
                                  !.frontier = (task[c].frontier \ {o}) \cup Queued(task[c], o),
                                  !.walked = task[c].walked \cup Queued(task[c], o)].seen
             THEN [[task[c] EXCEPT !.frontier = (task[c].frontier \ {o}) \cup Queued(task[c], o),
                                   !.walked = task[c].walked \cup Queued(task[c], o)]
                     EXCEPT !.seen = @ \cup {o}, !.oids = Append(@, o), !.stack = <<Head(Content[o])>>]
             ELSE [task[c] EXCEPT !.frontier = (task[c].frontier \ {o}) \cup Queued(task[c], o),
                                  !.walked = task[c].walked \cup Queued(task[c], o)]]
    BY DEF WalkCommit
  <1> DEFINE queued == Queued(task[c], o)
             w == [task[c] EXCEPT !.frontier = (task[c].frontier \ {o}) \cup queued,
                                  !.walked = task[c].walked \cup queued]
  <1>2. /\ o \in Objects /\ o \in task[c].walked /\ o \in From(task[c].wants)
        /\ From(task[c].wants) \subseteq Objects /\ Closed(From(task[c].wants))
    BY <1>a, <1>s, FromIsLeast DEF Walked
  <1>3. /\ queued \subseteq Of("commit") /\ queued \subseteq Objects
        /\ queued \subseteq From(task[c].wants)
        /\ IsYielded(o) => Parents(o) \subseteq task[c].walked \cup queued
    BY <1>2, PartsOf DEF Queued, IsYielded, Closed, Of
  <1>4. Undisturbed(c) /\ Kind[o] = "commit" => IsYielded(o)
    BY <1>2, <1>a DEF Requested, IsYielded, Present
  <1> HIDE DEF queued
  <1>5. /\ w \in Task
        /\ w.phase = "walk" /\ w.wants = task[c].wants /\ w.haves = task[c].haves
        /\ w.frontier = (task[c].frontier \ {o}) \cup queued /\ w.walked = task[c].walked \cup queued
        /\ w.seen = task[c].seen /\ w.stack = <<>> /\ w.oids = task[c].oids
        /\ w.since = task[c].since
    BY <1>t, <1>0, <1>s, <1>2, <1>3 DEF Task, Of
  <1>6. task' = [task EXCEPT ![c] = IF IsYielded(o) /\ o \notin w.seen
                                    THEN [w EXCEPT !.seen = @ \cup {o}, !.oids = Append(@, o),
                                                   !.stack = <<Head(Content[o])>>]
                                    ELSE w]
    BY <1>1 DEF queued
  <1> HIDE DEF w
  <1>7. Submodules(c)' = Submodules(c) \/ task'[c].wants # task[c].wants
    BY DEF Submodules
  <1>8. CASE ~(IsYielded(o) /\ o \notin task[c].seen)
    <2>1. task' = [task EXCEPT ![c] = w]
      BY <1>5, <1>6, <1>8
    <2>2. ASSUME task'[c] = w PROVE Chosen(c)' /\ Walked(c)' /\ Pending(c)'
      <3>1. Submodules(c)' = Submodules(c)
        BY <1>5, <1>7, <2>2
      <3>2. Chosen(c)'
        BY <1>0, <1>a, <1>5, <2>2, <3>1 DEF Chosen
      <3>3. Walked(c)'
        <4>1. /\ task'[c].frontier \subseteq task'[c].walked
              /\ task'[c].walked \subseteq From(task'[c].wants)
              /\ task'[c].wants \subseteq task'[c].walked
          BY <1>0, <1>a, <1>3, <1>5, <2>2 DEF Walked
        <4>2. ASSUME Undisturbed(c)', NEW p \in task'[c].walked \ task'[c].frontier, Kind[p] = "commit"
              PROVE  p \in task'[c].seen /\ Parents(p) \subseteq task'[c].walked
          <5>1. Undisturbed(c)
            BY <1>0, <1>5, <2>2, <4>2 DEF Undisturbed
          <5>2. CASE p = o
            BY <1>3, <1>4, <1>5, <1>8, <2>2, <4>2, <5>1, <5>2
          <5>3. CASE p # o
            BY <1>a, <1>5, <2>2, <4>2, <5>1, <5>3 DEF Walked
          <5> QED
            BY <5>2, <5>3
        <4> QED
          BY <1>5, <2>2, <4>1, <4>2 DEF Walked
      <3>4. Pending(c)'
        BY <1>0, <1>a, <1>5, <2>2, <3>1 DEF Pending
      <3> QED
        BY <3>2, <3>3, <3>4
    <2> QED
      BY <1>0, <1>s, <1>3, <1>5, <2>1, <2>2, OneWalkStep
  <1>9. CASE IsYielded(o) /\ o \notin task[c].seen
    <2> DEFINE u == [w EXCEPT !.seen = w.seen \cup {o}, !.oids = Append(w.oids, o),
                              !.stack = <<Head(Content[o])>>]
    <2>1. task' = [task EXCEPT ![c] = u]
      BY <1>5, <1>6, <1>9
    <2>2. /\ Kind[o] = "commit" /\ Head(Content[o]) \in Of("tree") /\ Head(Content[o]) \in Objects
          /\ Head(Content[o]) \in From(task[c].wants)
      BY <1>2, <1>9, PartsOf DEF IsYielded, Of, Closed
    <2>3. ToSet(<<Head(Content[o])>>) = {Head(Content[o])} /\ <<Head(Content[o])>> \in Seq(Objects)
      BY <2>2, SetOfOne
    <2>4. /\ Append(task[c].oids, o) \in Seq(Objects)
          /\ ToSet(Append(task[c].oids, o)) = ToSet(task[c].oids) \cup {o}
          /\ IsFiniteSet(ToSet(Append(task[c].oids, o)))
          /\ Len(Append(task[c].oids, o)) = Cardinality(ToSet(Append(task[c].oids, o)))
      BY <1>2, <1>9, PackGrows
    <2> DEFINE more == Append(task[c].oids, o)
               down == <<Head(Content[o])>>
    <2> HIDE DEF more, down
    <2>5. /\ u \in Task
          /\ u.phase = "walk" /\ u.wants = task[c].wants /\ u.haves = task[c].haves
          /\ u.frontier = w.frontier /\ u.walked = w.walked
          /\ u.seen = task[c].seen \cup {o} /\ u.stack = down /\ u.oids = more
          /\ u.since = task[c].since
      BY <1>5, <1>s, <1>2, <2>3, <2>4 DEF Task, more, down
    <2> HIDE DEF u
    <2>6. ASSUME task'[c] = u PROVE Chosen(c)' /\ Walked(c)' /\ Pending(c)'
      <3>1. Submodules(c)' = Submodules(c)
        BY <1>7, <2>5, <2>6
      <3>2. Chosen(c)'
        BY <1>0, <1>a, <1>2, <1>9, <2>4, <2>5, <2>6, <3>1 DEF Chosen, more
      <3>3. Walked(c)'
        <4>1. /\ task'[c].frontier \subseteq task'[c].walked
              /\ task'[c].walked \subseteq From(task'[c].wants)
              /\ task'[c].wants \subseteq task'[c].walked
          BY <1>0, <1>a, <1>3, <1>5, <2>5, <2>6 DEF Walked
        <4>2. ASSUME Undisturbed(c)', NEW p \in task'[c].walked \ task'[c].frontier, Kind[p] = "commit"
              PROVE  p \in task'[c].seen /\ Parents(p) \subseteq task'[c].walked
          <5>1. Undisturbed(c)
            BY <1>0, <2>5, <2>6, <4>2 DEF Undisturbed
          <5>2. CASE p = o
            BY <1>3, <1>5, <1>9, <2>5, <2>6, <4>2, <5>1, <5>2
          <5>3. CASE p # o
            BY <1>a, <1>5, <2>5, <2>6, <4>2, <5>1, <5>3 DEF Walked
          <5> QED
            BY <5>2, <5>3
        <4> QED
          BY <2>5, <2>6, <4>1, <4>2 DEF Walked
      <3>4. Pending(c)'
        <4>1. \A n \in ToSet(task'[c].stack) : n = Head(Content[o]) /\ Kind[n] = "tree"
          BY <2>2, <2>3, <2>5, <2>6 DEF down, Of
        <4>2. ASSUME NEW p \in ToSet(task'[c].oids)
              PROVE  /\ Kind[p] = "commit" => Head(Content[p]) \in task'[c].seen \cup ToSet(task'[c].stack)
                     /\ Kind[p] = "tree" => Parts(p) \subseteq task'[c].seen \cup ToSet(task'[c].stack)
          <5>1. CASE p = o
            BY <2>2, <2>3, <2>5, <2>6, <5>1 DEF down
          <5>2. CASE p # o
            <6>1. p \in ToSet(task[c].oids)
              BY <2>4, <2>5, <2>6, <4>2, <5>2 DEF more
            <6> QED
              BY <1>0, <1>a, <2>5, <2>6, <6>1, SetOfEmpty DEF Pending
          <5> QED
            BY <5>1, <5>2
        <4>3. Head(Content[o]) \in From(task'[c].wants)
          BY <2>2, <2>5, <2>6
        <4> QED
          BY <4>1, <4>2, <4>3 DEF Pending
      <3> QED
        BY <3>2, <3>3, <3>4
    <2>7. u.walked \subseteq Of("commit") \cup Of("tag")
      BY <1>3, <1>5, <1>s, <2>5
    <2> QED
      BY <1>0, <2>1, <2>5, <2>6, <2>7, OneWalkStep
  <1> QED
    BY <1>8, <1>9

LEMMA TreeGood ==
  ASSUME FetchInv, NEW c \in Clients, VisitTree(c)
  PROVE  FetchInv'
  <1>t. TypeOK /\ Good(c) /\ task[c] \in Task
    BY TaskType DEF FetchInv, TypeOK
  <1>a. Requested(c) /\ Chosen(c) /\ Walked(c) /\ Pending(c)
    BY <1>t DEF Good
  <1>s. /\ task[c].wants \subseteq Objects /\ task[c].haves \subseteq Of("commit")
        /\ task[c].frontier \subseteq Objects /\ task[c].walked \subseteq Of("commit") \cup Of("tag")
        /\ task[c].seen \subseteq Objects /\ task[c].oids \in Seq(Objects)
        /\ task[c].stack \in Seq(Objects)
    BY <1>t, TaskType
  <1> DEFINE o == Head(task[c].stack)
             rest == Tail(task[c].stack)
             u == IF o \in task[c].seen THEN [task[c] EXCEPT !.stack = rest]
                  ELSE IF ~Present(o) THEN [task[c] EXCEPT !.phase = "failed", !.stack = <<>>]
                  ELSE [task[c] EXCEPT !.seen = task[c].seen \cup {o}, !.oids = Append(task[c].oids, o),
                                       !.stack = Content[o] \o rest]
  <1>0. /\ task[c].phase = "walk" /\ task[c].stack # <<>> /\ Kind[o] = "tree"
        /\ task' = [task EXCEPT ![c] = u]
        /\ UNCHANGED <<objects, refs, has, pushes, deletions, fetches>>
    BY <1>t, TaskType DEF VisitTree
  <1>1. /\ o \in Objects /\ rest \in Seq(Objects)
        /\ ToSet(task[c].stack) = {o} \cup ToSet(rest)
    BY <1>0, <1>s, SetOfTail
  <1> HIDE DEF o, rest
  <1>2. o \in From(task[c].wants) /\ \A n \in ToSet(rest) : n \in ToSet(task[c].stack)
    BY <1>0, <1>1, <1>a DEF Pending
  <1>3. From(task[c].wants) \subseteq Objects /\ Closed(From(task[c].wants))
    BY <1>s, FromIsLeast
  <1>4. /\ Parts(o) = ToSet(Content[o]) \ Of("commit") /\ Content[o] \in Seq(Objects)
        /\ ToSet(Content[o]) \subseteq Objects \ Of("tag")
        /\ Parts(o) \subseteq From(task[c].wants)
    BY <1>0, <1>1, <1>2, <1>3, PartsOf DEF Closed
  <1>5. ASSUME task'[c].wants = task[c].wants PROVE Submodules(c)' = Submodules(c)
    BY <1>5 DEF Submodules
  <1>6. CASE o \in task[c].seen
    <2>1. /\ u \in Task
          /\ u.phase = "walk" /\ u.wants = task[c].wants /\ u.haves = task[c].haves
          /\ u.frontier = task[c].frontier /\ u.walked = task[c].walked
          /\ u.seen = task[c].seen /\ u.stack = rest /\ u.oids = task[c].oids
          /\ u.since = task[c].since
      BY <1>t, <1>0, <1>1, <1>6 DEF Task
    <2> HIDE DEF u
    <2>2. ASSUME task'[c] = u PROVE Chosen(c)' /\ Walked(c)' /\ Pending(c)'
      <3>1. Submodules(c)' = Submodules(c)
        BY <1>5, <2>1, <2>2
      <3>2. Chosen(c)'
        BY <1>0, <1>a, <2>1, <2>2, <3>1 DEF Chosen
      <3>3. Walked(c)'
        BY <1>0, <1>a, <2>1, <2>2 DEF Walked, Undisturbed
      <3>4. Pending(c)'
        BY <1>0, <1>1, <1>2, <1>6, <1>a, <2>1, <2>2, <3>1 DEF Pending
      <3> QED
        BY <3>2, <3>3, <3>4
    <2> QED
      BY <1>0, <1>s, <2>1, <2>2, OneWalkStep
  <1>7. CASE o \notin task[c].seen /\ ~Present(o)
    <2>1. /\ u \in Task
          /\ u.phase = "failed" /\ u.wants = task[c].wants /\ u.haves = task[c].haves
          /\ u.frontier = task[c].frontier /\ u.walked = task[c].walked
          /\ u.seen = task[c].seen /\ u.stack = <<>> /\ u.oids = task[c].oids
          /\ u.since = task[c].since
      <3>1. u = [task[c] EXCEPT !.phase = "failed", !.stack = <<>>]
        BY <1>7
      <3>2. <<>> \in Seq(Objects)
        OBVIOUS
      <3> HIDE DEF u
      <3> QED
        BY <1>t, <3>1, <3>2 DEF Task
    <2> HIDE DEF u
    <2>2. ~Undisturbed(c)
      BY <1>2, <1>7, <1>a DEF Requested, Present
    <2>3. ASSUME task'[c] = u PROVE Chosen(c)' /\ Walked(c)' /\ Pending(c)'
      <3>1. Submodules(c)' = Submodules(c)
        BY <1>5, <2>1, <2>3
      <3>2. Chosen(c)'
        BY <1>0, <1>a, <2>1, <2>3, <3>1 DEF Chosen
      <3>3. Walked(c)'
        BY <1>0, <1>a, <2>1, <2>3 DEF Walked, Undisturbed
      <3>4. Pending(c)'
        BY <2>1, <2>3, SetOfEmpty DEF Pending
      <3> QED
        BY <3>2, <3>3, <3>4
    <2> QED
      BY <1>0, <1>s, <2>1, <2>2, <2>3, OneWalkStep
  <1>8. CASE o \notin task[c].seen /\ Present(o)
    <2> DEFINE more == Append(task[c].oids, o)
               down == Content[o] \o rest
    <2>1. /\ more \in Seq(Objects) /\ ToSet(more) = ToSet(task[c].oids) \cup {o}
          /\ IsFiniteSet(ToSet(more)) /\ Len(more) = Cardinality(ToSet(more))
      BY <1>1, <1>8, PackGrows
    <2>2. down \in Seq(Objects) /\ ToSet(down) = ToSet(Content[o]) \cup ToSet(rest)
      BY <1>1, <1>4, SetOfConcat
    <2> HIDE DEF more, down
    <2>3. /\ u \in Task
          /\ u.phase = "walk" /\ u.wants = task[c].wants /\ u.haves = task[c].haves
          /\ u.frontier = task[c].frontier /\ u.walked = task[c].walked
          /\ u.seen = task[c].seen \cup {o} /\ u.stack = down /\ u.oids = more
          /\ u.since = task[c].since
      <3>1. u = [task[c] EXCEPT !.seen = task[c].seen \cup {o}, !.oids = more, !.stack = down]
        BY <1>8 DEF more, down
      <3> HIDE DEF u
      <3> QED
        BY <1>t, <1>0, <1>1, <1>s, <2>1, <2>2, <3>1 DEF Task
    <2> HIDE DEF u
    <2>4. ASSUME task'[c] = u PROVE Chosen(c)' /\ Walked(c)' /\ Pending(c)'
      <3>1. Submodules(c)' = Submodules(c)
        BY <1>5, <2>3, <2>4
      <3>2. Chosen(c)'
        <4>1. o \notin task[c].haves
          BY <1>0, <1>8, <1>a DEF Chosen
        <4>2. /\ ToSet(more) \subseteq From(task[c].wants) \ task[c].haves
              /\ ToSet(more) \subseteq task[c].seen \cup {o}
              /\ task[c].seen \cup {o} \subseteq ToSet(more) \cup task[c].haves \cup Submodules(c)
              /\ task[c].haves \subseteq task[c].seen
          BY <1>0, <1>2, <1>a, <2>1, <4>1 DEF Chosen
        <4> QED
          BY <2>1, <2>3, <2>4, <3>1, <4>2 DEF Chosen
      <3>3. Walked(c)'
        BY <1>0, <1>a, <2>3, <2>4 DEF Walked, Undisturbed
      <3>4. ASSUME NEW n \in ToSet(task'[c].stack)
            PROVE  IF Kind[n] = "commit" THEN n \in Submodules(c)
                   ELSE n \in From(task[c].wants) /\ Kind[n] # "tag"
        <4>1. CASE n \in ToSet(rest)
          BY <1>2, <1>a, <4>1 DEF Pending
        <4>2. CASE n \in ToSet(Content[o])
          <5>1. CASE Kind[n] = "commit"
            BY <1>0, <1>1, <1>2, <1>4, <4>2, <5>1 DEF Submodules, Of
          <5>2. CASE Kind[n] # "commit"
            BY <1>4, <4>2, <5>2 DEF Of
          <5> QED
            BY <5>1, <5>2
        <4> QED
          BY <2>2, <2>3, <2>4, <4>1, <4>2
      <3>5. ASSUME NEW p \in ToSet(task'[c].oids)
            PROVE  /\ Kind[p] = "commit" => Head(Content[p]) \in task'[c].seen \cup ToSet(task'[c].stack)
                   /\ Kind[p] = "tree" => Parts(p) \subseteq task'[c].seen \cup ToSet(task'[c].stack)
        <4>1. CASE p = o
          BY <1>0, <1>4, <2>2, <2>3, <2>4, <4>1
        <4>2. CASE p # o
          <5>1. p \in ToSet(task[c].oids)
            BY <2>1, <2>3, <2>4, <3>5, <4>2
          <5>2. task[c].seen \cup ToSet(task[c].stack) \subseteq task'[c].seen \cup ToSet(task'[c].stack)
            BY <1>1, <2>2, <2>3, <2>4
          <5> QED
            BY <1>0, <1>a, <5>1, <5>2 DEF Pending
        <4> QED
          BY <4>1, <4>2
      <3>6. Pending(c)'
        BY <2>3, <2>4, <3>1, <3>4, <3>5 DEF Pending
      <3> QED
        BY <3>2, <3>3, <3>6
    <2> QED
      BY <1>0, <1>s, <2>3, <2>4, OneWalkStep
  <1> QED
    BY <1>6, <1>7, <1>8

LEMMA EntryGood ==
  ASSUME FetchInv, NEW c \in Clients, VisitEntry(c)
  PROVE  FetchInv'
  <1>t. TypeOK /\ Good(c) /\ task[c] \in Task
    BY TaskType DEF FetchInv, TypeOK
  <1>a. Requested(c) /\ Chosen(c) /\ Walked(c) /\ Pending(c)
    BY <1>t DEF Good
  <1>s. /\ task[c].wants \subseteq Objects /\ task[c].haves \subseteq Of("commit")
        /\ task[c].frontier \subseteq Objects /\ task[c].walked \subseteq Of("commit") \cup Of("tag")
        /\ task[c].seen \subseteq Objects /\ task[c].oids \in Seq(Objects)
        /\ task[c].stack \in Seq(Objects)
    BY <1>t, TaskType
  <1> DEFINE o == Head(task[c].stack)
             rest == Tail(task[c].stack)
             more == IF o \notin task[c].seen /\ IsSent(o) THEN Append(task[c].oids, o) ELSE task[c].oids
             u == [task[c] EXCEPT !.stack = rest, !.seen = task[c].seen \cup {o}, !.oids = more]
  <1>0. /\ task[c].phase = "walk" /\ task[c].stack # <<>> /\ Kind[o] # "tree"
        /\ task' = [task EXCEPT ![c] = u]
        /\ UNCHANGED <<objects, refs, has, pushes, deletions, fetches>>
    BY <1>t, TaskType DEF VisitEntry
  <1>1. /\ o \in Objects /\ rest \in Seq(Objects)
        /\ ToSet(task[c].stack) = {o} \cup ToSet(rest)
    BY <1>0, <1>s, SetOfTail
  <1> HIDE DEF o, rest
  <1>2. IF Kind[o] = "commit" THEN o \in Submodules(c)
        ELSE o \in From(task[c].wants) /\ Kind[o] = "blob"
    BY <1>0, <1>1, <1>a, PartsOf DEF Pending, Kinds
  <1>3. /\ more \in Seq(Objects)
        /\ ToSet(more) = ToSet(task[c].oids) \cup
                           (IF o \notin task[c].seen /\ Kind[o] # "commit" THEN {o} ELSE {})
        /\ IsFiniteSet(ToSet(more)) /\ Len(more) = Cardinality(ToSet(more))
    BY <1>1, <1>a, <1>s, PackGrows DEF Chosen, IsSent
  <1> HIDE DEF more
  <1>4. /\ u \in Task
        /\ u.phase = "walk" /\ u.wants = task[c].wants /\ u.haves = task[c].haves
        /\ u.frontier = task[c].frontier /\ u.walked = task[c].walked
        /\ u.seen = task[c].seen \cup {o} /\ u.stack = rest /\ u.oids = more
        /\ u.since = task[c].since
    BY <1>t, <1>0, <1>1, <1>3, <1>s DEF Task
  <1> HIDE DEF u
  <1>5. ASSUME task'[c] = u PROVE Chosen(c)' /\ Walked(c)' /\ Pending(c)'
    <2>1. Submodules(c)' = Submodules(c)
      BY <1>4, <1>5 DEF Submodules
    <2>2. /\ ToSet(task'[c].oids) \subseteq From(task[c].wants) \ task[c].haves
          /\ ToSet(task'[c].oids) \subseteq task'[c].seen
          /\ task'[c].seen \subseteq ToSet(task'[c].oids) \cup task[c].haves \cup Submodules(c)
      <3>1. CASE o \in task[c].seen
        BY <1>3, <1>4, <1>5, <1>a, <3>1 DEF Chosen
      <3>2. CASE o \notin task[c].seen /\ Kind[o] = "commit"
        BY <1>2, <1>3, <1>4, <1>5, <1>a, <3>2 DEF Chosen
      <3>3. CASE o \notin task[c].seen /\ Kind[o] # "commit"
        BY <1>0, <1>2, <1>3, <1>4, <1>5, <1>a, <3>3 DEF Chosen
      <3> QED
        BY <3>1, <3>2, <3>3
    <2>3. Chosen(c)'
      BY <1>0, <1>3, <1>4, <1>5, <1>a, <2>1, <2>2 DEF Chosen
    <2>4. Walked(c)'
      BY <1>0, <1>a, <1>4, <1>5 DEF Walked, Undisturbed
    <2>5. ASSUME NEW p \in ToSet(task'[c].oids)
          PROVE  /\ Kind[p] = "commit" => Head(Content[p]) \in task'[c].seen \cup ToSet(task'[c].stack)
                 /\ Kind[p] = "tree" => Parts(p) \subseteq task'[c].seen \cup ToSet(task'[c].stack)
      <3>1. p \in ToSet(task[c].oids) \/ Kind[p] = "blob"
        BY <1>2, <1>3, <1>4, <1>5, <2>5
      <3>2. task[c].seen \cup ToSet(task[c].stack) = task'[c].seen \cup ToSet(task'[c].stack)
        BY <1>1, <1>4, <1>5
      <3> QED
        BY <1>0, <1>a, <3>1, <3>2 DEF Pending
    <2>6. Pending(c)'
      BY <1>1, <1>4, <1>5, <1>a, <2>1, <2>5 DEF Pending
    <2> QED
      BY <2>3, <2>4, <2>6
  <1> QED
    BY <1>0, <1>s, <1>4, <1>5, OneWalkStep

LEMMA SendGood ==
  ASSUME FetchInv, NEW c \in Clients, SendPack(c)
  PROVE  FetchInv'
  <1>t. TypeOK /\ Good(c) /\ task[c] \in Task
    BY TaskType DEF FetchInv, TypeOK
  <1>a. Requested(c) /\ Chosen(c) /\ Walked(c) /\ Pending(c)
    BY <1>t DEF Good
  <1>s. task[c].wants \subseteq Objects /\ task[c].walked \subseteq Of("commit") \cup Of("tag")
    BY <1>t, TaskType
  <1>0. /\ task[c].phase = "walk" /\ task[c].frontier = {} /\ task[c].stack = <<>>
        /\ UNCHANGED <<objects, refs, has, pushes, deletions, fetches>>
    BY DEF SendPack
  <1>1. PICK phase \in {"answered", "failed"} :
          /\ phase = "failed" => \E o \in ToSet(task[c].oids) : ~Present(o)
          /\ task' = [task EXCEPT ![c].phase = phase]
    BY DEF SendPack
  <1> DEFINE u == [task[c] EXCEPT !.phase = phase]
  <1>2. task' = [task EXCEPT ![c] = u]
    BY <1>1
  <1>3. /\ u \in Task
        /\ u.phase = phase /\ u.wants = task[c].wants /\ u.haves = task[c].haves
        /\ u.frontier = {} /\ u.walked = task[c].walked
        /\ u.seen = task[c].seen /\ u.stack = <<>> /\ u.oids = task[c].oids
        /\ u.since = task[c].since
    BY <1>t, <1>0 DEF Task
  <1> HIDE DEF u
  <1>4. phase = "failed" => ~Undisturbed(c)
    BY <1>1, <1>a DEF Requested, Chosen, Present
  <1>5. ASSUME task'[c] = u PROVE Chosen(c)' /\ Walked(c)' /\ Pending(c)'
    <2>1. Submodules(c)' = Submodules(c)
      BY <1>3, <1>5 DEF Submodules
    <2>2. Chosen(c)'
      BY <1>1, <1>3, <1>5, <1>a, <2>1 DEF Chosen
    <2>3. Walked(c)'
      BY <1>0, <1>3, <1>5, <1>a DEF Walked, Undisturbed
    <2>4. Pending(c)'
      BY <1>0, <1>3, <1>5, <1>a, <2>1 DEF Pending
    <2> QED
      BY <2>2, <2>3, <2>4
  <1> QED
    BY <1>0, <1>1, <1>2, <1>3, <1>4, <1>5, <1>s, OneWalkStep

LEMMA FinishGood ==
  ASSUME FetchInv, NEW c \in Clients, Finish(c)
  PROVE  FetchInv'
  <1>t. TypeOK /\ Good(c) /\ pushes \in Nat /\ fetches \in Nat
    BY DEF FetchInv, TypeOK
  <1>s. task[c].wants \subseteq Objects /\ has[c] \subseteq Objects /\ task[c].oids \in Seq(Objects)
    BY <1>t, TaskType
  <1> DEFINE got == has[c] \cup ToSet(task[c].oids)
             kept == IF task[c].phase = "answered" /\ From(task[c].wants) \subseteq got
                     THEN got ELSE has[c]
  <1>1. /\ has' = [has EXCEPT ![c] = kept]
        /\ task' = [task EXCEPT ![c] = NoTask]
        /\ UNCHANGED <<objects, refs, pushes, deletions, fetches>>
    BY <1>t DEF Finish, TypeOK
  <1>2. got \subseteq Objects /\ ToSet(task[c].oids) \subseteq From(task[c].wants)
    BY <1>t, <1>s, SetOf DEF Good, Chosen
  <1>3. Closed(From(task[c].wants)) /\ Closed(has[c])
    BY <1>t, <1>s, FromIsLeast DEF Good
  <1>4. From(task[c].wants) \subseteq got => Closed(got)
    BY <1>2, <1>3 DEF Closed
  <1>5. kept \subseteq Objects /\ Closed(kept)
    BY <1>s, <1>2, <1>3, <1>4
  <1> HIDE DEF kept
  <1>6. /\ has' \in [Clients -> SUBSET Objects] /\ has'[c] = kept
        /\ \A d \in Clients : d # c => has'[d] = has[d]
    BY <1>t, <1>1, <1>5 DEF TypeOK
  <1>7. /\ task' \in [Clients -> Task] /\ task'[c] = NoTask
        /\ \A d \in Clients : d # c => task'[d] = task[d]
    BY <1>t, <1>1, NoTaskType DEF TypeOK
  <1>8. deletions' \in Nat
    BY <1>t, <1>1 DEF TypeOK
  <1>9. Good(c)'
    <2>1. Closed(has[c])'
      BY <1>5, <1>6 DEF Closed
    <2>2. Requested(c)'
      BY <1>7, <1>8, NoTaskType, Nothing DEF Requested, Undisturbed
    <2>3. Chosen(c)'
      BY <1>7, NoTaskType, Nothing DEF Chosen
    <2>4. Walked(c)'
      BY <1>7, NoTaskType, Nothing DEF Walked
    <2>5. Pending(c)'
      BY <1>7, NoTaskType, Nothing DEF Pending
    <2> QED
      BY <2>1, <2>2, <2>3, <2>4, <2>5 DEF Good
  <1> QED
    BY <1>t, <1>1, <1>6, <1>7, <1>9, NoTaskType, OneTask

(* The repository as RepoRefs implements it: objects may be stored before, or
   without, the ref that is to name them, several tips at a time, and refs vanish. *)
Store == INSTANCE RepoStore WITH
    Tips <- Of("commit") \cup Of("tag"), Absent <- NoRef, Whole <- Reach

Others == Store!Change /\ UNCHANGED <<has, task, pushes, deletions, fetches>>

OpenSpec == Init /\ [][Next \/ Others]_vars

LEMMA ChangeKeepsFetchInv ==
  ASSUME FetchInv, Store!Change, UNCHANGED <<has, task, deletions, fetches>>, pushes' \in Nat
  PROVE  FetchInv'
  <1>t. TypeOK /\ Backed /\ \A c \in Clients : Good(c)
    BY DEF FetchInv
  <1>1. objects \subseteq objects' /\ objects' \subseteq Objects
    <2>1. PICK tips \in SUBSET (Of("commit") \cup Of("tag")) :
            objects' = objects \cup Store!Wholes(tips)
      BY DEF Store!Change
    <2>2. \A o \in tips : Reach[o] \subseteq Objects
      BY FromOne, FromIsLeast DEF Of
    <2> QED
      BY <1>t, <2>1, <2>2 DEF Store!Wholes, TypeOK
  <1>2. CASE Store!Move
    <2>1. PICK r \in Refs, o \in Of("commit") \cup Of("tag") \cup {NoRef} :
            /\ o # NoRef => Reach[o] \subseteq objects'
            /\ refs' = [refs EXCEPT ![r] = o]
      BY <1>2 DEF Store!Move
    <2>2. o \in Objects \cup {NoRef}
      BY <2>1 DEF Of
    <2>3. TypeOK'
      BY <1>t, <1>1, <2>1, <2>2 DEF TypeOK
    <2>4. Backed'
      BY <1>t, <1>1, <2>1 DEF Backed, TypeOK
    <2>5. \A c \in Clients : Good(c)'
      BY <1>t, <1>1, Undamaged
    <2> QED
      BY <2>3, <2>4, <2>5 DEF FetchInv
  <1>3. CASE refs' = refs
    <2>1. TypeOK'
      BY <1>t, <1>1, <1>3 DEF TypeOK
    <2>2. Backed'
      BY <1>t, <1>1, <1>3 DEF Backed
    <2>3. \A c \in Clients : Good(c)'
      BY <1>t, <1>1, Undamaged
    <2> QED
      BY <2>1, <2>2, <2>3 DEF FetchInv
  <1> QED
    BY <1>2, <1>3 DEF Store!Change

LEMMA PushIsChange == ASSUME Push PROVE Store!Change
  <1>1. PICK r \in Refs, o \in Of("commit") \cup Of("tag") :
          refs' = [refs EXCEPT ![r] = o] /\ objects' = objects \cup Reach[o]
    BY DEF Push
  <1>2. objects' = objects \cup Store!Wholes({o})
    BY <1>1 DEF Store!Wholes
  <1>3. Store!Move
    BY <1>1 DEF Store!Move
  <1> QED
    BY <1>1, <1>2, <1>3 DEF Store!Change

LEMMA NextFetchInv == FetchInv /\ [Next \/ Others]_vars => FetchInv'
  <1> SUFFICES ASSUME FetchInv, [Next \/ Others]_vars PROVE FetchInv'
    OBVIOUS
  <1>t. TypeOK /\ Backed /\ \A c \in Clients : Good(c)
    BY DEF FetchInv
  <1>1. CASE Push
    <2>1. pushes \in Nat /\ pushes' = pushes + 1 /\ UNCHANGED <<has, task, deletions, fetches>>
      BY <1>t, <1>1 DEF Push, TypeOK
    <2> QED
      BY <1>1, <2>1, PushIsChange, ChangeKeepsFetchInv
  <1>5. CASE Others
    <2>1. pushes' \in Nat
      BY <1>t, <1>5 DEF Others, TypeOK
    <2> QED
      BY <1>5, <2>1, ChangeKeepsFetchInv DEF Others
  <1>2. CASE Recreate
    <2>1. /\ objects' = {} /\ refs' = [r \in Refs |-> NoRef] /\ deletions' = deletions + 1
          /\ UNCHANGED <<has, task, pushes, fetches>>
      BY <1>2 DEF Recreate
    <2>2. TypeOK'
      BY <1>t, <2>1 DEF TypeOK
    <2>3. Backed'
      BY <2>1 DEF Backed
    <2>4. \A c \in Clients : Good(c)'
      BY <1>t, <2>1, Undamaged
    <2> QED
      BY <2>2, <2>3, <2>4 DEF FetchInv
  <1>3. CASE \E c \in Clients : Step(c)
    BY <1>3, ListGood, NegotiateGood, AskGood, WalkGood, TreeGood, EntryGood, SendGood, FinishGood
    DEF Step
  <1>4. CASE UNCHANGED vars
    <2>1. UNCHANGED <<objects, refs, has, task, pushes, deletions, fetches>>
      BY <1>4 DEF vars
    <2>2. TypeOK'
      BY <1>t, <2>1 DEF TypeOK
    <2>3. Backed'
      BY <1>t, <2>1 DEF Backed
    <2>4. \A c \in Clients : Good(c)'
      BY <1>t, <2>1, Undamaged
    <2> QED
      BY <2>2, <2>3, <2>4 DEF FetchInv
  <1> QED
    BY <1>1, <1>2, <1>3, <1>4, <1>5 DEF Next

LEMMA OpenFetchInv == OpenSpec => []FetchInv
  BY InitFetchInv, NextFetchInv, PTL DEF OpenSpec

LEMMA SpecFetchInv == Spec => []FetchInv
  <1>1. [Next]_vars => [Next \/ Others]_vars
    OBVIOUS
  <1> QED
    BY <1>1, OpenFetchInv, PTL DEF Spec, OpenSpec

(* When the walk is over, what was walked or seen, what the client has and the
   trees of submodules are closed under what objects name. *)
LEMMA AnswerIsWhole ==
  ASSUME FetchInv, NEW c \in Clients, task[c].phase = "answered", Undisturbed(c)
  PROVE  Missing(c) \subseteq From(task[c].wants \cap Of("tag")) \cup Submodules(c)
                                \cup From({Head(Content[o]) : o \in Submodules(c)})
  <1>t. TypeOK /\ Good(c)
    BY DEF FetchInv
  <1>a. Closed(has[c]) /\ Requested(c) /\ Chosen(c) /\ Walked(c) /\ Pending(c)
    BY <1>t DEF Good
  <1>s. /\ task[c].wants \subseteq Objects /\ task[c].haves \subseteq Of("commit")
        /\ task[c].walked \subseteq Of("commit") \cup Of("tag")
        /\ task[c].seen \subseteq Objects /\ has[c] \subseteq Objects
        /\ task[c].frontier = {} /\ task[c].stack = <<>>
        /\ Submodules(c) \subseteq Of("commit")
    BY <1>t, <1>a, TaskType, SubmoduleTypes DEF Walked
  <1> DEFINE heads == {Head(Content[o]) : o \in Submodules(c)}
             commits == task[c].walked \cap Of("commit")
             below == {o \in task[c].seen : Kind[o] \in {"tree", "blob"}}
             Z == commits \cup below \cup has[c] \cup From(heads)
  <1>1. heads \subseteq Objects
    BY <1>s, PartsOf DEF Of
  <1>2. From(heads) \subseteq Objects /\ heads \subseteq From(heads) /\ Closed(From(heads))
    BY <1>1, FromIsLeast
  <1> HIDE DEF heads
  <1>3. \A o \in task[c].seen : o \in ToSet(task[c].oids) \/ o \in task[c].haves \/ o \in Submodules(c)
    BY <1>a DEF Chosen
  <1>4. ASSUME NEW o \in commits PROVE Parts(o) \subseteq Z
    <2>1. Kind[o] = "commit" /\ o \in Objects
      BY <1>4 DEF Of
    <2>2. o \in task[c].seen /\ Parents(o) \subseteq task[c].walked
      BY <1>a, <1>s, <1>4, <2>1 DEF Walked
    <2>3. /\ Head(Content[o]) \in Of("tree") /\ Parents(o) \subseteq Of("commit")
          /\ Parts(o) = {Head(Content[o])} \cup Parents(o)
      BY <2>1, PartsOf
    <2>4. Head(Content[o]) \in Z
      <3>1. CASE o \in ToSet(task[c].oids)
        <4>1. Head(Content[o]) \in task[c].seen \cup ToSet(task[c].stack)
          BY <1>a, <2>1, <3>1 DEF Pending
        <4> QED
          BY <1>s, <2>3, <4>1, SetOfEmpty DEF Of
      <3>2. CASE o \in task[c].haves
        BY <1>a, <2>3, <3>2 DEF Requested, Closed
      <3>3. CASE o \in Submodules(c)
        BY <1>2, <3>3 DEF heads
      <3> QED
        BY <1>3, <2>2, <3>1, <3>2, <3>3
    <2> QED
      BY <2>2, <2>3, <2>4
  <1>5. ASSUME NEW o \in below PROVE Parts(o) \subseteq Z
    <2>1. o \in Objects /\ o \in task[c].seen
      BY <1>s
    <2>2. CASE Kind[o] = "blob"
      BY <2>1, <2>2, PartsOf
    <2>3. CASE Kind[o] = "tree"
      <3>1. o \in ToSet(task[c].oids)
        BY <1>3, <1>s, <2>1, <2>3 DEF Of
      <3>2. Parts(o) \subseteq task[c].seen
        BY <1>a, <1>s, <2>3, <3>1, SetOfEmpty DEF Pending
      <3>3. \A n \in Parts(o) : Kind[n] \in {"tree", "blob"}
        <4> SUFFICES ASSUME NEW n \in Parts(o) PROVE Kind[n] \in {"tree", "blob"}
          OBVIOUS
        <4>1. n \in Objects /\ n \notin Of("commit") /\ n \notin Of("tag")
          BY <2>1, <2>3, PartsOf
        <4>2. Kind[n] \in Kinds
          BY <4>1, PartsOf
        <4> QED
          BY <4>1, <4>2 DEF Of, Kinds
      <3> QED
        BY <3>2, <3>3
    <2> QED
      BY <2>2, <2>3
  <1>6. Closed(Z)
    BY <1>2, <1>4, <1>5, <1>a DEF Closed
  <1>7. Z \subseteq Objects
    BY <1>2, <1>s DEF Of
  <1>8. Z \subseteq has[c] \cup ToSet(task[c].oids) \cup Submodules(c) \cup From(heads)
    <2>1. ASSUME NEW o \in commits PROVE o \in task[c].seen
      BY <1>a, <1>s, <2>1 DEF Walked, Of
    <2>2. task[c].haves \subseteq has[c]
      BY <1>a DEF Requested
    <2> QED
      BY <1>3, <2>1, <2>2
  <1> DEFINE plain == task[c].wants \cap Of("commit")
             tags == task[c].wants \cap Of("tag")
  <1>9. plain \subseteq Z
    BY <1>a DEF Walked
  <1> HIDE DEF Z
  <1>10. From(plain) \subseteq Z
    BY <1>6, <1>7, <1>9, <1>s, FromIsLeast
  <1>11. task[c].wants = plain \cup tags
    BY <1>a DEF Requested
  <1>12. From(task[c].wants) \subseteq From(plain) \cup From(tags)
    BY <1>11 DEF From
  <1> QED
    BY <1>8, <1>10, <1>12 DEF Missing, heads

-----------------------------------------------------------------------------
(* The variables have their types. *)
THEOREM FetchTypeCorrect == Spec => []TypeOK
  <1>1. FetchInv => TypeOK
    BY DEF FetchInv
  <1> QED
    BY <1>1, SpecFetchInv, PTL

(* Whatever is pushed during a fetch and whatever the client claims, the pack holds
   no object twice, none it was told the client has and none that was not asked
   for. *)
THEOREM ExactPacks == Spec => []PackIsExact
  <1>1. FetchInv => PackIsExact
    BY DEF FetchInv, Good, Chosen, PackIsExact
  <1> QED
    BY <1>1, SpecFetchInv, PTL

(* What was listed is served, unless the repository was deleted meanwhile. *)
THEOREM ListedRefsAreServed == Spec => []ListedIsServed
  <1>1. FetchInv => ListedIsServed
    BY DEF FetchInv, Good, Requested, ListedIsServed
  <1> QED
    BY <1>1, SpecFetchInv, PTL

LEMMA AnswersAreWhole == FetchInv => OnlyTagsAndSubmodulesAreMissing
  BY AnswerIsWhole DEF OnlyTagsAndSubmodulesAreMissing

(* With what the client has, a pack is all of what was asked for, but for what only
   annotated tags lead to and for commits that a fetched tree names as submodules,
   with their trees. *)
THEOREM LittleIsMissing == Spec => []OnlyTagsAndSubmodulesAreMissing
  BY AnswersAreWhole, SpecFetchInv, PTL

(* RepoRefsProofs shows that pushes and owner requests implement RepoStore; whatever
   they do that is within it, while objects come before refs, in several packs, and
   refs vanish, a fetch is answered exactly and with all but tags and submodules. *)
THEOREM FetchAmidOthers ==
  OpenSpec => [](PackIsExact /\ ListedIsServed /\ OnlyTagsAndSubmodulesAreMissing)
  <1>1. FetchInv => PackIsExact /\ ListedIsServed
    BY DEF FetchInv, Good, Chosen, Requested, PackIsExact, ListedIsServed
  <1> QED
    BY <1>1, AnswersAreWhole, OpenFetchInv, PTL

(* The two exceptions are the only ones: where there is no annotated tag and no tree
   names a submodule, a client that asks for refs as they were listed gets all of
   what they name, whatever is pushed meanwhile. *)
THEOREM PlainClonesAreComplete ==
  ASSUME Of("tag") = {}, \A o \in Of("tree") : ToSet(Content[o]) \cap Of("commit") = {}
  PROVE  OpenSpec => []CloneIsComplete
  <1>1. \A c \in Clients : Submodules(c) = {}
    BY DEF Submodules
  <1>2. \A c \in Clients : {Head(Content[o]) : o \in Submodules(c)} = {}
    BY <1>1
  <1>3. OnlyTagsAndSubmodulesAreMissing => CloneIsComplete
    BY <1>1, <1>2, Nothing DEF OnlyTagsAndSubmodulesAreMissing, CloneIsComplete
  <1> QED
    BY <1>3, AnswersAreWhole, OpenFetchInv, PTL
=============================================================================
