---------------------------- MODULE AccessProofs ----------------------------
(* Proofs about Access, for every set of handlers and accounts, whatever the
   requests, and any number of bans and faults. *)
EXTENDS Access, TLAPS

-----------------------------------------------------------------------------
(* The invariant: what a request under way knows of its caller.  S is what has
   held of the caller since the request began. *)

IsPush(w) == w.kind = "push" \/ (w.kind = "delete" /\ w.form = "http")
IsDelete(w) == w.kind = "delete" /\ w.form # "http"

Lacks(S, F) == ~(F \subseteq S)
Unbarred(w, S) == \A B \in Bars(w) : Lacks(S, B)
Unentitled(w, S) == \A G \in Grants(w) : Lacks(S, G)
Clear(r, S) == Unbarred(r.wish, S) \/ FailedOpen(r)

(* Which requests come to which step. *)
Stage(r) ==
    LET w == r.wish IN
    /\ r.step = "derive" => w.kind \in {"read", "push"}
    /\ r.step = "alias" => w.kind = "read"
    /\ r.step = "visibility" => w.kind \in {"read", "query", "roster", "check"} \/ IsDelete(w)
    /\ r.step = "ban" => w.kind \in {"read", "query"} \/ IsDelete(w)
    /\ r.step = "member" => w.kind \in {"read", "query", "roster", "check"} \/ IsDelete(w)
    /\ r.step \in {"ban", "member"} => w.actor # Nobody
    /\ r.step \in {"locate", "directory"} => w.kind = "query" \/ IsDelete(w)
    /\ r.step = "path" => w.kind = "read" \/ IsPush(w)
    /\ r.step = "open" => w.kind \in {"read", "push", "query"}
    /\ r.step \in {"pushBan", "pushAlias", "pushRole"} => IsPush(w)
    /\ r.step = "identify" => w.kind \in {"roster", "check"}
    /\ r.step = "role" => w.kind = "check"
    /\ r.step = "lookup" => w.kind = "space"
    /\ r.step = "ownBan" => w.kind = "space" \/ IsDelete(w)
    /\ r.step = "ownAlias" => IsDelete(w)
    /\ r.step = "target" => w.kind = "collab"
    /\ r.step = "change" => w.kind \in {"space", "collab"}
    /\ r.step \in {"removeDir", "purge"} => w.kind = "delete"
    /\ r.step \in {"initBare", "insert", "initial"} => w.kind = "create"

MayAsk(w, S) == w.actor \in {w.subject, Owner} \/ "secret" \notin S \/ "outsider" \notin S

(* What the reads so far have ruled out. *)
Cleared(r, S) ==
    LET w == r.wish IN
    /\ r.step \in {"path", "open", "change", "removeDir", "purge"} => Clear(r, S)
    /\ r.step \in {"locate", "directory", "visibility", "ban", "member"} /\ IsDelete(w)
           => Clear(r, S)
    /\ r.step = "directory" /\ ~r.tracked => Clear(r, S)
    /\ r.step = "member" /\ w.kind \in {"read", "query"} => "banned" \notin S
    /\ r.step \in {"visibility", "member", "role"} /\ w.kind = "check" => "untracked" \notin S
    /\ r.step = "role" => MayAsk(w, S)
    /\ Missing \in r.failed => (w.kind = "query" \/ IsDelete(w)) /\ "stored" \notin S
    /\ r.step \in {"pushAlias", "pushRole"} => "banned" \notin S
    /\ r.step = "pushRole" => "untracked" \notin S
    /\ r.step = "ownBan" /\ w.kind = "space" => w.actor = Owner /\ "untracked" \notin S
    /\ r.step = "ownAlias" => w.actor = Owner /\ "banned" \notin S

(* What they have shown to be missing, if none of them failed. *)
Owed(r, S) ==
    LET w == r.wish IN
    r.failed = {} =>
        /\ ~r.tracked => "tracked" \notin S
        /\ r.step \in {"ban", "member"}
               => "plain" \notin S /\ (w.actor # Owner \/ "tracked" \notin S)
        /\ r.step \in {"visibility", "member"} /\ w.kind = "check" => w.actor # w.subject
        /\ r.step = "pushRole" => w.actor # Owner

Sound(r, S) == Stage(r) /\ Cleared(r, S) /\ Owed(r, S)

RowsOK ==
    /\ tracked \in BOOLEAN
    /\ stored \in BOOLEAN
    /\ visibility \in {"none", "public", "private"}
    /\ members \in [Dids -> Roles \cup {"none"}]
    /\ banned \subseteq Dids

IInv ==
    /\ RowsOK
    /\ req \in [Handlers -> Request]
    /\ steady \in [Handlers -> SUBSET FactNames]
    /\ bans \in Nat
    /\ faults \in Nat
    /\ \A h \in Handlers : Active(h) =>
         /\ steady[h] \subseteq Facts(req[h].wish)
         /\ Sound(req[h], steady[h])

-----------------------------------------------------------------------------
(* What the definitions say. *)

(* Each fact, spelled out. *)
LEMMA FactsMean ==
    ASSUME NEW w
    PROVE  /\ Facts(w) \subseteq FactNames
           /\ "tracked" \in Facts(w) <=> tracked
           /\ "untracked" \in Facts(w) <=> ~tracked
           /\ "stored" \in Facts(w) <=> stored
           /\ "secret" \in Facts(w) <=> tracked /\ IsPrivate
           /\ "plain" \in Facts(w) <=> ~IsPrivate
           /\ "banned" \in Facts(w) <=> IsBanned(Person(w))
           /\ "lawful" \in Facts(w) <=> ~IsBanned(Person(w))
           /\ "member" \in Facts(w) <=> RoleOf(Person(w)) # "none"
           /\ "stranger" \in Facts(w) <=> RoleOf(Person(w)) = "none"
           /\ "writer" \in Facts(w) <=> RoleOf(Person(w)) = "writer"
           /\ "reader" \in Facts(w) <=> RoleOf(Person(w)) # "writer"
           /\ "outsider" \in Facts(w) <=> RoleOf(w.actor) = "none"
           /\ "outsider" \in Facts(w) <=> RoleOf(w.actor) = "none"
BY DEF Facts, Holds, FactNames

LEMMA LacksMean ==
    ASSUME NEW S
    PROVE  /\ ~Lacks(S, {})
           /\ \A a : Lacks(S, {a}) <=> a \notin S
           /\ \A a, b : Lacks(S, {a, b}) <=> a \notin S \/ b \notin S
           /\ \A a, b, c : Lacks(S, {a, b, c}) <=> a \notin S \/ b \notin S \/ c \notin S
BY DEF Lacks

(* The bars, request by request. *)
LEMMA BarsMean ==
    ASSUME NEW w \in Wish, NEW S
    PROVE  /\ w.kind \in {"read", "query"} =>
                (Unbarred(w, S) <=>
                    \/ Owns(w)
                    \/ "secret" \notin S
                    \/ "banned" \notin S /\ "stranger" \notin S)
           /\ w.kind = "roster" =>
                (Unbarred(w, S) <=> Owns(w) \/ "secret" \notin S \/ "stranger" \notin S)
           /\ IsPush(w) =>
                (Unbarred(w, S) <=> /\ "untracked" \notin S
                                    /\ "banned" \notin S
                                    /\ Owns(w) \/ "reader" \notin S)
           /\ w.kind = "check" =>
                (Unbarred(w, S) <=> /\ "untracked" \notin S
                                    /\ Owns(w) \/ "reader" \notin S
                                    /\ MayAsk(w, S))
           /\ w.kind = "space" \/ IsDelete(w) =>
                (Unbarred(w, S) <=> "untracked" \notin S /\ "banned" \notin S /\ Owns(w))
           /\ w.kind = "collab" => (Unbarred(w, S) <=> "untracked" \notin S /\ Owns(w))
           /\ w.kind = "create" => Unbarred(w, S)
<1>1. ASSUME w.kind \in {"read", "query"}
      PROVE  Unbarred(w, S) <=> Owns(w) \/ "secret" \notin S \/ ("banned" \notin S /\ "stranger" \notin S)
  <2>1. Bars(w) = Unless(Owns(w), {{"secret", "banned"}, {"secret", "stranger"}})
    BY <1>1 DEF Bars, IsPush, IsDelete
  <2>2. Unbarred(w, S) <=> Owns(w) \/ (Lacks(S, {"secret", "banned"})
              /\ Lacks(S, {"secret", "stranger"}))
    BY <2>1 DEF Unbarred, Unless
  <2>3. QED
    BY <2>2, LacksMean
<1>2. ASSUME w.kind = "roster"
      PROVE  Unbarred(w, S) <=> Owns(w) \/ "secret" \notin S \/ "stranger" \notin S
  <2>1. Bars(w) = Unless(Owns(w), {{"secret", "stranger"}})
    BY <1>2 DEF Bars, IsPush, IsDelete
  <2>2. Unbarred(w, S) <=> Owns(w) \/ Lacks(S, {"secret", "stranger"})
    BY <2>1 DEF Unbarred, Unless
  <2>3. QED
    BY <2>2, LacksMean
<1>3. ASSUME IsPush(w)
      PROVE  Unbarred(w, S) <=> "untracked" \notin S /\ "banned" \notin S /\ (Owns(w) \/ "reader" \notin S)
  <2>1. Bars(w) = {{"untracked"}, {"banned"}} \cup Unless(Owns(w), {{"reader"}})
    BY <1>3 DEF Bars, IsPush, IsDelete
  <2>2. Unbarred(w, S) <=> Lacks(S, {"untracked"})
              /\ Lacks(S, {"banned"})
              /\ (Owns(w) \/ Lacks(S, {"reader"}))
    BY <2>1 DEF Unbarred, Unless
  <2>3. QED
    BY <2>2, LacksMean
<1>4. ASSUME w.kind = "check"
      PROVE  Unbarred(w, S) <=> /\ "untracked" \notin S
                                /\ Owns(w) \/ "reader" \notin S
                                /\ MayAsk(w, S)
  <2>1. Bars(w) = {{"untracked"}} \cup Unless(Owns(w), {{"reader"}})
                      \cup Unless(w.actor \in {w.subject, Owner}, {{"secret", "outsider"}})
    BY <1>4 DEF Bars, IsPush, IsDelete
  <2>2. Unbarred(w, S) <=> /\ Lacks(S, {"untracked"})
                           /\ Owns(w) \/ Lacks(S, {"reader"})
                           /\ w.actor \in {w.subject, Owner} \/ Lacks(S, {"secret", "outsider"})
    BY <2>1 DEF Unbarred, Unless
  <2>3. QED
    BY <2>2, LacksMean DEF MayAsk
<1>5. ASSUME w.kind = "space" \/ IsDelete(w)
      PROVE  Unbarred(w, S) <=> "untracked" \notin S /\ "banned" \notin S /\ Owns(w)
  <2>1. Bars(w) = {{"untracked"}, {"banned"}} \cup Unless(Owns(w), {{}})
    BY <1>5 DEF Bars, IsPush, IsDelete
  <2>2. Unbarred(w, S) <=> Lacks(S, {"untracked"})
              /\ Lacks(S, {"banned"})
              /\ (Owns(w) \/ Lacks(S, {}))
    BY <2>1 DEF Unbarred, Unless
  <2>3. QED
    BY <2>2, LacksMean
<1>6. ASSUME w.kind = "collab"
      PROVE  Unbarred(w, S) <=> "untracked" \notin S /\ Owns(w)
  <2>1. Bars(w) = {{"untracked"}} \cup Unless(Owns(w), {{}})
    BY <1>6 DEF Bars, IsPush, IsDelete
  <2>2. Unbarred(w, S) <=> Lacks(S, {"untracked"}) /\ (Owns(w) \/ Lacks(S, {}))
    BY <2>1 DEF Unbarred, Unless
  <2>3. QED
    BY <2>2, LacksMean
<1>7. ASSUME w.kind = "create"
      PROVE  Unbarred(w, S) <=> TRUE
  <2>1. Bars(w) = {}
    BY <1>7 DEF Bars, IsPush, IsDelete
  <2>2. QED
    BY <2>1 DEF Unbarred, Unless
<1>8. QED
  BY <1>1, <1>2, <1>3, <1>4, <1>5, <1>6, <1>7

(* The grants, request by request. *)
LEMMA GrantsMean ==
    ASSUME NEW w \in Wish, NEW S
    PROVE  /\ w.kind \in {"read", "query"} =>
                (Unentitled(w, S) <=>
                    \/ "tracked" \notin S
                    \/ "stored" \notin S
                    \/ ~Owns(w) /\ "plain" \notin S /\ ("member" \notin S \/ "lawful" \notin S))
           /\ w.kind = "roster" =>
                (Unentitled(w, S) <=>
                    \/ "tracked" \notin S
                    \/ ~Owns(w) /\ "plain" \notin S /\ "member" \notin S)
           /\ IsPush(w) =>
                (Unentitled(w, S) <=>
                    \/ "tracked" \notin S
                    \/ "stored" \notin S
                    \/ "lawful" \notin S
                    \/ ~Owns(w) /\ "writer" \notin S)
           /\ w.kind = "check" =>
                (Unentitled(w, S) <=>
                    \/ w.actor # w.subject
                    \/ "tracked" \notin S
                    \/ ~Owns(w) /\ "writer" \notin S)
           /\ w.kind = "space" =>
                (Unentitled(w, S) <=> ~Owns(w) \/ "tracked" \notin S \/ "lawful" \notin S)
           /\ IsDelete(w) =>
                (Unentitled(w, S) <=>
                    \/ ~Owns(w)
                    \/ "tracked" \notin S
                    \/ "stored" \notin S
                    \/ "lawful" \notin S)
           /\ w.kind = "collab" => (Unentitled(w, S) <=> ~Owns(w) \/ "tracked" \notin S)
           /\ w.kind = "create" => Unentitled(w, S)
<1>1. ASSUME w.kind \in {"read", "query"}
      PROVE  Unentitled(w, S) <=> "tracked" \notin S \/ "stored" \notin S
                \/ (~Owns(w) /\ "plain" \notin S /\ ("member" \notin S \/ "lawful" \notin S))
  <2>1. Grants(w) = {{"tracked", "stored", "plain"}, {"tracked", "stored", "member", "lawful"}}
                       \cup Unless(~Owns(w), {{"tracked", "stored"}})
    BY <1>1 DEF Grants, IsPush, IsDelete
  <2>2. Unentitled(w, S) <=> Lacks(S, {"tracked", "stored", "plain"})
              /\ Lacks(S, {"tracked", "stored", "member", "lawful"})
              /\ (~Owns(w) \/ Lacks(S, {"tracked", "stored"}))
    BY <2>1 DEF Unentitled, Unless
  <2>3. QED
    BY <2>2 DEF Lacks
<1>2. ASSUME w.kind = "roster"
      PROVE  Unentitled(w, S) <=> "tracked" \notin S \/ (~Owns(w) /\ "plain" \notin S /\ "member" \notin S)
  <2>1. Grants(w) = {{"tracked", "plain"}, {"tracked", "member"}}
                       \cup Unless(~Owns(w), {{"tracked"}})
    BY <1>2 DEF Grants, IsPush, IsDelete
  <2>2. Unentitled(w, S) <=> Lacks(S, {"tracked", "plain"})
              /\ Lacks(S, {"tracked", "member"})
              /\ (~Owns(w) \/ Lacks(S, {"tracked"}))
    BY <2>1 DEF Unentitled, Unless
  <2>3. QED
    BY <2>2, LacksMean
<1>3. ASSUME IsPush(w)
      PROVE  Unentitled(w, S) <=> "tracked" \notin S \/ "stored" \notin S \/ "lawful" \notin S
                \/ (~Owns(w) /\ "writer" \notin S)
  <2>1. Grants(w) = {{"tracked", "stored", "lawful", "writer"}}
                       \cup Unless(~Owns(w), {{"tracked", "stored", "lawful"}})
    BY <1>3 DEF Grants, IsPush, IsDelete
  <2>2. Unentitled(w, S) <=> Lacks(S, {"tracked", "stored", "lawful", "writer"})
              /\ (~Owns(w) \/ Lacks(S, {"tracked", "stored", "lawful"}))
    BY <2>1 DEF Unentitled, Unless
  <2>3. QED
    BY <2>2 DEF Lacks
<1>4. ASSUME w.kind = "check"
      PROVE  Unentitled(w, S) <=> w.actor # w.subject \/ "tracked" \notin S
                \/ (~Owns(w) /\ "writer" \notin S)
  <2>1. Grants(w) = Unless(w.actor # w.subject,
                           {{"tracked", "writer"}} \cup Unless(~Owns(w), {{"tracked"}}))
    BY <1>4 DEF Grants, IsPush, IsDelete
  <2>2. Unentitled(w, S) <=> w.actor # w.subject \/ (Lacks(S, {"tracked", "writer"})
              /\ (~Owns(w) \/ Lacks(S, {"tracked"})))
    BY <2>1 DEF Unentitled, Unless
  <2>3. QED
    BY <2>2, LacksMean
<1>5. ASSUME w.kind = "space"
      PROVE  Unentitled(w, S) <=> ~Owns(w) \/ "tracked" \notin S \/ "lawful" \notin S
  <2>1. Grants(w) = Unless(~Owns(w), {{"tracked", "lawful"}})
    BY <1>5 DEF Grants, IsPush, IsDelete
  <2>2. Unentitled(w, S) <=> ~Owns(w) \/ Lacks(S, {"tracked", "lawful"})
    BY <2>1 DEF Unentitled, Unless
  <2>3. QED
    BY <2>2, LacksMean
<1>6. ASSUME IsDelete(w)
      PROVE  Unentitled(w, S) <=> ~Owns(w) \/ "tracked" \notin S \/ "stored" \notin S \/ "lawful" \notin S
  <2>1. Grants(w) = Unless(~Owns(w), {{"tracked", "stored", "lawful"}})
    BY <1>6 DEF Grants, IsPush, IsDelete
  <2>2. Unentitled(w, S) <=> ~Owns(w) \/ Lacks(S, {"tracked", "stored", "lawful"})
    BY <2>1 DEF Unentitled, Unless
  <2>3. QED
    BY <2>2, LacksMean
<1>7. ASSUME w.kind = "collab"
      PROVE  Unentitled(w, S) <=> ~Owns(w) \/ "tracked" \notin S
  <2>1. Grants(w) = Unless(~Owns(w), {{"tracked"}})
    BY <1>7 DEF Grants, IsPush, IsDelete
  <2>2. Unentitled(w, S) <=> ~Owns(w) \/ Lacks(S, {"tracked"})
    BY <2>1 DEF Unentitled, Unless
  <2>3. QED
    BY <2>2, LacksMean
<1>8. ASSUME w.kind = "create"
      PROVE  Unentitled(w, S) <=> TRUE
  <2>1. Grants(w) = {}
    BY <1>8 DEF Grants, IsPush, IsDelete
  <2>2. QED
    BY <2>1 DEF Unentitled, Unless
<1>9. QED
  BY <1>1, <1>2, <1>3, <1>4, <1>5, <1>6, <1>7, <1>8

(* What was ruled out stays ruled out. *)
LEMMA SoundShrinks ==
    ASSUME NEW r, NEW S, NEW T \in SUBSET S, Sound(r, S)
    PROVE  Sound(r, T)
<1>1. Clear(r, S) => Clear(r, T)
  BY DEF Clear, Unbarred, Lacks
<1>2. MayAsk(r.wish, S) => MayAsk(r.wish, T)
  BY DEF MayAsk
<1>3. QED
  BY <1>1, <1>2 DEF Sound, Stage, Cleared, Owed

LEMMA MissingIsNoRead == Missing \notin Reads
BY DEF Missing, Reads

LEMMA OnwardType ==
    ASSUME NEW r \in Request, NEW s \in Steps
    PROVE  /\ Onward(r, s) \in Request
           /\ Onward(r, s).step = s
           /\ s \notin Ended => Onward(r, s) = [r EXCEPT !.step = s]
<1>1. NoWish \in Wish
  BY AccessAssumption DEF NoWish, Wish, Kinds, Forms, Changes
<1>2. NoRequest \in Request
  BY <1>1 DEF NoRequest, Request, Steps
<1>3. QED
  BY <1>2 DEF Onward, Request

-----------------------------------------------------------------------------
(* Steps. *)

LEMMA TypeFromInv == IInv => TypeOK
BY DEF IInv, RowsOK, TypeOK, Sound, Stage, Active, Ended

LEMMA FactsKept ==
    ASSUME UNCHANGED rows
    PROVE  \A w : Facts(w)' = Facts(w)
BY DEF rows, Facts, Holds, IsPrivate, IsBanned, RoleOf

(* A step by which h comes to q preserves the invariant if q is sound. *)
LEMMA StepTo ==
    ASSUME IInv, NEW h \in Handlers, NEW q \in Request,
           req' = [req EXCEPT ![h] = q],
           RowsOK', bans' \in Nat, faults' \in Nat,
           Active(h),
           OnlyReads(h) \/ Observe,
           q.step # "idle",
           q.step \notin Ended => q.wish = req[h].wish /\ Sound(q, steady[h])
    PROVE  IInv'
<1>1. steady' \in [Handlers -> SUBSET FactNames]
  BY DEF IInv, OnlyReads, Observe
<1>2. req' \in [Handlers -> Request]
  BY DEF IInv
<1>3. ASSUME NEW g \in Handlers, Active(g)'
      PROVE  /\ steady'[g] \subseteq Facts(req[g].wish)'
             /\ Sound(req'[g], steady'[g])
  <2>1. req[g].wish = req'[g].wish /\ Active(g) /\ Sound(req'[g], steady[g])
    BY <1>3 DEF IInv, Active, Ended
  <2>2. steady'[g] \subseteq steady[g] /\ steady'[g] \subseteq Facts(req[g].wish)'
    <3>1. CASE OnlyReads(h)
      <4>1. steady'[g] = steady[g]
        BY <1>3, <3>1 DEF OnlyReads, IInv
      <4>2. steady[g] \subseteq Facts(req[g].wish)
        BY <2>1 DEF IInv
      <4>3. Facts(req[g].wish)' = Facts(req[g].wish)
        BY <3>1, <2>1, FactsKept DEF OnlyReads
      <4>4. QED
        BY <4>1, <4>2, <4>3
    <3>2. CASE Observe
      BY <1>3, <3>2 DEF Observe
    <3>3. QED
      BY <3>1, <3>2
  <2>3. steady'[g] \in SUBSET steady[g]
    BY <2>2
  <2>4. QED
    BY <2>1, <2>2, <2>3, SoundShrinks
<1>4. QED
  BY <1>1, <1>2, <1>3 DEF IInv

(* What is known of a request under way. *)
LEMMA Known ==
    ASSUME IInv, NEW h \in Handlers, Active(h)
    PROVE  /\ RowsOK
           /\ req[h] \in Request
           /\ req[h].wish \in Wish
           /\ req[h].step \in Steps
           /\ steady[h] \in SUBSET FactNames
           /\ Sound(req[h], steady[h])
           /\ "tracked" \in steady[h] => tracked
           /\ "untracked" \in steady[h] => ~tracked
           /\ "stored" \in steady[h] => stored
           /\ "secret" \in steady[h] => tracked /\ IsPrivate
           /\ "plain" \in steady[h] => ~IsPrivate
           /\ "banned" \in steady[h] => IsBanned(Person(req[h].wish))
           /\ "lawful" \in steady[h] => ~IsBanned(Person(req[h].wish))
           /\ "member" \in steady[h] => RoleOf(Person(req[h].wish)) # "none"
           /\ "stranger" \in steady[h] => RoleOf(Person(req[h].wish)) = "none"
           /\ "writer" \in steady[h] => RoleOf(Person(req[h].wish)) = "writer"
           /\ "reader" \in steady[h] => RoleOf(Person(req[h].wish)) # "writer"
           /\ "outsider" \in steady[h] => RoleOf(req[h].wish.actor) = "none"
<1>1. req[h] \in Request /\ steady[h] \in SUBSET FactNames
  BY DEF IInv
<1>2. req[h].wish \in Wish /\ req[h].step \in Steps
  BY <1>1 DEF Request
<1>3. steady[h] \subseteq Facts(req[h].wish) /\ Sound(req[h], steady[h]) /\ RowsOK
  BY DEF IInv
<1>4. QED
  BY <1>1, <1>2, <1>3, FactsMean

LEMMA GotoStep ==
    ASSUME IInv, NEW h \in Handlers, NEW s \in Steps, Active(h), s # "idle",
           Goto(h, s), OnlyReads(h) \/ (Observe /\ RowsOK'),
           s \notin Ended => Sound([req[h] EXCEPT !.step = s], steady[h])
    PROVE  IInv'
<1> DEFINE q == Onward(req[h], s)
<1>1. req[h] \in Request
  BY Known
<1>2. q \in Request /\ q.step = s /\ (s \notin Ended => q = [req[h] EXCEPT !.step = s])
  BY <1>1, OnwardType
<1>3. req' = [req EXCEPT ![h] = q] /\ bans' = bans /\ faults' = faults
  BY DEF Goto
<1>4. s \notin Ended => q.wish = req[h].wish /\ Sound(q, steady[h])
  BY <1>1, <1>2 DEF Request
<1>5. RowsOK' /\ bans' \in Nat /\ faults' \in Nat
  BY <1>3 DEF OnlyReads, rows, RowsOK, IInv
<1> HIDE DEF q
<1>6. QED
  BY <1>2, <1>3, <1>4, <1>5, StepTo

LEMMA FailsStep ==
    ASSUME IInv, NEW h \in Handlers, NEW read \in Reads, NEW s \in Steps, Active(h), s # "idle",
           Fails(h, read, s), OnlyReads(h),
           s \notin Ended =>
               Sound([Failing(req[h], read) EXCEPT !.step = s], steady[h])
    PROVE  IInv'
<1> DEFINE p == Failing(req[h], read)
<1> DEFINE q == Onward(p, s)
<1>1. req[h] \in Request
  BY Known
<1>2. p \in Request
  BY <1>1 DEF Request, Failing
<1>3. q \in Request /\ q.step = s /\ (s \notin Ended => q = [p EXCEPT !.step = s])
  BY <1>2, OnwardType
<1>4. req' = [req EXCEPT ![h] = q] /\ bans' = bans /\ faults' = faults + 1
  BY <1>1 DEF Fails, IInv
<1>5. s \notin Ended => q.wish = req[h].wish /\ Sound(q, steady[h])
  BY <1>1, <1>3 DEF Request, Failing
<1>6. RowsOK' /\ bans' \in Nat /\ faults' \in Nat
  BY <1>4 DEF OnlyReads, rows, RowsOK, IInv
<1> HIDE DEF p, q
<1>7. QED
  BY <1>3, <1>4, <1>5, <1>6, StepTo

LEMMA QueryStep ==
    ASSUME IInv, NEW h \in Handlers, NEW read \in Reads, NEW s \in Steps \ {"idle"},
           NEW t \in Ended, Active(h), Query(h, read, s, t),
           s \notin Ended => Sound([req[h] EXCEPT !.step = s], steady[h])
    PROVE  IInv'
<1>1. t \in Steps /\ t # "idle"
  BY DEF Ended, Steps
<1>2. CASE Goto(h, s)
  BY <1>2, GotoStep DEF Query
<1>3. CASE Fails(h, read, t)
  BY <1>1, <1>3, FailsStep DEF Query
<1>4. QED
  BY <1>2, <1>3 DEF Query

LEMMA DeriveKeeps == ASSUME IInv, NEW h \in Handlers, Derive(h) PROVE IInv'
<1> DEFINE s == IF ~tracked THEN "refused"
                ELSE IF req[h].wish.kind = "read" THEN "alias" ELSE "pushBan"
<1>1. Active(h)
  BY DEF Derive, At, Active, Ended
<1>2. s \notin Ended => Sound([req[h] EXCEPT !.step = s], steady[h])
  BY <1>1, Known DEF Derive, At, Sound, Stage, Cleared, Owed, Request, Ended, IsPush, IsDelete
<1>3. s \in Steps \ {"idle"} /\ "derive" \in Reads /\ "refused" \in Ended
  BY DEF Steps, Reads, Ended
<1>4. Query(h, "derive", s, "refused")
  BY DEF Derive
<1> HIDE DEF s
<1>5. QED
  BY <1>1, <1>2, <1>3, <1>4, QueryStep

LEMMA PassedType == ASSUME NEW w \in Wish PROVE Passed(w) \in Steps \ {"idle"}
BY DEF Passed, Steps

LEMMA BanKeeps == ASSUME IInv, NEW h \in Handlers, ReadBan(h) PROVE IInv'
<1> DEFINE w == req[h].wish
<1> DEFINE s == IF IsBanned(w.actor) THEN "refused" ELSE "member"
<1>1. Active(h) /\ req[h].step = "ban"
  BY DEF ReadBan, At, Active, Ended
<1>2. w \in Wish
  BY <1>1, Known
<1>3. s \in Steps \ {"idle"} /\ "ban" \in Reads /\ "refused" \in Ended
  BY <1>2, PassedType DEF Steps, Reads, Ended
<1>4. s \notin Ended => Sound([req[h] EXCEPT !.step = s], steady[h])
  BY <1>1, <1>2, Known DEF At, Sound, Stage, Cleared, Owed, Request, Ended, IsPush, IsDelete, Person, Clear, FailedOpen, Unbarred
<1>5. Query(h, "ban", s, "refused")
  BY DEF ReadBan
<1> HIDE DEF s
<1>6. QED
  BY <1>1, <1>3, <1>4, <1>5, QueryStep

LEMMA MemberKeeps == ASSUME IInv, NEW h \in Handlers, ReadMember(h) PROVE IInv'
<1> DEFINE w == req[h].wish
<1> DEFINE s == IF RoleOf(w.actor) # "none" THEN Passed(w) ELSE "refused"
<1>1. Active(h) /\ req[h].step = "member"
  BY DEF ReadMember, At, Active, Ended
<1>2. w \in Wish
  BY <1>1, Known
<1>3. s \in Steps \ {"idle"} /\ "member" \in Reads /\ "refused" \in Ended
  BY <1>2, PassedType DEF Steps, Reads, Ended
<1>4. s \notin Ended => Sound([req[h] EXCEPT !.step = s], steady[h])
  <2>1. CASE RoleOf(w.actor) = "none"
    BY <1>1, <1>2, <2>1, Known, BarsMean, AccessAssumption
    DEF At, Sound, Stage, Cleared, Owed, Request, Ended, IsPush, IsDelete, Clear, Owns, Person,
        RoleOf, RowsOK, Roles, Wish, Kinds, Passed, FailedOpen
  <2>2. CASE RoleOf(w.actor) # "none" /\ w.kind \in {"read", "query"}
    BY <1>1, <1>2, <2>2, Known, BarsMean, AccessAssumption
    DEF At, Sound, Stage, Cleared, Owed, Request, Ended, IsPush, IsDelete, Clear, Owns, Person,
        RoleOf, RowsOK, Roles, Wish, Kinds, Passed, FailedOpen
  <2>3. CASE RoleOf(w.actor) # "none" /\ w.kind = "roster"
    BY <1>1, <1>2, <2>3, Known, BarsMean, AccessAssumption
    DEF At, Sound, Stage, Cleared, Owed, Request, Ended, IsPush, IsDelete, Clear, Owns, Person,
        RoleOf, RowsOK, Roles, Wish, Kinds, Passed, FailedOpen
  <2>4. CASE RoleOf(w.actor) # "none" /\ w.kind = "check"
    BY <1>1, <1>2, <2>4, Known, BarsMean, AccessAssumption
    DEF At, Sound, Stage, Cleared, Owed, Request, Ended, IsPush, IsDelete, Clear, Owns, Person,
        RoleOf, RowsOK, Roles, Wish, Kinds, Passed, FailedOpen, MayAsk
  <2>5. CASE RoleOf(w.actor) # "none" /\ IsDelete(w)
    BY <1>1, <1>2, <2>5, Known, BarsMean, AccessAssumption
    DEF At, Sound, Stage, Cleared, Owed, Request, Ended, IsPush, IsDelete, Clear, Owns, Person,
        RoleOf, RowsOK, Roles, Wish, Kinds, Passed, FailedOpen
  <2>6. w.kind \in {"read", "query", "roster", "check"} \/ IsDelete(w)
    BY <1>1, Known DEF Sound, Stage
  <2> QED
    BY <2>1, <2>2, <2>3, <2>4, <2>5, <2>6
<1>5. Query(h, "member", s, "refused")
  BY DEF ReadMember
<1> HIDE DEF s
<1>6. QED
  BY <1>1, <1>3, <1>4, <1>5, QueryStep

LEMMA PathKeeps == ASSUME IInv, NEW h \in Handlers, ResolvePath(h) PROVE IInv'
<1> DEFINE w == req[h].wish
<1> DEFINE s == IF ~tracked THEN "refused"
                ELSE IF w.kind = "delete" THEN "removeDir" ELSE "open"
<1>1. Active(h) /\ req[h].step = "path"
  BY DEF ResolvePath, At, Active, Ended
<1>2. w \in Wish
  BY <1>1, Known
<1>3. s \in Steps \ {"idle"} /\ "path" \in Reads /\ "refused" \in Ended
  BY <1>2, PassedType DEF Steps, Reads, Ended
<1>4. s \notin Ended => Sound([req[h] EXCEPT !.step = s], steady[h])
  BY <1>1, <1>2, Known DEF At, Sound, Stage, Cleared, Owed, Request, Ended, IsPush, IsDelete, Clear, FailedOpen
<1>5. Query(h, "path", s, "refused")
  BY DEF ResolvePath
<1> HIDE DEF s
<1>6. QED
  BY <1>1, <1>3, <1>4, <1>5, QueryStep

LEMMA PushAliasKeeps == ASSUME IInv, NEW h \in Handlers, ReadPushAlias(h) PROVE IInv'
<1> DEFINE w == req[h].wish
<1> DEFINE s == IF ~tracked THEN "refused"
                ELSE IF w.actor = Owner THEN Passed(w) ELSE "pushRole"
<1>1. Active(h) /\ req[h].step = "pushAlias"
  BY DEF ReadPushAlias, At, Active, Ended
<1>2. w \in Wish
  BY <1>1, Known
<1>3. s \in Steps \ {"idle"} /\ "alias" \in Reads /\ "refused" \in Ended
  BY <1>2, PassedType DEF Steps, Reads, Ended
<1>4. s \notin Ended => Sound([req[h] EXCEPT !.step = s], steady[h])
  <2>1. CASE ~tracked
    BY <1>1, <1>2, <2>1, Known, BarsMean, AccessAssumption
    DEF At, Sound, Stage, Cleared, Owed, Request, Ended, IsPush, IsDelete, Clear, Owns, Person,
        RoleOf, RowsOK, Roles, Wish, Kinds, Passed
  <2>2. CASE tracked /\ w.actor = Owner
    BY <1>1, <1>2, <2>2, Known, BarsMean, AccessAssumption
    DEF At, Sound, Stage, Cleared, Owed, Request, Ended, IsPush, IsDelete, Clear, Owns, Person,
        RoleOf, RowsOK, Roles, Wish, Kinds, Passed
  <2>3. CASE tracked /\ w.actor # Owner
    BY <1>1, <1>2, <2>3, Known, BarsMean, AccessAssumption
    DEF At, Sound, Stage, Cleared, Owed, Request, Ended, IsPush, IsDelete, Clear, Owns, Person,
        RoleOf, RowsOK, Roles, Wish, Kinds, Passed
  <2> QED
    BY <2>1, <2>2, <2>3
<1>5. Query(h, "alias", s, "refused")
  BY DEF ReadPushAlias
<1> HIDE DEF s
<1>6. QED
  BY <1>1, <1>3, <1>4, <1>5, QueryStep

LEMMA PushRoleKeeps == ASSUME IInv, NEW h \in Handlers, ReadPushRole(h) PROVE IInv'
<1> DEFINE w == req[h].wish
<1> DEFINE s == IF RoleOf(w.actor) = "writer" THEN Passed(w) ELSE "refused"
<1>1. Active(h) /\ req[h].step = "pushRole"
  BY DEF ReadPushRole, At, Active, Ended
<1>2. w \in Wish
  BY <1>1, Known
<1>3. s \in Steps \ {"idle"} /\ "role" \in Reads /\ "refused" \in Ended
  BY <1>2, PassedType DEF Steps, Reads, Ended
<1>4. s \notin Ended => Sound([req[h] EXCEPT !.step = s], steady[h])
  <2>1. CASE RoleOf(w.actor) # "writer"
    BY <1>1, <1>2, <2>1, Known, BarsMean, AccessAssumption
    DEF At, Sound, Stage, Cleared, Owed, Request, Ended, IsPush, IsDelete, Clear, Owns, Person,
        RoleOf, RowsOK, Roles, Wish, Kinds, Passed
  <2>2. CASE RoleOf(w.actor) = "writer" /\ w.kind = "push"
    BY <1>1, <1>2, <2>2, Known, BarsMean, AccessAssumption
    DEF At, Sound, Stage, Cleared, Owed, Request, Ended, IsPush, IsDelete, Clear, Owns, Person,
        RoleOf, RowsOK, Roles, Wish, Kinds, Passed
  <2>3. CASE RoleOf(w.actor) = "writer" /\ w.kind = "delete"
    BY <1>1, <1>2, <2>3, Known, BarsMean, AccessAssumption
    DEF At, Sound, Stage, Cleared, Owed, Request, Ended, IsPush, IsDelete, Clear, Owns, Person,
        RoleOf, RowsOK, Roles, Wish, Kinds, Passed
  <2>4. w.kind \in {"push", "delete"}
    BY <1>1, Known DEF Sound, Stage, IsPush
  <2> QED
    BY <2>1, <2>2, <2>3, <2>4
<1>5. Query(h, "role", s, "refused")
  BY DEF ReadPushRole
<1> HIDE DEF s
<1>6. QED
  BY <1>1, <1>3, <1>4, <1>5, QueryStep

LEMMA IdentifyKeeps == ASSUME IInv, NEW h \in Handlers, Identify(h) PROVE IInv'
<1> DEFINE w == req[h].wish
<1> DEFINE s == IF ~tracked THEN "refused"
                ELSE IF w.kind = "check" /\ w.actor = w.subject THEN "role" ELSE "visibility"
<1>1. Active(h) /\ req[h].step = "identify"
  BY DEF Identify, At, Active, Ended
<1>2. w \in Wish
  BY <1>1, Known
<1>3. s \in Steps \ {"idle"} /\ "alias" \in Reads /\ "refused" \in Ended
  BY <1>2, PassedType DEF Steps, Reads, Ended
<1>4. s \notin Ended => Sound([req[h] EXCEPT !.step = s], steady[h])
  BY <1>1, <1>2, Known DEF At, Sound, Stage, Cleared, Owed, Request, Ended, IsPush, IsDelete, MayAsk
<1>5. Query(h, "alias", s, "refused")
  BY DEF Identify
<1> HIDE DEF s
<1>6. QED
  BY <1>1, <1>3, <1>4, <1>5, QueryStep

LEMMA OwnerKeeps == ASSUME IInv, NEW h \in Handlers, LookUpOwner(h) PROVE IInv'
<1> DEFINE w == req[h].wish
<1> DEFINE s == IF tracked /\ w.actor = Owner THEN "ownBan" ELSE "refused"
<1>1. Active(h) /\ req[h].step = "lookup"
  BY DEF LookUpOwner, At, Active, Ended
<1>2. w \in Wish
  BY <1>1, Known
<1>3. s \in Steps \ {"idle"} /\ "alias" \in Reads /\ "refused" \in Ended
  BY <1>2, PassedType DEF Steps, Reads, Ended
<1>4. s \notin Ended => Sound([req[h] EXCEPT !.step = s], steady[h])
  BY <1>1, <1>2, Known DEF At, Sound, Stage, Cleared, Owed, Request, Ended, IsPush, IsDelete
<1>5. Query(h, "alias", s, "refused")
  BY DEF LookUpOwner
<1> HIDE DEF s
<1>6. QED
  BY <1>1, <1>3, <1>4, <1>5, QueryStep

LEMMA OwnAliasKeeps == ASSUME IInv, NEW h \in Handlers, ReadOwnAlias(h) PROVE IInv'
<1> DEFINE w == req[h].wish
<1> DEFINE s == IF tracked THEN "locate" ELSE "refused"
<1>1. Active(h) /\ req[h].step = "ownAlias"
  BY DEF ReadOwnAlias, At, Active, Ended
<1>2. w \in Wish
  BY <1>1, Known
<1>3. s \in Steps \ {"idle"} /\ "alias" \in Reads /\ "refused" \in Ended
  BY <1>2, PassedType DEF Steps, Reads, Ended
<1>4. s \notin Ended => Sound([req[h] EXCEPT !.step = s], steady[h])
  BY <1>1, <1>2, Known, BarsMean, AccessAssumption DEF At, Sound, Stage, Cleared, Owed, Request, Ended, IsPush, IsDelete, Clear, Owns, Person, IsBanned, IsPrivate, RoleOf, RowsOK, Roles, Wish, Kinds
<1>5. Query(h, "alias", s, "refused")
  BY DEF ReadOwnAlias
<1> HIDE DEF s
<1>6. QED
  BY <1>1, <1>3, <1>4, <1>5, QueryStep

LEMMA TargetKeeps == ASSUME IInv, NEW h \in Handlers, ReadTarget(h) PROVE IInv'
<1> DEFINE w == req[h].wish
<1> DEFINE s == IF tracked /\ w.actor = Owner THEN "change" ELSE "refused"
<1>1. Active(h) /\ req[h].step = "target"
  BY DEF ReadTarget, At, Active, Ended
<1>2. w \in Wish
  BY <1>1, Known
<1>3. s \in Steps \ {"idle"} /\ "alias" \in Reads /\ "refused" \in Ended
  BY <1>2, PassedType DEF Steps, Reads, Ended
<1>4. s \notin Ended => Sound([req[h] EXCEPT !.step = s], steady[h])
  BY <1>1, <1>2, Known, BarsMean, AccessAssumption DEF At, Sound, Stage, Cleared, Owed, Request, Ended, IsPush, IsDelete, Clear, Owns, Person, IsBanned, IsPrivate, RoleOf, RowsOK, Roles, Wish, Kinds
<1>5. Query(h, "alias", s, "refused")
  BY DEF ReadTarget
<1> HIDE DEF s
<1>6. QED
  BY <1>1, <1>3, <1>4, <1>5, QueryStep

LEMMA RoleKeeps == ASSUME IInv, NEW h \in Handlers, ReadRole(h) PROVE IInv'
<1> DEFINE owns == req[h].wish.subject = Owner
<1> DEFINE s == IF owns \/ RoleOf(req[h].wish.subject) = "writer" THEN "served" ELSE "refused"
<1> DEFINE t == IF owns THEN "served" ELSE "refused"
<1>1. Active(h)
  BY DEF ReadRole, At, Active, Ended
<1>2. s \in Steps \ {"idle"} /\ s \in Ended /\ t \in Ended /\ "role" \in Reads
  BY DEF Steps, Reads, Ended
<1>3. Query(h, "role", s, t)
  BY DEF ReadRole
<1> HIDE DEF s, t
<1>4. QED
  BY <1>1, <1>2, <1>3, QueryStep

LEMMA OpenKeeps == ASSUME IInv, NEW h \in Handlers, Open(h) PROVE IInv'
<1> DEFINE s == IF stored THEN "served" ELSE "refused"
<1>1. Active(h)
  BY DEF Open, At, Active, Ended
<1>2. s \in Steps /\ s # "idle" /\ s \in Ended
  BY DEF Steps, Ended
<1>3. Goto(h, s) /\ OnlyReads(h)
  BY DEF Open
<1> HIDE DEF s
<1>4. QED
  BY <1>1, <1>2, <1>3, GotoStep

LEMMA PushBanKeeps == ASSUME IInv, NEW h \in Handlers, ReadPushBan(h) PROVE IInv'
<1> DEFINE s == IF IsBanned(req[h].wish.actor) THEN "refused" ELSE "pushAlias"
<1>1. Active(h) /\ req[h].step = "pushBan" /\ OnlyReads(h)
  BY DEF ReadPushBan, At, Active, Ended
<1>2. s \in Steps /\ s # "idle" /\ "refused" \in Steps /\ "refused" \in Ended /\ "ban" \in Reads
  BY DEF Steps, Ended, Reads
<1>3. s \notin Ended => Sound([req[h] EXCEPT !.step = s], steady[h])
  BY <1>1, Known DEF At, Sound, Stage, Cleared, Owed, Request, Ended, IsPush, IsDelete, Person
<1>4. CASE Goto(h, s)
  <2> HIDE DEF s
  <2>1. QED
    BY <1>1, <1>2, <1>3, <1>4, GotoStep
<1>5. CASE Fails(h, "ban", "refused")
  BY <1>1, <1>2, <1>5, FailsStep
<1>6. QED
  BY <1>4, <1>5 DEF ReadPushBan

LEMMA OwnBanKeeps == ASSUME IInv, NEW h \in Handlers, DenyIfBanned(h) PROVE IInv'
<1> DEFINE w == req[h].wish
<1> DEFINE s == IF w.actor # Owner \/ IsBanned(w.actor) THEN "refused"
                ELSE IF w.kind = "delete" THEN "ownAlias" ELSE "change"
<1>1. Active(h) /\ req[h].step = "ownBan" /\ OnlyReads(h)
  BY DEF DenyIfBanned, At, Active, Ended
<1>2. s \in Steps /\ s # "idle" /\ "refused" \in Steps /\ "refused" \in Ended /\ "ban" \in Reads
  BY DEF Steps, Ended, Reads
<1>3. w \in Wish
  BY <1>1, Known
<1>4. s \notin Ended => Sound([req[h] EXCEPT !.step = s], steady[h])
  BY <1>1, <1>3, Known, BarsMean DEF At, Sound, Stage, Cleared, Owed, Request, Ended, IsPush, IsDelete, Clear, Owns, Person
<1>5. CASE Goto(h, s)
  <2> HIDE DEF s
  <2>1. QED
    BY <1>1, <1>2, <1>4, <1>5, GotoStep
<1>6. CASE Fails(h, "ban", "refused")
  BY <1>1, <1>2, <1>6, FailsStep
<1>7. QED
  BY <1>5, <1>6 DEF DenyIfBanned

(* Behind the visibility, if it may be private. *)
LEMMA IfPrivateSound ==
    ASSUME IInv, NEW h \in Handlers, At(h, "visibility"), NEW r \in Request,
           r.wish = req[h].wish, r.tracked = req[h].tracked,
           r.failed = {} => req[h].failed = {} /\ IsPrivate,
           req[h].failed \subseteq r.failed,
           Missing \in r.failed => Missing \in req[h].failed
    PROVE  /\ IfPrivate(h) \in Steps \ {"idle"}
           /\ IfPrivate(h) \notin Ended => Sound([r EXCEPT !.step = IfPrivate(h)], steady[h])
<1> DEFINE w == req[h].wish
<1>1. Active(h)
  BY DEF At, Active, Ended
<1>2. w \in Wish
  BY <1>1, Known
<1>3. IfPrivate(h) \in Steps \ {"idle"}
  BY <1>2, PassedType DEF IfPrivate, Steps
<1> DEFINE q == [r EXCEPT !.step = IfPrivate(h)]
<1>4. /\ q.wish = w /\ q.step = IfPrivate(h)
      /\ q.tracked = req[h].tracked
      /\ q.failed = {} => req[h].failed = {} /\ IsPrivate
      /\ Missing \in q.failed => Missing \in req[h].failed
  BY DEF Request
<1>5. /\ w.kind \in {"read", "query", "roster", "check"} \/ IsDelete(w)
      /\ IsDelete(w) => Unbarred(w, steady[h])
      /\ w.kind = "check" => "untracked" \notin steady[h]
      /\ Missing \in req[h].failed
           => (w.kind = "query" \/ IsDelete(w)) /\ "stored" \notin steady[h]
      /\ req[h].failed = {} =>
           /\ ~req[h].tracked => "tracked" \notin steady[h]
           /\ w.kind = "check" => w.actor # w.subject
  BY <1>1, Known DEF At, Sound, Stage, Cleared, Owed, Clear, FailedOpen, IsDelete
<1> HIDE DEF q
<1>6. CASE req[h].tracked /\ w.actor = Owner
  <2>1. IfPrivate(h) = Passed(w)
    BY <1>6 DEF IfPrivate
  <2>2. Unbarred(w, steady[h]) \/ w.kind = "check"
    BY <1>2, <1>5, <1>6, BarsMean DEF Owns, Person
  <2>3. Stage(q)
    BY <1>4, <1>5, <2>1 DEF Stage, Passed, IsDelete, IsPush
  <2>4. Cleared(q, steady[h])
    BY <1>4, <1>5, <1>6, <2>1, <2>2 DEF Cleared, Clear, Passed, IsDelete, MayAsk
  <2>5. Owed(q, steady[h])
    <3>1. q.step \notin {"ban", "member", "visibility", "pushRole"}
      BY <1>4, <1>5, <2>1 DEF Passed, IsDelete
    <3>2. q.tracked
      BY <1>4, <1>6
    <3>3. QED
      BY <3>1, <3>2 DEF Owed
  <2>6. QED
    BY <1>3, <2>3, <2>4, <2>5 DEF Sound, q
<1>7. CASE ~(req[h].tracked /\ w.actor = Owner) /\ IfPrivate(h) \notin Ended
  <2>1. /\ w.actor # Nobody
        /\ IfPrivate(h) \in {"ban", "member"}
        /\ w.kind \in {"roster", "check"} => IfPrivate(h) = "member"
        /\ w.kind \notin {"roster", "check"} /\ w.actor # Admin => IfPrivate(h) = "ban"
    BY <1>7 DEF IfPrivate, Ended
  <2>2. w.actor = Admin /\ w.kind \in {"read", "query"} => "banned" \notin steady[h]
    BY <1>1, Known DEF IsBanned, Person
  <2>3. q.failed = {} => "plain" \notin steady[h]
    BY <1>1, <1>4, Known
  <2>4. Stage(q)
    BY <1>4, <1>5, <2>1 DEF Stage, IsDelete, IsPush
  <2>5. Cleared(q, steady[h])
    BY <1>4, <1>5, <2>1, <2>2 DEF Cleared, Clear, IsDelete
  <2>6. Owed(q, steady[h])
    <3>1. q.step \in {"ban", "member"} /\ q.wish = w
      BY <1>4, <2>1
    <3>2. SUFFICES ASSUME q.failed = {}
                   PROVE  /\ ~q.tracked => "tracked" \notin steady[h]
                          /\ "plain" \notin steady[h]
                          /\ w.actor # Owner \/ "tracked" \notin steady[h]
                          /\ w.kind = "check" => w.actor # w.subject
      BY <3>1 DEF Owed
    <3>3. QED
      BY <1>4, <1>5, <1>7, <2>3, <3>2
  <2>7. QED
    BY <1>3, <2>4, <2>5, <2>6 DEF Sound, q
<1>8. QED
  BY <1>3, <1>6, <1>7

LEMMA VisibilityKeeps == ASSUME IInv, NEW h \in Handlers, ReadVisibility(h) PROVE IInv'
<1> DEFINE w == req[h].wish
<1> DEFINE s == IF IsPrivate THEN IfPrivate(h) ELSE Passed(w)
<1>1. Active(h) /\ At(h, "visibility") /\ req[h] \in Request /\ OnlyReads(h)
  <2>1. Active(h) /\ At(h, "visibility") /\ OnlyReads(h)
    BY DEF ReadVisibility, Query, At, Active, Ended
  <2>2. QED
    BY <2>1, Known
<1>2. w \in Wish
  BY <1>1, Known
<1>3. CASE Goto(h, s)
  <2>1. s \in Steps \ {"idle"}
    BY <1>1, <1>2, IfPrivateSound, PassedType
  <2>2. CASE IsPrivate
    BY <1>1, <1>3, <2>1, <2>2, IfPrivateSound, GotoStep
  <2>3. CASE ~IsPrivate
    <3>1. Passed(w) \notin Ended => Sound([req[h] EXCEPT !.step = Passed(w)], steady[h])
      BY <1>1, <1>2, <2>3, Known, BarsMean DEF Passed, At, Sound, Stage, Cleared, Owed, Request, Ended, IsPush, IsDelete, Clear, FailedOpen, MayAsk
    <3>2. QED
      BY <1>1, <1>3, <2>1, <2>3, <3>1, GotoStep
  <2>4. QED
    BY <2>2, <2>3
<1>4. CASE Fails(h, "visibility", IfPrivate(h))
  <2> DEFINE r == Failing(req[h], "visibility")
  <2>1. /\ r \in Request /\ r.wish = w /\ r.tracked = req[h].tracked
        /\ r.failed = req[h].failed \cup {"visibility"}
        /\ "visibility" \in Reads
    BY <1>1 DEF Failing, Request, Reads
  <2> HIDE DEF r
  <2>2. /\ r.failed # {} /\ req[h].failed \subseteq r.failed
        /\ Missing \in r.failed => Missing \in req[h].failed
    BY <2>1, MissingIsNoRead
  <2>3. /\ IfPrivate(h) \in Steps \ {"idle"}
        /\ IfPrivate(h) \notin Ended => Sound([r EXCEPT !.step = IfPrivate(h)], steady[h])
    BY <1>1, <2>1, <2>2, IfPrivateSound
  <2>4. QED
    BY <1>1, <1>4, <2>1, <2>3, FailsStep DEF r
<1>5. QED
  BY <1>3, <1>4 DEF ReadVisibility, Query

LEMMA FollowingType ==
    ASSUME NEW r \in Request, NEW s \in Steps, NEW b \in BOOLEAN
    PROVE  /\ Following(r, s, b) \in Request
           /\ Following(r, s, b).step = s
           /\ s \notin Ended => /\ Following(r, s, b).wish = r.wish
                               /\ Following(r, s, b).tracked = b
                               /\ Following(r, s, b).failed = r.failed
<1> DEFINE p == [r EXCEPT !.tracked = b]
<1>1. p \in Request /\ p.wish = r.wish /\ p.tracked = b /\ p.failed = r.failed
  BY DEF Request
<1> HIDE DEF p
<1>2. /\ Onward(p, s) \in Request
      /\ Onward(p, s).step = s
      /\ s \notin Ended => Onward(p, s) = [p EXCEPT !.step = s]
  BY <1>1, OnwardType
<1>3. s \notin Ended => /\ Onward(p, s).wish = p.wish
                       /\ Onward(p, s).tracked = p.tracked
                       /\ Onward(p, s).failed = p.failed
  BY <1>1, <1>2 DEF Request
<1>4. Following(r, s, b) = Onward(p, s)
  BY DEF Following, p
<1>5. QED
  BY <1>1, <1>2, <1>3, <1>4

LEMMA FailingType ==
    ASSUME NEW r \in Request, NEW read \in Reads \cup {Missing}
    PROVE  /\ Failing(r, read) \in Request
           /\ Failing(r, read).step = r.step
           /\ Failing(r, read).wish = r.wish
           /\ Failing(r, read).tracked = r.tracked
           /\ Failing(r, read).failed = r.failed \cup {read}
BY DEF Failing, Request

(* A directory that is looked for once more. *)
LEMMA AgainType ==
    ASSUME NEW r \in Request
    PROVE  /\ Failing(Following(r, "directory", FALSE), Missing) \in Request
           /\ Failing(Following(r, "directory", FALSE), Missing).step = "directory"
           /\ Failing(Following(r, "directory", FALSE), Missing).wish = r.wish
           /\ Missing \in Failing(Following(r, "directory", FALSE), Missing).failed
<1> DEFINE p == Following(r, "directory", FALSE)
<1>1. "directory" \in Steps /\ "directory" \notin Ended
  BY DEF Steps, Ended
<1>2. p \in Request /\ p.step = "directory" /\ p.wish = r.wish
  BY <1>1, FollowingType
<1> HIDE DEF p
<1>3. /\ Failing(p, Missing) \in Request
      /\ Failing(p, Missing).step = "directory"
      /\ Failing(p, Missing).wish = r.wish
      /\ Missing \in Failing(p, Missing).failed
  BY <1>2, FailingType
<1>4. QED
  BY <1>3 DEF p

LEMMA RowsKept ==
    ASSUME IInv, NEW h \in Handlers, OnlyReads(h),
           (bans' = bans /\ faults' = faults) \/ (bans' = bans /\ faults' = faults + 1)
    PROVE  RowsOK' /\ bans' \in Nat /\ faults' \in Nat
BY DEF IInv, OnlyReads, rows, RowsOK

LEMMA AliasKeeps == ASSUME IInv, NEW h \in Handlers, ReadAlias(h) PROVE IInv'
<1> DEFINE w == req[h].wish
<1>1. Active(h) /\ req[h].step = "alias" /\ OnlyReads(h)
  BY DEF ReadAlias, At, Active, Ended
<1>2. /\ w \in Wish /\ req[h] \in Request /\ tracked \in BOOLEAN
      /\ w.kind = "read"
      /\ "tracked" \in steady[h] => tracked
      /\ Missing \notin req[h].failed
  BY <1>1, Known DEF Sound, Stage, Cleared, IsDelete, RowsOK
<1>3. /\ {"visibility", "path", "alias"} \subseteq Steps
      /\ "visibility" \notin Ended /\ "path" \notin Ended
      /\ "alias" \in Reads /\ "alias" # Missing
  BY DEF Steps, Ended, Reads, Missing
<1>4. CASE req' = [req EXCEPT ![h] = Following(@, "visibility", tracked)] /\ UNCHANGED <<bans, faults>>
  <2> DEFINE q == Following(req[h], "visibility", tracked)
  <2>1. /\ q \in Request /\ q.step = "visibility"
        /\ q.wish = w /\ q.tracked = tracked /\ q.failed = req[h].failed
    BY <1>2, <1>3, FollowingType
  <2>2. req' = [req EXCEPT ![h] = q]
    BY <1>4
  <2> HIDE DEF q
  <2>3. Sound(q, steady[h])
    BY <1>2, <2>1 DEF Sound, Stage, Cleared, Owed, IsPush, IsDelete
  <2>4. RowsOK' /\ bans' \in Nat /\ faults' \in Nat
    BY <1>1, <1>4, RowsKept
  <2>5. QED
    BY <1>1, <2>1, <2>2, <2>3, <2>4, StepTo
<1>5. CASE /\ req' = [req EXCEPT ![h] = Failing(Following(@, "visibility", FALSE), "alias")]
           /\ faults' = faults + 1 /\ UNCHANGED bans
  <2> DEFINE p == Following(req[h], "visibility", FALSE)
  <2> DEFINE q == Failing(p, "alias")
  <2>1. p \in Request /\ p.step = "visibility" /\ p.wish = w /\ p.failed = req[h].failed
    BY <1>2, <1>3, FollowingType
  <2> HIDE DEF p
  <2>2. /\ q \in Request /\ q.step = "visibility" /\ q.wish = w /\ q.failed # {}
        /\ Missing \notin q.failed
    BY <1>2, <1>3, <2>1, FailingType
  <2>3. req' = [req EXCEPT ![h] = q]
    BY <1>5 DEF p
  <2> HIDE DEF q
  <2>4. Sound(q, steady[h])
    BY <1>2, <2>2 DEF Sound, Stage, Cleared, Owed, IsPush, IsDelete
  <2>5. RowsOK' /\ bans' \in Nat /\ faults' \in Nat
    BY <1>1, <1>5, RowsKept
  <2>6. QED
    BY <1>1, <2>2, <2>3, <2>4, <2>5, StepTo
<1>6. CASE w.form # "bare" /\ Goto(h, IF tracked THEN "visibility" ELSE "path")
  <2> DEFINE s == IF tracked THEN "visibility" ELSE "path"
  <2>1. Sound([req[h] EXCEPT !.step = s], steady[h])
    BY <1>1, <1>2, Known, BarsMean DEF At, Sound, Stage, Cleared, Owed, Request, Ended, IsPush, IsDelete, Clear
  <2>2. s \in Steps /\ s # "idle"
    BY <1>3
  <2>3. Goto(h, s)
    BY <1>6
  <2> HIDE DEF s
  <2>4. QED
    BY <1>1, <2>1, <2>2, <2>3, GotoStep
<1>7. CASE w.form # "bare" /\ Fails(h, "alias", "path")
  <2> DEFINE p == Failing(req[h], "alias")
  <2>1. /\ p \in Request /\ p.wish = w /\ p.failed # {} /\ "alias" \in p.failed
        /\ Missing \notin p.failed
    BY <1>2, <1>3, FailingType
  <2> HIDE DEF p
  <2>2. Sound([p EXCEPT !.step = "path"], steady[h])
    BY <1>2, <1>7, <2>1 DEF At, Sound, Stage, Cleared, Owed, Request, Ended, IsPush, IsDelete, Clear, FailedOpen
  <2>3. QED
    BY <1>1, <1>3, <1>7, <2>2, FailsStep DEF p
<1>8. QED
  BY <1>4, <1>5, <1>6, <1>7 DEF ReadAlias

LEMMA LocateKeeps == ASSUME IInv, NEW h \in Handlers, Locate(h) PROVE IInv'
<1> DEFINE w == req[h].wish
<1> DEFINE elsewhere == IF w.form = "named" THEN "refused" ELSE "directory"
<1>1. Active(h) /\ req[h].step = "locate" /\ OnlyReads(h)
  BY DEF Locate, At, Active, Ended
<1>2. /\ w \in Wish /\ req[h] \in Request /\ tracked \in BOOLEAN
      /\ w.kind = "query" \/ IsDelete(w)
      /\ IsDelete(w) => Unbarred(w, steady[h])
      /\ "tracked" \in steady[h] => tracked
      /\ "secret" \in steady[h] => tracked
      /\ Missing \in req[h].failed => "stored" \notin steady[h]
  BY <1>1, Known DEF Sound, Stage, Cleared, Clear, FailedOpen, IsDelete, RowsOK
<1>3. /\ "directory" \in Steps /\ "refused" \in Steps
      /\ "directory" \notin Ended /\ "refused" \in Ended
      /\ "alias" \in Reads /\ "alias" # Missing
      /\ elsewhere \in Steps /\ elsewhere # "idle"
  BY DEF Steps, Ended, Reads, Missing
<1>4. CASE /\ req' = [req EXCEPT ![h] = Following(@, IF tracked THEN "directory" ELSE elsewhere,
                                                  tracked)]
           /\ UNCHANGED <<bans, faults>>
  <2> DEFINE s == IF tracked THEN "directory" ELSE elsewhere
  <2> DEFINE q == Following(req[h], s, tracked)
  <2>1. s \in Steps /\ s # "idle" /\ (s \notin Ended => s = "directory")
    BY <1>3
  <2>2. /\ q \in Request /\ q.step = s
        /\ s \notin Ended => q.wish = w /\ q.tracked = tracked /\ q.failed = req[h].failed
    <3> HIDE DEF s
    <3>1. QED
      BY <1>2, <2>1, FollowingType
  <2>3. req' = [req EXCEPT ![h] = q]
    BY <1>4
  <2> HIDE DEF q, s
  <2>4. s \notin Ended => Sound(q, steady[h])
    BY <1>2, <2>1, <2>2, BarsMean DEF Sound, Stage, Cleared, Owed, Clear, IsPush, IsDelete
  <2>5. RowsOK' /\ bans' \in Nat /\ faults' \in Nat
    BY <1>1, <1>4, RowsKept
  <2>6. QED
    BY <1>1, <2>1, <2>2, <2>3, <2>4, <2>5, StepTo
<1>5. CASE /\ req' = [req EXCEPT ![h] = Following(Failing(@, "alias"), elsewhere, FALSE)]
           /\ faults' = faults + 1 /\ UNCHANGED bans
  <2> DEFINE p == Failing(req[h], "alias")
  <2> DEFINE q == Following(p, elsewhere, FALSE)
  <2>1. /\ p \in Request /\ p.wish = w /\ "alias" \in p.failed
        /\ Missing \in p.failed => Missing \in req[h].failed
    BY <1>2, <1>3, FailingType
  <2> HIDE DEF p
  <2>2. /\ q \in Request /\ q.step = elsewhere
        /\ elsewhere \notin Ended => q.wish = w /\ q.failed = p.failed
    <3> HIDE DEF elsewhere
    <3>1. QED
      BY <1>3, <2>1, FollowingType
  <2>3. req' = [req EXCEPT ![h] = q]
    BY <1>5 DEF p
  <2> HIDE DEF q
  <2>4. elsewhere \notin Ended => Sound(q, steady[h])
    <3>1. SUFFICES ASSUME elsewhere \notin Ended
                   PROVE  Sound(q, steady[h])
      OBVIOUS
    <3>2. q.step = "directory" /\ w.form # "named"
      BY <1>3, <2>2, <3>1
    <3>3. /\ q.wish = w /\ "alias" \in q.failed
          /\ Missing \in q.failed => Missing \in req[h].failed
      BY <2>1, <2>2, <3>1
    <3> HIDE DEF elsewhere
    <3>4. Clear(q, steady[h])
      BY <1>2, <3>2, <3>3 DEF Clear, FailedOpen
    <3>5. QED
      BY <1>2, <3>2, <3>3, <3>4 DEF Sound, Stage, Cleared, Owed, IsPush, IsDelete
  <2>5. RowsOK' /\ bans' \in Nat /\ faults' \in Nat
    BY <1>1, <1>5, RowsKept
  <2> HIDE DEF elsewhere
  <2>6. QED
    BY <1>1, <1>3, <2>2, <2>3, <2>4, <2>5, StepTo
<1>6. QED
  BY <1>4, <1>5 DEF Locate

LEMMA DirectoryKeeps == ASSUME IInv, NEW h \in Handlers, Directory(h) PROVE IInv'
<1> DEFINE w == req[h].wish
<1>1. Active(h) /\ req[h].step = "directory" /\ OnlyReads(h)
  BY DEF Directory, At, Active, Ended
<1>2. /\ w \in Wish /\ req[h] \in Request
      /\ w.kind = "query" \/ IsDelete(w)
      /\ IsDelete(w) => Unbarred(w, steady[h])
      /\ "stored" \in steady[h] => stored
  BY <1>1, Known DEF Sound, Stage, Cleared, Clear, FailedOpen, IsDelete
<1>3. CASE stored /\ Goto(h, IF req[h].tracked THEN "visibility" ELSE Passed(w))
  <2> DEFINE s == IF req[h].tracked THEN "visibility" ELSE Passed(w)
  <2>1. s \in Steps /\ s # "idle"
    BY <1>2, PassedType DEF Steps
  <2>2. s \notin Ended => Sound([req[h] EXCEPT !.step = s], steady[h])
    BY <1>1, <1>2, Known DEF At, Sound, Stage, Cleared, Owed, Request, Ended, IsPush, IsDelete, Clear, FailedOpen, Passed
  <2>3. Goto(h, s)
    BY <1>3
  <2> HIDE DEF s
  <2>4. QED
    BY <1>1, <2>1, <2>2, <2>3, GotoStep
<1>4. CASE ~stored /\ Goto(h, "refused")
  <2>1. "refused" \in Steps /\ "refused" # "idle" /\ "refused" \in Ended
    BY DEF Steps, Ended
  <2>2. QED
    BY <1>1, <1>4, <2>1, GotoStep
<1>5. CASE /\ ~stored /\ w.form # "named"
           /\ req' = [req EXCEPT ![h] = Failing(Following(@, "directory", FALSE), Missing)]
           /\ UNCHANGED <<bans, faults>>
  <2> DEFINE q == Failing(Following(req[h], "directory", FALSE), Missing)
  <2>1. "directory" \in Steps /\ "directory" \notin Ended
    BY DEF Steps, Ended
  <2>2. /\ q \in Request /\ q.step = "directory" /\ q.wish = w
        /\ Missing \in q.failed
    BY <1>2, AgainType
  <2>3. req' = [req EXCEPT ![h] = q]
    BY <1>5
  <2> HIDE DEF q
  <2>4. Sound(q, steady[h])
    BY <1>2, <1>5, <2>2 DEF Sound, Stage, Cleared, Owed, Clear, FailedOpen, IsPush, IsDelete
  <2>5. RowsOK' /\ bans' \in Nat /\ faults' \in Nat
    BY <1>1, <1>5, RowsKept
  <2>6. QED
    BY <1>1, <2>1, <2>2, <2>3, <2>4, <2>5, StepTo
<1>6. QED
  BY <1>3, <1>4, <1>5 DEF Directory

LEMMA ChangeKeeps == ASSUME IInv, NEW h \in Handlers, Change(h) PROVE IInv'
<1> DEFINE s == "served"
<1>1. Active(h) /\ req[h].step = "change"
  BY DEF Change, At, Active, Ended
<1>2. s \in Steps /\ s # "idle"
  BY DEF Steps
<1>3. Goto(h, s) /\ Observe
  BY DEF Change
<1>4. RowsOK'
  BY <1>1, Known, AccessAssumption DEF Change, RowsOK, Wish, Roles, Changes
<1>5. s \notin Ended => Sound([req[h] EXCEPT !.step = s], steady[h])
  BY <1>1, Known DEF At, Sound, Stage, Cleared, Owed, Request, Ended, IsPush, IsDelete, Clear, FailedOpen
<1> HIDE DEF s
<1>6. QED
  BY <1>1, <1>2, <1>3, <1>4, <1>5, GotoStep

LEMMA RemoveDirKeeps == ASSUME IInv, NEW h \in Handlers, RemoveDir(h) PROVE IInv'
<1> DEFINE s == IF stored THEN "purge" ELSE "refused"
<1>1. Active(h) /\ req[h].step = "removeDir"
  BY DEF RemoveDir, At, Active, Ended
<1>2. s \in Steps /\ s # "idle"
  BY DEF Steps
<1>3. Goto(h, s) /\ Observe
  BY DEF RemoveDir
<1>4. RowsOK'
  BY <1>1, Known, AccessAssumption DEF RemoveDir, RowsOK, Wish, Roles, Changes
<1>5. s \notin Ended => Sound([req[h] EXCEPT !.step = s], steady[h])
  BY <1>1, Known DEF At, Sound, Stage, Cleared, Owed, Request, Ended, IsPush, IsDelete, Clear, FailedOpen
<1> HIDE DEF s
<1>6. QED
  BY <1>1, <1>2, <1>3, <1>4, <1>5, GotoStep

LEMMA PurgeKeeps == ASSUME IInv, NEW h \in Handlers, PurgeRows(h) PROVE IInv'
<1> DEFINE s == IF tracked \/ req[h].wish.form = "http" THEN "served" ELSE "refused"
<1>1. Active(h) /\ req[h].step = "purge"
  BY DEF PurgeRows, At, Active, Ended
<1>2. s \in Steps /\ s # "idle"
  BY DEF Steps
<1>3. Goto(h, s) /\ Observe
  BY DEF PurgeRows
<1>4. RowsOK'
  <2>1. CASE tracked
    BY <1>1, <2>1, Known DEF PurgeRows, RowsOK
  <2>2. CASE ~tracked
    BY <1>1, <2>2, Known DEF PurgeRows, RowsOK
  <2>3. QED
    BY <2>1, <2>2
<1>5. s \notin Ended => Sound([req[h] EXCEPT !.step = s], steady[h])
  BY <1>1, Known DEF At, Sound, Stage, Cleared, Owed, Request, Ended, IsPush, IsDelete, Clear, FailedOpen
<1> HIDE DEF s
<1>6. QED
  BY <1>1, <1>2, <1>3, <1>4, <1>5, GotoStep

LEMMA InitBareKeeps == ASSUME IInv, NEW h \in Handlers, InitBare(h) PROVE IInv'
<1> DEFINE s == IF stored THEN "refused" ELSE "insert"
<1>1. Active(h) /\ req[h].step = "initBare"
  BY DEF InitBare, At, Active, Ended
<1>2. s \in Steps /\ s # "idle"
  BY DEF Steps
<1>3. Goto(h, s) /\ Observe
  BY DEF InitBare
<1>4. RowsOK'
  BY <1>1, Known, AccessAssumption DEF InitBare, RowsOK, Wish, Roles, Changes
<1>5. s \notin Ended => Sound([req[h] EXCEPT !.step = s], steady[h])
  BY <1>1, Known DEF At, Sound, Stage, Cleared, Owed, Request, Ended, IsPush, IsDelete, Clear, FailedOpen
<1> HIDE DEF s
<1>6. QED
  BY <1>1, <1>2, <1>3, <1>4, <1>5, GotoStep

LEMMA InsertKeeps == ASSUME IInv, NEW h \in Handlers, InsertRepo(h) PROVE IInv'
<1> DEFINE s == IF tracked THEN "refused"
                ELSE IF req[h].wish.change = "hide" THEN "initial" ELSE "served"
<1>1. Active(h) /\ req[h].step = "insert"
  BY DEF InsertRepo, At, Active, Ended
<1>2. s \in Steps /\ s # "idle"
  BY DEF Steps
<1>3. Goto(h, s) /\ Observe
  BY DEF InsertRepo
<1>4. RowsOK'
  BY <1>1, Known, AccessAssumption DEF InsertRepo, RowsOK, Wish, Roles, Changes
<1>5. s \notin Ended => Sound([req[h] EXCEPT !.step = s], steady[h])
  BY <1>1, Known DEF At, Sound, Stage, Cleared, Owed, Request, Ended, IsPush, IsDelete, Clear, FailedOpen
<1> HIDE DEF s
<1>6. QED
  BY <1>1, <1>2, <1>3, <1>4, <1>5, GotoStep

LEMMA InitialKeeps == ASSUME IInv, NEW h \in Handlers, SetInitialVisibility(h) PROVE IInv'
<1> DEFINE s == "served"
<1>1. Active(h) /\ req[h].step = "initial"
  BY DEF SetInitialVisibility, At, Active, Ended
<1>2. s \in Steps /\ s # "idle"
  BY DEF Steps
<1>3. Goto(h, s) /\ Observe
  BY DEF SetInitialVisibility
<1>4. RowsOK'
  BY <1>1, Known, AccessAssumption DEF SetInitialVisibility, RowsOK, Wish, Roles, Changes
<1>5. s \notin Ended => Sound([req[h] EXCEPT !.step = s], steady[h])
  BY <1>1, Known DEF At, Sound, Stage, Cleared, Owed, Request, Ended, IsPush, IsDelete, Clear, FailedOpen
<1> HIDE DEF s
<1>6. QED
  BY <1>1, <1>2, <1>3, <1>4, <1>5, GotoStep

LEMMA AbandonKeeps == ASSUME IInv, NEW h \in Handlers, Abandon(h) PROVE IInv'
<1> DEFINE q == Onward(req[h], "dropped")
<1>1. Active(h) /\ OnlyReads(h)
  BY DEF Abandon, Writes, Active, Ended
<1>2. "dropped" \in Steps /\ "dropped" \in Ended /\ req[h] \in Request
  BY <1>1, Known DEF Steps, Ended
<1>3. q \in Request /\ q.step = "dropped"
  BY <1>2, OnwardType
<1>4. req' = [req EXCEPT ![h] = q]
  BY DEF Abandon
<1> HIDE DEF q
<1>5. RowsOK' /\ bans' \in Nat /\ faults' \in Nat
  BY <1>1, RowsKept DEF Abandon
<1>6. QED
  BY <1>1, <1>2, <1>3, <1>4, <1>5, StepTo

(* A request begins with all that holds of its caller, and with nothing known. *)
LEMMA BeginKeeps == ASSUME IInv, NEW h \in Handlers, Begin(h) PROVE IInv'
<1>1. PICK w \in Wishes[h] :
        /\ req' = [req EXCEPT ![h] = [wish |-> w, step |-> FirstStep(w), tracked |-> TRUE,
                                      failed |-> {}]]
        /\ steady' = [steady EXCEPT ![h] = Facts(w)]
  BY DEF Begin
<1> DEFINE q == [wish |-> w, step |-> FirstStep(w), tracked |-> TRUE, failed |-> {}]
<1>2. w \in Wish
  BY AccessAssumption
<1>3. FirstStep(w) \in Steps
  BY <1>2 DEF FirstStep, Steps
<1>4. q \in Request /\ q.wish = w
  BY <1>2, <1>3 DEF Request
<1>5. Sound(q, Facts(w))
  <2>1. Stage(q)
    BY <1>2 DEF Stage, FirstStep, IsPush, IsDelete, Wish, Kinds
  <2>2. Cleared(q, Facts(w))
    BY <1>2 DEF Cleared, FirstStep, IsPush, IsDelete, Wish, Kinds
  <2>3. Owed(q, Facts(w))
    BY <1>2 DEF Owed, FirstStep, IsPush, IsDelete, Wish, Kinds
  <2>4. QED
    BY <2>1, <2>2, <2>3 DEF Sound
<1>6. Facts(w) \in SUBSET FactNames
  BY FactsMean
<1>7. req' = [req EXCEPT ![h] = q] /\ UNCHANGED rows /\ UNCHANGED <<bans, faults>>
  BY <1>1 DEF Begin
<1> HIDE DEF q
<1>8. RowsOK' /\ bans' \in Nat /\ faults' \in Nat
  BY <1>7 DEF IInv, RowsOK, rows
<1>9. req' \in [Handlers -> Request] /\ steady' \in [Handlers -> SUBSET FactNames]
  BY <1>1, <1>4, <1>6, <1>7 DEF IInv
<1>10. ASSUME NEW g \in Handlers, Active(g)'
       PROVE  /\ steady'[g] \subseteq Facts(req[g].wish)'
              /\ Sound(req'[g], steady'[g])
  <2>1. CASE g = h
    <3>1. req'[g] = q /\ steady'[g] = Facts(w)
      BY <1>1, <1>7, <2>1 DEF IInv
    <3>2. Facts(w)' = Facts(w)
      BY <1>7, FactsKept
    <3>3. Facts(req[g].wish)' = Facts(w)'
      BY <1>4, <3>1 DEF Facts, Holds, Person
    <3>4. QED
      BY <1>5, <3>1, <3>2, <3>3
  <2>2. CASE g # h
    <3>1. req'[g] = req[g] /\ steady'[g] = steady[g]
      BY <1>1, <1>7, <2>2 DEF IInv
    <3>2. steady[g] \subseteq Facts(req[g].wish) /\ Sound(req[g], steady[g])
      BY <1>10, <3>1 DEF IInv, Active
    <3>3. Facts(req[g].wish)' = Facts(req[g].wish)
      BY <1>7, <3>1, FactsKept
    <3>4. QED
      BY <3>1, <3>2, <3>3
  <2>3. QED
    BY <2>1, <2>2
<1>11. QED
  BY <1>8, <1>9, <1>10 DEF IInv

LEMMA ChangeBanKeeps == ASSUME IInv, NEW d \in Dids, ChangeBan(d) PROVE IInv'
<1>1. RowsOK' /\ bans' \in Nat /\ faults' \in Nat
  BY DEF ChangeBan, IInv, RowsOK
<1>2. req' = req /\ steady' \in [Handlers -> SUBSET FactNames]
  BY DEF ChangeBan, Observe, IInv
<1>3. ASSUME NEW g \in Handlers, Active(g)'
      PROVE  /\ steady'[g] \subseteq Facts(req[g].wish)'
             /\ Sound(req'[g], steady'[g])
  <2>1. steady'[g] \subseteq steady[g] /\ steady'[g] \subseteq Facts(req[g].wish)'
    BY <1>3 DEF ChangeBan, Observe
  <2>2. Sound(req[g], steady[g])
    BY <1>2, <1>3 DEF IInv, Active
  <2>3. steady'[g] \in SUBSET steady[g]
    BY <2>1
  <2>4. QED
    BY <1>2, <2>1, <2>2, <2>3, SoundShrinks
<1>4. QED
  BY <1>1, <1>2, <1>3 DEF IInv

LEMMA InvInit == Init => IInv
<1> SUFFICES ASSUME Init PROVE IInv
  OBVIOUS
<1>1. NoRequest \in Request
  BY AccessAssumption DEF NoRequest, NoWish, Request, Wish, Kinds, Forms, Changes, Steps
<1>2. RowsOK
  BY AccessAssumption DEF Init, RowsOK, Start, Roles
<1>3. \A h \in Handlers : ~Active(h)
  BY DEF Init, Active, NoRequest
<1>4. QED
  BY <1>1, <1>2, <1>3 DEF Init, IInv

LEMMA StepKeeps == ASSUME IInv, NEW h \in Handlers, Step(h) PROVE IInv'
BY BeginKeeps, DeriveKeeps, AliasKeeps, VisibilityKeeps, BanKeeps, MemberKeeps, LocateKeeps,
   DirectoryKeeps, PathKeeps, OpenKeeps, PushBanKeeps, PushAliasKeeps, PushRoleKeeps,
   IdentifyKeeps, RoleKeeps, OwnerKeeps, OwnBanKeeps, OwnAliasKeeps, TargetKeeps, ChangeKeeps,
   RemoveDirKeeps, PurgeKeeps, InitBareKeeps, InsertKeeps, InitialKeeps, AbandonKeeps DEF Step

LEMMA NextKeeps == IInv /\ [Next]_vars => IInv'
<1> SUFFICES ASSUME IInv, [Next]_vars PROVE IInv'
  OBVIOUS
<1>1. CASE Next
  BY <1>1, StepKeeps, ChangeBanKeeps DEF Next
<1>2. CASE UNCHANGED vars
  <2>1. /\ UNCHANGED rows /\ req' = req /\ steady' = steady
        /\ RowsOK' /\ bans' \in Nat /\ faults' \in Nat
    BY <1>2 DEF vars, rows, IInv, RowsOK
  <2>2. ASSUME NEW g \in Handlers, Active(g)'
        PROVE  /\ steady'[g] \subseteq Facts(req[g].wish)'
               /\ Sound(req'[g], steady'[g])
    <3>1. steady[g] \subseteq Facts(req[g].wish) /\ Sound(req[g], steady[g])
      BY <2>1, <2>2 DEF IInv, Active
    <3>2. Facts(req[g].wish)' = Facts(req[g].wish)
      BY <2>1, FactsKept
    <3>3. QED
      BY <2>1, <3>1, <3>2
  <2>3. QED
    BY <2>1, <2>2 DEF IInv
<1>3. QED
  BY <1>1, <1>2

LEMMA AlwaysInv == Spec => []IInv
BY InvInit, NextKeeps, PTL DEF Spec

(* The rows, the requests and the histories keep their types, and no caller
   without identity comes to the lookups of bans and members. *)
THEOREM AccessTypeCorrect == Spec => []TypeOK
BY AlwaysInv, TypeFromInv, PTL

-----------------------------------------------------------------------------
(* How requests end. *)

LEMMA GotoEnds ==
    ASSUME IInv, NEW h \in Handlers, Active(h), NEW s \in Steps, Goto(h, s)
    PROVE  req'[h].step = s /\ faults' = faults
<1>1. req[h] \in Request /\ req \in [Handlers -> Request]
  BY Known DEF IInv
<1>2. req'[h] = Onward(req[h], s) /\ faults' = faults
  BY <1>1 DEF Goto
<1>3. QED
  BY <1>1, <1>2, OnwardType

LEMMA FailsEnds ==
    ASSUME IInv, NEW h \in Handlers, Active(h), NEW s \in Steps, NEW read \in Reads,
           Fails(h, read, s)
    PROVE  req'[h].step = s /\ faults' # faults
<1>1. req[h] \in Request /\ req \in [Handlers -> Request] /\ faults \in Nat
  BY Known DEF IInv
<1>2. req'[h] = Onward(Failing(req[h], read), s) /\ faults' = faults + 1
  BY <1>1 DEF Fails
<1>3. Failing(req[h], read) \in Request
  BY <1>1, FailingType
<1>4. QED
  BY <1>1, <1>2, <1>3, OnwardType

LEMMA QueryEnds ==
    ASSUME IInv, NEW h \in Handlers, Active(h), NEW s \in Steps, NEW t \in Steps,
           NEW read \in Reads, Query(h, read, s, t)
    PROVE  /\ req'[h].step \in {s, t}
           /\ faults' = faults => req'[h].step = s
BY GotoEnds, FailsEnds DEF Query

(* The steps that Goto and Fails may be given. *)
LEMMA StepNames ==
    /\ {"served", "refused", "dropped", "alias", "pushBan", "pushAlias", "pushRole", "role",
        "visibility", "path", "ban", "member", "directory", "locate", "removeDir", "purge",
        "open", "ownBan", "ownAlias", "change", "insert", "initial"} \subseteq Steps
    /\ {"derive", "alias", "visibility", "ban", "member", "path", "role"} \subseteq Reads
BY DEF Steps, Reads

(* Whoever is served was not barred all along. *)
LEMMA ServedIsClear ==
    ASSUME IInv, NEW h \in Handlers, Active(h), Step(h), req'[h].step = "served"
    PROVE  Clear(req[h], steady[h])
<1> DEFINE w == req[h].wish
<1> DEFINE S == steady[h]
<1> USE StepNames
<1>0. /\ w \in Wish /\ req[h] \in Request /\ req \in [Handlers -> Request]
      /\ Passed(w) \in Steps \ {"idle"} /\ Sound(req[h], S)
  BY Known, PassedType DEF IInv
<1>1. CASE Begin(h)
  BY <1>1 DEF Begin, At, Active
<1>2. CASE Derive(h)
  BY <1>2, QueryEnds DEF Derive
<1>3. CASE ReadAlias(h)
  <2>1. CASE w.form # "bare"
    BY <1>3, <2>1, GotoEnds, FailsEnds DEF ReadAlias
  <2>2. CASE w.form = "bare"
    <3>1. tracked \in BOOLEAN
      BY Known DEF RowsOK
    <3>2. \/ req'[h] = Following(req[h], "visibility", tracked)
          \/ req'[h] = Failing(Following(req[h], "visibility", FALSE), "alias")
      BY <1>0, <1>3, <2>2 DEF ReadAlias
    <3>3. \A b \in BOOLEAN : /\ Following(req[h], "visibility", b) \in Request
                             /\ Following(req[h], "visibility", b).step = "visibility"
      BY <1>0, FollowingType
    <3>4. \A r \in Request : Failing(r, "alias").step = r.step
      BY FailingType
    <3>5. QED
      BY <3>1, <3>2, <3>3, <3>4
  <2>3. QED
    BY <2>1, <2>2
<1>4. CASE ReadVisibility(h)
  <2>1. /\ IfPrivate(h) \in Steps
        /\ IfPrivate(h) = "served" => Passed(w) = "served" /\ w.actor = Owner
    BY <1>0, <1>4, PassedType DEF IfPrivate, Steps
  <2>2. \/ (IsPrivate => w.actor = Owner) /\ Passed(w) = "served"
        \/ w.actor = Owner /\ Passed(w) = "served"
    BY <1>0, <1>4, <2>1, QueryEnds DEF ReadVisibility
  <2>3. w.kind = "roster"
    BY <1>0, <1>4, <2>2 DEF ReadVisibility, Passed, Sound, Stage, Cleared, Clear, At, IsPush, IsDelete
  <2>4. Unbarred(w, S)
    BY <1>0, <2>2, <2>3, Known, BarsMean DEF Owns, Person
  <2>5. QED
    BY <2>4 DEF Clear
<1>5. CASE ReadBan(h)
  BY <1>5, QueryEnds DEF ReadBan
<1>6. CASE ReadMember(h)
  <2>1. Passed(w) = "served" /\ RoleOf(w.actor) # "none"
    BY <1>0, <1>6, QueryEnds DEF ReadMember
  <2>2. w.kind = "roster"
    BY <1>0, <1>6, <2>1 DEF ReadMember, Passed, Sound, Stage, Cleared, Clear, At, IsPush, IsDelete
  <2>3. Unbarred(w, S)
    BY <1>0, <2>1, <2>2, Known, BarsMean DEF Person
  <2>4. QED
    BY <2>3 DEF Clear
<1>7. CASE Locate(h)
  <2>1. tracked \in BOOLEAN
    BY Known DEF RowsOK
  <2>2. \E r \in {req[h], Failing(req[h], "alias")}, s \in {"directory", "refused"}, b \in BOOLEAN :
           req'[h] = Following(r, s, b)
    BY <1>0, <1>7, <2>1 DEF Locate
  <2>3. PICK r \in {req[h], Failing(req[h], "alias")}, s \in {"directory", "refused"}, b \in BOOLEAN :
           req'[h] = Following(r, s, b)
    BY <2>2
  <2>4. Failing(req[h], "alias") \in Request /\ {"directory", "refused"} \subseteq Steps
    BY <1>0, FailingType
  <2>5. r \in Request /\ s \in Steps /\ Following(r, s, b).step = s
    <3>1. r \in Request /\ s \in Steps
      BY <1>0, <2>4
    <3>2. QED
      BY <3>1, FollowingType
  <2>6. QED
    BY <2>3, <2>5
<1>8. CASE Directory(h)
  <2>1. Passed(w) # "served"
    BY <1>0, <1>8 DEF Directory, Passed, Sound, Stage, Cleared, Clear, At, IsPush, IsDelete
  <2>2. CASE stored \/ Goto(h, "refused")
    BY <1>0, <1>8, <2>1, <2>2, GotoEnds DEF Directory
  <2>3. CASE req' = [req EXCEPT ![h] = Failing(Following(@, "directory", FALSE), Missing)]
    BY <1>0, <2>3, AgainType
  <2>4. QED
    BY <1>8, <2>2, <2>3 DEF Directory
<1>9. CASE ResolvePath(h)
  BY <1>9, QueryEnds DEF ResolvePath
<1>10. CASE Open(h)
  BY <1>0, <1>10 DEF Open, Sound, Stage, Cleared, Clear, At, IsPush, IsDelete
<1>11. CASE ReadPushBan(h)
  BY <1>11, GotoEnds, FailsEnds DEF ReadPushBan
<1>12. CASE ReadPushAlias(h)
  <2>1. Passed(w) # "served"
    BY <1>0, <1>12 DEF ReadPushAlias, Passed, Sound, Stage, Cleared, Clear, At, IsPush, IsDelete
  <2>2. QED
    BY <1>0, <1>12, <2>1, QueryEnds DEF ReadPushAlias
<1>13. CASE ReadPushRole(h)
  <2>1. Passed(w) # "served"
    BY <1>0, <1>13 DEF ReadPushRole, Passed, Sound, Stage, Cleared, Clear, At, IsPush, IsDelete
  <2>2. QED
    BY <1>0, <1>13, <2>1, QueryEnds DEF ReadPushRole
<1>14. CASE Identify(h)
  BY <1>14, QueryEnds DEF Identify
<1>15. CASE ReadRole(h)
  <2>1. w.kind = "check" /\ "untracked" \notin S /\ MayAsk(w, S)
    BY <1>0, <1>15 DEF ReadRole, Sound, Stage, Cleared, Clear, At, IsPush, IsDelete
  <2>2. w.subject = Owner \/ RoleOf(w.subject) = "writer"
    BY <1>15, QueryEnds DEF ReadRole
  <2>3. Unbarred(w, S)
    BY <1>0, <2>1, <2>2, Known, BarsMean DEF Owns, Person
  <2>4. QED
    BY <2>3 DEF Clear
<1>16. CASE LookUpOwner(h)
  BY <1>16, QueryEnds DEF LookUpOwner
<1>17. CASE DenyIfBanned(h)
  BY <1>17, GotoEnds, FailsEnds DEF DenyIfBanned
<1>18. CASE ReadOwnAlias(h)
  BY <1>18, QueryEnds DEF ReadOwnAlias
<1>19. CASE ReadTarget(h)
  BY <1>19, QueryEnds DEF ReadTarget
<1>20. CASE Change(h)
  BY <1>0, <1>20 DEF Change, Sound, Stage, Cleared, Clear, At, IsPush, IsDelete
<1>21. CASE RemoveDir(h)
  BY <1>21, GotoEnds DEF RemoveDir
<1>22. CASE PurgeRows(h)
  BY <1>0, <1>22 DEF PurgeRows, Sound, Stage, Cleared, Clear, At, IsPush, IsDelete
<1>23. CASE InitBare(h)
  BY <1>23, GotoEnds DEF InitBare
<1>24. CASE InsertRepo(h)
  BY <1>0, <1>24, BarsMean DEF InsertRepo, Sound, Stage, Cleared, Clear, At, IsPush, IsDelete
<1>25. CASE SetInitialVisibility(h)
  BY <1>0, <1>25, BarsMean DEF SetInitialVisibility, Sound, Stage, Cleared, Clear, At, IsPush, IsDelete
<1>26. CASE Abandon(h)
  <2>1. req'[h] = Onward(req[h], "dropped")
    BY <1>0, <1>26 DEF Abandon
  <2>2. QED
    BY <1>0, <2>1, OnwardType
<1>27. QED
  BY <1>1, <1>2, <1>3, <1>4, <1>5, <1>6, <1>7, <1>8, <1>9, <1>10, <1>11, <1>12, <1>13, <1>14, <1>15, <1>16, <1>17, <1>18, <1>19, <1>20, <1>21, <1>22, <1>23, <1>24, <1>25, <1>26 DEF Step

(* A request is not served or refused by the step of another, nor as it begins. *)
LEMMA EndsByStep ==
    ASSUME IInv, [Next]_vars, NEW h \in Handlers, NEW s \in Ended, Ends(h, s)
    PROVE  Active(h) /\ Step(h) /\ req'[h].step = s
<1>1. Active(h) /\ req'[h].step = s /\ req \in [Handlers -> Request]
  BY DEF Ends, At, IInv
<1>2. req'[h] # req[h]
  BY <1>1 DEF Active
<1>3. ASSUME NEW g \in Handlers, g # h, Step(g)
      PROVE  req'[h] = req[h]
  BY <1>1, <1>3 DEF Step, Begin, Derive, ReadAlias, ReadVisibility, ReadBan, ReadMember, Locate,
        Directory, ResolvePath, Open, ReadPushBan, ReadPushAlias, ReadPushRole, Identify, ReadRole,
        LookUpOwner, DenyIfBanned, ReadOwnAlias, ReadTarget, Change, RemoveDir, PurgeRows, InitBare,
        InsertRepo, SetInitialVisibility, Abandon, Query, Goto, Fails
<1>4. UNCHANGED vars \/ (\E d \in Dids : ChangeBan(d)) => req' = req
  BY DEF vars, ChangeBan
<1>5. QED
  BY <1>1, <1>2, <1>3, <1>4 DEF Next

(* Whoever is barred for one reason from the beginning of a request to its end is
   not served, whatever other handlers do meanwhile and whichever reads fail, but
   for the lookups that fail open. *)
THEOREM BarredAreNotServed == Spec => NobodyBarredIsServed
<1>1. ASSUME IInv, [Next]_vars, NEW h \in Handlers, Ends(h, "served"),
             NEW B \in Bars(req[h].wish), B \subseteq steady[h]
      PROVE  FailedOpen(req[h])
  <2>1. "served" \in Ended
    BY DEF Ended
  <2>2. Clear(req[h], steady[h])
    BY <1>1, <2>1, EndsByStep, ServedIsClear
  <2>3. QED
    BY <1>1, <2>2 DEF Clear, Unbarred, Lacks
<1>2. IInv /\ [Next]_vars =>
        [\A h \in Handlers :
           Ends(h, "served") /\ (\E B \in Bars(req[h].wish) : B \subseteq steady[h])
               => FailedOpen(req[h])]_vars
  BY <1>1
<1>3. QED
  BY <1>2, AlwaysInv, PTL DEF Spec, NobodyBarredIsServed

(* Whoever is refused without a failure was not entitled all along. *)
LEMMA RefusedIsUnentitled ==
    ASSUME IInv, NEW h \in Handlers, Active(h), Step(h), req'[h].step = "refused",
           req[h].failed \subseteq {Missing}, faults' = faults
    PROVE  Unentitled(req[h].wish, steady[h])
<1> DEFINE w == req[h].wish
<1> DEFINE S == steady[h]
<1> USE StepNames
<1> SUFFICES ASSUME req[h].failed = {}
             PROVE  Unentitled(w, S)
  <2>1. CASE Missing \in req[h].failed
    <3>1. w \in Wish /\ (w.kind = "query" \/ IsDelete(w)) /\ "stored" \notin S
      BY <2>1, Known DEF Sound, Cleared
    <3>2. QED
      BY <3>1, GrantsMean
  <2>2. CASE Missing \notin req[h].failed
    BY <2>2
  <2>3. QED
    BY <2>1, <2>2
<1>0. /\ w \in Wish /\ req[h] \in Request /\ req \in [Handlers -> Request]
      /\ Passed(w) \in Steps \ {"idle"} /\ Passed(w) # "refused" /\ Sound(req[h], S)
  BY Known, PassedType DEF IInv, Passed
<1>1. CASE Begin(h)
  BY <1>1 DEF Begin, At, Active
<1>2. CASE Derive(h)
  <2>1. ~tracked
    BY <1>0, <1>2, QueryEnds DEF Derive
  <2>2. w.kind = "read" \/ IsPush(w)
    BY <1>0, <1>2 DEF Derive, Sound, Stage, Cleared, Clear, Owed, At, IsPush, IsDelete
  <2>3. QED
    BY <1>0, <2>1, <2>2, Known, GrantsMean, AccessAssumption DEF Owns, Person, IsBanned, RoleOf, RowsOK
<1>3. CASE ReadAlias(h)
  <2>1. CASE w.form # "bare"
    BY <1>3, <2>1, GotoEnds, FailsEnds DEF ReadAlias
  <2>2. CASE w.form = "bare"
    <3>1. tracked \in BOOLEAN
      BY Known DEF RowsOK
    <3>2. \/ req'[h] = Following(req[h], "visibility", tracked)
          \/ req'[h] = Failing(Following(req[h], "visibility", FALSE), "alias")
      BY <1>0, <1>3, <2>2 DEF ReadAlias
    <3>3. \A b \in BOOLEAN : /\ Following(req[h], "visibility", b) \in Request
                             /\ Following(req[h], "visibility", b).step = "visibility"
      BY <1>0, FollowingType
    <3>4. \A r \in Request : Failing(r, "alias").step = r.step
      BY FailingType
    <3>5. QED
      BY <3>1, <3>2, <3>3, <3>4
  <2>3. QED
    BY <2>1, <2>2
<1>4. CASE ReadVisibility(h)
  <2>1. Passed(w) # "refused"
    BY <1>0 DEF Passed
  <2>2. IfPrivate(h) \in Steps
    BY <1>0, PassedType DEF IfPrivate, Steps
  <2>3. IsPrivate /\ IfPrivate(h) = "refused"
    BY <1>0, <1>4, <2>1, <2>2, QueryEnds DEF ReadVisibility
  <2>4. w.actor = Nobody
    BY <2>1, <2>3 DEF IfPrivate
  <2>5. /\ w.kind \in {"read", "query", "roster", "check"} \/ IsDelete(w)
        /\ w.kind = "check" => w.actor # w.subject
    BY <1>0, <1>4 DEF ReadVisibility, Sound, Stage, Cleared, Clear, Owed, At, IsPush, IsDelete
  <2>6. "plain" \notin S /\ ("member" \in S => w.kind = "check")
    BY <1>0, <2>3, <2>4, Known, AccessAssumption DEF Person, RoleOf
  <2>7. QED
    BY <1>0, <2>4, <2>5, <2>6, GrantsMean, AccessAssumption DEF Owns, Person, IsDelete
<1>5. CASE ReadBan(h)
  <2>1. IsBanned(w.actor)
    BY <1>0, <1>5, QueryEnds DEF ReadBan
  <2>2. /\ w.kind \in {"read", "query"} \/ IsDelete(w)
        /\ "plain" \notin S /\ (w.actor # Owner \/ "tracked" \notin S)
    BY <1>0, <1>5 DEF ReadBan, Sound, Stage, Cleared, Clear, Owed, At, IsPush, IsDelete
  <2>3. QED
    BY <1>0, <2>1, <2>2, Known, GrantsMean, AccessAssumption DEF Owns, Person, IsBanned, RoleOf, RowsOK
<1>6. CASE ReadMember(h)
  <2>1. RoleOf(w.actor) = "none" \/ Passed(w) = "refused"
    BY <1>0, <1>6, QueryEnds DEF ReadMember
  <2>2. /\ w.kind \in {"read", "query", "roster", "check"} \/ IsDelete(w)
        /\ "plain" \notin S /\ (w.actor # Owner \/ "tracked" \notin S)
        /\ w.kind = "check" => w.actor # w.subject
    BY <1>0, <1>6 DEF ReadMember, Sound, Stage, Cleared, Clear, Owed, At, IsPush, IsDelete
  <2>3. QED
    BY <1>0, <2>1, <2>2, Known, GrantsMean, AccessAssumption DEF Owns, Person, IsBanned, RoleOf, RowsOK
<1>7. CASE Locate(h)
  <2>1. tracked \in BOOLEAN
    BY Known DEF RowsOK
  <2>2. req' = [req EXCEPT ![h] = Following(@, IF tracked THEN "directory"
                                            ELSE IF w.form = "named" THEN "refused"
                                            ELSE "directory", tracked)]
    <3>1. faults' # faults + 1
      BY DEF IInv
    <3>2. QED
      BY <1>7, <3>1, Zenon DEF Locate
  <2>3. ~tracked
    <3>1. SUFFICES ASSUME tracked PROVE FALSE
      OBVIOUS
    <3>2. req'[h] = Following(req[h], "directory", tracked)
      BY <1>0, <2>1, <2>2, <3>1
    <3>3. "directory" \in Steps
      BY DEF Steps
    <3>4. Following(req[h], "directory", tracked).step = "directory"
      BY <1>0, <2>1, <3>3, FollowingType
    <3>5. QED
      BY <3>2, <3>4
  <2>4. w.kind = "query" \/ IsDelete(w)
    BY <1>0, <1>7 DEF Locate, Sound, Stage, Cleared, Clear, Owed, At, IsPush, IsDelete
  <2>5. QED
    BY <1>0, <2>3, <2>4, Known, GrantsMean
<1>8. CASE Directory(h)
  <2>1. ~stored
    BY <1>0, <1>8, GotoEnds DEF Directory
  <2>2. w.kind = "query" \/ IsDelete(w)
    BY <1>0, <1>8 DEF Directory, Sound, Stage, Cleared, Clear, Owed, At, IsPush, IsDelete
  <2>3. QED
    BY <1>0, <2>1, <2>2, Known, GrantsMean, AccessAssumption DEF Owns, Person, IsBanned, RoleOf, RowsOK
<1>9. CASE ResolvePath(h)
  <2>1. ~tracked
    BY <1>0, <1>9, QueryEnds DEF ResolvePath
  <2>2. w.kind = "read" \/ IsPush(w)
    BY <1>0, <1>9 DEF ResolvePath, Sound, Stage, Cleared, Clear, Owed, At, IsPush, IsDelete
  <2>3. QED
    BY <1>0, <2>1, <2>2, Known, GrantsMean, AccessAssumption DEF Owns, Person, IsBanned, RoleOf, RowsOK
<1>10. CASE Open(h)
  <2>1. ~stored
    BY <1>0, <1>10, GotoEnds DEF Open
  <2>2. w.kind \in {"read", "query"} \/ IsPush(w)
    BY <1>0, <1>10 DEF Open, Sound, Stage, Cleared, Clear, Owed, At, IsPush, IsDelete
  <2>3. QED
    BY <1>0, <2>1, <2>2, Known, GrantsMean, AccessAssumption DEF Owns, Person, IsBanned, RoleOf, RowsOK
<1>11. CASE ReadPushBan(h)
  <2>1. IsBanned(w.actor)
    BY <1>0, <1>11, GotoEnds, FailsEnds DEF ReadPushBan
  <2>2. IsPush(w)
    BY <1>0, <1>11 DEF ReadPushBan, Sound, Stage, Cleared, Clear, Owed, At, IsPush, IsDelete
  <2>3. QED
    BY <1>0, <2>1, <2>2, Known, GrantsMean, AccessAssumption DEF Owns, Person, IsBanned, RoleOf, RowsOK
<1>12. CASE ReadPushAlias(h)
  <2>1. ~tracked
    BY <1>0, <1>12, QueryEnds DEF ReadPushAlias
  <2>2. IsPush(w)
    BY <1>0, <1>12 DEF ReadPushAlias, Sound, Stage, Cleared, Clear, Owed, At, IsPush, IsDelete
  <2>3. QED
    BY <1>0, <2>1, <2>2, Known, GrantsMean, AccessAssumption DEF Owns, Person, IsBanned, RoleOf, RowsOK
<1>13. CASE ReadPushRole(h)
  <2>1. RoleOf(w.actor) # "writer"
    BY <1>0, <1>13, QueryEnds DEF ReadPushRole
  <2>2. IsPush(w) /\ w.actor # Owner
    BY <1>0, <1>13 DEF ReadPushRole, Sound, Stage, Cleared, Clear, Owed, At, IsPush, IsDelete
  <2>3. QED
    BY <1>0, <2>1, <2>2, Known, GrantsMean, AccessAssumption DEF Owns, Person, IsBanned, RoleOf, RowsOK
<1>14. CASE Identify(h)
  <2>1. ~tracked
    BY <1>0, <1>14, QueryEnds DEF Identify
  <2>2. w.kind \in {"roster", "check"}
    BY <1>0, <1>14 DEF Identify, Sound, Stage, Cleared, Clear, Owed, At, IsPush, IsDelete
  <2>3. QED
    BY <1>0, <2>1, <2>2, Known, GrantsMean, AccessAssumption DEF Owns, Person, IsBanned, RoleOf, RowsOK
<1>15. CASE ReadRole(h)
  <2>1. w.subject # Owner /\ RoleOf(w.subject) # "writer"
    BY <1>0, <1>15, QueryEnds DEF ReadRole
  <2>2. w.kind = "check"
    BY <1>0, <1>15 DEF ReadRole, Sound, Stage, Cleared, Clear, Owed, At, IsPush, IsDelete
  <2>3. QED
    BY <1>0, <2>1, <2>2, Known, GrantsMean, AccessAssumption DEF Owns, Person, IsBanned, RoleOf, RowsOK
<1>16. CASE LookUpOwner(h)
  <2>1. ~tracked \/ w.actor # Owner
    BY <1>0, <1>16, QueryEnds DEF LookUpOwner
  <2>2. w.kind = "space"
    BY <1>0, <1>16 DEF LookUpOwner, Sound, Stage, Cleared, Clear, Owed, At, IsPush, IsDelete
  <2>3. QED
    BY <1>0, <2>1, <2>2, Known, GrantsMean, AccessAssumption DEF Owns, Person, IsBanned, RoleOf, RowsOK
<1>17. CASE DenyIfBanned(h)
  <2>1. w.actor # Owner \/ IsBanned(w.actor)
    BY <1>0, <1>17, GotoEnds, FailsEnds DEF DenyIfBanned
  <2>2. w.kind = "space" \/ IsDelete(w)
    BY <1>0, <1>17 DEF DenyIfBanned, Sound, Stage, Cleared, Clear, Owed, At, IsPush, IsDelete
  <2>3. QED
    BY <1>0, <2>1, <2>2, Known, GrantsMean, AccessAssumption DEF Owns, Person, IsBanned, RoleOf, RowsOK
<1>18. CASE ReadOwnAlias(h)
  <2>1. ~tracked
    BY <1>0, <1>18, QueryEnds DEF ReadOwnAlias
  <2>2. IsDelete(w)
    BY <1>0, <1>18 DEF ReadOwnAlias, Sound, Stage, Cleared, Clear, Owed, At, IsPush, IsDelete
  <2>3. QED
    BY <1>0, <2>1, <2>2, Known, GrantsMean, AccessAssumption DEF Owns, Person, IsBanned, RoleOf, RowsOK
<1>19. CASE ReadTarget(h)
  <2>1. ~tracked \/ w.actor # Owner
    BY <1>0, <1>19, QueryEnds DEF ReadTarget
  <2>2. w.kind = "collab"
    BY <1>0, <1>19 DEF ReadTarget, Sound, Stage, Cleared, Clear, Owed, At, IsPush, IsDelete
  <2>3. QED
    BY <1>0, <2>1, <2>2, Known, GrantsMean, AccessAssumption DEF Owns, Person, IsBanned, RoleOf, RowsOK
<1>20. CASE Change(h)
  BY <1>20, GotoEnds DEF Change
<1>21. CASE RemoveDir(h)
  <2>1. ~stored
    BY <1>0, <1>21, GotoEnds DEF RemoveDir
  <2>2. IsPush(w) \/ IsDelete(w)
    BY <1>0, <1>21 DEF RemoveDir, Sound, Stage, Cleared, Clear, Owed, At, IsPush, IsDelete
  <2>3. QED
    BY <1>0, <2>1, <2>2, Known, GrantsMean, AccessAssumption DEF Owns, Person, IsBanned, RoleOf, RowsOK
<1>22. CASE PurgeRows(h)
  <2>1. ~tracked
    BY <1>0, <1>22, GotoEnds DEF PurgeRows
  <2>2. IsPush(w) \/ IsDelete(w)
    BY <1>0, <1>22 DEF PurgeRows, Sound, Stage, Cleared, Clear, Owed, At, IsPush, IsDelete
  <2>3. QED
    BY <1>0, <2>1, <2>2, Known, GrantsMean, AccessAssumption DEF Owns, Person, IsBanned, RoleOf, RowsOK
<1>23. CASE InitBare(h)
  <2>1. stored
    BY <1>0, <1>23, GotoEnds DEF InitBare
  <2>2. w.kind = "create"
    BY <1>0, <1>23 DEF InitBare, Sound, Stage, Cleared, Clear, Owed, At, IsPush, IsDelete
  <2>3. QED
    BY <1>0, <2>1, <2>2, Known, GrantsMean, AccessAssumption DEF Owns, Person, IsBanned, RoleOf, RowsOK
<1>24. CASE InsertRepo(h)
  <2>1. tracked
    BY <1>0, <1>24, GotoEnds DEF InsertRepo
  <2>2. w.kind = "create"
    BY <1>0, <1>24 DEF InsertRepo, Sound, Stage, Cleared, Clear, Owed, At, IsPush, IsDelete
  <2>3. QED
    BY <1>0, <2>1, <2>2, Known, GrantsMean, AccessAssumption DEF Owns, Person, IsBanned, RoleOf, RowsOK
<1>25. CASE SetInitialVisibility(h)
  BY <1>25, GotoEnds DEF SetInitialVisibility
<1>26. CASE Abandon(h)
  BY <1>26 DEF Abandon, IInv
<1>27. QED
  BY <1>1, <1>2, <1>3, <1>4, <1>5, <1>6, <1>7, <1>8, <1>9, <1>10, <1>11, <1>12, <1>13, <1>14, <1>15, <1>16, <1>17, <1>18, <1>19, <1>20, <1>21, <1>22, <1>23, <1>24, <1>25, <1>26 DEF Step

(* Whoever may do something on one ground from the beginning of a request to its
   end is not refused, unless the database failed. *)
THEOREM EntitledAreNotRefused == Spec => NobodyEntitledIsRefused
<1>1. ASSUME IInv, [Next]_vars, NEW h \in Handlers, Ends(h, "refused"),
             NEW G \in Grants(req[h].wish), G \subseteq steady[h]
      PROVE  req[h].failed \ {Missing} # {} \/ faults' # faults
  <2>1. "refused" \in Ended
    BY DEF Ended
  <2>2. Active(h) /\ Step(h) /\ req'[h].step = "refused"
    BY <1>1, <2>1, EndsByStep
  <2>3. ~Unentitled(req[h].wish, steady[h])
    BY <1>1 DEF Unentitled, Lacks
  <2>4. QED
    BY <1>1, <2>2, <2>3, RefusedIsUnentitled
<1>2. IInv /\ [Next]_vars =>
        [\A h \in Handlers :
           Ends(h, "refused") /\ (\E G \in Grants(req[h].wish) : G \subseteq steady[h])
               => req[h].failed \ {Missing} # {} \/ faults' # faults]_vars
  BY <1>1
<1>3. QED
  BY <1>2, AlwaysInv, PTL DEF Spec, NobodyEntitledIsRefused

=============================================================================
