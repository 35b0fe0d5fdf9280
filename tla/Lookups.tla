------------------------------ MODULE Lookups ------------------------------
(***************************************************************************)
(* Cached questions to the network: which DID a handle stands for          *)
(* (resolve_owner_did in vlecht/src/auth.rs), and which SSH keys a user    *)
(* has published (resolve_via_pds in vlecht/src/ssh.rs).  Both read their  *)
(* cache, ask without holding its lock, and write the answer, a success or *)
(* a failure, with the time until which it counts as fresh.  So lookups of *)
(* one name overlap and store their answers in any order.                  *)
(*                                                                         *)
(* One handle and one user.  A login asks the public_keys table before the *)
(* cache, and a key it found at the user's PDS is added to that table,     *)
(* from which nothing removes it.  What the network answers is arbitrary;  *)
(* what matters is when it answered.                                       *)
(***************************************************************************)
EXTENDS Integers

CONSTANTS
    Lookers,     \* request handlers and SSH sessions
    Keys,        \* SSH keys
    Dids,        \* DIDs
    Failed,      \* the answer "no such handle, or the service did not answer"
    PosTtl,      \* HANDLE_POS_TTL, POS_TTL
    NegTtl,      \* HANDLE_NEG_TTL, NEG_TTL
    Patience,    \* how long a question may take: the timeouts of the HTTP clients
    Horizon      \* bound: the clock

Subjects == {"handle", "keys"}

(* What may be answered on a subject. *)
Answers == [handle |-> {Failed} \cup Dids, keys |-> {Failed} \cup SUBSET Keys]
AllAnswers == Answers.handle \cup Answers.keys

ASSUME LookupsAssumption ==
    /\ Failed \notin Dids /\ \A S \in SUBSET Keys : Failed # S
    /\ Keys # {}
    /\ PosTtl \in Nat \ {0} /\ NegTtl \in Nat \ {0}
    /\ Patience \in Nat /\ Horizon \in Nat

VARIABLES
    now,    \* std::time::Instant::now()
    cache,  \* cache[s]: the entry of handle_cache or of pds_key_cache
    table,  \* the user's keys in public_keys
    task    \* task[l]: the lookup of l

vars == <<now, cache, table, task>>

(* asOf is history: when the network gave the answer. *)
Entry == [present : BOOLEAN, answer : AllAnswers, until : Nat, asOf : Nat]
NoEntry == [present |-> FALSE, answer |-> Failed, until |-> 0, asOf |-> 0]

Task == [phase   : {"idle", "looking", "asked", "answered", "persist", "done"},
         subject : Subjects,
         key     : Keys,        \* the key offered at login
         answer  : AllAnswers,
         asked   : Nat,         \* when the lookup turned to the network
         asOf    : Nat,
         known   : BOOLEAN]     \* accepted from the table, without the network
NoTask == [phase |-> "idle", subject |-> "handle", key |-> CHOOSE k \in Keys : TRUE,
           answer |-> Failed, asked |-> 0, asOf |-> 0, known |-> FALSE]

Ttl(answer) == IF answer = Failed THEN NegTtl ELSE PosTtl

(* Mutant: an entry is fresh up to and including its limit. *)
FreshThrough(e) == e.present /\ e.until >= now

Fresh(e) == e.present /\ e.until > now

Found(t) == t.subject = "keys" /\ t.answer # Failed /\ t.key \in t.answer

(* Mutant: every answer is written to the table. *)
PersistsAll(t) == [t EXCEPT !.phase = "persist"]

(* A key that was found is written to the table before the login is accepted. *)
Decided(t) == IF Found(t) THEN [t EXCEPT !.phase = "persist"] ELSE [t EXCEPT !.phase = "done"]

-----------------------------------------------------------------------------
(* auth_publickey scans the table first. *)
AcceptKnown(l, k) ==
    /\ task[l].phase = "idle"
    /\ k \in table
    /\ task' = [task EXCEPT ![l] = [NoTask EXCEPT !.phase = "done", !.subject = "keys",
                                                  !.key = k, !.known = TRUE]]
    /\ UNCHANGED <<now, cache, table>>

(* A lookup of the handle, or a login whose key is not in the table, or for which
   the table could not be read. *)
BeginLookup(l, s, k) ==
    /\ task[l].phase = "idle"
    /\ task' = [task EXCEPT ![l] = [NoTask EXCEPT !.phase = "looking", !.subject = s, !.key = k]]
    /\ UNCHANGED <<now, cache, table>>

(* The user name given at login is a handle that does not resolve: the login is
   rejected and nothing cached. *)
UserUnresolved(l) ==
    /\ task[l].phase = "looking" /\ task[l].subject = "keys"
    /\ task' = [task EXCEPT ![l] = [@ EXCEPT !.phase = "done", !.asOf = now]]
    /\ UNCHANGED <<now, cache, table>>

(* A fresh entry answers, though it be a failure or a list without the key. *)
AnswerFromCache(l) ==
    /\ task[l].phase = "looking"
    /\ LET e == cache[task[l].subject]
       IN  /\ Fresh(e)
           /\ task' = [task EXCEPT ![l] = Decided([task[l] EXCEPT !.answer = e.answer,
                                                                 !.asOf = e.asOf])]
    /\ UNCHANGED <<now, cache, table>>

(* No entry or a stale one, which a login removes. *)
AskNetwork(l) ==
    /\ task[l].phase = "looking"
    /\ ~Fresh(cache[task[l].subject])
    /\ cache' = IF task[l].subject = "keys" THEN [cache EXCEPT !["keys"] = NoEntry] ELSE cache
    /\ task' = [task EXCEPT ![l] = [@ EXCEPT !.phase = "asked", !.asked = now]]
    /\ UNCHANGED <<now, table>>

(* The resolver or the PDS answers, or fails. *)
Answer(l) ==
    /\ task[l].phase = "asked"
    /\ \E answer \in Answers[task[l].subject] :
         task' = [task EXCEPT ![l] = [@ EXCEPT !.phase = "answered", !.answer = answer,
                                               !.asOf = now]]
    /\ UNCHANGED <<now, cache, table>>

(* The answer arrives, is stored over whatever the cache has, and is used. *)
StoreAnswer(l) ==
    /\ task[l].phase = "answered"
    /\ cache' = [cache EXCEPT ![task[l].subject] =
                   [present |-> TRUE, answer |-> task[l].answer,
                    until |-> now + Ttl(task[l].answer), asOf |-> task[l].asOf]]
    /\ task' = [task EXCEPT ![l] = Decided(task[l])]
    /\ UNCHANGED <<now, table>>

(* persist_pds_key: a failure is logged, and the login is accepted all the same. *)
PersistKey(l) ==
    /\ task[l].phase = "persist"
    /\ table' \in {table, table \cup {task[l].key}}
    /\ task' = [task EXCEPT ![l].phase = "done"]
    /\ UNCHANGED <<now, cache>>

(* The lookup is over, or its request or session is dropped at an await. *)
Return(l) ==
    /\ task[l].phase # "idle"
    /\ task' = [task EXCEPT ![l] = NoTask]
    /\ UNCHANGED <<now, cache, table>>

(* Mutant: a question may take as long as it likes. *)
TickWithoutTimeout ==
    /\ now < Horizon
    /\ now' = now + 1
    /\ UNCHANGED <<cache, table, task>>

(* Time passes; what has waited for Patience has been answered and stored. *)
Tick ==
    /\ now < Horizon
    /\ \A l \in Lookers : task[l].phase \in {"asked", "answered"} => now < task[l].asked + Patience
    /\ now' = now + 1
    /\ UNCHANGED <<cache, table, task>>

(* The server starts again: the caches are in memory. *)
Restart ==
    /\ cache' = [s \in Subjects |-> NoEntry]
    /\ task' = [l \in Lookers |-> NoTask]
    /\ UNCHANGED <<now, table>>

(* build_state; keys may have been imported from a Go knot. *)
Init ==
    /\ now = 0
    /\ cache = [s \in Subjects |-> NoEntry]
    /\ table \in SUBSET Keys
    /\ task = [l \in Lookers |-> NoTask]

Step(l) ==
    \/ \E k \in Keys : AcceptKnown(l, k)
    \/ \E s \in Subjects, k \in Keys : BeginLookup(l, s, k)
    \/ UserUnresolved(l)
    \/ AnswerFromCache(l)
    \/ AskNetwork(l)
    \/ Answer(l)
    \/ StoreAnswer(l)
    \/ PersistKey(l)
    \/ Return(l)

Next == Tick \/ Restart \/ \E l \in Lookers : Step(l)

Spec == Init /\ [][Next]_vars

-----------------------------------------------------------------------------
TypeOK ==
    /\ now \in Nat
    /\ cache \in [Subjects -> Entry]
    /\ table \subseteq Keys
    /\ task \in [Lookers -> Task]
    /\ \A s \in Subjects : cache[s].answer \in Answers[s]
    /\ \A l \in Lookers : /\ task[l].answer \in Answers[task[l].subject]
                          /\ task[l].phase = "persist" => Found(task[l])

(* The step in which l settles on an answer. *)
Settles(l) ==
    /\ task[l].phase \in {"idle", "looking", "answered"}
    /\ task'[l].phase \in {"persist", "done"}
    /\ ~task'[l].known

(* However lookups of one name overlap, none settles on an answer older than its
   TTL and the time a question may take.  So a handle that moved and a key that was
   withdrawn or published are noticed that soon, except that keys once found stay
   in the table. *)
AnswersAreRecent ==
    [][\A l \in Lookers :
         Settles(l) => now < task'[l].asOf + Ttl(task'[l].answer) + Patience]_vars

(* Answers are stored in any order, but an older one replaces a newer one only if
   their questions were open together: it sets the cache back by no more than the
   time a question may take. *)
AnswersGoBackLittle ==
    [][\A s \in Subjects :
         cache[s].present /\ cache'[s].present => cache'[s].asOf >= cache[s].asOf - Patience]_vars
=============================================================================
