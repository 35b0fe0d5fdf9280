------------------------------ MODULE LateLog -------------------------------
(***************************************************************************)
(* What a reader of /events may ask of a knot that emits from several      *)
(* tasks: a log whose rows may come late, below rows that are there, and   *)
(* readers who get, in order and each once, every row they had not passed  *)
(* when it came.  A row is lost to a reader only as it is stored late, and *)
(* may come back to one who resumes below it.                              *)
(***************************************************************************)
EXTENDS Integers, Sequences

CONSTANT Readers

VARIABLES
    log,   \* the rows stored so far
    seen,  \* seen[r]: the rows reader r got, in order
    lost   \* lost[r]: the rows r will not get unless it resumes below them

vars == <<log, seen, lost>>

Seen(r) == {seen[r][i] : i \in 1 .. Len(seen[r])}

Passed(r, ev) == \E o \in Seen(r) : ev.created < o.created

Expected(r) == log \ (Seen(r) \cup lost[r])

Init ==
    /\ log = {}
    /\ seen = [r \in Readers |-> <<>>]
    /\ lost = [r \in Readers |-> {}]

Extend ==
    /\ \E ev \in log' \ log :
         /\ log' = log \cup {ev}
         /\ \A r \in Readers :
              /\ Passed(r, ev) => ev \in lost'[r]
              /\ \/ lost'[r] = lost[r]
                 \/ /\ lost'[r] = lost[r] \cup {ev}
                    /\ \E o \in log : ev.created < o.created
    /\ UNCHANGED seen

Deliver(r) ==
    /\ \E ev \in Expected(r) :
         /\ \A o \in Expected(r) : ev.created <= o.created
         /\ seen' = [seen EXCEPT ![r] = Append(@, ev)]
    /\ UNCHANGED <<log, lost>>

Resume ==
    /\ \A r \in Readers :
         /\ lost'[r] \subseteq lost[r]
         /\ \A ev \in lost[r] : Passed(r, ev) => ev \in lost'[r]
    /\ UNCHANGED <<log, seen>>

Next == Extend \/ Resume \/ \E r \in Readers : Deliver(r)

Spec == Init /\ [][Next]_vars
=============================================================================
