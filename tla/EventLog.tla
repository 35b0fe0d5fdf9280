------------------------------ MODULE EventLog ------------------------------
(***************************************************************************)
(* What a reader of /events may ask of the knot: one log that only grows   *)
(* at its end, and every reader sees the log from its beginning, each row  *)
(* once, in order, with no gap.  A row's place in the log is its stamp     *)
(* `created`.                                                              *)
(***************************************************************************)
EXTENDS Integers, Sequences

CONSTANT Readers

VARIABLES
    log,   \* the rows stored so far
    seen   \* seen[r]: the rows reader r got, in order

vars == <<log, seen>>

Unseen(r) == log \ {seen[r][i] : i \in 1 .. Len(seen[r])}

Init ==
    /\ log = {}
    /\ seen = [r \in Readers |-> <<>>]

Extend ==
    /\ \E ev \in log' \ log :
         /\ log' = log \cup {ev}
         /\ \A o \in log : o.created < ev.created
    /\ UNCHANGED seen

Deliver(r) ==
    /\ \E ev \in Unseen(r) :
         /\ \A o \in Unseen(r) : ev.created <= o.created
         /\ seen' = [seen EXCEPT ![r] = Append(@, ev)]
    /\ UNCHANGED log

Next == Extend \/ \E r \in Readers : Deliver(r)

Spec == Init /\ [][Next]_vars

(* No reader is left behind. *)
FairSpec == Spec /\ \A r \in Readers : WF_vars(Deliver(r))
=============================================================================
