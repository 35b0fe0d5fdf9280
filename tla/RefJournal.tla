----------------------------- MODULE RefJournal -----------------------------
(***************************************************************************)
(* What whoever follows refUpdate events may ask of a repository: an event *)
(* tells of a change that a push really made, from the value its sender    *)
(* was shown (or from none) to the one it asked for, and those of one push *)
(* come in the order in which it made them.  A change goes untold in three *)
(* ways: its event is lost on its own, from anywhere among those of its    *)
(* push; its push is doomed by what it asks for, and then nothing of it is *)
(* told; or a failure hits its push, and then nothing more of it is.  The  *)
(* owner's own edits are not told, and touch no tag.                       *)
(***************************************************************************)
EXTENDS Naturals, Sequences

CONSTANTS
    Refs, Values, Absent,
    PushRefs,    \* the refs a push may move
    OwnerRefs,   \* the refs an owner request may move
    Pushers

VARIABLES
    refs,
    untold,      \* untold[p]: what p changed and no event has told of, oldest first
    told,        \* the changes that events have told of
    lost,        \* the changes whose event was lost on its own
    doomed,      \* the pushers whose push will be abandoned half way
    failures     \* failures so far

vars == <<refs, untold, told, lost, doomed, failures>>

Change == [ref : Refs, old : Values, new : Values]

Init ==
    /\ refs \in [Refs -> Values]
    /\ untold = [p \in Pushers |-> <<>>]
    /\ told = {}
    /\ lost = {}
    /\ doomed = {}
    /\ failures = 0

(* What a push asks for settles whether it will be abandoned. *)
Begin(p) ==
    /\ untold[p] = <<>>
    /\ p \notin doomed
    /\ doomed' \in {doomed, doomed \cup {p}}
    /\ UNCHANGED <<refs, untold, told, lost, failures>>

Push(p) ==
    /\ \E c \in Change :
         /\ c.ref \in PushRefs
         /\ refs[c.ref] \in {c.old, Absent}
         /\ refs' = [refs EXCEPT ![c.ref] = c.new]
         /\ untold' = [untold EXCEPT ![p] = @ \o <<c>>]
    /\ UNCHANGED <<told, lost, doomed, failures>>

Abandon(p) ==
    /\ p \in doomed
    /\ untold' = [untold EXCEPT ![p] = <<>>]
    /\ doomed' = doomed \ {p}
    /\ UNCHANGED <<refs, told, lost, failures>>

(* The oldest of what p has left to tell is told, or lost on its way. *)
Tell(p) ==
    /\ p \notin doomed
    /\ untold[p] # <<>>
    /\ \/ told' = told \cup {Head(untold[p])} /\ lost' = lost
       \/ lost' = lost \cup {Head(untold[p])} /\ told' = told
    /\ untold' = [untold EXCEPT ![p] = Tail(@)]
    /\ UNCHANGED <<refs, doomed, failures>>

Edit ==
    /\ \E r \in OwnerRefs, v \in Values : refs' = [refs EXCEPT ![r] = v]
    /\ UNCHANGED <<untold, told, lost, doomed, failures>>

(* Handlers are dropped, or the server is stopped. *)
Fail ==
    /\ failures' = failures + 1
    /\ \E gone \in SUBSET Pushers :
         /\ untold' = [p \in Pushers |-> IF p \in gone THEN <<>> ELSE untold[p]]
         /\ doomed' = doomed \ gone
    /\ UNCHANGED <<refs, told, lost>>

Next == Edit \/ Fail \/ \E p \in Pushers : Begin(p) \/ Push(p) \/ Abandon(p) \/ Tell(p)

Spec == Init /\ [][Next]_vars
=============================================================================
