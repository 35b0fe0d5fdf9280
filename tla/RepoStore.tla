----------------------------- MODULE RepoStore ------------------------------
(***************************************************************************)
(* What a repository promises to those who read it while others write:     *)
(* objects are never taken away, and come with all they need; refs move    *)
(* one at a time, and only to what is stored in full.                      *)
(***************************************************************************)
CONSTANTS
    Refs,
    Tips,     \* what a ref may name
    Absent,   \* a ref that does not exist
    Whole     \* Whole[o]: o and all that it needs

VARIABLES refs, objects

vars == <<refs, objects>>

Wholes(tips) == UNION {Whole[o] : o \in tips}

Named == {refs[r] : r \in Refs} \ {Absent}

Init ==
    /\ refs \in [Refs -> Tips \cup {Absent}]
    /\ objects = Wholes(Named)

Move ==
    \E r \in Refs, o \in Tips \cup {Absent} :
        /\ o # Absent => Whole[o] \subseteq objects'
        /\ refs' = [refs EXCEPT ![r] = o]

Change ==
    /\ \E tips \in SUBSET Tips : objects' = objects \cup Wholes(tips)
    /\ Move \/ UNCHANGED refs

Spec == Init /\ [][Change]_vars
=============================================================================
