----------------------------- MODULE MCRepoRefs -----------------------------
(* Instances of RepoRefs for TLC. *)
EXTENDS RepoRefs, TLC

CONSTANTS main, dev, c1, c2, c3

(* c2 and c3 diverge from c1. *)
MCAnc == (c1 :> {c1}) @@ (c2 :> {c1, c2}) @@ (c3 :> {c1, c3})

Branch(n) == <<"heads", n>>

(* The default branch and one that is ahead of it. *)
MCStart == {[r \in Refs |-> CASE r = Branch(main) -> c1
                              [] r = Branch(dev) -> c2
                              [] OTHER -> Absent]}

(* Fast-forwards, a forced push, a deletion, a creation, a tag that hides a
   branch, a ref clients may not write. *)
MCWishes ==
    {<<[ref |-> Branch(main), new |-> c3]>>,
     <<[ref |-> Branch(dev), new |-> Absent], [ref |-> Branch(main), new |-> c2]>>,
     <<[ref |-> <<"tags", main>>, new |-> c1]>>,
     <<[ref |-> <<"tags", dev>>, new |-> c3], [ref |-> <<"hidden", dev>>, new |-> c3]>>}

MCMalformed == MCWishes \cup
    {<<[ref |-> Branch(dev), new |-> c3], [ref |-> Branch(main), new |-> Malformed]>>}
=============================================================================
