------------------------------ MODULE MCFetch ------------------------------
(* An object graph for TLC: the history a <- b <- c, where the tree of c names b
   as a submodule and that of b a commit x of another repository, which has no
   history here; d forks from a; an annotated tag names b. *)
EXTENDS Fetch
CONSTANTS a, b, c, d, x, ta, tb, tc, sub, f, g, tag, main, dev, client

MCContent == [o \in Objects |->
    CASE o = a -> <<ta>> [] o = b -> <<tb, a>> [] o = c -> <<tc, b>> [] o = d -> <<tb, a>>
      [] o = x -> <<ta>> [] o = ta -> <<sub>> [] o = tb -> <<f, x, sub>>
      [] o = tc -> <<b, ta, f, sub>> [] o = sub -> <<f, g>> [] o = tag -> <<b>>
      [] OTHER -> <<>>]

MCKind == [o \in Objects |->
    CASE o \in {a, b, c, d, x} -> "commit" [] o \in {ta, tb, tc, sub} -> "tree"
      [] o = tag -> "tag" [] OTHER -> "blob"]

MCStarts == {{}, Reach[a], Reach[d] \cup {a, ta}}
=============================================================================
