---------------------------- MODULE MCSshSession ----------------------------
(* Instances of SshSession for TLC. *)
EXTENDS SshSession

Push(lines, pack) == [command |-> "push", lines |-> lines, pack |-> pack, haves |-> 0]
Fetch(lines, haves) == [command |-> "fetch", lines |-> lines, pack |-> 0, haves |-> haves]

(* Deletions; a branch made of a stored commit, with an empty pack; a push, one that
   also deletes, one that also moves, one that is too large; a clone, a fetch with
   nothing to ask, with few commits to tell, with too many. *)
MCRequests ==
    {Push(<<"delete">>, 0),
     Push(<<"delete", "delete">>, 0),
     Push(<<"move">>, 3),
     Push(<<"update">>, 4),
     Push(<<"delete", "update">>, 5),
     Push(<<"move", "update">>, 4),
     Push(<<"update", "delete">>, 9),
     Fetch(<<"want", "want">>, 0),
     Fetch(<<>>, 0),
     Fetch(<<"want">>, 3),
     Fetch(<<"want">>, 4)}
=============================================================================
