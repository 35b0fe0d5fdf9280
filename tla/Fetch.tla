------------------------------- MODULE Fetch -------------------------------
(***************************************************************************)
(* Clone and fetch (vlecht-git/src/lib.rs): a client lists the refs,       *)
(* negotiates what both sides have, and asks for a pack.  The server keeps *)
(* nothing between these requests, so pushes, or the deletion and new      *)
(* creation of the repository, come in between.                            *)
(*                                                                         *)
(* The pack is chosen by collect_all_oids and collect_tree_oids.  They     *)
(* share one set `seen` of object ids among commits, trees, blobs and the  *)
(* commits that submodule entries name, and that is what the properties    *)
(* are about.  The two loops are modelled one iteration at a time.         *)
(***************************************************************************)
EXTENDS Integers, SequencesExt

CONSTANTS
    Objects,     \* object ids
    Kind,        \* Kind[o]: "commit", "tree", "blob" or "tag"
    Content,     \* Content[o]: the ids o names, of a commit its tree and then its
                 \* parents; a commit among the entries of a tree is a submodule
    Refs,
    NoRef,       \* a ref that does not exist
    Clients,
    Starts,      \* the sets of objects a client may have to begin with
    MaxPushes, MaxDeletions, MaxFetches  \* bounds

Kinds == {"commit", "tree", "blob", "tag"}
Of(kind) == {o \in Objects : Kind[o] = kind}

(* The objects that belong to o: the commit a submodule entry names is in
   another repository, or should be. *)
Parts(o) == {n \in ToSet(Content[o]) : Kind[o] = "tree" => Kind[n] # "commit"}

Closed(S) == \A o \in S : Parts(o) \subseteq S

Reach == [o \in Objects |->
            {n \in Objects : \A S \in SUBSET Objects : o \in S /\ Closed(S) => n \in S}]

From(S) == UNION {Reach[o] : o \in S}

ASSUME FetchAssumption ==
    /\ Kind \in [Objects -> Kinds]
    /\ Content \in [Objects -> Seq(Objects)]
    /\ \A o \in Of("commit") : /\ Content[o] # <<>>
                               /\ Head(Content[o]) \in Of("tree")
                               /\ ToSet(Tail(Content[o])) \subseteq Of("commit")
    /\ \A o \in Of("tree") : ToSet(Content[o]) \cap Of("tag") = {}
    /\ \A o \in Of("blob") : Content[o] = <<>>
    /\ \A o \in Of("tag") : \E n \in Of("commit") : Content[o] = <<n>>
    /\ NoRef \notin Objects
    /\ \A S \in Starts : S \subseteq Objects /\ Closed(S)
    /\ MaxPushes \in Nat /\ MaxDeletions \in Nat /\ MaxFetches \in Nat

VARIABLES
    objects,    \* the object database
    refs,       \* refs[r]: the object r names, or NoRef
    has,        \* has[c]: the objects of client c
    task,       \* task[c]: the fetch of c
    pushes,     \* pushes so far, for the bound
    deletions,  \* deletions so far, for the bound and to tell repositories apart
    fetches     \* fetches so far, for the bound

vars == <<objects, refs, has, task, pushes, deletions, fetches>>

Task == [phase    : {"idle", "listed", "walk", "answered", "failed"},
         v2       : BOOLEAN,             \* protocol version 2?
         wants    : SUBSET Objects,
         haves    : SUBSET Objects,      \* negotiated, then sent with `done`
         frontier : SUBSET Objects,      \* gix's rev_walk: commits to visit,
         walked   : SUBSET Objects,      \* and those it ever queued
         seen     : SUBSET Objects,      \* collect_all_oids
         stack    : Seq(Objects),        \* collect_tree_oids: entries to visit
         oids     : Seq(Objects),        \* the pack so far
         since    : Nat]                 \* deletions when the refs were listed

NoTask == [phase |-> "idle", v2 |-> FALSE, wants |-> {}, haves |-> {}, frontier |-> {},
           walked |-> {}, seen |-> {}, stack |-> <<>>, oids |-> <<>>, since |-> 0]

-----------------------------------------------------------------------------
(* Listing and negotiation. *)

(* Mutant: a tag is peeled to its tree. *)
PeeledToTree(o) == IF Kind[o] = "tag" THEN Head(Content[Content[o][1]]) ELSE o

Peeled(o) == IF Kind[o] = "tag" THEN Content[o][1] ELSE o

(* ls_refs names the tag object of an annotated tag, advertise_refs the commit
   it peels to. *)
Advertised(v2) == {IF v2 THEN refs[r] ELSE Peeled(refs[r]) : r \in {r \in Refs : refs[r] # NoRef}}

(* The client wants some of the refs it lacks. *)
ListRefs(c) ==
    /\ task[c].phase = "idle"
    /\ fetches < MaxFetches
    /\ \E v2 \in BOOLEAN : \E wants \in SUBSET (Advertised(v2) \ has[c]) \ {{}} :
         task' = [task EXCEPT ![c] = [NoTask EXCEPT !.phase = "listed", !.v2 = v2,
                                                    !.wants = wants, !.since = deletions]]
    /\ fetches' = fetches + 1
    /\ UNCHANGED <<objects, refs, has, pushes, deletions>>

(* Mutant: only what a ref names is taken as present. *)
PresentAtRef(o) == \E r \in Refs : refs[r] = o

(* find_object *)
Present(o) == o \in objects

(* fetch_v2 without `done`: the haves that exist are acknowledged. *)
Negotiate(c) ==
    /\ task[c].phase = "listed" /\ task[c].v2
    /\ \E tried \in SUBSET (has[c] \cap Of("commit")) :
         task' = [task EXCEPT ![c].haves = @ \cup {o \in tried : Present(o)}]
    /\ UNCHANGED <<objects, refs, has, pushes, deletions, fetches>>

(* fetch_v2 with `done`, and upload_pack_response: the client names its wants, and
   commits it has, whether the server knows them or not.  Version 2 reports a
   want that does not exist; version 0 goes on. *)
Ask(c) ==
    /\ task[c].phase = "listed"
    /\ \E more \in SUBSET (has[c] \cap Of("commit")) :
         LET t == task[c]
             haves == t.haves \cup more
         IN  task' = [task EXCEPT ![c] =
               IF t.v2 /\ \E o \in t.wants : ~Present(o)
               THEN [t EXCEPT !.phase = "failed"]
               ELSE [t EXCEPT !.phase = "walk", !.haves = haves, !.frontier = t.wants,
                              !.walked = t.wants, !.seen = haves]]
    /\ UNCHANGED <<objects, refs, has, pushes, deletions, fetches>>

-----------------------------------------------------------------------------
(* The choice of objects. *)

Parents(o) == ToSet(Tail(Content[o]))

(* rev_walk yields commits only; what it cannot find or parse is an error, and
   `flatten` drops it. *)
IsYielded(o) == Present(o) /\ Kind[o] = "commit"

(* The walk goes on below a commit whether or not the loop takes it. *)
Queued(t, o) == IF IsYielded(o) THEN Parents(o) \ t.walked ELSE {}

(* Mutant: the loop ends at a commit that was seen. *)
WalkCommitBreaks(c) ==
    /\ task[c].phase = "walk" /\ task[c].stack = <<>>
    /\ \E o \in task[c].frontier :
         task' = [task EXCEPT ![c] =
           IF ~IsYielded(o) \/ o \in @.seen THEN [@ EXCEPT !.frontier = {}]
           ELSE [@ EXCEPT !.frontier = (@ \ {o}) \cup Queued(task[c], o),
                          !.walked = @ \cup Queued(task[c], o), !.seen = @ \cup {o},
                          !.oids = Append(@, o), !.stack = <<Head(Content[o])>>]]
    /\ UNCHANGED <<objects, refs, has, pushes, deletions, fetches>>

(* One iteration of collect_all_oids, on any commit that the walk has queued. *)
WalkCommit(c) ==
    /\ task[c].phase = "walk" /\ task[c].stack = <<>>
    /\ \E o \in task[c].frontier :
         LET walked == [task[c] EXCEPT !.frontier = (@ \ {o}) \cup Queued(task[c], o),
                                       !.walked = @ \cup Queued(task[c], o)]
         IN  task' = [task EXCEPT ![c] =
               IF IsYielded(o) /\ o \notin walked.seen
               THEN [walked EXCEPT !.seen = @ \cup {o}, !.oids = Append(@, o),
                                   !.stack = <<Head(Content[o])>>]
               ELSE walked]
    /\ UNCHANGED <<objects, refs, has, pushes, deletions, fetches>>

(* collect_tree_oids on a tree that was not seen: an error if it is gone. *)
VisitTree(c) ==
    /\ task[c].stack # <<>>
    /\ LET t == task[c]
           o == Head(t.stack)
           rest == Tail(t.stack)
       IN  /\ Kind[o] = "tree"
           /\ task' = [task EXCEPT ![c] =
                IF o \in t.seen THEN [t EXCEPT !.stack = rest]
                ELSE IF ~Present(o) THEN [t EXCEPT !.phase = "failed", !.stack = <<>>]
                ELSE [t EXCEPT !.seen = @ \cup {o}, !.oids = Append(@, o),
                               !.stack = Content[o] \o rest]]
    /\ UNCHANGED <<objects, refs, has, pushes, deletions, fetches>>

(* Mutant: the commit of a submodule is sent like a blob. *)
IsSentAlways(o) == TRUE

(* ... while the commit of a submodule only becomes seen. *)
IsSent(o) == Kind[o] # "commit"

(* The other entries of a tree. *)
VisitEntry(c) ==
    /\ task[c].stack # <<>>
    /\ LET o == Head(task[c].stack)
       IN  /\ Kind[o] # "tree"
           /\ task' = [task EXCEPT
                ![c].stack = Tail(@),
                ![c].seen = @ \cup {o},
                ![c].oids = IF o \notin task[c].seen /\ IsSent(o) THEN Append(@, o) ELSE @]
    /\ UNCHANGED <<objects, refs, has, pushes, deletions, fetches>>

(* generate_pack_bytes looks every object up again. *)
SendPack(c) ==
    /\ task[c].phase = "walk" /\ task[c].frontier = {} /\ task[c].stack = <<>>
    /\ task' = [task EXCEPT ![c].phase =
                  IF \A o \in ToSet(task[c].oids) : Present(o) THEN "answered" ELSE "failed"]
    /\ UNCHANGED <<objects, refs, has, pushes, deletions, fetches>>

(* The client keeps the pack if with it all it wanted is complete. *)
Finish(c) ==
    /\ task[c].phase \in {"answered", "failed"}
    /\ LET got == has[c] \cup ToSet(task[c].oids)
       IN  has' = IF task[c].phase = "answered" /\ From(task[c].wants) \subseteq got
                  THEN [has EXCEPT ![c] = got] ELSE has
    /\ task' = [task EXCEPT ![c] = NoTask]
    /\ UNCHANGED <<objects, refs, pushes, deletions, fetches>>

-----------------------------------------------------------------------------
(* What others do meanwhile. *)

(* receive_pack moves or creates a ref, by force perhaps: one of the changes that
   RepoStore allows, which FetchProofs puts in its place. *)
Push ==
    /\ pushes < MaxPushes
    /\ \E r \in Refs, o \in Of("commit") \cup Of("tag") :
         /\ refs' = [refs EXCEPT ![r] = o]
         /\ objects' = objects \cup Reach[o]
    /\ pushes' = pushes + 1
    /\ UNCHANGED <<has, task, deletions, fetches>>

(* The repository is deleted and a new one made under its name. *)
Recreate ==
    /\ deletions < MaxDeletions
    /\ objects' = {}
    /\ refs' = [r \in Refs |-> NoRef]
    /\ deletions' = deletions + 1
    /\ UNCHANGED <<has, task, pushes, fetches>>

Init ==
    /\ objects = {}
    /\ refs = [r \in Refs |-> NoRef]
    /\ has \in [Clients -> Starts]
    /\ task = [c \in Clients |-> NoTask]
    /\ pushes = 0 /\ deletions = 0 /\ fetches = 0

Step(c) ==
    \/ ListRefs(c)
    \/ Negotiate(c)
    \/ Ask(c)
    \/ WalkCommit(c)
    \/ VisitTree(c)
    \/ VisitEntry(c)
    \/ SendPack(c)
    \/ Finish(c)

Next == Push \/ Recreate \/ \E c \in Clients : Step(c)

Spec == Init /\ [][Next]_vars

-----------------------------------------------------------------------------
TypeOK ==
    /\ objects \subseteq Objects
    /\ refs \in [Refs -> Objects \cup {NoRef}]
    /\ has \in [Clients -> SUBSET Objects]
    /\ task \in [Clients -> Task]
    /\ \A c \in Clients : /\ task[c].haves \subseteq Of("commit")
                          /\ task[c].walked \subseteq Of("commit") \cup Of("tag")
                          /\ task[c].stack # <<>> => task[c].phase = "walk"
    /\ pushes \in Nat /\ deletions \in Nat /\ fetches \in Nat

Undisturbed(c) == task[c].since = deletions

Missing(c) == From(task[c].wants) \ (has[c] \cup ToSet(task[c].oids))

(* The commits that submodule entries of the fetched trees name. *)
Submodules(c) ==
    {o \in Of("commit") : \E t \in From(task[c].wants) \cap Of("tree") : o \in ToSet(Content[t])}

(* A pack, with what the client has, is all of what was asked for, whatever is
   pushed meanwhile and whatever the client said it has.  Two things can be left
   out, and nothing below them that is reachable in another way: annotated tags
   that version 2 had listed, and a commit that a tree fetched along with it names
   as a submodule, with its tree: such a commit is `seen` before it is sent. *)
OnlyTagsAndSubmodulesAreMissing ==
    \A c \in Clients :
        task[c].phase = "answered" /\ Undisturbed(c) =>
            Missing(c) \subseteq From(task[c].wants \cap Of("tag")) \cup Submodules(c)
                                 \cup From({Head(Content[o]) : o \in Submodules(c)})

(* The pack holds no object twice, none that the client said it has, and none that
   is not reachable from its wants: not the commit of a submodule that happens to
   be stored for another branch. *)
PackIsExact ==
    \A c \in Clients :
        /\ ToSet(task[c].oids) \subseteq From(task[c].wants) \ task[c].haves
        /\ Len(task[c].oids) = Cardinality(ToSet(task[c].oids))

(* What was listed is served, though the refs have moved since, unless the
   repository was deleted meanwhile. *)
ListedIsServed == \A c \in Clients : task[c].phase = "failed" => ~Undisturbed(c)

-----------------------------------------------------------------------------
(* What the documentation says and the code does not do. *)

(* PLAN.md: "`git clone` works", that is, a client that asks for refs as they were
   listed gets what they name. *)
CloneIsComplete ==
    \A c \in Clients : task[c].phase = "answered" /\ Undisturbed(c) => Missing(c) = {}
=============================================================================
