------------------------------ MODULE RepoRefs ------------------------------
(***************************************************************************)
(* The refs of one repository, as pushes and owner requests move them.     *)
(*                                                                         *)
(* A push (receive_pack in vlecht-git/src/lib.rs, reached over HTTP and    *)
(* SSH) ingests its pack and then edits one ref per command, each edit a   *)
(* compare-and-set on the value the client was shown; the changes it made  *)
(* are then announced as refUpdate events.  The owner's XRPC requests      *)
(* (merge, forkSync, deleteBranch, setDefaultBranch, hiddenRef in          *)
(* vlecht-atp/src/lex) read several refs one after the other and end in an *)
(* edit that takes whatever value it finds.  No lock spans a request: each *)
(* ref read and each edit_reference is one step.                           *)
(***************************************************************************)
EXTENDS Integers, FiniteSets, Sequences

CONSTANTS
    Pushers,           \* connections that push
    Maintainers,       \* connections that send owner requests
    Names,             \* short names: a branch, a tag and a hidden ref may share one
    Commits,
    Anc,               \* Anc[c]: c and the commits it descends from
    Absent,            \* no value: the zero sha, a ref that does not exist
    Malformed,         \* a sha that is not hexadecimal
    StartRefs,         \* what earlier pushes may have left
    Wishes,            \* what a push may ask for: sequences of refs and new values
    MaxRequests,       \* bound: pushes and owner requests
    MaxFaults          \* bound: I/O errors, cancelled handlers, crashes

Kinds == {"heads", "tags", "hidden"}
Refs == Kinds \X Names
Values == Commits \cup {Absent}

ASSUME RefsAssumption ==
    /\ Absent \notin Commits /\ Malformed \notin Values
    /\ Anc \in [Commits -> SUBSET Commits]
    /\ \A c \in Commits : c \in Anc[c]
    /\ \A c \in Commits : \A d \in Anc[c] : Anc[d] \subseteq Anc[c]
    /\ \A c, d \in Commits : c \in Anc[d] /\ d \in Anc[c] => c = d
    /\ StartRefs \subseteq [Refs -> Values]
    /\ \A w \in Wishes :
         w # <<>> /\ w \in Seq([ref : Refs, new : Values \cup {Malformed}])
    /\ MaxRequests \in Nat /\ MaxFaults \in Nat

VARIABLES
    refs,       \* refs[<<kind, name>>]: the commit it points at
    head,       \* the branch HEAD names
    objects,    \* the commits in the object database
    push,       \* push[p]: the push p is sending or the server is processing
    task,       \* task[m]: the owner request being handled for m
    announced,  \* the refUpdate events stored
    lost,       \* history: those that emit() could not store
    begun,      \* requests so far
    faults      \* faults so far, for the bound

vars == <<refs, head, objects, push, task, announced, lost, begun, faults>>

Command == [ref : Refs, old : Values, new : Values \cup {Malformed}]
Change == [ref : Refs, old : Values, new : Values]
Event == [id : Nat, change : Change]

Push == [phase : {"idle", "unpack", "edit", "emit"}, id : Nat, cmds : Seq(Command),
         pack : SUBSET Commits, changes : Seq(Change)]

Task == [phase   : {"idle", "target", "ours", "theirs", "compare", "ff", "delete", "hide"},
         branch  : Names,      \* the branch to move or delete
         target  : Names,      \* merge: what to merge; deleteBranch: the default branch found
         oid     : Values,     \* what the branch is to be set to
         reread  : BOOLEAN,    \* is_ancestor resolves the target by its name again
         ours    : Values,     \* what merge_base resolved the branch to
         theirs  : Values,     \* what merge_base resolved the target to
         base    : Values,
         again   : Values]     \* what is_ancestor then resolved the branch to

NoPush == [phase |-> "idle", id |-> 0, cmds |-> <<>>, pack |-> {}, changes |-> <<>>]

NoTask == [phase |-> "idle", branch |-> CHOOSE n \in Names : TRUE,
           target |-> CHOOSE n \in Names : TRUE, oid |-> Absent, reread |-> FALSE,
           ours |-> Absent, theirs |-> Absent, base |-> Absent,
           again |-> Absent]

History(v) == IF v = Absent THEN {} ELSE Anc[v]

(* rev_parse_single(n): refs/tags comes before refs/heads. *)
Resolve(n) == IF refs[<<"tags", n>>] # Absent THEN refs[<<"tags", n>>]
              ELSE refs[<<"heads", n>>]

(* merge_base(a, b): one of the best common ancestors, or none. *)
MergeBases(a, b) ==
    LET common == Anc[a] \cap Anc[b]
    IN  IF common = {} THEN {Absent}
        ELSE {c \in common : \A d \in common : c \in Anc[d] => d = c}

Request == begun < MaxRequests /\ begun' = begun + 1
Fault == faults < MaxFaults /\ faults' = faults + 1

-----------------------------------------------------------------------------
(* A push. *)

(* The client reads the advertisement and prepares commands against it, with a
   pack of what it lacks, or none. *)
SendPush(p) ==
    /\ push[p].phase = "idle"
    /\ Request
    /\ \E w \in Wishes :
         LET cmds == [i \in 1 .. Len(w) |-> [ref |-> w[i].ref, old |-> refs[w[i].ref],
                                             new |-> w[i].new]]
             new  == {w[i].new : i \in 1 .. Len(w)} \cap Commits
             pack == (UNION {Anc[c] : c \in new}) \ (UNION {History(refs[r]) : r \in Refs})
         IN  \E sent \in {pack, {}} :
               push' = [push EXCEPT ![p] = [phase |-> "unpack", id |-> begun', cmds |-> cmds,
                                            pack |-> sent, changes |-> <<>>]]
    /\ UNCHANGED <<refs, head, objects, task, announced, lost, faults>>

(* ingest_thin_pack: the pack with its index, then every object loose. *)
Unpack(p) ==
    /\ push[p].phase = "unpack"
    /\ objects' = objects \cup push[p].pack
    /\ push' = [push EXCEPT ![p].phase = "edit"]
    /\ UNCHANGED <<refs, head, task, announced, lost, begun, faults>>

(* Before or after the pack is in place; the push ends with no ref touched. *)
UnpackFails(p) ==
    /\ push[p].phase = "unpack"
    /\ push[p].pack # {}
    /\ Fault
    /\ objects' \in {objects, objects \cup push[p].pack}
    /\ push' = [push EXCEPT ![p] = NoPush]
    /\ UNCHANGED <<refs, head, task, announced, lost, begun>>

IsPushable(ref) == ref[1] \in {"heads", "tags"}

(* ObjectId::from_hex fails on the new value; a ref that no push may move has been
   refused before. *)
Aborts(c) == IsPushable(c.ref) /\ c.new = Malformed

(* Mutant: PreviousValue::Any. *)
MatchesAnything(ref, old) == ref \in Refs /\ old \in Values

(* PreviousValue::ExistingMustMatch(old), or MustNotExist for the zero sha: a
   ref that does not exist matches either. *)
Matches(ref, old) == refs[ref] \in {old, Absent}

(* Mutant: the new tip is not looked up in the object database. *)
AcceptedUnchecked(c) ==
    /\ IsPushable(c.ref)
    /\ c.new # Malformed
    /\ c.new = Absent => c.old # Absent
    /\ Matches(c.ref, c.old)

(* The command loop of receive_pack, one command: the edits it may make. *)
Accepted(c) ==
    /\ IsPushable(c.ref)
    /\ c.new # Malformed
    /\ c.new = Absent => c.old # Absent
    /\ c.new # Absent => c.new \in objects
    /\ Matches(c.ref, c.old)

(* Mutant: the changes are reported only if the last command succeeds. *)
DropsChanges(q, made) ==
    IF Tail(q.cmds) # <<>> THEN [q EXCEPT !.cmds = Tail(@), !.changes = @ \o made]
    ELSE IF made # <<>> THEN [q EXCEPT !.phase = "emit", !.cmds = <<>>, !.changes = @ \o made]
    ELSE NoPush

(* On to the next command; after the last, the changes, if any, are announced. *)
AfterCommand(q, made) ==
    IF Tail(q.cmds) # <<>> THEN [q EXCEPT !.cmds = Tail(@), !.changes = @ \o made]
    ELSE IF q.changes \o made # <<>>
         THEN [q EXCEPT !.phase = "emit", !.cmds = <<>>, !.changes = @ \o made]
    ELSE NoPush

EditRef(p) ==
    /\ push[p].phase = "edit"
    /\ LET c == Head(push[p].cmds)
       IN  /\ Accepted(c)
           /\ refs' = [refs EXCEPT ![c.ref] = c.new]
           /\ push' = [push EXCEPT ![p] = AfterCommand(@, <<c>>)]
    /\ UNCHANGED <<head, objects, task, announced, lost, begun, faults>>

(* "ng": the command is not acceptable, or the ref is locked by another edit or
   cannot be written. *)
RefuseCommand(p) ==
    /\ push[p].phase = "edit"
    /\ ~Aborts(Head(push[p].cmds))
    /\ push' = [push EXCEPT ![p] = AfterCommand(@, <<>>)]
    /\ UNCHANGED <<refs, head, objects, task, announced, lost, begun, faults>>

(* receive_pack returns an error in the middle of the loop, and the changes
   already made are forgotten. *)
AbortPush(p) ==
    /\ push[p].phase = "edit"
    /\ Aborts(Head(push[p].cmds))
    /\ push' = [push EXCEPT ![p] = NoPush]
    /\ UNCHANGED <<refs, head, objects, task, announced, lost, begun, faults>>

(* On to the next change. *)
AfterChange(q) == IF Tail(q.changes) = <<>> THEN NoPush ELSE [q EXCEPT !.changes = Tail(@)]

NextEvent(p) == [id |-> push[p].id, change |-> Head(push[p].changes)]

(* emit_ref_updates: one event per change, in the order of the commands. *)
Announce(p) ==
    /\ push[p].phase = "emit"
    /\ announced' = announced \cup {NextEvent(p)}
    /\ push' = [push EXCEPT ![p] = AfterChange(@)]
    /\ UNCHANGED <<refs, head, objects, task, lost, begun, faults>>

(* Mutant: an event that is not stored ends the loop. *)
LosesTheRest(p) ==
    /\ push[p].phase = "emit"
    /\ lost' = lost \cup {NextEvent(p)}
    /\ push' = [push EXCEPT ![p] = NoPush]
    /\ UNCHANGED <<refs, head, objects, task, announced, begun, faults>>

(* emit(): the INSERT fails, or another event of that microsecond has the record
   key (InsertFails and InsertCollides of Firehose).  That is logged, and the loop
   goes on. *)
LoseEvent(p) ==
    /\ push[p].phase = "emit"
    /\ lost' = lost \cup {NextEvent(p)}
    /\ push' = [push EXCEPT ![p] = AfterChange(@)]
    /\ UNCHANGED <<refs, head, objects, task, announced, begun, faults>>

(* The rows of the repository cannot be looked up, be it that they were deleted,
   or the handler is dropped while it awaits: the remaining events are never
   emitted. *)
AnnouncementLost(p) ==
    /\ push[p].phase = "emit"
    /\ Fault
    /\ push' = [push EXCEPT ![p] = NoPush]
    /\ UNCHANGED <<refs, head, objects, task, announced, lost, begun>>

-----------------------------------------------------------------------------
(* Owner requests. *)

Finish(m) == task' = [task EXCEPT ![m] = NoTask]

(* merge: the branch to move is the default branch. *)
BeginMerge(m) ==
    /\ task[m].phase = "idle"
    /\ Request
    /\ \E n \in Names :
         task' = [task EXCEPT ![m] = [NoTask EXCEPT !.phase = "target", !.branch = head,
                                                    !.target = n, !.reread = TRUE]]
    /\ UNCHANGED <<refs, head, objects, push, announced, lost, faults>>

(* Mutant: the name to merge is not checked to exist. *)
ReadTargetUnchecked(m) ==
    /\ task[m].phase = "target"
    /\ task' = [task EXCEPT ![m].oid = Resolve(task[m].target), ![m].phase = "ours"]
    /\ UNCHANGED <<refs, head, objects, push, announced, lost, begun, faults>>

(* merge: resolve_ref(target). *)
ReadTarget(m) ==
    /\ task[m].phase = "target"
    /\ IF Resolve(task[m].target) = Absent THEN Finish(m)
       ELSE task' = [task EXCEPT ![m].oid = Resolve(task[m].target), ![m].phase = "ours"]
    /\ UNCHANGED <<refs, head, objects, push, announced, lost, begun, faults>>

(* forkSync: the branch to move is the client's choice, its target the commit of
   a hidden ref, by its sha. *)
BeginForkSync(m) ==
    /\ task[m].phase = "idle"
    /\ Request
    /\ \E b, h \in Names :
         /\ refs[<<"hidden", h>>] # Absent
         /\ task' = [task EXCEPT ![m] = [NoTask EXCEPT !.phase = "ours", !.branch = b,
                                                       !.oid = refs[<<"hidden", h>>]]]
    /\ UNCHANGED <<refs, head, objects, push, announced, lost, faults>>

(* is_ancestor: merge_base resolves the branch by its name, *)
ReadOurs(m) ==
    /\ task[m].phase = "ours"
    /\ IF Resolve(task[m].branch) = Absent THEN Finish(m)
       ELSE task' = [task EXCEPT ![m].ours = Resolve(task[m].branch), ![m].phase = "theirs"]
    /\ UNCHANGED <<refs, head, objects, push, announced, lost, begun, faults>>

(* then the target, for merge by its name, and computes the base; *)
ReadTheirs(m) ==
    /\ task[m].phase = "theirs"
    /\ LET t == task[m]
           theirs == IF t.reread THEN Resolve(t.target) ELSE t.oid
       IN  IF theirs = Absent THEN Finish(m)
           ELSE \E base \in MergeBases(t.ours, theirs) :
                  task' = [task EXCEPT ![m] = [t EXCEPT !.theirs = theirs, !.base = base,
                                                        !.phase = "compare"]]
    /\ UNCHANGED <<refs, head, objects, push, announced, lost, begun, faults>>

(* Mutant: any common ancestor will do. *)
AncestorsMeet(t) == t.base # Absent

IsAncestor(t) == t.base # Absent /\ t.base = t.again

(* and the branch is resolved once more and compared with the base.  A merge
   that is not a fast-forward changes nothing. *)
Compare(m) ==
    /\ task[m].phase = "compare"
    /\ LET t == [task[m] EXCEPT !.again = Resolve(task[m].branch), !.phase = "ff"]
       IN  IF IsAncestor(t) THEN task' = [task EXCEPT ![m] = t] ELSE Finish(m)
    /\ UNCHANGED <<refs, head, objects, push, announced, lost, begun, faults>>

(* fast_forward_ref: PreviousValue::Any. *)
FastForward(m) ==
    /\ task[m].phase = "ff"
    /\ refs' = [refs EXCEPT ![<<"heads", task[m].branch>>] = task[m].oid]
    /\ Finish(m)
    /\ UNCHANGED <<head, objects, push, announced, lost, begun, faults>>

(* Mutant: the default branch is not refused. *)
BeginDeleteUnchecked(m) ==
    /\ task[m].phase = "idle"
    /\ Request
    /\ \E b \in Names :
         task' = [task EXCEPT ![m] = [NoTask EXCEPT !.phase = "delete", !.branch = b,
                                                    !.target = head]]
    /\ UNCHANGED <<refs, head, objects, push, announced, lost, faults>>

(* deleteBranch: the default branch is refused. *)
BeginDelete(m) ==
    /\ task[m].phase = "idle"
    /\ Request
    /\ \E b \in Names \ {head} :
         task' = [task EXCEPT ![m] = [NoTask EXCEPT !.phase = "delete", !.branch = b,
                                                    !.target = head]]
    /\ UNCHANGED <<refs, head, objects, push, announced, lost, faults>>

(* delete_branch: PreviousValue::Any. *)
DeleteBranch(m) ==
    /\ task[m].phase = "delete"
    /\ refs' = [refs EXCEPT ![<<"heads", task[m].branch>>] = Absent]
    /\ Finish(m)
    /\ UNCHANGED <<head, objects, push, announced, lost, begun, faults>>

(* hiddenRef: a revision is resolved, then stored under refs/hidden. *)
BeginHide(m) ==
    /\ task[m].phase = "idle"
    /\ Request
    /\ \E n, h \in Names :
         /\ Resolve(n) # Absent
         /\ task' = [task EXCEPT ![m] = [NoTask EXCEPT !.phase = "hide", !.branch = h,
                                                       !.oid = Resolve(n)]]
    /\ UNCHANGED <<refs, head, objects, push, announced, lost, faults>>

SetHiddenRef(m) ==
    /\ task[m].phase = "hide"
    /\ refs' = [refs EXCEPT ![<<"hidden", task[m].branch>>] = task[m].oid]
    /\ Finish(m)
    /\ UNCHANGED <<head, objects, push, announced, lost, begun, faults>>

(* setDefaultBranch: HEAD may name a branch that does not exist. *)
SetDefaultBranch(m) ==
    /\ task[m].phase = "idle"
    /\ Request
    /\ head' \in Names
    /\ UNCHANGED <<refs, objects, push, task, announced, lost, faults>>

(* The edit fails: the ref is locked by another edit, or an I/O error. *)
EditFails(m) ==
    /\ task[m].phase \in {"ff", "delete", "hide"}
    /\ Finish(m)
    /\ UNCHANGED <<refs, head, objects, push, announced, lost, begun, faults>>

-----------------------------------------------------------------------------
(* The server stops and starts again: what was edited stays edited. *)
Crash ==
    /\ Fault
    /\ push' = [p \in Pushers |-> NoPush]
    /\ task' = [m \in Maintainers |-> NoTask]
    /\ UNCHANGED <<refs, head, objects, announced, lost, begun>>

Init ==
    /\ refs \in StartRefs
    /\ head \in Names
    /\ objects = UNION {History(refs[r]) : r \in Refs}
    /\ push = [p \in Pushers |-> NoPush]
    /\ task = [m \in Maintainers |-> NoTask]
    /\ announced = {}
    /\ lost = {}
    /\ begun = 0
    /\ faults = 0

PushStep(p) ==
    \/ SendPush(p)
    \/ Unpack(p)
    \/ UnpackFails(p)
    \/ EditRef(p)
    \/ RefuseCommand(p)
    \/ AbortPush(p)
    \/ Announce(p)
    \/ LoseEvent(p)
    \/ AnnouncementLost(p)

OwnerStep(m) ==
    \/ BeginMerge(m)
    \/ ReadTarget(m)
    \/ BeginForkSync(m)
    \/ ReadOurs(m)
    \/ ReadTheirs(m)
    \/ Compare(m)
    \/ FastForward(m)
    \/ BeginDelete(m)
    \/ DeleteBranch(m)
    \/ BeginHide(m)
    \/ SetHiddenRef(m)
    \/ SetDefaultBranch(m)
    \/ EditFails(m)

Next ==
    \/ \E p \in Pushers : PushStep(p)
    \/ \E m \in Maintainers : OwnerStep(m)
    \/ Crash

(* The runtime keeps polling a handler it has not dropped. *)
Fairness ==
    \A p \in Pushers :
        /\ WF_vars(Unpack(p))
        /\ WF_vars(EditRef(p) \/ RefuseCommand(p) \/ AbortPush(p))
        /\ WF_vars(Announce(p) \/ LoseEvent(p))

Spec == Init /\ [][Next]_vars

FairSpec == Spec /\ Fairness

-----------------------------------------------------------------------------
TypeOK ==
    /\ refs \in [Refs -> Values]
    /\ head \in Names
    /\ objects \in SUBSET Commits
    /\ push \in [Pushers -> Push]
    /\ \A p \in Pushers : push[p].phase \in {"unpack", "edit"} => push[p].cmds # <<>>
    /\ \A p \in Pushers : push[p].phase = "emit" => push[p].changes # <<>>
    /\ task \in [Maintainers -> Task]
    /\ \A m \in Maintainers :
         task[m].phase \in {"ours", "theirs", "compare", "ff", "hide"} => task[m].oid # Absent
    /\ announced \in SUBSET Event
    /\ lost \in SUBSET Event
    /\ begun \in Nat
    /\ faults \in Nat

(* Whatever order packs, refused commands, merges and crashes come in, every
   ref points at a commit whose whole history is stored, so a clone of it
   succeeds: receive_pack checks only that the new tip is there. *)
HistoryIsStored == \A r \in Refs : History(refs[r]) \subseteq objects

(* The values merge or forkSync read for one ref differ from each other, or from
   the value it replaces (or a tag of that name was read instead). *)
ReadsAreStale(m) ==
    LET t == task[m]
    IN  \/ t.ours # refs[<<"heads", t.branch>>]
        \/ t.again # t.ours
        \/ t.theirs # t.oid

(* A branch never loses commits except to a client that named the value it
   replaces, to deleteBranch, or to a fast-forward whose check no longer
   describes the refs it reads: the branch or the target moved while merge or
   forkSync ran, or a tag with the branch's name stood in for it. *)
CommitsLostOnlyToStaleReads ==
    [][\A b \in Names :
         \/ History(refs[<<"heads", b>>]) \subseteq History(refs'[<<"heads", b>>])
         \/ \E p \in Pushers :
              /\ EditRef(p)
              /\ Head(push[p].cmds).ref = <<"heads", b>>
              /\ Head(push[p].cmds).old = refs[<<"heads", b>>]
         \/ \E m \in Maintainers :
              /\ task[m].branch = b
              /\ \/ DeleteBranch(m)
                 \/ FastForward(m) /\ ReadsAreStale(m)]_vars

(* The default branch does not vanish, which would leave HEAD dangling, but to a
   push that named its value, or to a deleteBranch that had found another branch
   to be the default before HEAD was moved to this one. *)
DefaultDeletedOnlyByStaleCheck ==
    [][LET default == <<"heads", head>> IN
       refs[default] # Absent /\ refs'[default] = Absent =>
         \/ \E p \in Pushers :
              /\ EditRef(p)
              /\ Head(push[p].cmds).ref = default
              /\ Head(push[p].cmds).old = refs[default]
         \/ \E m \in Maintainers : DeleteBranch(m) /\ task[m].branch = head
                                                  /\ task[m].target # head]_vars

(* However pushes and owner requests interleave and fail, the events tell of
   changes that were made, each push's in their order.  An event that emit() cannot
   store is lost alone, also from the middle of a push; whatever else goes untold
   is all that a push had left to tell, when it was cut off by a failure or aborted
   over a command receive_pack cannot parse. *)
Journal == INSTANCE RefJournal WITH
    PushRefs <- {r \in Refs : IsPushable(r)},
    OwnerRefs <- {r \in Refs : r[1] \in {"heads", "hidden"}},
    untold <- [p \in Pushers |-> push[p].changes],
    told <- {ev.change : ev \in announced},
    lost <- {ev.change : ev \in lost},
    doomed <- {p \in Pushers : \E i \in 1 .. Len(push[p].cmds) : Aborts(push[p].cmds[i])},
    failures <- faults

ImplementsJournal == Journal!Spec

(* To whoever reads the repository meanwhile it is a store: nothing is taken away,
   what is added comes with its history, and a ref moves to nothing less. *)
Store == INSTANCE RepoStore WITH Tips <- Commits, Whole <- Anc

ImplementsStore == Store!Spec

(* Push k moved r, and none of the commands it has left will abort it. *)
Changed(k, r) ==
    \E p \in Pushers :
        /\ push[p].id = k
        /\ \E i \in 1 .. Len(push[p].changes) : push[p].changes[i].ref = r
        /\ \A i \in 1 .. Len(push[p].cmds) : ~Aborts(push[p].cmds[i])

(* Unless the push is cut off, emit() comes to every change it made to a ref, though
   later commands of the same push are refused, events of earlier changes cannot be
   stored and other requests move the ref meanwhile. *)
ChangesAreEmitted ==
    \A k \in 1 .. MaxRequests, r \in Refs :
        Changed(k, r) ~> (faults # 0 \/ \E ev \in announced \cup lost :
                                            ev.id = k /\ ev.change.ref = r)

-----------------------------------------------------------------------------
(* What the documentation says and the code does not do. *)

(* vlecht-git/src/lib.rs: "Update a branch ref to point to a new commit
   (fast-forward)", so the step loses no commit of the branch. *)
FastForwardsOnly ==
    [][\A m \in Maintainers :
         FastForward(m) =>
             History(refs[<<"heads", task[m].branch>>])
                 \subseteq History(refs'[<<"heads", task[m].branch>>])]_vars

=============================================================================
