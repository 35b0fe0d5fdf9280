--------------------------- MODULE RepoLifecycle ---------------------------
(***************************************************************************)
(* One repository name of one owner, from creation to deletion: its        *)
(* directory on disk, its rows in repo_keys and repo_aliases, and the rows *)
(* of its space in repo_visibility and repo_members.  The repository's DID *)
(* is derived from owner and name, so a repository created again under the *)
(* same name has the same directory and the same keys into the space       *)
(* tables.                                                                 *)
(*                                                                         *)
(* A request checks, then acts, over several awaits; nothing spans disk    *)
(* and database.  The requests are those of the XRPC router                *)
(* (vlecht-atp/src/lex/create_repo.rs, delete_repo.rs, space.rs,           *)
(* collaborators.rs) and of the HTTP API (vlecht/src/handlers.rs), and the *)
(* pushes of either transport.                                             *)
(***************************************************************************)
EXTENDS Integers, FiniteSets

CONSTANTS
    Handlers,         \* request handlers
    Owner,
    Others,           \* DIDs that may be made members
    GoCollaborators,  \* subjects of the `collaborators` table of a Go knot's database
    MayOverlap,       \* the sets {a}, {a, b} of kinds of request that may run at once
    MaxRequests,      \* bound: requests
    MaxFaults         \* bound: database errors, dropped handlers, restarts

Kinds == {"create", "delete", "space", "push"}

ASSUME LifecycleAssumption ==
    /\ Owner \notin Others
    /\ GoCollaborators \subseteq Others
    /\ MayOverlap \subseteq SUBSET Kinds
    /\ MaxRequests \in Nat /\ MaxFaults \in Nat

VARIABLES
    disk,        \* the directory: none, empty, or with content pushed while the
                 \* repository was public ("open") or private ("secret")
    tracked,     \* are the repo_keys and repo_aliases rows there?
    visibility,  \* the repo_visibility row, or "none"
    members,     \* members[d]: d's role in repo_members, or "none"
    req,         \* req[h]: the request handler h is processing
    born,        \* history: the visibility asked for when the repository was
                 \* created, until the owner changes it
    revoked,     \* history: the members removed and not added again
    begun,       \* requests so far, for the bound
    faults       \* faults so far, for the bound

rows == <<tracked, visibility, members>>
vars == <<disk, rows, req, born, revoked, begun, faults>>

Visibilities == {"public", "private"}
Roles == {"reader", "writer"}

Request == [kind    : Kinds \cup {"none"},
            phase   : {"idle", "init", "insert", "initial", "remove", "purge",
                       "setVisibility", "addMember", "removeMember", "write"},
            asked   : Visibilities \cup {"none"},   \* create, setVisibility
            subject : Others \cup {Owner},          \* addMember, removeMember
            role    : Roles]                        \* addMember

NoRequest == [kind |-> "none", phase |-> "idle", asked |-> "none", subject |-> Owner,
              role |-> "reader"]

Fault == faults < MaxFaults /\ faults' = faults + 1

(* A request of this kind reaches h. *)
Begin(h, kind) ==
    /\ req[h].kind = "none"
    /\ \A g \in Handlers : req[g].kind # "none" => {kind, req[g].kind} \in MayOverlap
    /\ begun < MaxRequests
    /\ begun' = begun + 1

Start(h, kind, phase, asked, subject, role) ==
    req' = [req EXCEPT ![h] = [kind |-> kind, phase |-> phase, asked |-> asked,
                               subject |-> subject, role |-> role]]
Goto(h, phase) == req' = [req EXCEPT ![h].phase = phase]
Finish(h) == req' = [req EXCEPT ![h] = NoRequest]

-----------------------------------------------------------------------------
(* Creation. *)

(* The XRPC handler looks the name up in the database, the HTTP handler looks
   for the directory.  The name of a repository imported from a Go knot is
   another DID: it cannot be created again. *)
BeginCreate(h) ==
    /\ GoCollaborators = {}
    /\ Begin(h, "create")
    /\ ~tracked \/ disk = "none"
    /\ \E asked \in Visibilities \cup {"none"} :
         Start(h, "create", "init", asked, Owner, "reader")
    /\ UNCHANGED <<disk, rows, born, revoked, faults>>

(* init_bare refuses a directory that is not empty. *)
InitBare(h) ==
    /\ req[h].phase = "init"
    /\ IF disk = "none" THEN disk' = "empty" /\ Goto(h, "insert")
       ELSE disk' = disk /\ Finish(h)
    /\ UNCHANGED <<rows, born, revoked, begun, faults>>

(* Mutant: the visibility is set though none was asked for. *)
InsertRepoThenSet(h) ==
    /\ req[h].phase = "insert"
    /\ IF tracked THEN Finish(h) /\ UNCHANGED <<tracked, born>>
       ELSE tracked' = TRUE /\ born' = req[h].asked /\ Goto(h, "initial")
    /\ UNCHANGED <<disk, visibility, members, revoked, begun, faults>>

(* Mutant: the visibility is not set after the rows. *)
InsertRepoOnly(h) ==
    /\ req[h].phase = "insert"
    /\ IF tracked THEN UNCHANGED <<tracked, born>> ELSE tracked' = TRUE /\ born' = req[h].asked
    /\ Finish(h)
    /\ UNCHANGED <<disk, visibility, members, revoked, begun, faults>>

(* create_repo: repo_keys and repo_aliases in one transaction, which a unique
   violation rolls back. *)
InsertRepo(h) ==
    /\ req[h].phase = "insert"
    /\ IF tracked THEN Finish(h) /\ UNCHANGED <<tracked, born>>
       ELSE /\ tracked' = TRUE
            /\ born' = req[h].asked
            /\ IF req[h].asked = "none" THEN Finish(h) ELSE Goto(h, "initial")
    /\ UNCHANGED <<disk, visibility, members, revoked, begun, faults>>

(* set_repo_visibility, after the didAssign event. *)
SetInitialVisibility(h) ==
    /\ req[h].phase = "initial"
    /\ visibility' = req[h].asked
    /\ Finish(h)
    /\ UNCHANGED <<disk, tracked, members, born, revoked, begun, faults>>

-----------------------------------------------------------------------------
(* Deletion. *)

(* The XRPC handler wants the owner, the HTTP handler any pusher (the owner is
   always one); both resolve the path, which fails if the directory is gone. *)
BeginDelete(h) ==
    /\ Begin(h, "delete")
    /\ tracked /\ disk # "none"
    /\ Start(h, "delete", "remove", "none", Owner, "reader")
    /\ UNCHANGED <<disk, rows, born, revoked, faults>>

(* Mutant: the directory may be left behind and the rows go all the same. *)
RemoveDirUnchecked(h) ==
    /\ req[h].phase = "remove"
    /\ disk' \in {disk, "none"}
    /\ Goto(h, "purge")
    /\ UNCHANGED <<rows, born, revoked, begun, faults>>

(* remove_dir_all, which fails if the directory is gone. *)
RemoveDir(h) ==
    /\ req[h].phase = "remove"
    /\ IF disk = "none" THEN Finish(h) ELSE Goto(h, "purge")
    /\ disk' = "none"
    /\ UNCHANGED <<rows, born, revoked, begun, faults>>

(* Mutant: only the keys and aliases are deleted. *)
PurgeKeysOnly(h) ==
    /\ req[h].phase = "purge"
    /\ tracked' = FALSE
    /\ Finish(h)
    /\ UNCHANGED <<disk, visibility, members, born, revoked, begun, faults>>

(* delete_repo: all four tables in one transaction, rolled back if repo_keys has
   no row. *)
PurgeRows(h) ==
    /\ req[h].phase = "purge"
    /\ IF tracked
       THEN /\ tracked' = FALSE
            /\ visibility' = "none"
            /\ members' = [d \in Others |-> "none"]
            /\ born' = "none"
       ELSE UNCHANGED <<rows, born>>
    /\ Finish(h)
    /\ UNCHANGED <<disk, revoked, begun, faults>>

-----------------------------------------------------------------------------
(* The space: setVisibility, addMember and removeMember.  Ownership is checked
   first, and only there must the repository exist. *)
BeginSpace(h) ==
    /\ Begin(h, "space")
    /\ tracked
    /\ \/ \E asked \in Visibilities : Start(h, "space", "setVisibility", asked, Owner, "reader")
       \/ \E d \in Others, role \in Roles : Start(h, "space", "addMember", "none", d, role)
       \/ \E d \in Others : Start(h, "space", "removeMember", "none", d, "reader")
    /\ UNCHANGED <<disk, rows, born, revoked, faults>>

(* addCollaborator and removeCollaborator: a collaborator is a member who writes. *)
BeginCollaborator(h) ==
    /\ Begin(h, "space")
    /\ tracked
    /\ \E d \in Others, phase \in {"addMember", "removeMember"} :
         Start(h, "space", phase, "none", d, "writer")
    /\ UNCHANGED <<disk, rows, born, revoked, faults>>

(* What was pushed while the repository was private is the owner's to publish. *)
SetVisibility(h) ==
    /\ req[h].phase = "setVisibility"
    /\ visibility' = req[h].asked
    /\ disk' = IF req[h].asked = "public" /\ disk = "secret" THEN "open" ELSE disk
    /\ born' = "none"
    /\ Finish(h)
    /\ UNCHANGED <<tracked, members, revoked, begun, faults>>

AddMember(h) ==
    /\ req[h].phase = "addMember"
    /\ members' = [members EXCEPT ![req[h].subject] = req[h].role]
    /\ revoked' = revoked \ {req[h].subject}
    /\ Finish(h)
    /\ UNCHANGED <<disk, tracked, visibility, born, begun, faults>>

RemoveMember(h) ==
    /\ req[h].phase = "removeMember"
    /\ members' = [members EXCEPT ![req[h].subject] = "none"]
    /\ revoked' = revoked \cup {req[h].subject}
    /\ Finish(h)
    /\ UNCHANGED <<disk, tracked, visibility, born, begun, faults>>

-----------------------------------------------------------------------------
(* A push: assert_push_auth, then receive_pack on the path.  Between the two an
   SSH client is sent the refs and takes its time to answer. *)
BeginPush(h) ==
    /\ Begin(h, "push")
    /\ tracked
    /\ Start(h, "push", "write", "none", Owner, "reader")
    /\ UNCHANGED <<disk, rows, born, revoked, faults>>

WriteContent(h) ==
    /\ req[h].phase = "write"
    /\ disk' = IF disk = "none" THEN "none"
               ELSE IF visibility = "private" \/ disk = "secret" THEN "secret" ELSE "open"
    /\ Finish(h)
    /\ UNCHANGED <<rows, born, revoked, begun, faults>>

-----------------------------------------------------------------------------
(* A statement fails, or the handler is dropped while it awaits. *)
Abandon(h) ==
    /\ req[h].kind # "none"
    /\ Fault
    /\ Finish(h)
    /\ UNCHANGED <<disk, rows, born, revoked, begun>>

(* The server stops and starts again.  Every start runs migrate(), which inserts
   the Go knot's collaborators as writers unless they have a row. *)
Restart ==
    /\ Fault
    /\ req' = [h \in Handlers |-> NoRequest]
    /\ members' = [d \in Others |-> IF members[d] = "none" /\ d \in GoCollaborators
                                    THEN "writer" ELSE members[d]]
    /\ UNCHANGED <<disk, tracked, visibility, born, revoked, begun>>

(* A fresh name, or a repository imported from a Go knot. *)
Init ==
    /\ disk = IF GoCollaborators = {} THEN "none" ELSE "open"
    /\ tracked = (GoCollaborators # {})
    /\ visibility = "none"
    /\ members = [d \in Others |-> IF d \in GoCollaborators THEN "writer" ELSE "none"]
    /\ req = [h \in Handlers |-> NoRequest]
    /\ born = "none"
    /\ revoked = {}
    /\ begun = 0
    /\ faults = 0

Step(h) ==
    \/ BeginCreate(h)
    \/ InitBare(h)
    \/ InsertRepo(h)
    \/ SetInitialVisibility(h)
    \/ BeginDelete(h)
    \/ RemoveDir(h)
    \/ PurgeRows(h)
    \/ BeginSpace(h)
    \/ BeginCollaborator(h)
    \/ SetVisibility(h)
    \/ AddMember(h)
    \/ RemoveMember(h)
    \/ BeginPush(h)
    \/ WriteContent(h)
    \/ Abandon(h)

Next == Restart \/ \E h \in Handlers : Step(h)

Spec == Init /\ [][Next]_vars

-----------------------------------------------------------------------------
TypeOK ==
    /\ disk \in {"none", "empty", "open", "secret"}
    /\ tracked \in BOOLEAN
    /\ visibility \in Visibilities \cup {"none"}
    /\ members \in [Others -> Roles \cup {"none"}]
    /\ req \in [Handlers -> Request]
    /\ \A h \in Handlers : req[h].phase \in {"initial", "setVisibility"} => req[h].asked # "none"
    /\ born \in Visibilities \cup {"none"}
    /\ revoked \subseteq Others
    /\ begun \in Nat
    /\ faults \in Nat

Quiet(kinds) == \A h \in Handlers : req[h].kind \notin kinds

(* Whatever step a creation, a deletion or a restart is cut off at, content on
   disk is governed by the rows it was pushed under: a directory without rows,
   which assert_read_auth lets anyone read, has no content, and what was pushed
   to a private repository is not served as public. *)
ContentIsGoverned ==
    /\ disk \in {"open", "secret"} => tracked
    /\ disk = "secret" => visibility = "private"

(* Without database errors, dropped handlers and restarts, disk and database
   agree whenever no creation or deletion is under way, so that the name can be
   used, deleted and created again. *)
DiskAndRowsAgree ==
    faults = 0 /\ Quiet({"create", "delete"}) => (tracked <=> disk # "none")

(* A repository that comes into being inherits no visibility and no member from
   one that had its name before, though a deletion or a space request was cut
   off. *)
FreshRepoIsClean ==
    [][~tracked /\ tracked' =>
         visibility = "none" /\ \A d \in Others : members[d] = "none"]_vars

(* A repository asked for as private is private once its creation is over, unless
   the owner changed that or the creation was cut off: the rows that make it
   public to readers are there an event and an await before its visibility. *)
InitialVisibilityHolds ==
    faults = 0 /\ tracked /\ born = "private" /\ Quiet({"create"}) => visibility = "private"

-----------------------------------------------------------------------------
(* What the documentation says and the code does not do. *)

(* lex/collaborators.rs: removeCollaborator is to "revoke push access". *)
RevocationLasts == \A d \in revoked : members[d] = "none"
=============================================================================
