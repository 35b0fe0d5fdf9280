------------------------------- MODULE Access -------------------------------
(***************************************************************************)
(* Who may read, push to and administer a repository.  Every gate decides  *)
(* by several database reads with awaits between them, then the handler    *)
(* looks the repository up once more and acts, while other handlers change *)
(* the rows the gate read:                                                 *)
(*                                                                         *)
(*   read    assert_read_auth            vlecht/src/auth.rs                *)
(*   push    assert_push_auth            (HTTP, SSH, and HTTP's deletion)  *)
(*   query   resolve_repo_path           vlecht-atp/src/lex/resolve.rs     *)
(*   roster  getSpace, listMembers, listCollaborators                      *)
(*   check   checkPushAllowed            vlecht-atp/src/lex/collaborators.rs *)
(*   space   assert_owns_by_repo         vlecht-atp/src/lex/authz.rs       *)
(*   collab  resolve_write_target                                          *)
(*   delete  assert_owns_by_name, resolve_repo_path                        *)
(*                                                                         *)
(* One repository name of one owner; its DID is derived from both.         *)
(***************************************************************************)
EXTENDS Integers, FiniteSets

CONSTANTS
    Handlers,   \* request handlers; each serves one request
    Dids,       \* accounts
    Owner,      \* of the repository
    Admin,      \* the knot admin: the owner_did of LexState
    Starts,     \* visibility, members and bans of a repository to begin with
    Nobody,     \* the caller who proved no identity
    Wishes,     \* Wishes[h]: the requests that may reach h
    MaxBans,    \* bound: bans and unbans
    MaxFaults   \* bound: database errors and dropped handlers

Roles == {"reader", "writer"}
Kinds == {"read", "query", "push", "roster", "check", "space", "collab", "delete", "create"}
Forms == {"named", "bare", "ssh", "http", "xrpc"}
Changes == {"none", "publish", "hide", "addReader", "addWriter", "dismiss"}

(* How the repository is named: by owner and name, by its DID, or by its DID
   over SSH.  A deletion comes over HTTP or XRPC. *)
Wish == [kind    : Kinds,
         form    : Forms,
         actor   : Dids \cup {Nobody},
         subject : Dids,      \* the member changed, or the holder of the key of a check
         change  : Changes]   \* of space and collab; "hide" or "none" of create

NoWish == [kind |-> "read", form |-> "named", actor |-> Nobody, subject |-> Owner,
           change |-> "none"]

Start == [visibility : {"none", "public", "private"},
          members    : [Dids -> Roles \cup {"none"}],
          banned     : SUBSET Dids]

ASSUME AccessAssumption ==
    /\ Owner \in Dids /\ Admin \in Dids /\ Nobody \notin Dids
    /\ Starts \subseteq Start
    /\ Wishes \in [Handlers -> SUBSET Wish]
    /\ MaxBans \in Nat /\ MaxFaults \in Nat

VARIABLES
    tracked,     \* are the repo_keys and repo_aliases rows there?
    stored,      \* is the directory there?
    visibility,  \* the repo_visibility row, or "none"
    members,     \* members[d]: d's role in repo_members, or "none"
    banned,      \* knot_blocklist
    req,         \* req[h]: the request h serves
    steady,      \* history: what held of h's caller ever since its request began
    bans,        \* bans and unbans so far, for the bound
    faults       \* faults so far, for the bound

rows == <<tracked, stored, visibility, members, banned>>
vars == <<rows, req, steady, bans, faults>>

Steps == {"idle", "derive", "alias", "visibility", "ban", "member", "locate", "directory",
          "path", "open", "pushBan", "pushAlias", "pushRole", "identify", "role", "lookup",
          "ownBan", "ownAlias", "target", "change", "removeDir", "purge",
          "initBare", "insert", "initial", "served", "refused", "dropped"}
Writes == {"change", "removeDir", "purge", "initBare", "insert", "initial"}
Reads == {"derive", "alias", "visibility", "ban", "member", "path", "role"}
Missing == "directory"   \* among the reads that failed: a directory that was not there at first

Request == [wish    : Wish,
            step    : Steps,
            tracked : BOOLEAN,        \* does the gate hold the owner that goes with the DID?
            failed  : SUBSET (Reads \cup {Missing})]   \* history: the reads that failed

NoRequest == [wish |-> NoWish, step |-> "idle", tracked |-> FALSE, failed |-> {}]

Ended == {"served", "refused", "dropped"}
Active(h) == req[h].step \notin Ended \cup {"idle"}

RoleOf(d) == IF d \in Dids THEN members[d] ELSE "none"
IsBanned(d) == d # Admin /\ d \in banned   \* the admin is exempt
IsPrivate == visibility = "private"        \* get_repo_visibility: no row is public

-----------------------------------------------------------------------------
(* Who may do what, apart from the gates.  A fact is something that holds of
   the repository and the person a request is about. *)
Person(w) == IF w.kind = "check" THEN w.subject ELSE w.actor

Holds(w) ==
    [tracked   |-> tracked,
     untracked |-> ~tracked,
     stored    |-> stored,
     secret    |-> tracked /\ IsPrivate,
     plain     |-> ~IsPrivate,
     banned    |-> IsBanned(Person(w)),
     lawful    |-> ~IsBanned(Person(w)),
     member    |-> RoleOf(Person(w)) # "none",
     stranger  |-> RoleOf(Person(w)) = "none",
     writer    |-> RoleOf(Person(w)) = "writer",
     reader    |-> RoleOf(Person(w)) # "writer",
     outsider  |-> RoleOf(w.actor) = "none"]

FactNames == {"tracked", "untracked", "stored", "secret", "plain", "banned", "lawful", "member",
              "stranger", "writer", "reader", "outsider"}
Facts(w) == LET holds == Holds(w) IN {f \in FactNames : holds[f]}

Owns(w) == Person(w) = Owner
Unless(condition, sets) == IF condition THEN {} ELSE sets

(* Whoever is one of these things may not: each element is a set of facts
   that together stand in the way. *)
Bars(w) ==
    CASE w.kind \in {"read", "query"} ->
             Unless(Owns(w), {{"secret", "banned"}, {"secret", "stranger"}})
      [] w.kind = "roster" -> Unless(Owns(w), {{"secret", "stranger"}})
      [] w.kind = "push" \/ (w.kind = "delete" /\ w.form = "http") ->
             {{"untracked"}, {"banned"}} \cup Unless(Owns(w), {{"reader"}})
      [] w.kind = "check" ->
             {{"untracked"}} \cup Unless(Owns(w), {{"reader"}})
                 \cup Unless(w.actor \in {w.subject, Owner}, {{"secret", "outsider"}})
      [] w.kind = "space" \/ (w.kind = "delete" /\ w.form # "http") ->
             {{"untracked"}, {"banned"}} \cup Unless(Owns(w), {{}})
      [] w.kind = "collab" -> {{"untracked"}} \cup Unless(Owns(w), {{}})
      [] OTHER -> {}

(* Whoever is all of one of these may. *)
Grants(w) ==
    CASE w.kind \in {"read", "query"} ->
             {{"tracked", "stored", "plain"}, {"tracked", "stored", "member", "lawful"}}
                 \cup Unless(~Owns(w), {{"tracked", "stored"}})
      [] w.kind = "roster" ->
             {{"tracked", "plain"}, {"tracked", "member"}} \cup Unless(~Owns(w), {{"tracked"}})
      [] w.kind = "push" \/ (w.kind = "delete" /\ w.form = "http") ->
             {{"tracked", "stored", "lawful", "writer"}}
                 \cup Unless(~Owns(w), {{"tracked", "stored", "lawful"}})
      [] w.kind = "check" ->
             Unless(w.actor # w.subject,
                    {{"tracked", "writer"}} \cup Unless(~Owns(w), {{"tracked"}}))
      [] w.kind = "space" -> Unless(~Owns(w), {{"tracked", "lawful"}})
      [] w.kind = "delete" /\ w.form # "http" ->
             Unless(~Owns(w), {{"tracked", "stored", "lawful"}})
      [] w.kind = "collab" -> Unless(~Owns(w), {{"tracked"}})
      [] OTHER -> {}

-----------------------------------------------------------------------------
At(h, step) == req[h].step = step

(* A request that ended leaves only how it ended. *)
Onward(r, step) == IF step \in Ended THEN [NoRequest EXCEPT !.step = step]
                                    ELSE [r EXCEPT !.step = step]

Following(r, step, holdsOwner) == Onward([r EXCEPT !.tracked = holdsOwner], step)

Failing(r, read) == [r EXCEPT !.failed = @ \cup {read}]

Goto(h, step) == req' = [req EXCEPT ![h] = Onward(@, step)] /\ UNCHANGED <<bans, faults>>

(* The database fails the read; the code goes on with `step`. *)
Fails(h, read, step) ==
    /\ faults < MaxFaults
    /\ faults' = faults + 1
    /\ req' = [req EXCEPT ![h] = Onward(Failing(@, read), step)]
    /\ UNCHANGED bans

(* What a step leaves true of the callers whose requests are under way: of a
   step that reads, and of one that writes. *)
OnlyReads(h) ==
    /\ UNCHANGED rows
    /\ steady' = [steady EXCEPT ![h] = IF Active(h)' THEN @ ELSE {}]

Observe ==
    steady' = [h \in Handlers |->
                 IF Active(h)' THEN steady[h] \cap Facts(req[h].wish)' ELSE {}]

(* The reads of a gate: with what they find, or failing. *)
Query(h, read, found, otherwise) ==
    /\ Goto(h, found) \/ Fails(h, read, otherwise)
    /\ OnlyReads(h)

(* What the code does once a gate let the request through.  The path of a named
   repository is looked up, that of a bare DID is the directory of that name. *)
Passed(w) ==
    CASE w.kind \in {"read", "push"} -> IF w.form = "bare" THEN "open" ELSE "path"
      [] w.kind = "query" -> "open"
      [] w.kind = "roster" -> "served"
      [] w.kind = "check" -> "role"
      [] w.kind = "delete" -> IF w.form = "http" THEN "path" ELSE "removeDir"
      [] OTHER -> "change"

FirstStep(w) ==
    CASE w.kind \in {"read", "push"} /\ w.form = "ssh" -> "derive"
      [] w.kind = "read" /\ w.form # "ssh" -> "alias"
      [] w.kind = "query" -> "locate"
      [] (w.kind = "push" /\ w.form # "ssh") \/ (w.kind = "delete" /\ w.form = "http") ->
             "pushBan"
      [] w.kind \in {"roster", "check"} -> "identify"
      [] w.kind = "space" -> "lookup"
      [] w.kind = "collab" -> "target"
      [] w.kind = "create" -> "initBare"
      [] OTHER -> "ownBan"

(* The XRPC handler of a creation looks for the rows, the HTTP handler for the
   directory. *)
Begin(h) ==
    /\ At(h, "idle")
    /\ \E w \in Wishes[h] :
         /\ w.kind = "create" => ~tracked \/ ~stored
         /\ req' = [req EXCEPT ![h] = [wish |-> w, step |-> FirstStep(w), tracked |-> TRUE,
                                       failed |-> {}]]
         /\ steady' = [steady EXCEPT ![h] = Facts(w)]
    /\ UNCHANGED <<rows, bans, faults>>

(* derive_repo_owner, of a bare DID over SSH. *)
Derive(h) ==
    /\ At(h, "derive")
    /\ Query(h, "derive",
             IF ~tracked THEN "refused"
             ELSE IF req[h].wish.kind = "read" THEN "alias" ELSE "pushBan",
             "refused")

-----------------------------------------------------------------------------
(* assert_read_auth.  A name without rows is a directory without rows, which is
   public; of a bare DID without rows the owner is not known, and the gate goes
   on.  A failed read is taken for a missing row. *)
ReadAlias(h) ==
    /\ At(h, "alias")
    /\ IF req[h].wish.form = "bare"
       THEN \/ /\ req' = [req EXCEPT ![h] = Following(@, "visibility", tracked)]
               /\ UNCHANGED <<bans, faults>>
            \/ /\ faults < MaxFaults
               /\ faults' = faults + 1
               /\ req' = [req EXCEPT ![h] = Failing(Following(@, "visibility", FALSE), "alias")]
               /\ UNCHANGED bans
       ELSE Goto(h, IF tracked THEN "visibility" ELSE "path") \/ Fails(h, "alias", "path")
    /\ OnlyReads(h)

(* Mutant: a caller without identity is looked up like any other. *)
IfPrivateAnonymous(h) ==
    LET w == req[h].wish IN
    IF req[h].tracked /\ w.actor = Owner THEN Passed(w)
    ELSE IF w.kind \in {"roster", "check"} \/ w.actor = Admin THEN "member"
    ELSE "ban"

(* Where a private repository's gate goes on: the owner passes; a caller without
   identity does not; a ban counts for reading, but not for the roster. *)
IfPrivate(h) ==
    LET w == req[h].wish IN
    IF req[h].tracked /\ w.actor = Owner THEN Passed(w)
    ELSE IF w.actor = Nobody THEN "refused"
    ELSE IF w.kind \in {"roster", "check"} \/ w.actor = Admin THEN "member"
    ELSE "ban"

(* Mutant: the ban is looked up before the owner is let through. *)
ReadVisibilityBanFirst(h) ==
    /\ At(h, "visibility")
    /\ Query(h, "visibility",
             IF IsPrivate
             THEN IF IsBanned(req[h].wish.actor) THEN "refused" ELSE IfPrivate(h)
             ELSE Passed(req[h].wish),
             IfPrivate(h))

(* get_repo_visibility, in every gate for reading. *)
ReadVisibility(h) ==
    /\ At(h, "visibility")
    /\ Query(h, "visibility", IF IsPrivate THEN IfPrivate(h) ELSE Passed(req[h].wish),
             IfPrivate(h))

(* Mutant: an error of the blocklist lets the caller through. *)
ReadBanFailsOpen(h) ==
    /\ At(h, "ban")
    /\ Query(h, "ban", IF IsBanned(req[h].wish.actor) THEN "refused" ELSE "member", "member")

ReadBan(h) ==
    /\ At(h, "ban")
    /\ Query(h, "ban", IF IsBanned(req[h].wish.actor) THEN "refused" ELSE "member", "refused")

(* is_repo_member: any role will do. *)
ReadMember(h) ==
    /\ At(h, "member")
    /\ Query(h, "member",
             IF RoleOf(req[h].wish.actor) # "none" THEN Passed(req[h].wish) ELSE "refused",
             "refused")

(* resolve_inner, first half: the rows.  A bare DID without rows may still be a
   directory without rows; `tracked` says whether the gate follows. *)
Locate(h) ==
    /\ At(h, "locate")
    /\ LET elsewhere == IF req[h].wish.form = "named" THEN "refused" ELSE "directory" IN
       \/ /\ req' = [req EXCEPT ![h] = Following(@, IF tracked THEN "directory" ELSE elsewhere,
                                                 tracked)]
          /\ UNCHANGED <<bans, faults>>
       \/ /\ faults < MaxFaults
          /\ faults' = faults + 1
          /\ req' = [req EXCEPT ![h] = Following(Failing(@, "alias"), elsewhere, FALSE)]
          /\ UNCHANGED bans
    /\ OnlyReads(h)

(* resolve_inner, second half.  The directory of a DID is looked for once more if it
   is missing, and if it is there then the gate does not follow. *)
Directory(h) ==
    /\ At(h, "directory")
    /\ \/ /\ stored
          /\ Goto(h, IF req[h].tracked THEN "visibility" ELSE Passed(req[h].wish))
       \/ /\ ~stored
          /\ ~req[h].tracked \/ req[h].wish.form = "named"
          /\ Goto(h, "refused")
       \/ /\ ~stored
          /\ req[h].tracked /\ req[h].wish.form # "named"
          /\ req' = [req EXCEPT ![h] = Failing(Following(@, "directory", FALSE), Missing)]
          /\ UNCHANGED <<bans, faults>>
    /\ OnlyReads(h)

(* resolve_repo_path of the transports, for a repository named by its owner. *)
ResolvePath(h) ==
    /\ At(h, "path")
    /\ Query(h, "path",
             IF ~tracked THEN "refused"
             ELSE IF req[h].wish.kind = "delete" THEN "removeDir" ELSE "open",
             "refused")

(* GitRepo::open, and what is read from it or pushed to it. *)
Open(h) ==
    /\ At(h, "open")
    /\ Goto(h, IF stored THEN "served" ELSE "refused")
    /\ OnlyReads(h)

-----------------------------------------------------------------------------
(* assert_push_auth: the ban, the rows, the role. *)
ReadPushBan(h) ==
    /\ At(h, "pushBan")
    /\ \/ Goto(h, IF IsBanned(req[h].wish.actor) THEN "refused" ELSE "pushAlias")
       \/ req[h].wish.actor # Admin /\ Fails(h, "ban", "refused")
    /\ OnlyReads(h)

ReadPushAlias(h) ==
    /\ At(h, "pushAlias")
    /\ Query(h, "alias",
             IF ~tracked THEN "refused"
             ELSE IF req[h].wish.actor = Owner THEN Passed(req[h].wish) ELSE "pushRole",
             "refused")

ReadPushRole(h) ==
    /\ At(h, "pushRole")
    /\ Query(h, "role",
             IF RoleOf(req[h].wish.actor) = "writer" THEN Passed(req[h].wish) ELSE "refused",
             "refused")

-----------------------------------------------------------------------------
(* Who belongs to a repository: repo_ids and get_repo_key_owner, then the gate
   above without the ban.  Whoever asks about their own key passes. *)
Identify(h) ==
    /\ At(h, "identify")
    /\ LET w == req[h].wish IN
       Query(h, "alias",
             IF ~tracked THEN "refused"
             ELSE IF w.kind = "check" /\ w.actor = w.subject THEN "role" ELSE "visibility",
             "refused")

(* check_push_allowed: "served" stands for the answer that the subject may. *)
ReadRole(h) ==
    /\ At(h, "role")
    /\ LET owns == req[h].wish.subject = Owner IN
       Query(h, "role",
             IF owns \/ RoleOf(req[h].wish.subject) = "writer" THEN "served" ELSE "refused",
             IF owns THEN "served" ELSE "refused")

-----------------------------------------------------------------------------
(* assert_owns_by_repo, for the space; then deny_if_banned.  assert_owns_by_name
   compares the caller with the owner it was given. *)
LookUpOwner(h) ==
    /\ At(h, "lookup")
    /\ Query(h, "alias", IF tracked /\ req[h].wish.actor = Owner THEN "ownBan" ELSE "refused",
             "refused")

DenyIfBanned(h) ==
    /\ At(h, "ownBan")
    /\ \/ Goto(h, IF req[h].wish.actor # Owner \/ IsBanned(req[h].wish.actor) THEN "refused"
                  ELSE IF req[h].wish.kind = "delete" THEN "ownAlias" ELSE "change")
       \/ req[h].wish.actor \in {Owner} \ {Admin} /\ Fails(h, "ban", "refused")
    /\ OnlyReads(h)

(* assert_owns_by_name, after the ban; the path is resolved next. *)
ReadOwnAlias(h) ==
    /\ At(h, "ownAlias")
    /\ Query(h, "alias", IF tracked THEN "locate" ELSE "refused", "refused")

(* resolve_write_target: repo_did_exists and get_repo_key_owner, two reads of
   one row of which the later decides; no ban. *)
ReadTarget(h) ==
    /\ At(h, "target")
    /\ Query(h, "alias", IF tracked /\ req[h].wish.actor = Owner THEN "change" ELSE "refused",
             "refused")

(* set_repo_visibility, add_repo_member, remove_repo_member; addCollaborator
   leaves the owner alone. *)
Change(h) ==
    /\ At(h, "change")
    /\ LET w == req[h].wish IN
       /\ visibility' = CASE w.change = "publish" -> "public"
                          [] w.change = "hide"    -> "private"
                          [] OTHER -> visibility
       /\ members' =
            CASE w.change = "addReader" -> [members EXCEPT ![w.subject] = "reader"]
              [] w.change = "addWriter" /\ ~(w.kind = "collab" /\ w.subject = Owner) ->
                     [members EXCEPT ![w.subject] = "writer"]
              [] w.change = "dismiss"   -> [members EXCEPT ![w.subject] = "none"]
              [] OTHER -> members
    /\ Goto(h, "served")
    /\ UNCHANGED <<tracked, stored, banned>>
    /\ Observe

-----------------------------------------------------------------------------
(* Deletion and creation, as in RepoLifecycle.  The HTTP handler looks the rows
   up once more and answers alike if they are gone. *)
RemoveDir(h) ==
    /\ At(h, "removeDir")
    /\ Goto(h, IF stored THEN "purge" ELSE "refused")
    /\ stored' = FALSE
    /\ UNCHANGED <<tracked, visibility, members, banned>>
    /\ Observe

PurgeRows(h) ==
    /\ At(h, "purge")
    /\ Goto(h, IF tracked \/ req[h].wish.form = "http" THEN "served" ELSE "refused")
    /\ tracked' = FALSE
    /\ IF tracked THEN visibility' = "none" /\ members' = [d \in Dids |-> "none"]
                  ELSE UNCHANGED <<visibility, members>>
    /\ UNCHANGED <<stored, banned>>
    /\ Observe

InitBare(h) ==
    /\ At(h, "initBare")
    /\ Goto(h, IF stored THEN "refused" ELSE "insert")
    /\ stored' = TRUE
    /\ UNCHANGED <<tracked, visibility, members, banned>>
    /\ Observe

InsertRepo(h) ==
    /\ At(h, "insert")
    /\ Goto(h, IF tracked THEN "refused"
               ELSE IF req[h].wish.change = "hide" THEN "initial" ELSE "served")
    /\ tracked' = TRUE
    /\ UNCHANGED <<stored, visibility, members, banned>>
    /\ Observe

SetInitialVisibility(h) ==
    /\ At(h, "initial")
    /\ Goto(h, "served")
    /\ visibility' = "private"
    /\ UNCHANGED <<tracked, stored, members, banned>>
    /\ Observe

-----------------------------------------------------------------------------
(* ban and unban: the admin only, and never of the admin. *)
ChangeBan(d) ==
    /\ d # Admin
    /\ bans < MaxBans
    /\ bans' = bans + 1
    /\ banned' = IF d \in banned THEN banned \ {d} ELSE banned \cup {d}
    /\ UNCHANGED <<tracked, stored, visibility, members, req, faults>>
    /\ Observe

(* A write fails, or the handler is dropped while it awaits one. *)
Abandon(h) ==
    /\ req[h].step \in Writes
    /\ faults < MaxFaults
    /\ faults' = faults + 1
    /\ req' = [req EXCEPT ![h] = Onward(@, "dropped")]
    /\ OnlyReads(h)
    /\ UNCHANGED bans

(* A repository that exists or not; a knot may have got an admin who was banned
   under another. *)
Init ==
    /\ \E start \in Starts, exists \in BOOLEAN :
         /\ tracked = exists
         /\ stored = exists
         /\ visibility = IF exists THEN start.visibility ELSE "none"
         /\ members = [d \in Dids |-> IF exists THEN start.members[d] ELSE "none"]
         /\ banned = start.banned
    /\ req = [h \in Handlers |-> NoRequest]
    /\ steady = [h \in Handlers |-> {}]
    /\ bans = 0
    /\ faults = 0

Step(h) ==
    \/ Begin(h)
    \/ Derive(h)
    \/ ReadAlias(h)
    \/ ReadVisibility(h)
    \/ ReadBan(h)
    \/ ReadMember(h)
    \/ Locate(h)
    \/ Directory(h)
    \/ ResolvePath(h)
    \/ Open(h)
    \/ ReadPushBan(h)
    \/ ReadPushAlias(h)
    \/ ReadPushRole(h)
    \/ Identify(h)
    \/ ReadRole(h)
    \/ LookUpOwner(h)
    \/ DenyIfBanned(h)
    \/ ReadOwnAlias(h)
    \/ ReadTarget(h)
    \/ Change(h)
    \/ RemoveDir(h)
    \/ PurgeRows(h)
    \/ InitBare(h)
    \/ InsertRepo(h)
    \/ SetInitialVisibility(h)
    \/ Abandon(h)

Next ==
    \/ \E h \in Handlers : Step(h)
    \/ \E d \in Dids : ChangeBan(d)

Spec == Init /\ [][Next]_vars

-----------------------------------------------------------------------------
TypeOK ==
    /\ tracked \in BOOLEAN
    /\ stored \in BOOLEAN
    /\ visibility \in {"none", "public", "private"}
    /\ members \in [Dids -> Roles \cup {"none"}]
    /\ banned \subseteq Dids
    /\ req \in [Handlers -> Request]
    /\ \A h \in Handlers : req[h].step \in {"ban", "member"} => req[h].wish.actor # Nobody
    /\ steady \in [Handlers -> SUBSET FactNames]
    /\ bans \in Nat
    /\ faults \in Nat

(* Two gates take a failed read of the rows for a directory without rows, and the
   second takes one that appears under rows it has read for such a directory, too. *)
FailedOpen(r) ==
    \/ "alias" \in r.failed /\ r.wish.kind = "read" /\ r.wish.form # "bare"
    \/ /\ "alias" \in r.failed \/ Missing \in r.failed
       /\ r.wish.kind = "query" /\ r.wish.form # "named"

Ends(h, step) == Active(h) /\ At(h, step)'

(* Whoever is barred for one reason from the beginning of a request to its end
   is not served, whatever else changes meanwhile, whichever of the doors is
   used and whichever reads fail, but for the lookups that fail open. *)
NobodyBarredIsServed ==
    [][\A h \in Handlers :
         Ends(h, "served") /\ (\E B \in Bars(req[h].wish) : B \subseteq steady[h])
             => FailedOpen(req[h])]_vars

(* Whoever may do something on one ground throughout a request is not turned
   away, unless the database failed. *)
NobodyEntitledIsRefused ==
    [][\A h \in Handlers :
         Ends(h, "refused") /\ (\E G \in Grants(req[h].wish) : G \subseteq steady[h])
             => req[h].failed \ {Missing} # {} \/ faults' # faults]_vars
=============================================================================
