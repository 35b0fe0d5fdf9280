# Vlecht in TLA+

Vlecht is a *knot* server: it hosts git repositories over HTTP and SSH, keeps who owns and may
use them in SQLite, serves the XRPC methods of the Tangled lexicons, and publishes what happens
as an event stream. This directory holds TLA+ models of the parts of it where steps of several
actors meet, the TLC runs that check them, and TLAPS proofs about them.

    tlc  -config FirehoseDelivery.cfg MCFirehose      one run (PROJECT.json lists them all)
    tlapm FirehoseProofs.tla                          the proofs of one component (section 4 lists the modules)

## 1. The system

| Part | Where | State | Operations | What is hard |
|---|---|---|---|---|
| Event firehose | `vlecht-atp/src/lex/events.rs`, `vlecht/src/events.rs`, `vlecht-db/src/store.rs` | the `events` table, the high-water clock `LAST_NANOS`, a broadcast channel, a cursor per reader | `emit`, `stream`, `drain` | handlers emit concurrently; stamp, INSERT and wakeup are separate steps; readers sleep, lag, break off and reconnect; restarts |
| Refs | `vlecht-git/src/lib.rs`, `lex/{merge_repo,fork_sync,delete_branch,set_default_branch,hidden_ref}.rs` | refs, HEAD, the object database | `receive_pack`, `fast_forward_ref`, ... | no lock spans a request: what was checked may have moved; packs fail; commands of a push succeed one by one |
| Repository lifecycle | `lex/{create_repo,delete_repo,space,collaborators,authz}.rs`, `vlecht/src/handlers.rs`, `vlecht-db/src/lib.rs` | the directory, `repo_keys`, `repo_aliases`, `repo_visibility`, `repo_members` | create, delete, set visibility, add and remove members, push | disk and database have no common transaction; requests overlap and are cut off; a name is used again |
| SSH transport | `vlecht/src/ssh.rs` | sessions, the authenticated DID | key authentication, exec, upload-pack, receive-pack | no request announces its length: the end of a push is guessed from silence, that of a fetch is a line that reads may cut; the right to push is checked long before it is used |
| Lookups of handles and keys | `vlecht/src/{auth,ssh}.rs`, `vlecht-atp/src/{pds_keys,identity}.rs` | the handle cache, the PDS key cache, `public_keys` | `resolve_owner_did`, `resolve_via_pds`, `persist_pds_key` | the lock is not held while the network is asked: lookups of one name overlap and store in any order |
| Authorisation | `vlecht/src/auth.rs`, `vlecht-atp/src/service_auth.rs`, `lex/{resolve,maybe_auth,authz,space,collaborators,blocklist}.rs` | none of its own; it reads `repo_keys`, `repo_visibility`, `repo_members`, `knot_blocklist` | `assert_push_auth`, `assert_read_auth`, `resolve_repo_path`, `assert_owns_by_name`, ... | a decision takes several reads with awaits between them, each of which may fail, while others change the rows |
| Fetch | `vlecht-git/src/lib.rs` | none between requests | `ls_refs`, `fetch_v2`, `upload_pack_response` | refs move between the rounds of one fetch; one set of seen ids for objects of four kinds |
| Store, queries, paths, wiring | the rest | tables; none; none; configuration | | |

They interact by calls (a transport calls authorisation, then `GitRepo`, then the firehose), by
the shared SQLite database and repository directories, and by one broadcast channel, over which
every mutation handler wakes the `/events` readers.

What makes each part correct:

* *Firehose*: a client gets events in cursor order, each once, none lost, and what is stored
  reaches it eventually.
* *Refs*: a ref points at a commit whose history is stored; nothing drops commits that nobody
  asked to drop; every change of a push is handed to `emit`, and what is announced was done, in the
  order told.
* *Lifecycle*: disk and rows agree; content is governed by the visibility it was pushed under; a
  new repository inherits nothing from an old one of its name.
* *SSH*: a push takes effect as it was sent, and of part of one nothing is done that needs the pack;
  a fetch is answered for all that was asked; a session ends.
* *Lookups*: however they overlap, nobody uses an answer for longer than its TTL and the time a
  question may take.
* *Fetch*: what is sent, with what the client has, is all of what was asked for and no more.
* *Authorisation*: whoever has no right at any time during a request is not served, also if a read
  fails; whoever has one all the time is not refused, unless a read failed.

`PROJECT.json` lists, under `hazards`, what in this code is hard to test, each at its line, with
the properties that cover it.

## 2. Modules

| Module | Models | Role |
|---|---|---|
| `EventLog` | an ordered log that every reader sees whole | abstract specification |
| `LateLog` | a log whose rows may be stored late, below others | abstract specification |
| `Firehose` | emission, the events table, the readers | implements `LateLog`, and with one emitter `EventLog`, under stated assumptions |
| `FirehoseProofs` | | theorems about `Firehose` |
| `RefJournal` | what `refUpdate` events may tell of a repository | abstract specification |
| `RepoStore` | what a repository promises to those who read it while others write | abstract specification |
| `RepoRefs` | pushes and owner requests on the refs of one repository | implements `RefJournal` and `RepoStore` |
| `RepoRefsProofs` | | theorems about `RepoRefs` |
| `RepoLifecycle` | one repository name from creation to deletion | |
| `RepoLifecycleProofs` | | theorems about `RepoLifecycle` |
| `Access` | the gates of all transports, and the requests that change what they read | lets through what `RepoRefs`, `Fetch` and `RepoLifecycle` then carry out |
| `AccessProofs` | | theorems about `Access` |
| `SshSession` | one git command over SSH | feeds the `pack` that `RepoRefs` unpacks and the wants of `Fetch` |
| `SshSessionProofs` | | theorems about `SshSession` |
| `Fetch` | clone and fetch, from the list of refs to the pack | rests on `RepoStore`, which `RepoRefs` implements |
| `FetchProofs` | | theorems about `Fetch` |
| `Lookups` | cached questions about handles and SSH keys | |
| `LookupsProofs` | | theorems about `Lookups` |
| `MCFirehose`, `MCRepoRefs`, `MCRepoLifecycle`, `MCAccess`, `MCSshSession`, `MCFetch`, `MCLookups` | instances for TLC | |

### 2.1 Firehose

Actors are *emitters* (tasks that call `emit`) and *readers* (websocket clients).

| Code | Model |
|---|---|
| `emit`: the row is built with `new_rkey()` and the clock | `ReadClock` |
| `next_nanos`: the `compare_exchange` that succeeds | `Allocate` |
| `insert_event`, and its failures | `InsertEvent`, `InsertCollides`, `InsertFails` |
| `tx.send(())` | `Wake` |
| the HTTP server drops the handler at the `await` | `CancelHandler` |
| `stream`: subscribe, then drain from the client's cursor | `Connect` |
| `drain`: SELECT; send and move the cursor; short or full batch; cap | `Fetch`, `Send`, `AfterBatch` |
| `rx.recv()`, with a message or `Lagged` | `Wakeup` |
| the client reads from the socket; the connection ends | `Receive`, `Disconnect` |
| the process dies and starts again | `Crash` |

A failed `compare_exchange` only retries, so `Allocate` is one step at the successful exchange.
The broadcast channel carries no data, so a receiver is the number of its pending wakeups, one
more than the capacity standing for "lagged". `stream[r]` is what was sent to a client over all
its connections and `got[r]` how much of it arrived; what was in flight when a socket broke is
cut off in `Connect`. The cursor a client presents is that of the last row it got.

Assumptions that show in constants: `ClockStepsBack` (may a restart find the wall clock behind
the stamps already given?) and `HandlersCancelled`. Restarting takes longer than the few
nanoseconds by which the counter can lead the clock, so without a step back the clock of the new
process is past the old counter.

Two abstract specifications say what clients may rely on. `LateLog` is for any number of emitters: a
row may be stored below rows that are there, and is lost to those readers who have passed it, in
that step or never; all other rows come in order and without a gap, over all connections of a
client. `lost` is mapped to `Missed(r)`, the rows between what r got and the cursor of its task that
it will not look for; a client that reconnects resumes below some of them, and gets those.
`EventLog` is for one emitter: nothing is lost. `NoWakeupIsLost` is the part of it that the
interleaving of SELECT, INSERT and the broadcast decides: `Unannounced(r)` are the rows ahead of r's
cursor when r is asleep or bound to sleep, no message waits for it and no emitter is about to send
one.

### 2.2 RepoRefs

`receive_pack` is synchronous, but several run at once on different threads and processes no lock.
Its steps are: `Unpack` (or `UnpackFails`), one `EditRef`, `RefuseCommand` or `AbortPush` per
command, and then one `Announce` or `LoseEvent` per change made. gix's `edit_reference` locks the
ref, compares and writes, and is one step; a lock taken by another edit makes it fail, which
`RefuseCommand` and `EditFails` allow at any time. The owner requests read refs one at a time
(`ReadTarget`, `ReadOurs`, `ReadTheirs`, `Compare`), because `is_ancestor` resolves its arguments by
name, twice, and then edit with `PreviousValue::Any` (`FastForward`, `DeleteBranch`,
`SetHiddenRef`). A short name resolves to a tag before a branch, as `rev_parse_single` does.

Commits are model values and `Anc` is the ancestry among them; a commit stands for its trees and
blobs. Clients send the pack their commands need or none at all: a client that sends less than
its commands need but with valid checksum is not modelled.

`RefJournal` is the same repository seen by somebody who follows its `refUpdate` events. Its
`untold` is the queue of changes of each push (`push[p].changes`), its `told` the changes of
`announced`, its `lost` those of `lost`, its `doomed` the pushes with a command that `receive_pack`
cannot parse (`Aborts`), its `failures` the count `faults`. An event names a change that was made,
from the value the client was shown or, since `ExistingMustMatch` also accepts a ref that is gone,
from none; the events of a push come in the order of its commands. A change leaves the queue untold
in three ways. `emit` may be unable to store its event, because the INSERT fails or the record key
of that microsecond is taken: it logs that and returns, the loop goes on, and this one event is
lost, from anywhere among those of its push and without anything else having failed (`LoseEvent`;
`Firehose` tells the two causes apart as `InsertFails` and `InsertCollides`). Its push may be doomed
by what it asks for, and then nothing of it is told. Or a failure is counted in that step, and
nothing more of the push is told: the handler is dropped, or the rows of the repository are not
found, as when it was deleted meanwhile (`AnnouncementLost`). The owner's edits appear as changes
nobody tells of. `ImplementsJournal` is the refinement.

`RepoStore` is the same repository seen by whoever reads it: objects stay and come with all they
need, and refs move one at a time and only to what is stored in full. `ImplementsStore` is the
refinement; `Fetch` rests on it.

### 2.3 RepoLifecycle

One name of one owner. `repo_keys` and `repo_aliases` are written in one transaction and are one
Boolean (`tracked`). `disk` also records whether content was pushed while the repository was
private. The XRPC and the HTTP handler of an operation are one action where they differ only in
their checks; `BeginCreate` takes the weaker of the two checks, `BeginDelete` what both need.
`BeginSpace` is `setVisibility`, `addMember` and `removeMember`; `BeginCollaborator` is
`addCollaborator` and `removeCollaborator`, which write the same rows.
`born` and `revoked` are history variables.

`MayOverlap` says which kinds of request may run at once. With every overlap allowed, three of the
properties fail; the run excludes just the overlaps that break one, which TLC showed one by one:

* *create with push*: a push authorised before a deletion writes into the directory of the
  creation that follows, before its rows exist: `ContentIsGoverned` fails.
* *create with delete*: the directory made between `remove_dir_all` and the deletion of the rows
  is left without rows: `DiskAndRowsAgree` fails.
* *delete with a change to the space*: a member or visibility row written after `delete_repo`
  purged the tables is inherited by the next repository of that name: `FreshRepoIsClean` fails.

The theorems of section 4 assume of each property just those of the three that it needs apart. All
other overlaps are in the run: create with create, delete with push, delete with delete,
pushes and changes to the space with each other and with a creation.

### 2.4 SshSession

| Code | Model |
|---|---|
| `exec_request`: the gates of `Access`, the channel looked up | `Exec` |
| the advertisement is written | `Advertise` |
| `read_bounded`, one read of it | `Read` in phase `negotiate` |
| `read_receive_pack_request`: up to the flush, the four bytes after it, the pack | `Read` in phases `commands`, `probe`, `pack` |
| end of file; the timeout of 200 ms | `Eof`, `TimesOut` |
| `receive_pack`, `upload_pack_response`, the answer | `Process`, `Fail` |
| the client sends, closes its side or is cut off | `Send`, `HangUp` |

A request is a list of lines up to its flush, then a pack or the commits the client has and `done`.
It is counted in units, the pieces that a read may stop between: `LineUnits` to a line, one for the
flush, `MagicUnits` for the word `PACK`. The client may send, fall silent or hang up at any point;
the reader's timer can fire whenever there is nothing to read. The lines of a push are of three
kinds: deletions, moves, which set a ref to a commit the server has, and updates, whose commit comes
in the pack. A push of moves alone still has a pack, of no objects, as git sends it. `Taken` is what
`split_receive_pack` and `receive_pack` make of the bytes that were read, given that gix's
`Bundle::write_to_directory` refuses a pack that is not whole: if not one byte of a pack came, none
is unpacked, and the deletions and moves among the lines that came in whole are carried out
(`NeedNoPack`); an update is refused, for its commit is not stored. That two pushes, or a push and a
fork sync, store the same commit is left to `RepoRefs`; `Parsed` is the same for a fetch, where a
line that is cut off is passed over or makes the whole an error.

A git client of protocol version 0 tells of its commits in windows, 16 at first. It sends two
windows ahead and waits for an answer to the first of them before it sends the third; the server
answers only once it has read `done` or end of file. `Window` is that number, and `Waits` says that
the client has as much to tell. A client sends one command on a channel, as git does. What the refs
then become is `RepoRefs`', and what the pack holds is `Fetch`'s.

### 2.5 Fetch

| Code | Model |
|---|---|
| `ls_refs`, `advertise_refs` | `ListRefs` |
| `fetch_v2` without `done` | `Negotiate`, any number of rounds |
| `fetch_v2` with `done`, `upload_pack_response` | `Ask`, and then the walk |
| one iteration of the loop of `collect_all_oids` | `WalkCommit` |
| `collect_tree_oids`, on a tree or another entry | `VisitTree`, `VisitEntry` |
| `generate_pack_bytes` | `SendPack` |
| the client takes the pack or gives up | `Finish` |

The object graph is constant (`Kind`, `Content`), and every push chooses from it. The recursion
over trees is a stack of entries still to visit. `rev_walk` may yield commits in any order that
follows parents; which order does not matter to the properties, and the model allows all. A client
asks only for what was listed and claims only what it has, not necessarily all of it; its claims
of one round are one step. `Push` moves a ref and adds all that it then names. That is one of the
changes `RepoStore` allows, and cheap enough for TLC; `FetchProofs` allows them all (`Others`):
objects stored before the ref, or for a ref that is then refused, several tips at once, refs that
vanish. `Recreate` is the deletion of the repository and its creation under the same
name, which may come between any two steps of a fetch. Framing in pkt-lines and sidebands is left
out.

### 2.6 Lookups

One handle and one user, looked up by several request handlers and SSH sessions. A lookup goes from
`looking` (it reads the cache) to `asked` and `answered` (the network's answer is under way, no lock
is held), then `persist` (a key that was found is written to `public_keys`) and `done`. The network
may answer anything; `asOf` records when it did, in the entry and in whoever uses it. Time is a
bounded counter. `Patience` bounds the time from the question to the stored answer. It stands for a
sum: a question may take several requests one after the other (for keys the document of the DID and
then the records; for a handle what the resolver tries in turn), and each of them times out after
ten seconds in the HTTP client that sends it, the resolver's or that of `pds_keys.rs`. `Tick` waits
for answers that are due. Nothing removes a row from `public_keys`, so a key that was once found
there is accepted without a lookup (`AcceptKnown`), and `AnswersAreRecent` does not speak of it.

### 2.7 Access

| Code | Model |
|---|---|
| `derive_repo_owner` of `ssh.rs` | `Derive` |
| `assert_read_auth` | `ReadAlias`, `ReadVisibility`, `ReadBan`, `ReadMember` |
| `resolve_repo_path` of XRPC | `Locate`, `Directory`, then the same |
| `assert_push_auth` | `ReadPushBan`, `ReadPushAlias`, `ReadPushRole` |
| the repository is looked up again, opened and used | `ResolvePath`, `Open` |
| `getSpace`, `listMembers`, `listCollaborators`, `checkPushAllowed` | `Identify`, the gate, `ReadRole` |
| `assert_owns_by_repo`, `assert_owns_by_name`, `deny_if_banned`, `resolve_write_target` | `LookUpOwner`, `DenyIfBanned`, `ReadOwnAlias`, `ReadTarget` |
| what the owner, the admin, a deletion and a creation write | `Change`, `ChangeBan`, `RemoveDir`, `PurgeRows`, `InitBare`, `InsertRepo`, `SetInitialVisibility` |

Each database read of a gate is one action, with what it finds and where the code goes if the read
fails; between any two of them everybody else may act. A request ends `served`, `refused` or
`dropped`.

The reference is written apart from the gates: `Facts` is what holds of the repository and the
person a request is about, `Bars` the sets of facts each of which stands in the way of a request,
`Grants` the sets each of which entitles to it. No point in time need see all that a gate read, so
the properties speak of `steady`, the facts that have held since the request began (a history
variable): whoever is barred for one reason all along is not served, and whoever is entitled on one
ground all along is not refused. `FailedOpen` excepts where the code fails open (section 5): two
lookups of the rows that a missing row and an error leave alike, and the second look of
`resolve_inner`. It looks for the directory of a DID at `resolve.rs:85`, with the rows in hand, and
again at `resolve.rs:101`, without them. A directory that is there the second time only (`Missing`),
as when a deletion has left the rows and a creation makes the directory anew between the two, is
served as one without rows, past the gate.

How the caller came by an identity is taken as given: the service token, the proxy's header and,
through `Lookups`, the handle and the SSH key. Repositories lie where `create_repo` puts them; the
older directory layouts that `resolve_inner` also tries are left out. `list_repo_members`, read once
the roster's gate has passed, decides nothing and is left out.

## 3. Runs

Bounds are given in the `.cfg` files; every one of them is a constant of its module.

| Run | Result | What it shows | Why the bounds suffice |
|---|---|---|---|
| `FirehoseDelivery` | holds | the refinement of `LateLog`; no duplicates, no disorder, no wakeup lost, no row lost but by a late insert, and every stored row settles | two emitters suffice to stamp in one order and insert in the other; the record keys of two microseconds let two of their four emissions be stored, in any order, and the other two collide; the two rows fill a batch, which is then also the cap; a drain that leaves a row over is in `FirehoseLog`; capacity 1 makes the channel lag; one fault of each sort in turn |
| `FirehoseLog` | holds | the refinement of `EventLog` with its liveness | three rows in batches of one with a cap of two reach the cap and leave one over; two faults allow a restart and a disconnect; two event types, one clock tick per record key tick, so keys collide |
| `RefsSafety` | holds | refs are backed by history; commits are lost only to a client that named them, to a deletion, or to a stale check; the default branch goes only by a push or because HEAD moved to it after the check; the refinements of `RefJournal` and `RepoStore`; `emit` comes to every change, but for those of a push that is malformed or cut off | two pushers and two owner requests, two requests in all and one fault, three commits that fork, malformed commands: each race takes two requests; safety and the refinements are also proved for every bound |
| `RefsFastForward` | violated | a push between check and edit is overwritten | |
| `Lifecycle` | holds | disk and rows agree, content is governed, new repositories are clean, without faults, a private one is private once its creation is over | create, push, delete, create and push again take five of the seven requests, three at a time; two faults cut off one creation and one deletion |
| `LifecycleRevoked` | violated | see section 5 | |
| `Fetch` | holds | a pack has all that was asked for, but for annotated tags and commits that are also submodules; it has nothing else; what was listed is served unless the repository was deleted | a history of three commits with a fork, trees that share subtrees, a submodule inside and one outside the repository, an annotated tag; three pushes to two refs and one deletion around two fetches by a client that starts empty, behind or on the fork |
| `FetchClone` | violated | see section 5 | |
| `Access` | holds | nobody who is barred all along is served, nobody who is entitled all along is refused | three handlers: one tries each gate as each of owner, admin, a member and nobody, one is the owner who publishes, hides, appoints, dismisses or deletes, one creates again; whether somebody may push is asked by the admin, by that person and by a stranger; one ban or unban and one failed read at any point |
| `Lookups` | holds | no answer is used for longer than its TTL and the timeout, and the cache goes back by no more than the timeout | two lookers overlap on both subjects; five ticks outlast twice the longer TTL, so that an entry is stored, used, found stale and stored again |
| `SshRequest` | holds | what is carried out of part of a push needs no pack and came in whole, steady pushes take effect, fetches are answered whole, flushed pushes and all but long fetches end | seven pushes and four fetches: deletions, moves and updates alone and mixed, an empty pack, one above the size limit and one that waits, every way of cutting them into reads of up to two lines, closing at any point |
| `SshPack` | violated | see section 5 | |

`CHECK_DEADLOCK FALSE` is in every configuration because the bounds on emissions, requests and
faults let each system come to rest.

Fairness. In `Firehose`: weak fairness of an emitter's and a reader's own steps (tokio polls every
ready task, the database answers, a socket write ends within `WRITE_TIMEOUT`), of `Receive` (the
connection delivers) and of `Connect` (the property is about clients that come back). Nothing is
assumed of the clock, of `ReadClock` or of faults. In `RepoRefs`: weak fairness of a push's own
steps, and none of the owner's. In `SshSession`: weak fairness of the reader, its timer and the
answer, and none of the client: `FlushedRequestEnds` holds however it behaves, and `ShortFetchEnds`
begins when it has sent all. In `RepoLifecycle`, `Access`, `Fetch` and `Lookups` nothing is assumed
and nothing live is claimed.

## 4. Proofs

`FirehoseProofs` proves, for every number of emitters and readers, every batch size, cap and
capacity and every bound:

* without further assumption: `TypeCorrect` (`TypeOK`), `DeliveredAtMostOnce` (`AtMostOnce`),
  `EveryWakeupCounts` (`NoWakeupIsLost`);
* under `~ClockStepsBack`: `AscendingDelivery` (`Ascending`), `EmitterOrderKept` (`EmitterOrder`),
  `OnlyLateInserts` (`OnlyLateInsertsAreMissed`), and `FirehoseImplementsLateLog`
  (`ImplementsLateLog`), that every step of `Firehose` is a step of `LateLog` or a stutter;
* under `~ClockStepsBack` and a single emitter: `FirehoseImplementsLog`, the same of `EventLog`.

None of the properties is inductive. `SentInv` needs no clock: the rows a reader was sent are
distinct and do not descend in `created`, the last of them is its cursor, and a batch being sent is
of stored rows at or above the cursor that were not sent yet; so nothing is sent twice, even where
stamps repeat.

`EveryWakeupCounts` needs the type and `RowsInv` only and is an argument about steps
(`UnannouncedStep`): the set of rows ahead of a reader that it will not look for grows by rows just
inserted alone. `Wake` leaves a message
in the channel of every reader that is connected, also in one that is full; a reader subscribes
before it drains and takes its messages before it selects, so a SELECT that comes back short has seen
every row whose message it gave up; and an emitter leaves `Wake` undone only if its handler is
dropped in the step that stores the row, or the process stops and every connection with it.

The rest rests on `DeliveryInv`, which has a part for each actor. `StampBound`: every stamp ever
given, in the table or in a draft, is at most `lastNanos` or, after a restart, the wall clock.
`UniqueStamps`: no two drafts or rows share one. `EmissionInv`: sequence numbers and stamps of one
emitter grow together, and its draft is above its rows. `StreamInv`: what a reader was sent ascends,
is stored and lies at or below its cursor, and its pending batch lies above. What is proved of the
stream is then what is claimed of the prefix that has arrived. The step back of the clock is exactly
what `StampBound` cannot survive, so the assumption is needed and not a convenience.

For `LateLog`, a row is delivered when it arrives (`ReceiveDelivers`), and by `StreamInv` it is then
the least that the client has neither got nor lost; a row that is inserted is lost to the readers
whose cursor it falls below (`InsertExtends`), and to no others; no other step but a reconnect
changes what is lost (`ReadStutters`, `PassedStaysMissed`). For `EventLog`, `LogInv` adds that no
reader has passed a row and that a stamped draft is above the table, which one emitter ensures.

`RepoRefsProofs` proves, for every number of pushers and owners, every commit graph and whatever the
clients ask for, but, as section 2.2 says of `SendPush`, given that a client's pack has all its
commands need, or does not come at all:

* `RefsTypeCorrect`: `TypeOK`;
* `RefsBackedByHistory`: `HistoryIsStored`. It is not inductive, because a ref is written with a
  value that was found earlier. `Stored` adds that the object database is closed under history,
  that it stays closed when a pack waiting in `Unpack` is added, and that what an owner request
  holds is stored. `receive_pack` looks up the new tip only, and this is why that suffices;
* `OnlyStaleReadsLoseCommits`: `CommitsLostOnlyToStaleReads`. `WellFormed` carries what
  `is_ancestor` has read so far: the base is a best common ancestor of the two values read, and once
  the request may write, the branch was read again and is that base. If the reads are not stale
  the base is the branch's value and the target the one written, and ancestry is transitive;
* `DefaultOutlastsDeleteBranch`: `DefaultDeletedOnlyByStaleCheck`. A request about to delete found
  another branch to be the default, so HEAD has moved since;
* `RefsImplementJournal`: `ImplementsJournal`, each action as a step of `RefJournal` or a stutter.
  The journal loses an event alone just where `LoseEvent` does, and otherwise a whole queue at a
  failure or an abort.
  Only a push at rest may begin anew, and one at rest has nothing left to tell; one that announces
  has no command left (`Rested`). The command at the head of the queue is parsed before it is
  carried out or refused, so that a push stays doomed until it is aborted (`HeadPassed`);
* `RefsImplementStore`: `ImplementsStore`. By `Stored` the objects after any step are closed, which
  makes whatever was added whole, and so is what any ref then names.

`RepoLifecycleProofs` proves, for any number of handlers, members, requests and faults:

* of any overlap, `LifecycleTypeCorrect` (`TypeOK`) and `RevocationOutlastsOverlaps`: a revoked
  member stays revoked unless a Go knot's database lists it. So where there is no such database
  `RevocationLasts` holds (`RevocationLastsWithoutGoKnot`): what section 5 says of it is the only
  exception;
* if a creation meets no deletion (`CreateMeetsNoDelete`), `AgreementOfDiskAndRows`
  (`DiskAndRowsAgree`) and `BornPrivate` (`InitialVisibilityHolds`);
* if moreover a creation meets no push (`CreateMeetsNoPush`), `GovernedContent`
  (`ContentIsGoverned`);
* if a creation meets no deletion and a deletion no change to the space (`DeleteMeetsNoSpace`),
  `NewRepoInheritsNothing` (`FreshRepoIsClean`).

Each hypothesis is needed: TLC refutes the property without it.

The invariant `Governed` tells what each request has done so far. `Apart`: requests that may not
meet do not. `DiskHeld`: a creation finds the directory it made, a deletion about to purge has
removed it. `ContentHeld`: content implies rows, secret content a private row, and a creation finds
none. `RowsHeld`: what a creation is about to set was not set by others. `SpaceHeld`: no row of the
space without those of the repository. `Mended`: without faults, whatever disk and rows disagree on,
there is a request that is about to mend it. `ContentHeld` and `SpaceHeld` are claimed only under
the hypothesis they need, so that one induction serves all four theorems.

`AccessProofs` proves, for any number of handlers, accounts, bans and faults, and all requests:

* `AccessTypeCorrect`: `TypeOK`;
* `BarredAreNotServed`: `NobodyBarredIsServed`;
* `EntitledAreNotRefused`: `NobodyEntitledIsRefused`.

The invariant says of each request under way that what has held steadily holds now, and, in
`Sound`, what follows from where it stands: `Stage`, which kinds of request come there; `Cleared`,
which bars its reads have ruled out, so that at the last step none is left; `Owed`, which grounds
they have shown to be missing if none of them failed. A read rules out a fact for good: a fact that
is false once is not steady. `Missing` stands among the reads that failed so that the bars need not be
cleared behind it, but it is no read (`MissingIsNoRead`) and excuses no refusal.

`SshSessionProofs` proves, for all requests, lengths, buffers, limits and windows:

* `SessionTypeCorrect`: `TypeOK`;
* `CutPushesUseNoPack` (`CutPushUsesNoPack`), `SteadyPushesTakeEffect` (`SteadyPushTakesEffect`),
  `FetchesAnsweredWhole` (`FetchAnsweredWhole`);
* `UncutMagicReadsWholePacks`: `PackIsReadWhole`, if the word `PACK` is one unit, that is, comes in
  one read: a read that ends inside it is the only way the comment of section 5 fails.

`Well` is the type and how far each phase has read; `Follows`: the answer depends on the bytes read
alone; `Stopped`: a reader stops at end of file, at the end of the request, at a pause of its client
or inside the word `PACK`. The rest is arithmetic of the units.

`FetchProofs` proves, for every object graph, any number of clients, pushes and deletions:

* `FetchTypeCorrect`: `TypeOK`;
* `ExactPacks` (`PackIsExact`), `ListedRefsAreServed` (`ListedIsServed`), `LittleIsMissing`
  (`OnlyTagsAndSubmodulesAreMissing`);
* `FetchAmidOthers`: the last three together, amid any change that `RepoStore` allows. With
  `RefsImplementStore` the two components meet in `RepoStore`: what a fetch needs of the steps of
  others is what every step of pushes and owner requests keeps. They are composed through
  `RepoStore` and not as one module, because `RepoRefs` takes a commit for the trees and blobs it
  names (its whole is the ancestry `Anc`) where `Fetch` walks them (`Reach`);
* `PlainClonesAreComplete`: `CloneIsComplete`, in a repository without annotated tags and without
  submodules, amid the same changes.

The lemmas about `Reach` show that it is the least closed set, from `FetchAssumption`. In the
invariant, `Backed` is what `RepoStore` promises of refs; `Requested`: what the client may have asked for;
`Chosen`: the pack has nothing twice and nothing the client claimed, and whatever else was seen is
claimed or a submodule; `Walked`: below every commit visited its parents are walked or waiting;
`Pending`: what a tree of the pack names is seen or on the stack. When the walk is over, nothing
waits and the stack is empty, so what the client has, the pack, and what lies below tags and
submodules together are closed and contain the wants: they contain all that is reachable.

`LookupsProofs` proves, for every number of lookers, every set of keys and DIDs, all TTLs of at
least one tick and every `Patience`:

* `LookupsTypeCorrect`: `TypeOK`;
* `RecentAnswers`: `AnswersAreRecent`;
* `LittleBack`: `AnswersGoBackLittle`.

Both are properties of single steps that rest on an invariant, `Timely`: an entry is fresh for no
longer than its TTL and `Patience` after the network answered (`Entries`), and a question that is
open was asked no more than `Patience` ago, its answer given since (`Questions`). Two answers whose
questions were open together differ by at most `Patience`; if they were not, the later stored is
the later given.

Left to TLC, for lack of a way to prove it here: liveness (`EveryRowSettles`, `ChangesAreEmitted`,
`FlushedRequestEnds`, `ShortFetchEnds`, and the fairness half of `ImplementsLog`), which is out of
the prover's reach. What they rest on is proved: `NoWakeupIsLost` that no reader sleeps over a row,
`ImplementsJournal` that a change is dropped only alone by `emit`, by a failure or by a malformed
command. Every other property that a passing run checks is proved.

## 5. Where code and text disagree

1. `vlecht-git/src/lib.rs:1090`: `fast_forward_ref` takes any previous value, so it is not a
   fast-forward if a ref it rests on moved after it was read (`FastForwardsOnly`; by
   `CommitsLostOnlyToStaleReads` this is the only way it loses commits).
2. `vlecht-db/src/lib.rs:55`: a restart restores collaborators that were removed
   (`RevocationLasts`; by `RevocationOutlastsOverlaps` only those of a Go knot's database).
3. `vlecht-git/src/lib.rs:1439`: `ls_refs` lists annotated tags, `fetch_v2` accepts them as wants,
   and the pack has neither the tag nor, unless something else wants it, what it tags
   (`CloneIsComplete`; by `PlainClonesAreComplete` and `OnlyTagsAndSubmodulesAreMissing` the only other gap is a commit that a
   fetched tree also names as a submodule).
4. `vlecht/src/ssh.rs:630`: a pack of which a read brought one to three bytes is not read on
   (`PackIsReadWhole`; by `UncutMagicReadsWholePacks` the only exception).

Met while modelling, and told here without a run of its own: the properties except it, it follows
the code where only a comment says otherwise, or it lies outside the models.

* `vlecht/src/ssh.rs:456`: a client of protocol version 0 that has many commits to tell waits for an
  answer, the server for `done`, and no timeout runs. `ShortFetchEnds` is about all other fetches that want
  anything.
* `lex/blocklist.rs:3-6` says that banned accounts are denied write operations of XRPC; `createRepo`
  and `resolve_write_target`, which `addCollaborator` and `removeCollaborator` go through, do not
  look at the blocklist, and `checkPushAllowed` answers that a banned writer may push. `Bars`
  follows the code.
* `vlecht/src/auth.rs:292`, `lex/resolve.rs:79`: an error in the lookup of the rows is taken for a
  repository without rows, which is public, though the reads around it fail closed (`FailedOpen`).
* `lex/space.rs:102` says that a public repository has no members; those it was given are listed.
* `vlecht-git/src/lib.rs:781`: a malformed id in a later command aborts the push after earlier
  commands took effect, and those are neither reported nor announced. `ImplementsJournal` allows it
  (`doomed`), `ChangesAreEmitted` excepts it.
* `lex/events.rs:117` says that event loss must not fail the mutation, and it does not; the loss itself
  shows nowhere but in the log, also where it is the middle of a push (`LoseEvent`).
* `vlecht/src/ssh.rs:335`, `vlecht-db/migrations/20260823000001_repo_spaces.sql:6` and `PLAN.md:189` say
  that only the owner may push; `assert_push_auth` lets writers push, too (`vlecht/src/auth.rs:244`).
  `Grants` follows the code. `PLAN.md:189` also has all reads public; `assert_read_auth` gates those of
  private repositories.
* `vlecht/src/ssh.rs:569` tells of a timeout of 30 s around the reading of a push; the two there are, of
  200 ms, begin at the flush, and within the commands the reader waits without one.
* `vlecht-git/src/lib.rs:754`: a push that was cut off before its pack, also within its commands, is not
  refused: its deletions are made, and refs are set to commits the server has. `CutPushUsesNoPack`
  says that it is no more than that.
* `lex/resolve.rs:101`: a directory that was missing at `lex/resolve.rs:85` and is there now is served
  without the gate its rows call for (`FailedOpen`).
* `vlecht-git/src/lib.rs:934`: a push that names an old value also succeeds if the ref is gone; the
  branch is created again, and the event names a value that was no longer there.
* `lex/delete_branch.rs:31` means not to allow the deletion of the default branch; if HEAD moves
  between its comparison and the deletion, it is deleted (`DefaultDeletedOnlyByStaleCheck`).
* `vlecht/src/handlers.rs:556`: the deletion of `<name>.git` removes the directory, and keeps rows
  that are looked up under the name as given.
* `vlecht-git/src/lib.rs:360`: `last_commit_for_path` compares entries with the id of the root tree.

## 6. Not modelled

* How identities are proved: `service_auth.rs` verifies a signature, the header of a trusted proxy
  is configuration. `Access` starts from the account that came out.
* Older directory layouts, which `resolve_inner` tries in turn.
* The tables of DIDs and of the knot's members, which only lists read.
* Read-only queries: they change nothing, and what they compute is mostly formatting or gix's
  (`last_commit_for_path` is the exception, see section 5).
* gix, SQLite, tokio, axum and russh: taken at their contracts, as the actions say.
* Configuration, routing, error types, path predicates: no state.
* Unbounded data: payloads, object contents, names.

## 7. Plan

Done: all components that have state other than lists and configuration, with a run and with
proofs; the refinements of the firehose to `LateLog` and `EventLog`, and of the refs to `RefJournal`
and `RepoStore`; the composition of `Fetch` with `RepoRefs` over `RepoStore`.

Next, in this order:

1. `RepoRefs` with several repositories, so that `forkSync` and `hiddenRef` read refs of a fork that
   is pushed to.
2. The requests of `Access` composed with `RepoRefs`: a push that outlives the right to it, from the
   gate to the ref.
3. The tables of DIDs and knot members, with the lists that read them.
4. Reading queries that combine several refs (`forkStatus`, `mergeCheck`, `compare`) against the
   pushes of `RepoRefs`.
