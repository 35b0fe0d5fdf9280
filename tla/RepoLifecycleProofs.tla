------------------------ MODULE RepoLifecycleProofs ------------------------
(* Theorems about RepoLifecycle, for any number of handlers, members, requests *)
(* and faults.  Each is proved of servers that keep apart just the kinds of    *)
(* request that may not meet for it; README.md tells what goes wrong when they *)
(* do.                                                                         *)
EXTENDS RepoLifecycle, TLAPS

CreateMeetsNoDelete == {"create", "delete"} \notin MayOverlap
CreateMeetsNoPush == {"create", "push"} \notin MayOverlap
DeleteMeetsNoSpace == {"delete", "space"} \notin MayOverlap

(* The phases a request of each kind goes through. *)
Orderly(r) ==
    \/ r.kind = "none" /\ r.phase = "idle"
    \/ r.kind = "create" /\ r.phase \in {"init", "insert", "initial"}
    \/ r.kind = "delete" /\ r.phase \in {"remove", "purge"}
    \/ /\ r.kind = "space" /\ r.phase \in {"setVisibility", "addMember", "removeMember"}
       /\ r.phase \in {"addMember", "removeMember"} => r.subject \in Others
    \/ r.kind = "push" /\ r.phase = "write"

Shaped == TypeOK /\ \A h \in Handlers : Orderly(req[h])

(* Requests of the kinds kept apart never meet. *)
Apart ==
    \A g, h \in Handlers :
        /\ ~(req[g].kind = "create" /\ req[h].kind = "delete")
        /\ CreateMeetsNoPush => ~(req[g].kind = "create" /\ req[h].kind = "push")
        /\ DeleteMeetsNoSpace => ~(req[g].kind = "delete" /\ req[h].kind = "space")

(* A creation finds the directory it made, and what a deletion is about to forget
   is gone from the disk. *)
DiskHeld ==
    \A h \in Handlers :
        /\ req[h].phase \in {"insert", "initial"} => disk # "none"
        /\ req[h].phase = "purge" => disk = "none"

(* A repository without rows has no content, and secret content is private. *)
ContentHeld ==
    CreateMeetsNoPush =>
        /\ disk \in {"open", "secret"} => tracked
        /\ disk = "secret" => visibility = "private"
        /\ \A h \in Handlers :
             /\ req[h].kind = "create" => disk \in {"none", "empty"}
             /\ req[h].kind = "push" => tracked \/ disk = "none"

(* What a creation is about to set was not set by others, and a repository
   imported from a Go knot is not created again. *)
RowsHeld ==
    /\ \A h \in Handlers :
         req[h].phase = "initial" => tracked /\ born \in {"none", req[h].asked}
    /\ GoCollaborators # {} => \A h \in Handlers : req[h].kind # "create"

(* Whoever writes rows of the space writes them beside the repository's. *)
SpaceHeld ==
    DeleteMeetsNoSpace =>
        /\ \A h \in Handlers : req[h].kind = "space" => tracked
        /\ GoCollaborators = {} /\ ~tracked =>
             visibility = "none" /\ \A d \in Others : members[d] = "none"

(* Without faults, whatever disk and rows disagree on, someone is about to mend. *)
Mended ==
    faults = 0 =>
        /\ disk # "none" /\ ~tracked => \E h \in Handlers : req[h].phase = "insert"
        /\ disk = "none" /\ tracked => \E h \in Handlers : req[h].phase = "purge"
        /\ tracked /\ born = "private" /\ visibility # "private" =>
             \E h \in Handlers : req[h].phase = "initial" /\ req[h].asked = "private"

Governed == Shaped /\ Apart /\ DiskHeld /\ ContentHeld /\ RowsHeld /\ SpaceHeld /\ Mended

-----------------------------------------------------------------------------
LEMMA NoRequestType ==
  /\ NoRequest \in Request
  /\ Orderly(NoRequest)
  /\ NoRequest.kind = "none" /\ NoRequest.phase = "idle"
  BY DEF NoRequest, Request, Orderly, Visibilities, Roles, Kinds

(* A step that gives one handler another request. *)
LEMMA OneRequest ==
  ASSUME Shaped, NEW h \in Handlers, NEW r \in Request, Orderly(r),
         req' = [req EXCEPT ![h] = r]
  PROVE  /\ req' \in [Handlers -> Request]
         /\ req'[h] = r
         /\ \A g \in Handlers : g # h => req'[g] = req[g]
         /\ \A g \in Handlers : Orderly(req'[g])
  BY DEF Shaped, TypeOK

LEMMA RequestType ==
  ASSUME Shaped, NEW h \in Handlers
  PROVE  /\ req[h] \in Request /\ Orderly(req[h])
         /\ req[h].kind \in Kinds \cup {"none"}
         /\ req[h].asked \in Visibilities \cup {"none"}
         /\ req[h].subject \in Others \cup {Owner}
         /\ req[h].role \in Roles
         /\ req[h].phase \in {"initial", "setVisibility"} => req[h].asked \in Visibilities
  BY DEF Shaped, TypeOK, Request

(* How the steps change requests: a request begins, goes on or ends. *)
LEMMA Beginning ==
  ASSUME Shaped, NEW h \in Handlers, NEW kind \in Kinds, NEW phase, NEW asked, NEW subject, NEW role,
         Begin(h, kind),
         [kind |-> kind, phase |-> phase, asked |-> asked, subject |-> subject, role |-> role] \in Request,
         Orderly([kind |-> kind, phase |-> phase, asked |-> asked, subject |-> subject, role |-> role]),
         phase \in {"initial", "setVisibility"} => asked # "none",
         Start(h, kind, phase, asked, subject, role),
         UNCHANGED <<disk, rows, born, revoked, faults>>
  PROVE  /\ Shaped'
         /\ req'[h].kind = kind /\ req'[h].phase = phase /\ req'[h].asked = asked
         /\ \A g \in Handlers : g # h => req'[g] = req[g]
         /\ CreateMeetsNoDelete /\ Apart => Apart'
  <1> DEFINE r == [kind |-> kind, phase |-> phase, asked |-> asked, subject |-> subject, role |-> role]
  <1>r. r.kind = kind /\ r.phase = phase /\ r.asked = asked
    OBVIOUS
  <1> HIDE DEF r
  <1>1. /\ req' \in [Handlers -> Request]
        /\ req'[h] = r
        /\ \A g \in Handlers : g # h => req'[g] = req[g]
        /\ \A g \in Handlers : Orderly(req'[g])
    BY OneRequest DEF r, Start
  <1>2. begun' \in Nat
    BY DEF Begin, Shaped, TypeOK
  <1>3. \A g \in Handlers : req'[g].phase \in {"initial", "setVisibility"} => req'[g].asked # "none"
    BY <1>1, <1>r DEF Shaped, TypeOK
  <1>4. Shaped'
    BY <1>1, <1>2, <1>3 DEF Shaped, TypeOK, rows
  <1>5. ASSUME CreateMeetsNoDelete, Apart PROVE Apart'
    <2>1. \A g \in Handlers : req[g].kind # "none" => {kind, req[g].kind} \in MayOverlap
      BY DEF Begin
    <2>2. \A a, b : {a, b} = {b, a}
      OBVIOUS
    <2>3. \A g \in Handlers :
            /\ ~(kind = "create" /\ req[g].kind = "delete")
            /\ ~(kind = "delete" /\ req[g].kind = "create")
            /\ CreateMeetsNoPush => /\ ~(kind = "create" /\ req[g].kind = "push")
                                    /\ ~(kind = "push" /\ req[g].kind = "create")
            /\ DeleteMeetsNoSpace => /\ ~(kind = "delete" /\ req[g].kind = "space")
                                     /\ ~(kind = "space" /\ req[g].kind = "delete")
      BY <1>5, <2>1, <2>2 DEF CreateMeetsNoDelete, CreateMeetsNoPush, DeleteMeetsNoSpace
    <2> QED
      BY <1>1, <1>r, <1>5, <2>3 DEF Apart
  <1> QED
    BY <1>1, <1>r, <1>4, <1>5

LEMMA GoingOn ==
  ASSUME Shaped, NEW h \in Handlers, NEW phase, Goto(h, phase),
         \/ req[h].kind = "create" /\ phase \in {"insert", "initial"}
         \/ req[h].kind = "delete" /\ phase = "purge",
         phase = "initial" => req[h].asked # "none"
  PROVE  /\ req' \in [Handlers -> Request]
         /\ \A g \in Handlers : Orderly(req'[g])
         /\ \A g \in Handlers : req'[g].phase \in {"initial", "setVisibility"} => req'[g].asked # "none"
         /\ req'[h].kind = req[h].kind /\ req'[h].phase = phase /\ req'[h].asked = req[h].asked
         /\ \A g \in Handlers : g # h => req'[g] = req[g]
         /\ Apart => Apart'
  <1> DEFINE r == [req[h] EXCEPT !.phase = phase]
  <1>1. req[h] \in Request
    BY RequestType
  <1>2. r \in Request /\ r.kind = req[h].kind /\ r.phase = phase /\ r.asked = req[h].asked
    BY <1>1 DEF Request
  <1>3. Orderly(r)
    BY <1>2 DEF Orderly
  <1>4. req' = [req EXCEPT ![h] = r]
    BY DEF Goto
  <1> HIDE DEF r
  <1>5. /\ req' \in [Handlers -> Request]
        /\ req'[h] = r
        /\ \A g \in Handlers : g # h => req'[g] = req[g]
        /\ \A g \in Handlers : Orderly(req'[g])
    BY <1>2, <1>3, <1>4, OneRequest
  <1>6. \A g \in Handlers : req'[g].phase \in {"initial", "setVisibility"} => req'[g].asked # "none"
    BY <1>2, <1>5 DEF Shaped, TypeOK
  <1>7. Apart => Apart'
    BY <1>2, <1>5 DEF Apart
  <1> QED
    BY <1>2, <1>5, <1>6, <1>7

LEMMA Ending ==
  ASSUME Shaped, NEW h \in Handlers, Finish(h)
  PROVE  /\ req' \in [Handlers -> Request]
         /\ \A g \in Handlers : Orderly(req'[g])
         /\ \A g \in Handlers : req'[g].phase \in {"initial", "setVisibility"} => req'[g].asked # "none"
         /\ req'[h].kind = "none" /\ req'[h].phase = "idle"
         /\ \A g \in Handlers : g # h => req'[g] = req[g]
         /\ Apart => Apart'
  <1>1. /\ req' \in [Handlers -> Request]
        /\ req'[h] = NoRequest
        /\ \A g \in Handlers : g # h => req'[g] = req[g]
        /\ \A g \in Handlers : Orderly(req'[g])
    BY NoRequestType, OneRequest DEF Finish
  <1>2. \A g \in Handlers : req'[g].phase \in {"initial", "setVisibility"} => req'[g].asked # "none"
    BY <1>1, NoRequestType DEF Shaped, TypeOK
  <1>3. Apart => Apart'
    BY <1>1, NoRequestType DEF Apart
  <1> QED
    BY <1>1, <1>2, <1>3, NoRequestType

-----------------------------------------------------------------------------
(* A request that begins has the shape of its kind and meets none it is kept from. *)
LEMMA Begins ==
  ASSUME Shaped, NEW h \in Handlers, NEW kind \in Kinds,
         \/ kind = "create" /\ BeginCreate(h)
         \/ kind = "delete" /\ BeginDelete(h)
         \/ kind = "push" /\ BeginPush(h)
         \/ kind = "space" /\ (BeginSpace(h) \/ BeginCollaborator(h))
  PROVE  /\ Shaped'
         /\ req'[h].kind = kind
         /\ req'[h].phase \in {"init", "remove", "write", "setVisibility", "addMember", "removeMember"}
         /\ req[h].kind = "none"
         /\ \A g \in Handlers : g # h => req'[g] = req[g]
         /\ CreateMeetsNoDelete /\ Apart => Apart'
         /\ UNCHANGED <<disk, tracked, visibility, members, born, faults>>
         /\ kind \in {"delete", "push", "space"} => tracked
         /\ kind = "create" => GoCollaborators = {} /\ (~tracked \/ disk = "none")
  <1>1. UNCHANGED <<disk, rows, born, revoked, faults>>
    BY DEF BeginCreate, BeginDelete, BeginPush, BeginSpace, BeginCollaborator
  <1>2. PICK phase \in {"init", "remove", "write", "setVisibility", "addMember", "removeMember"},
             asked \in Visibilities \cup {"none"}, subject \in Others \cup {Owner}, role \in Roles :
          /\ Begin(h, kind)
          /\ \/ kind = "create" /\ phase = "init"
             \/ kind = "delete" /\ phase = "remove"
             \/ kind = "push" /\ phase = "write"
             \/ /\ kind = "space" /\ phase \in {"setVisibility", "addMember", "removeMember"}
                /\ phase \in {"addMember", "removeMember"} => subject \in Others
          /\ phase = "setVisibility" => asked # "none"
          /\ Start(h, kind, phase, asked, subject, role)
    <2>r. "reader" \in Roles /\ "writer" \in Roles
      BY DEF Roles
    <2>1. CASE kind = "create" /\ BeginCreate(h)
      BY <2>1, <2>r DEF BeginCreate
    <2>2. CASE kind = "delete" /\ BeginDelete(h)
      BY <2>2, <2>r DEF BeginDelete
    <2>3. CASE kind = "push" /\ BeginPush(h)
      BY <2>3, <2>r DEF BeginPush
    <2>4. CASE kind = "space" /\ BeginSpace(h)
      <3>1. Visibilities = {"public", "private"}
        BY DEF Visibilities
      <3>2. CASE \E asked \in Visibilities : Start(h, "space", "setVisibility", asked, Owner, "reader")
        BY <2>4, <2>r, <3>1, <3>2 DEF BeginSpace
      <3>3. CASE \E d \in Others, role \in Roles : Start(h, "space", "addMember", "none", d, role)
        BY <2>4, <3>3 DEF BeginSpace
      <3>4. CASE \E d \in Others : Start(h, "space", "removeMember", "none", d, "reader")
        BY <2>4, <2>r, <3>4 DEF BeginSpace
      <3> QED
        BY <2>4, <3>2, <3>3, <3>4 DEF BeginSpace
    <2>5. CASE kind = "space" /\ BeginCollaborator(h)
      BY <2>5, <2>r DEF BeginCollaborator
    <2> QED
      BY <2>1, <2>2, <2>3, <2>4, <2>5
  <1> DEFINE r == [kind |-> kind, phase |-> phase, asked |-> asked, subject |-> subject, role |-> role]
  <1>3. r \in Request
    BY DEF Request
  <1>4. Orderly(r)
    BY <1>2 DEF Orderly
  <1>5. /\ Shaped'
        /\ req'[h].kind = kind /\ req'[h].phase = phase
        /\ \A g \in Handlers : g # h => req'[g] = req[g]
        /\ CreateMeetsNoDelete /\ Apart => Apart'
    BY <1>1, <1>2, <1>3, <1>4, Beginning
  <1>6. req[h].kind = "none"
    BY <1>2 DEF Begin
  <1>7. /\ kind \in {"delete", "push", "space"} => tracked
        /\ kind = "create" => GoCollaborators = {} /\ (~tracked \/ disk = "none")
    BY DEF BeginCreate, BeginDelete, BeginPush, BeginSpace, BeginCollaborator
  <1> QED
    BY <1>1, <1>5, <1>6, <1>7 DEF rows

-----------------------------------------------------------------------------
LEMMA InitGoverned == Init => Governed
  <1> SUFFICES ASSUME Init PROVE Governed
    OBVIOUS
  <1>1. \A h \in Handlers : req[h] = NoRequest
    BY DEF Init
  <1>2. Shaped
    BY <1>1, NoRequestType DEF Init, Shaped, TypeOK, Roles, Visibilities
  <1> QED
    BY <1>1, <1>2, NoRequestType
    DEF Init, Governed, Apart, DiskHeld, ContentHeld, RowsHeld, SpaceHeld, Mended

LEMMA NextShaped == Shaped /\ [Next]_vars => Shaped'
  <1> SUFFICES ASSUME Shaped, [Next]_vars PROVE Shaped'
    OBVIOUS
  <1>n. MaxRequests \in Nat /\ MaxFaults \in Nat /\ Owner \notin Others
    BY LifecycleAssumption
  <1>1. CASE Restart
    <2>1. members' \in [Others -> Roles \cup {"none"}]
      BY <1>1 DEF Restart, Shaped, TypeOK, Roles
    <2>2. req' \in [Handlers -> Request] /\ \A h \in Handlers : req'[h] = NoRequest
      BY <1>1, NoRequestType DEF Restart
    <2> QED
      BY <1>1, <2>1, <2>2, NoRequestType DEF Restart, Fault, Shaped, TypeOK
  <1>2. CASE UNCHANGED vars
    BY <1>2 DEF vars, rows, Shaped, TypeOK, Orderly
  <1>3. ASSUME NEW h \in Handlers, Step(h) PROVE Shaped'
    <2>t. TypeOK /\ req[h] \in Request /\ Orderly(req[h])
      BY RequestType DEF Shaped
    <2> DEFINE Rest == /\ disk' \in {"none", "empty", "open", "secret"}
                       /\ tracked' \in BOOLEAN
                       /\ visibility' \in Visibilities \cup {"none"}
                       /\ members' \in [Others -> Roles \cup {"none"}]
                       /\ born' \in Visibilities \cup {"none"}
                       /\ revoked' \subseteq Others
                       /\ begun' \in Nat /\ faults' \in Nat
    <2> DEFINE Requests == /\ req' \in [Handlers -> Request]
                           /\ \A g \in Handlers : Orderly(req'[g])
                           /\ \A g \in Handlers :
                                req'[g].phase \in {"initial", "setVisibility"} => req'[g].asked # "none"
    <2>s. Rest /\ Requests => Shaped'
      BY DEF Shaped, TypeOK
    <2>e. Finish(h) => Requests
      BY Ending
    <2>1. CASE BeginCreate(h)
      BY <2>1, Begins DEF Kinds
    <2>2. CASE InitBare(h)
      <3>1. Rest
        BY <2>2, <2>t DEF InitBare, TypeOK, rows
      <3>2. Requests
        BY <2>2, <2>e, <2>t, GoingOn DEF InitBare, Orderly
      <3> QED
        BY <2>s, <3>1, <3>2
    <2>3. CASE InsertRepo(h)
      <3>1. Rest
        BY <2>3, <2>t, RequestType DEF InsertRepo, TypeOK
      <3>2. Requests
        BY <2>3, <2>e, <2>t, GoingOn DEF InsertRepo, Orderly
      <3> QED
        BY <2>s, <3>1, <3>2
    <2>4. CASE SetInitialVisibility(h)
      BY <2>4, <2>e, <2>s, <2>t, RequestType DEF SetInitialVisibility, TypeOK
    <2>5. CASE BeginDelete(h)
      BY <2>5, Begins DEF Kinds
    <2>6. CASE RemoveDir(h)
      <3>1. Rest
        BY <2>6, <2>t DEF RemoveDir, TypeOK, rows
      <3>2. Requests
        BY <2>6, <2>e, <2>t, GoingOn DEF RemoveDir, Orderly
      <3> QED
        BY <2>s, <3>1, <3>2
    <2>7. CASE PurgeRows(h)
      BY <2>7, <2>e, <2>s, <2>t DEF PurgeRows, TypeOK, rows
    <2>8. CASE BeginSpace(h)
      BY <2>8, Begins DEF Kinds
    <2>9. CASE BeginCollaborator(h)
      BY <2>9, Begins DEF Kinds
    <2>10. CASE SetVisibility(h)
      BY <2>10, <2>e, <2>s, <2>t, RequestType DEF SetVisibility, TypeOK
    <2>11. CASE AddMember(h)
      <3>1. Rest
        BY <2>11, <2>t, RequestType DEF AddMember, TypeOK
      <3> QED
        BY <2>11, <2>e, <2>s, <3>1 DEF AddMember
    <2>12. CASE RemoveMember(h)
      <3>1. req[h].subject \in Others
        BY <2>12, <2>t DEF RemoveMember, Orderly
      <3>2. Rest
        BY <2>12, <2>t, <3>1 DEF RemoveMember, TypeOK
      <3> QED
        BY <2>12, <2>e, <2>s, <3>2 DEF RemoveMember
    <2>13. CASE BeginPush(h)
      BY <2>13, Begins DEF Kinds
    <2>14. CASE WriteContent(h)
      BY <2>14, <2>e, <2>s, <2>t DEF WriteContent, TypeOK, rows
    <2>15. CASE Abandon(h)
      BY <2>15, <2>e, <2>s, <2>t DEF Abandon, Fault, TypeOK, rows
    <2> QED
      BY <1>3, <2>1, <2>2, <2>3, <2>4, <2>5, <2>6, <2>7, <2>8, <2>9, <2>10, <2>11, <2>12, <2>13,
         <2>14, <2>15 DEF Step
  <1> QED
    BY <1>1, <1>2, <1>3 DEF Next

(* What holds of each request holds of all after a step of one of them. *)
LEMMA NextGoverned ==
  ASSUME CreateMeetsNoDelete, Governed, [Next]_vars
  PROVE  Governed'
  <1>s. Shaped /\ Shaped'
    BY NextShaped DEF Governed
  <1>t. /\ disk \in {"none", "empty", "open", "secret"} /\ tracked \in BOOLEAN
        /\ faults \in Nat /\ Owner \notin Others
    BY <1>s, LifecycleAssumption DEF Shaped, TypeOK
  <1>g. Apart /\ DiskHeld /\ ContentHeld /\ RowsHeld /\ SpaceHeld /\ Mended
    BY DEF Governed
  <1>1. CASE Restart
    <2>1. \A h \in Handlers : req'[h] = NoRequest
      BY <1>1 DEF Restart
    <2>2. faults' # 0
      BY <1>1, <1>t DEF Restart, Fault
    <2>3. GoCollaborators = {} => members' = [d \in Others |-> members[d]]
      BY <1>1 DEF Restart
    <2> QED
      BY <1>1, <1>s, <1>g, <2>1, <2>2, <2>3, NoRequestType
      DEF Restart, Governed, Apart, DiskHeld, ContentHeld, RowsHeld, SpaceHeld, Mended
  <1>2. CASE UNCHANGED vars
    BY <1>2, <1>s, <1>g DEF vars, rows, Governed, Apart, DiskHeld, ContentHeld, RowsHeld, SpaceHeld, Mended
  <1>3. ASSUME NEW h \in Handlers, Step(h) PROVE Governed'
    <2>o. \A g \in Handlers : Orderly(req[g])
      BY <1>s DEF Shaped
    <2>e. Finish(h) =>
            /\ Apart'
            /\ req'[h].kind = "none" /\ req'[h].phase = "idle"
            /\ \A g \in Handlers : g # h => req'[g] = req[g]
      BY <1>s, <1>g, Ending
    <2>b. ASSUME NEW kind \in Kinds,
                 \/ kind = "create" /\ BeginCreate(h)
                 \/ kind = "delete" /\ BeginDelete(h)
                 \/ kind = "push" /\ BeginPush(h)
                 \/ kind = "space" /\ (BeginSpace(h) \/ BeginCollaborator(h))
          PROVE  Governed'
      <3>1. /\ req'[h].kind = kind
            /\ req'[h].phase \in {"init", "remove", "write", "setVisibility", "addMember", "removeMember"}
            /\ req[h].kind = "none"
            /\ \A g \in Handlers : g # h => req'[g] = req[g]
            /\ Apart'
            /\ UNCHANGED <<disk, tracked, visibility, members, born, faults>>
            /\ kind \in {"delete", "push", "space"} => tracked
            /\ kind = "create" => GoCollaborators = {} /\ (~tracked \/ disk = "none")
        BY <1>s, <1>g, <2>b, Begins
      <3>2. req[h].phase = "idle"
        BY <2>o, <3>1 DEF Orderly
      <3>3. DiskHeld' /\ ContentHeld'
        BY <1>g, <1>t, <3>1 DEF DiskHeld, ContentHeld
      <3>4. RowsHeld' /\ SpaceHeld'
        BY <1>g, <3>1 DEF RowsHeld, SpaceHeld
      <3>5. Mended'
        BY <1>g, <3>1, <3>2 DEF Mended
      <3> QED
        BY <1>s, <3>1, <3>3, <3>4, <3>5 DEF Governed
    <2>1. CASE BeginCreate(h)
      BY <2>1, <2>b DEF Kinds
    <2>2. CASE InitBare(h)
      <3>0. req[h].kind = "create" /\ UNCHANGED <<tracked, visibility, members, born, faults>>
        BY <2>2, <2>o DEF InitBare, Orderly, rows
      <3>1. CASE disk = "none"
        <4>1. /\ disk' = "empty"
              /\ req'[h].kind = req[h].kind /\ req'[h].phase = "insert"
              /\ \A g \in Handlers : g # h => req'[g] = req[g]
              /\ Apart'
          BY <1>s, <1>g, <2>2, <3>0, <3>1, GoingOn DEF InitBare
        <4>2. \A g \in Handlers : /\ req[g].kind # "delete"
                                  /\ CreateMeetsNoPush => req[g].kind # "push"
          BY <1>g, <3>0 DEF Apart
        <4>3. DiskHeld' /\ ContentHeld'
          BY <1>g, <2>o, <3>0, <4>1, <4>2 DEF DiskHeld, ContentHeld, Orderly
        <4>4. RowsHeld' /\ SpaceHeld'
          BY <1>g, <3>0, <4>1 DEF RowsHeld, SpaceHeld
        <4>5. Mended'
          BY <1>g, <2>2, <3>0, <3>1, <4>1 DEF Mended, InitBare
        <4> QED
          BY <1>s, <4>1, <4>3, <4>4, <4>5 DEF Governed
      <3>2. CASE disk # "none"
        <4>1. disk' = disk /\ Finish(h)
          BY <2>2, <3>2 DEF InitBare
        <4>2. DiskHeld' /\ ContentHeld' /\ RowsHeld' /\ SpaceHeld'
          BY <1>g, <2>e, <3>0, <4>1 DEF DiskHeld, ContentHeld, RowsHeld, SpaceHeld
        <4>3. Mended'
          BY <1>g, <2>2, <2>e, <3>0, <4>1 DEF Mended, InitBare
        <4> QED
          BY <1>s, <2>e, <4>1, <4>2, <4>3 DEF Governed
      <3> QED
        BY <3>1, <3>2
    <2>3. CASE InsertRepo(h)
      <3>0. /\ req[h].kind = "create" /\ req[h].phase = "insert" /\ disk # "none"
            /\ UNCHANGED <<disk, visibility, members, faults>>
            /\ GoCollaborators = {}
        BY <1>g, <2>3, <2>o DEF InsertRepo, Orderly, DiskHeld, RowsHeld
      <3>1. CASE tracked
        <4>1. Finish(h) /\ UNCHANGED <<tracked, born>>
          BY <2>3, <3>1 DEF InsertRepo
        <4>2. DiskHeld' /\ ContentHeld' /\ RowsHeld' /\ SpaceHeld'
          BY <1>g, <2>e, <3>0, <4>1 DEF DiskHeld, ContentHeld, RowsHeld, SpaceHeld
        <4>3. Mended'
          BY <1>g, <2>e, <3>0, <3>1, <4>1 DEF Mended
        <4> QED
          BY <1>s, <2>e, <4>1, <4>2, <4>3 DEF Governed
      <3>2. CASE ~tracked
        <4>0. tracked' = TRUE /\ born' = req[h].asked
          BY <2>3, <3>2 DEF InsertRepo
        <4>1. /\ \A g \in Handlers : g # h => req'[g] = req[g]
              /\ Apart'
              /\ IF req[h].asked = "none" THEN req'[h].kind = "none" /\ req'[h].phase = "idle"
                 ELSE /\ req'[h].kind = "create" /\ req'[h].phase = "initial"
                      /\ req'[h].asked = req[h].asked
          BY <1>s, <1>g, <2>3, <2>e, <3>0, <3>2, GoingOn DEF InsertRepo
        <4>2. DiskHeld' /\ ContentHeld'
          BY <1>g, <3>0, <4>0, <4>1 DEF DiskHeld, ContentHeld
        <4>3. RowsHeld' /\ SpaceHeld'
          BY <1>g, <3>0, <3>2, <4>0, <4>1 DEF RowsHeld, SpaceHeld
        <4>4. Mended'
          BY <1>g, <3>0, <4>0, <4>1 DEF Mended
        <4> QED
          BY <1>s, <4>1, <4>2, <4>3, <4>4 DEF Governed
      <3> QED
        BY <1>t, <3>1, <3>2
    <2>4. CASE SetInitialVisibility(h)
      <3>0. /\ req[h].phase = "initial" /\ req[h].kind = "create" /\ tracked /\ born \in {"none", req[h].asked}
            /\ visibility' = req[h].asked
            /\ Finish(h)
            /\ UNCHANGED <<disk, tracked, members, born, faults>>
        BY <1>g, <2>o, <2>4 DEF SetInitialVisibility, Orderly, DiskHeld, RowsHeld
      <3>1. DiskHeld' /\ ContentHeld' /\ RowsHeld' /\ SpaceHeld'
        BY <1>g, <2>e, <3>0 DEF DiskHeld, ContentHeld, RowsHeld, SpaceHeld
      <3>2. Mended'
        BY <1>g, <2>e, <3>0 DEF Mended
      <3> QED
        BY <1>s, <2>e, <3>0, <3>1, <3>2 DEF Governed
    <2>5. CASE BeginDelete(h)
      BY <2>5, <2>b DEF Kinds
    <2>6. CASE RemoveDir(h)
      <3>0. /\ req[h].kind = "delete" /\ req[h].phase = "remove" /\ disk' = "none"
            /\ UNCHANGED <<tracked, visibility, members, born, faults>>
        BY <2>6, <2>o DEF RemoveDir, Orderly, rows
      <3>1. /\ \A g \in Handlers : g # h => req'[g] = req[g]
            /\ Apart'
            /\ \/ disk = "none" /\ req'[h].kind = "none" /\ req'[h].phase = "idle"
               \/ disk # "none" /\ req'[h].kind = "delete" /\ req'[h].phase = "purge"
        BY <1>s, <1>g, <2>6, <2>e, <3>0, GoingOn DEF RemoveDir
      <3>2. \A g \in Handlers : req[g].kind # "create"
        BY <1>g, <3>0 DEF Apart
      <3>3. \A g \in Handlers : req[g].phase \notin {"insert", "initial"}
        BY <2>o, <3>2 DEF Orderly
      <3>4. DiskHeld' /\ ContentHeld' /\ RowsHeld' /\ SpaceHeld'
        BY <1>g, <3>0, <3>1, <3>2, <3>3 DEF DiskHeld, ContentHeld, RowsHeld, SpaceHeld
      <3>5. Mended'
        BY <1>g, <3>0, <3>1, <3>3 DEF Mended
      <3> QED
        BY <1>s, <3>1, <3>4, <3>5 DEF Governed
    <2>7. CASE PurgeRows(h)
      <3>0. /\ req[h].kind = "delete" /\ req[h].phase = "purge" /\ disk = "none"
            /\ Finish(h) /\ UNCHANGED <<disk, faults>>
        BY <1>g, <2>7, <2>o DEF PurgeRows, Orderly, DiskHeld
      <3>1. \A g \in Handlers : /\ req[g].kind # "create"
                                /\ DeleteMeetsNoSpace => req[g].kind # "space"
        BY <1>g, <3>0 DEF Apart
      <3>2. \A g \in Handlers : req[g].phase \notin {"insert", "initial"}
        BY <2>o, <3>1 DEF Orderly
      <3>3. \/ /\ tracked' = FALSE /\ visibility' = "none" /\ born' = "none"
               /\ members' = [d \in Others |-> "none"]
            \/ ~tracked /\ UNCHANGED <<tracked, visibility, members, born>>
        BY <2>7 DEF PurgeRows, rows
      <3>4. DiskHeld' /\ ContentHeld'
        BY <1>g, <2>e, <3>0, <3>2, <3>3 DEF DiskHeld, ContentHeld
      <3>5. RowsHeld' /\ SpaceHeld'
        BY <1>g, <2>e, <3>0, <3>1, <3>2, <3>3 DEF RowsHeld, SpaceHeld
      <3>6. Mended'
        BY <1>g, <2>e, <3>0, <3>3 DEF Mended
      <3> QED
        BY <1>s, <2>e, <3>0, <3>4, <3>5, <3>6 DEF Governed
    <2>8. CASE BeginSpace(h)
      BY <2>8, <2>b DEF Kinds
    <2>9. CASE BeginCollaborator(h)
      BY <2>9, <2>b DEF Kinds
    <2>10. CASE SetVisibility(h)
      <3>0. /\ req[h].kind = "space"
            /\ visibility' = req[h].asked
            /\ disk' = IF req[h].asked = "public" /\ disk = "secret" THEN "open" ELSE disk
            /\ born' = "none"
            /\ Finish(h) /\ UNCHANGED <<tracked, members, faults>>
            /\ req[h].phase = "setVisibility"
        BY <1>g, <2>10, <2>o DEF SetVisibility, Orderly
      <3>1. req[h].asked \in {"public", "private"}
        BY <1>s, <3>0, RequestType DEF Visibilities
      <3>2. DiskHeld' /\ ContentHeld' /\ RowsHeld' /\ SpaceHeld'
        BY <1>g, <1>t, <2>e, <3>0, <3>1 DEF DiskHeld, ContentHeld, RowsHeld, SpaceHeld
      <3>3. Mended'
        BY <1>g, <2>e, <3>0, <3>1 DEF Mended
      <3> QED
        BY <1>s, <2>e, <3>0, <3>2, <3>3 DEF Governed
    <2>11. CASE AddMember(h) \/ RemoveMember(h)
      <3>0. /\ req[h].kind = "space" /\ Finish(h)
            /\ UNCHANGED <<disk, tracked, visibility, born, faults>>
            /\ req[h].phase \in {"addMember", "removeMember"}
        BY <1>g, <2>11, <2>o DEF AddMember, RemoveMember, Orderly
      <3>1. DiskHeld' /\ ContentHeld' /\ RowsHeld' /\ SpaceHeld'
        BY <1>g, <2>e, <3>0 DEF DiskHeld, ContentHeld, RowsHeld, SpaceHeld
      <3>2. Mended'
        BY <1>g, <2>e, <3>0 DEF Mended
      <3> QED
        BY <1>s, <2>e, <3>0, <3>1, <3>2 DEF Governed
    <2>13. CASE BeginPush(h)
      BY <2>13, <2>b DEF Kinds
    <2>14. CASE WriteContent(h)
      <3>0. /\ req[h].kind = "push" /\ Finish(h) /\ req[h].phase = "write"
            /\ UNCHANGED <<tracked, visibility, members, born, faults>>
            /\ disk' = IF disk = "none" THEN "none"
                       ELSE IF visibility = "private" \/ disk = "secret" THEN "secret" ELSE "open"
        BY <2>14, <2>o DEF WriteContent, Orderly, rows
      <3>1. disk' = "none" <=> disk = "none"
        BY <3>0
      <3>2. DiskHeld' /\ RowsHeld' /\ SpaceHeld'
        BY <1>g, <2>e, <3>0, <3>1 DEF DiskHeld, RowsHeld, SpaceHeld
      <3>3. ContentHeld'
        <4> SUFFICES ASSUME CreateMeetsNoPush PROVE ContentHeld'
          BY DEF ContentHeld
        <4>1. \A g \in Handlers : req[g].kind # "create"
          BY <1>g, <3>0 DEF Apart
        <4>2. tracked \/ disk = "none"
          BY <1>g, <3>0 DEF ContentHeld
        <4> QED
          BY <1>g, <2>e, <3>0, <4>1, <4>2 DEF ContentHeld
      <3>4. Mended'
        BY <1>g, <2>e, <3>0, <3>1 DEF Mended
      <3> QED
        BY <1>s, <2>e, <3>0, <3>2, <3>3, <3>4 DEF Governed
    <2>15. CASE Abandon(h)
      <3>0. Finish(h) /\ UNCHANGED <<disk, tracked, visibility, members, born>> /\ faults' # 0
        BY <1>t, <2>15 DEF Abandon, Fault, rows
      <3>1. DiskHeld' /\ ContentHeld' /\ RowsHeld' /\ SpaceHeld'
        BY <1>g, <2>e, <3>0 DEF DiskHeld, ContentHeld, RowsHeld, SpaceHeld
      <3>2. Mended'
        BY <1>g, <3>0 DEF Mended
      <3> QED
        BY <1>s, <2>e, <3>0, <3>1, <3>2 DEF Governed
    <2> QED
      BY <1>3, <2>1, <2>2, <2>3, <2>4, <2>5, <2>6, <2>7, <2>8, <2>9, <2>10, <2>11, <2>13,
         <2>14, <2>15 DEF Step
  <1> QED
    BY <1>1, <1>2, <1>3 DEF Next

LEMMA SpecGoverned == ASSUME CreateMeetsNoDelete PROVE Spec => []Governed
  <1>1. Governed /\ [Next]_vars => Governed'
    BY NextGoverned
  <1> QED
    BY <1>1, InitGoverned, PTL DEF Spec

-----------------------------------------------------------------------------
(* The variables have their types, whatever overlaps. *)
THEOREM LifecycleTypeCorrect == Spec => []TypeOK
  <1>1. Init => Shaped
    BY InitGoverned DEF Governed
  <1>2. Shaped => TypeOK
    BY DEF Shaped
  <1> QED
    BY <1>1, <1>2, NextShaped, PTL DEF Spec

(* Wherever a creation, a deletion or the server stops, what is on disk is
   governed by the rows it was pushed under, if a creation meets neither a
   deletion nor a push. *)
THEOREM GovernedContent ==
  ASSUME CreateMeetsNoDelete, CreateMeetsNoPush
  PROVE  Spec => []ContentIsGoverned
  <1>1. Governed => ContentIsGoverned
    BY DEF Governed, ContentHeld, ContentIsGoverned
  <1> QED
    BY <1>1, SpecGoverned, PTL

(* If a creation meets no deletion, and whatever else overlaps, disk and database
   agree again once the creations and deletions are over, if nothing failed. *)
THEOREM AgreementOfDiskAndRows == ASSUME CreateMeetsNoDelete PROVE Spec => []DiskAndRowsAgree
  <1>1. Governed => DiskAndRowsAgree
    <2> SUFFICES ASSUME Governed, faults = 0, Quiet({"create", "delete"})
                 PROVE  tracked <=> disk # "none"
      BY DEF DiskAndRowsAgree
    <2>1. \A h \in Handlers : req[h].phase \notin {"insert", "purge"}
      BY DEF Quiet, Governed, Shaped, Orderly
    <2>2. tracked \in BOOLEAN
      BY DEF Governed, Shaped, TypeOK
    <2> QED
      BY <2>1, <2>2 DEF Governed, Mended
  <1> QED
    BY <1>1, SpecGoverned, PTL

(* If a creation meets no deletion, a repository asked for as private is private
   once its creation is over, if nothing failed. *)
THEOREM BornPrivate == ASSUME CreateMeetsNoDelete PROVE Spec => []InitialVisibilityHolds
  <1>1. Governed => InitialVisibilityHolds
    <2> SUFFICES ASSUME Governed, faults = 0, tracked, born = "private", Quiet({"create"})
                 PROVE  visibility = "private"
      BY DEF InitialVisibilityHolds
    <2>1. \A h \in Handlers : req[h].phase # "initial"
      BY DEF Quiet, Governed, Shaped, Orderly
    <2> QED
      BY <2>1 DEF Governed, Mended
  <1> QED
    BY <1>1, SpecGoverned, PTL

(* If a deletion meets neither a creation nor a change to the space, a new
   repository inherits nothing from an old one of its name, whatever was cut off
   in between. *)
THEOREM NewRepoInheritsNothing ==
  ASSUME CreateMeetsNoDelete, DeleteMeetsNoSpace
  PROVE  Spec => FreshRepoIsClean
  <1>1. Governed /\ [Next]_vars =>
          [~tracked /\ tracked' => visibility = "none" /\ \A d \in Others : members[d] = "none"]_vars
    <2> SUFFICES ASSUME Governed, [Next]_vars, ~tracked, tracked'
                 PROVE  visibility = "none" /\ \A d \in Others : members[d] = "none"
      OBVIOUS
    <2>1. PICK h \in Handlers : Step(h)
      BY DEF Next, Restart, vars, rows
    <2>2. InsertRepo(h)
      BY <2>1 DEF Step, BeginCreate, InitBare, SetInitialVisibility, BeginDelete, RemoveDir, PurgeRows,
         BeginSpace, BeginCollaborator, SetVisibility, AddMember, RemoveMember, BeginPush, WriteContent,
         Abandon, rows
    <2>3. req[h].kind = "create"
      BY <2>2 DEF InsertRepo, Governed, Shaped, Orderly
    <2> QED
      BY <2>3 DEF Governed, RowsHeld, SpaceHeld
  <1> QED
    BY <1>1, SpecGoverned, PTL DEF Spec, FreshRepoIsClean

OthersStayRevoked == \A d \in revoked \ GoCollaborators : members[d] = "none"

LEMMA NextStaysRevoked == Shaped /\ OthersStayRevoked /\ [Next]_vars => OthersStayRevoked'
  <1> SUFFICES ASSUME Shaped, OthersStayRevoked, [Next]_vars PROVE OthersStayRevoked'
    OBVIOUS
  <1>t. members \in [Others -> Roles \cup {"none"}] /\ revoked \subseteq Others
    BY DEF Shaped, TypeOK
  <1>1. CASE Restart
    BY <1>t, <1>1 DEF Restart, OthersStayRevoked
  <1>2. CASE UNCHANGED <<members, revoked>>
    BY <1>2 DEF OthersStayRevoked
  <1>3. ASSUME NEW h \in Handlers, PurgeRows(h) PROVE OthersStayRevoked'
    BY <1>t, <1>3 DEF PurgeRows, OthersStayRevoked, rows
  <1>4. ASSUME NEW h \in Handlers, AddMember(h) \/ RemoveMember(h) PROVE OthersStayRevoked'
    <2>1. req[h].subject \in Others
      BY <1>4 DEF AddMember, RemoveMember, Shaped, Orderly
    <2> QED
      BY <1>t, <1>4, <2>1 DEF AddMember, RemoveMember, OthersStayRevoked
  <1>5. ASSUME NEW h \in Handlers, Step(h), ~PurgeRows(h), ~AddMember(h), ~RemoveMember(h)
        PROVE  UNCHANGED <<members, revoked>>
    BY <1>5
    DEF Step, BeginCreate, InitBare, InsertRepo, SetInitialVisibility, BeginDelete, RemoveDir,
        BeginSpace, BeginCollaborator, SetVisibility, BeginPush, WriteContent, Abandon, rows
  <1> QED
    BY <1>1, <1>2, <1>3, <1>4, <1>5 DEF Next, vars, rows

(* Whatever overlaps and is cut off, a revoked member stays revoked, but for one that
   a Go knot's database lists. *)
THEOREM RevocationOutlastsOverlaps == Spec => []OthersStayRevoked
  <1>1. Init => Shaped /\ OthersStayRevoked
    BY InitGoverned DEF Governed, Init, OthersStayRevoked
  <1> QED
    BY <1>1, NextShaped, NextStaysRevoked, PTL DEF Spec

(* So only the migration of every start, and only on a server that took over a Go
   knot's collaborators, gives back what removeCollaborator took. *)
THEOREM RevocationLastsWithoutGoKnot ==
  ASSUME GoCollaborators = {}
  PROVE  Spec => []RevocationLasts
  <1>1. OthersStayRevoked => RevocationLasts
    BY DEF OthersStayRevoked, RevocationLasts
  <1> QED
    BY <1>1, RevocationOutlastsOverlaps, PTL
=============================================================================
