----------------------------- MODULE SshSession -----------------------------
(***************************************************************************)
(* One git command over SSH, from exec_request to the answer               *)
(* (vlecht/src/ssh.rs), with what receive_pack and upload_pack_response    *)
(* make of the bytes of the request (vlecht-git/src/lib.rs).               *)
(*                                                                         *)
(* No request announces its length, and a git client keeps the channel     *)
(* open for the answer, so both readers have to find the end.              *)
(*   push   commands, a flush and, unless it only deletes, a pack, though  *)
(*          one of no objects if the server has them all.  From the flush  *)
(*          on, silence for 200 ms is taken for the end.                   *)
(*   fetch  wants, a flush, the commits the client has, and `done`, which  *)
(*          is waited for.  A client of protocol version 0 sends only two  *)
(*          windows of commits ahead of the first answer, and there is     *)
(*          none before `done`.                                            *)
(* Bytes are counted in units, the pieces a read may stop between.         *)
(***************************************************************************)
EXTENDS Integers, Sequences

CONSTANTS
    Requests,     \* what a client may ask
    LineUnits,    \* a line: a command, a want, a commit, `done`
    MagicUnits,   \* "PACK"
    ReadUnits,    \* the read buffer
    MaxUnits,     \* MAX_SSH_REQUEST_BYTES
    Window        \* the commits a client tells before it expects an answer

(* A "move" sets a ref to a commit the server has, as when a branch or a tag is made
   of one; an "update" to one that is in the pack. *)
PushLines == {"delete", "move", "update"}
Lines == PushLines \cup {"want"}

Request == [command : {"push", "fetch"},
            lines   : Seq(Lines),   \* up to the flush
            pack    : Nat,          \* units of a push's pack
            haves   : Nat]          \* commits a fetch tells of

Pushes(q) == q.command = "push"

ASSUME SshAssumption ==
    /\ Requests \subseteq Request
    /\ \A q \in Requests :
         IF Pushes(q)
         THEN /\ q.lines \in Seq(PushLines) \ {<<>>}
              /\ q.pack > 0 => q.pack > MagicUnits
              /\ q.pack = 0 => \A i \in DOMAIN q.lines : q.lines[i] = "delete"
         ELSE q.lines \in Seq({"want"}) /\ (q.lines = <<>> => q.haves = 0)
    /\ LineUnits \in Nat \ {0} /\ MagicUnits \in Nat \ {0}
    /\ ReadUnits \in Nat \ {0} /\ MaxUnits \in Nat /\ Window \in Nat \ {0}

VARIABLES
    request,  \* what the client is sending
    sent,     \* how much of it has reached the channel
    closed,   \* the client's side of the channel is closed
    buf,      \* how much of it the reader has read
    phase,    \* where the session stands
    applied,  \* the lines that the answer follows
    late      \* history: the reader gave up on a client with more to send

vars == <<request, sent, closed, buf, phase, applied, late>>

Phases == {"exec", "advertise", "negotiate", "commands", "probe", "pack", "process",
           "refused", "answered"}
Ended == phase \in {"refused", "answered"}
Reading == phase \in {"negotiate", "commands", "probe", "pack"}

(* The offset just after the flush, and the length of the whole.  A client that
   wants nothing sends only the flush. *)
PackOffset == LineUnits * Len(request.lines) + 1
Total == IF Pushes(request) THEN PackOffset + request.pack
         ELSE IF request.lines = <<>> THEN PackOffset
         ELSE PackOffset + LineUnits * (request.haves + 1)
AllLines == IF Pushes(request) THEN DOMAIN request.lines
            ELSE 1 .. Len(request.lines) + request.haves

-----------------------------------------------------------------------------
(* The client. *)

Waits == ~Pushes(request) /\ request.haves >= 2 * Window

Offered == IF Waits THEN PackOffset + LineUnits * (2 * Window) ELSE Total

(* It answers the advertisement. *)
Send ==
    /\ ~closed
    /\ phase \notin {"exec", "advertise"}
    /\ sent' \in sent + 1 .. Offered
    /\ UNCHANGED <<request, closed, buf, phase, applied, late>>

(* It closes its side, or the connection is lost: the reader gets what had
   arrived and then end of file. *)
HangUp ==
    /\ ~closed
    /\ closed' = TRUE
    /\ UNCHANGED <<request, sent, buf, phase, applied, late>>

-----------------------------------------------------------------------------
(* exec_request: the gates of Access let the caller through or not; channel_eof
   has forgotten a channel that was closed before. *)
Exec ==
    /\ phase = "exec"
    /\ phase' \in IF closed THEN {"refused"} ELSE {"refused", "advertise"}
    /\ UNCHANGED <<request, sent, closed, buf, applied, late>>

Advertise ==
    /\ phase = "advertise"
    /\ phase' = IF Pushes(request) THEN "commands" ELSE "negotiate"
    /\ UNCHANGED <<request, sent, closed, buf, applied, late>>

-----------------------------------------------------------------------------
(* The readers. *)

(* Mutant: the flush ends the request. *)
EndsAtFlush(n) == "process"

(* starts_with(b"PACK"), of what came after the flush. *)
AfterFlush(n) == IF n >= PackOffset + MagicUnits THEN "pack" ELSE "process"

(* Mutant: a fetch ends with its flush. *)
SeenFlush(n) == n >= PackOffset

(* Mutant: only the last read is searched. *)
SeenDoneInRead(n) == n = Total /\ buf <= Total - LineUnits

(* contains_done_pktline: `done` is the last line of a fetch that wants anything. *)
SeenDone(n) == request.lines # <<>> /\ n = Total

(* Mutant: the size is not checked. *)
NextPhaseUnbounded(n) ==
    IF phase = "negotiate" THEN IF SeenDone(n) THEN "process" ELSE "negotiate"
    ELSE IF phase = "pack" THEN "pack"
    ELSE IF n < PackOffset THEN "commands"
    ELSE IF n = PackOffset THEN "probe" ELSE AfterFlush(n)

(* Where a read that brings the buffer to n units leads. *)
NextPhase(n) ==
    IF n > MaxUnits THEN "refused"
    ELSE IF phase = "negotiate" THEN IF SeenDone(n) THEN "process" ELSE "negotiate"
    ELSE IF phase = "pack" THEN "pack"
    ELSE IF n < PackOffset THEN "commands"
    ELSE IF n = PackOffset THEN "probe" ELSE AfterFlush(n)

Read ==
    /\ Reading
    /\ \E n \in 1 .. ReadUnits :
         /\ buf + n <= sent
         /\ buf' = buf + n
         /\ phase' = NextPhase(buf + n)
    /\ UNCHANGED <<request, sent, closed, applied, late>>

Eof ==
    /\ Reading
    /\ closed /\ buf = sent
    /\ phase' = "process"
    /\ UNCHANGED <<request, sent, closed, buf, applied, late>>

(* Mutant: only the wait for the pack's first bytes is timed. *)
TimesOutOnProbe ==
    /\ phase = "probe"
    /\ buf = sent
    /\ phase' = "process"
    /\ late' = (late \/ sent < Total)
    /\ UNCHANGED <<request, sent, closed, buf, applied>>

(* tokio::time::timeout(200 ms, read): only from the flush of a push on. *)
TimesOut ==
    /\ phase \in {"probe", "pack"}
    /\ buf = sent
    /\ phase' = "process"
    /\ late' = (late \/ sent < Total)
    /\ UNCHANGED <<request, sent, closed, buf, applied>>

-----------------------------------------------------------------------------
(* receive_pack on the first n units.  split_receive_pack wants whole lines, but
   not the flush; ingest_thin_pack wants the whole pack, and is passed over if there
   are no bytes of one; then a command whose tip is not stored is refused. *)

NeedNoPack(n) == {i \in AllLines : request.lines[i] # "update" /\ LineUnits * i <= n}

(* Mutant: the commands are carried out though the pack is not whole. *)
TakenAnyway(n) == IF n = Total THEN AllLines ELSE NeedNoPack(n)

Taken(n) ==
    IF n = Total THEN AllLines
    ELSE IF n > PackOffset \/ (n < PackOffset /\ n % LineUnits # 0) THEN {}
    ELSE NeedNoPack(n)

(* UploadPackRequest::parse on the first n units: the lines that are whole, the
   flush in their midst.  A line that is cut off is passed over, or an error. *)
Parsed(n) ==
    {i \in AllLines : LineUnits * i + (IF i > Len(request.lines) THEN 1 ELSE 0) <= n}

Process ==
    /\ phase = "process"
    /\ applied' = IF Pushes(request) THEN Taken(buf) ELSE Parsed(buf)
    /\ phase' = "answered"
    /\ UNCHANGED <<request, sent, closed, buf, late>>

(* The repository is gone since the gate, the connection breaks under a write, an
   object or the pack cannot be written or is not valid. *)
Fail ==
    /\ phase \in {"advertise", "process"}
    /\ phase' = "refused"
    /\ UNCHANGED <<request, sent, closed, buf, applied, late>>

Init ==
    /\ request \in Requests
    /\ sent = 0
    /\ closed = FALSE
    /\ buf = 0
    /\ phase = "exec"
    /\ applied = {}
    /\ late = FALSE

Next == Send \/ HangUp \/ Exec \/ Advertise \/ Read \/ Eof \/ TimesOut \/ Process \/ Fail

(* The runtime polls the session's task; its timers fire. *)
Fairness == WF_vars(Read) /\ WF_vars(Eof) /\ WF_vars(TimesOut)
            /\ WF_vars(Process \/ Fail)

Spec == Init /\ [][Next]_vars

FairSpec == Spec /\ Fairness

-----------------------------------------------------------------------------
TypeOK ==
    /\ request \in Requests
    /\ sent \in 0 .. Total
    /\ closed \in BOOLEAN
    /\ buf \in 0 .. sent
    /\ phase \in Phases
    /\ applied \subseteq AllLines
    /\ late \in BOOLEAN
    /\ phase \in {"commands", "probe", "pack"} => Pushes(request)
    /\ phase \in {"probe", "pack"} => buf >= PackOffset
    /\ phase # "refused" => buf <= MaxUnits

(* However reads, pauses and a lost connection cut a push, what is carried out of
   part of it does not rest on its pack: not one byte of the pack was read, no ref
   is set to a commit that only the pack holds, and the commands had come in whole.
   And it is the client's doing, that closed or paused: no burst is cut so. *)
CutPushUsesNoPack ==
    Pushes(request) /\ buf < Total /\ applied # {} =>
        /\ buf <= PackOffset
        /\ closed \/ late
        /\ \A i \in applied : request.lines[i] # "update" /\ LineUnits * i <= buf

(* A push that receive_pack answers took effect in whole, if its client kept
   sending and did not close early, unless a read ended inside the word PACK:
   the guesses of the reader are right for a client that sends in a burst. *)
SteadyPushTakesEffect ==
    Pushes(request) /\ phase = "answered" /\ sent = Total /\ ~late =>
        \/ applied = AllLines
        \/ buf > PackOffset /\ buf < PackOffset + MagicUnits

(* A fetch is answered for all the client wants and all it has, however reads cut
   it, unless the client closed its side before it was through: an answer to part
   of it would be a pack that lacks something or is needlessly large. *)
FetchAnsweredWhole ==
    ~Pushes(request) /\ phase = "answered" /\ ~closed => applied = AllLines

(* Once the flush of a push has been read the session ends, whether or not the
   client closes the channel, sends the pack or falls silent in the middle of it. *)
FlushedRequestEnds == (Pushes(request) /\ buf >= PackOffset) ~> Ended

(* Once a client has sent its fetch the session ends, though the channel stays
   open, unless the client wants nothing and waits to be told so, or tells of so
   many commits that it waits for an answer in between. *)
ShortFetchEnds ==
    (~Pushes(request) /\ request.lines # <<>> /\ ~Waits /\ sent = Offered) ~> Ended

-----------------------------------------------------------------------------
(* What the documentation says and the code does not do. *)

(* ssh.rs, of the push: "If pack data is present, we parse the pack header to
   determine the total pack size and read until we have the complete pack".  So
   the reader does not stop inside a pack whose client is still sending and has
   not paused. *)
PackIsReadWhole ==
    Pushes(request) /\ phase = "process" /\ buf > PackOffset /\ ~closed /\ ~late => buf = Total
=============================================================================
