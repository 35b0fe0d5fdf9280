-------------------------- MODULE SshSessionProofs --------------------------
(* Theorems about SshSession, for all requests, units, limits and windows. *)
EXTENDS SshSession, TLAPS

(* Offsets in a request are numbers, and the flush comes before the end. *)
LEMMA Offsets ==
    ASSUME request \in Requests
    PROVE  /\ request \in Request
           /\ Len(request.lines) \in Nat
           /\ PackOffset \in Nat \ {0}
           /\ Total \in Nat /\ PackOffset <= Total
           /\ Offered \in Nat
           /\ Pushes(request) => Offered = Total /\ Total = PackOffset + request.pack
<1>1. /\ request \in Request
      /\ LineUnits \in Nat \ {0} /\ Window \in Nat \ {0}
      BY SshAssumption
<1>2. /\ Len(request.lines) \in Nat
      /\ request.pack \in Nat
      /\ request.haves \in Nat
      BY <1>1 DEF Request
<1>3. \A a, b \in Nat : a * b \in Nat
      OBVIOUS
<1>4. /\ LineUnits * Len(request.lines) \in Nat
      /\ LineUnits * (request.haves + 1) \in Nat
      BY <1>1, <1>2, <1>3
<1>5. LineUnits * (2 * Window) \in Nat
  <2>1. 2 * Window \in Nat
        BY <1>1
  <2>2. QED BY <1>1, <2>1, <1>3
<1>6. PackOffset \in Nat \ {0}
      BY <1>4 DEF PackOffset
<1>7. /\ Total \in Nat /\ PackOffset <= Total
      /\ Pushes(request) => Total = PackOffset + request.pack
  <2> HIDE DEF PackOffset
  <2>1. QED BY <1>2, <1>4, <1>6 DEF Total
<1>8. Offered \in Nat /\ (Pushes(request) => Offered = Total)
      BY <1>5, <1>6, <1>7 DEF Offered, Waits
<1>9. QED BY <1>1, <1>2, <1>6, <1>7, <1>8

-----------------------------------------------------------------------------
(* Where a session that has read n units may stand. *)
Well ==
    /\ request \in Requests
    /\ sent \in Nat /\ sent <= Total /\ sent <= Offered
    /\ closed \in BOOLEAN
    /\ buf \in Nat /\ buf <= sent
    /\ phase \in Phases
    /\ late \in BOOLEAN
    /\ phase \in {"commands", "probe", "pack"} => Pushes(request)
    /\ phase = "negotiate" => ~Pushes(request)
    /\ phase \in {"probe", "pack"} => buf >= PackOffset
    /\ phase # "refused" => buf <= MaxUnits

(* Lines are applied by the answer, and only by it. *)
Follows ==
    IF phase = "answered"
    THEN applied = IF Pushes(request) THEN Taken(buf) ELSE Parsed(buf)
    ELSE applied = {}

(* Why a reader stopped: end of file, a client that paused or was through, or the
   word PACK cut by a read. *)
Stopped ==
    phase \in {"process", "answered"} =>
        \/ closed /\ buf = sent
        \/ Pushes(request) /\ late
        \/ buf = Total
        \/ Pushes(request) /\ buf > PackOffset /\ buf < PackOffset + MagicUnits

IInv == Well /\ Follows /\ Stopped

(* The length of a request does not exceed what the client offers of it. *)
LEMMA OfferedIsPart ==
    ASSUME request \in Requests
    PROVE  Offered <= Total
<1>1. /\ LineUnits \in Nat \ {0} /\ Window \in Nat \ {0} /\ request.haves \in Nat
      /\ request \in Request
      BY SshAssumption DEF Request
<1>2. PackOffset \in Nat
      BY Offsets
<1>3. CASE Pushes(request) \/ ~Waits
      BY <1>3, Offsets DEF Offered, Waits
<1>4. CASE ~Pushes(request) /\ Waits
  <2>1. /\ request.haves >= 2 * Window
        /\ request.lines # <<>>
        BY <1>1, <1>4, SshAssumption DEF Waits
  <2>2. /\ Offered = PackOffset + LineUnits * (2 * Window)
        /\ Total = PackOffset + LineUnits * (request.haves + 1)
        BY <1>4, <2>1 DEF Offered, Total
  <2>3. PICK d \in Nat : request.haves + 1 = 2 * Window + d
    <3>1. /\ request.haves + 1 - 2 * Window \in Nat
          /\ request.haves + 1 = 2 * Window + (request.haves + 1 - 2 * Window)
          BY <1>1, <2>1
    <3>2. QED BY <3>1
  <2>4. \A a, b, c \in Nat : a * (b + c) = a * b + a * c /\ a * b \in Nat
        OBVIOUS
  <2>5. /\ 2 * Window \in Nat
        /\ LineUnits \in Nat
        BY <1>1
  <2>6. /\ LineUnits * (request.haves + 1) = LineUnits * (2 * Window) + LineUnits * d
        /\ LineUnits * (2 * Window) \in Nat /\ LineUnits * d \in Nat
        BY <2>3, <2>4, <2>5
  <2>7. QED
    <3> DEFINE w == LineUnits * (2 * Window)
               t == LineUnits * (request.haves + 1)
               e == LineUnits * d
    <3>1. t = w + e /\ w \in Nat /\ e \in Nat
          BY <2>6
    <3>2. Offered = PackOffset + w /\ Total = PackOffset + t
          BY <2>2
    <3> HIDE DEF w, t, e
    <3>3. QED BY <1>2, <3>1, <3>2
<1>5. QED BY <1>3, <1>4

(* Whatever is read, only lines of the request are followed. *)
LEMMA OnlyLines ==
    \A n : Taken(n) \subseteq AllLines /\ Parsed(n) \subseteq AllLines
BY DEF Taken, Parsed, NeedNoPack

LEMMA InitHolds == Init => IInv
<1> SUFFICES ASSUME Init PROVE IInv
    OBVIOUS
<1>1. /\ Total \in Nat /\ Offered \in Nat /\ MaxUnits \in Nat
      BY Offsets, SshAssumption DEF Init
<1>2. Well
  <2>1. /\ closed \in BOOLEAN /\ late \in BOOLEAN
        /\ phase = "exec" /\ request \in Requests
        BY DEF Init
  <2>2. /\ sent \in Nat /\ sent <= Total /\ sent <= Offered
        /\ buf \in Nat /\ buf <= sent /\ buf <= MaxUnits
        BY <1>1 DEF Init
  <2>3. QED BY <2>1, <2>2 DEF Well, Phases
<1>3. QED BY <1>2 DEF IInv, Init, Follows, Stopped

-----------------------------------------------------------------------------
(* A read leads where the number of units it brought says. *)
LEMMA ReadKeeps == IInv /\ Read => IInv'
<1> SUFFICES ASSUME IInv, Read PROVE IInv'
    OBVIOUS
<1>1. PICK n \in 1 .. ReadUnits : /\ buf + n <= sent
                                  /\ buf' = buf + n
                                  /\ phase' = NextPhase(buf + n)
      BY DEF Read
<1>2. /\ Reading
      /\ UNCHANGED <<request, sent, closed, applied, late>>
      BY DEF Read
<1>3. /\ request \in Requests /\ sent \in Nat /\ buf \in Nat
      /\ ReadUnits \in Nat /\ MaxUnits \in Nat /\ MagicUnits \in Nat
      /\ PackOffset \in Nat /\ Total \in Nat
      BY Offsets, SshAssumption DEF IInv, Well
<1>4. /\ PackOffset' = PackOffset /\ Total' = Total /\ Offered' = Offered
      /\ Pushes(request)' = Pushes(request)
      BY <1>2 DEF PackOffset, Total, Offered, Waits, Pushes
<1>5. buf' \in Nat /\ buf' <= sent' /\ buf' > 0
      BY <1>1, <1>2, <1>3
<1>6. /\ phase' \in {"negotiate", "commands", "probe", "pack", "process", "refused"}
      /\ phase' \in {"commands", "probe", "pack"} => phase \in {"commands", "probe", "pack"}
      /\ phase' = "negotiate" => phase = "negotiate"
      /\ phase' \in {"probe", "pack"} => buf' >= PackOffset
      /\ phase' # "refused" => buf' <= MaxUnits
      /\ phase' = "process" =>
           \/ buf' = Total
           \/ /\ phase \in {"commands", "probe", "pack"}
              /\ buf' > PackOffset /\ buf' < PackOffset + MagicUnits
  <2>1. buf >= PackOffset \/ phase # "pack"
        BY <1>2 DEF IInv, Well
  <2> HIDE DEF PackOffset, Total
  <2>2. QED BY <1>1, <1>2, <1>3, <1>5, <2>1 DEF NextPhase, Reading, SeenDone, AfterFlush
<1>7. Well'
      BY <1>2, <1>4, <1>5, <1>6 DEF IInv, Well, Phases
<1>8. Follows'
      BY <1>2, <1>6 DEF IInv, Follows, Reading
<1>9. Stopped'
      BY <1>4, <1>6 DEF IInv, Well, Stopped
<1>10. QED BY <1>7, <1>8, <1>9 DEF IInv

(* The other steps of the session and of its client. *)
LEMMA StepKeeps == IInv /\ [Next]_vars => IInv'
<1> SUFFICES ASSUME IInv, [Next]_vars PROVE IInv'
    OBVIOUS
<1> USE DEF IInv
<1>1. /\ request \in Requests /\ sent \in Nat /\ buf \in Nat
      /\ PackOffset \in Nat /\ Total \in Nat /\ Offered \in Nat /\ Offered <= Total
      /\ Pushes(request) => Offered = Total
      BY Offsets, OfferedIsPart DEF Well
<1>2. request' = request
      BY DEF Next, vars, Send, HangUp, Exec, Advertise, Read, Eof, TimesOut, Process, Fail
<1>3. /\ PackOffset' = PackOffset /\ Total' = Total /\ Offered' = Offered
      /\ Pushes(request)' = Pushes(request)
      /\ Taken(buf') = Taken(buf)' /\ Parsed(buf') = Parsed(buf)'
      BY <1>2 DEF PackOffset, Total, Offered, Waits, Pushes, Taken, Parsed, NeedNoPack, AllLines
<1>4. CASE Send
  <2>1. /\ sent' \in sent + 1 .. Offered
        /\ ~closed
        /\ UNCHANGED <<request, closed, buf, phase, applied, late>>
        BY <1>4 DEF Send
  <2>2. sent' \in Nat /\ sent' <= Offered' /\ sent' <= Total' /\ buf' <= sent'
        BY <1>1, <1>3, <2>1 DEF Well
  <2>3. Well'
        BY <1>3, <2>1, <2>2 DEF Well
  <2>4. Follows'
        BY <1>2, <1>3, <2>1 DEF Follows
  <2>5. Stopped'
        BY <1>3, <2>1 DEF Stopped
  <2>6. QED BY <2>3, <2>4, <2>5
<1>5. CASE HangUp
  <2>1. /\ closed' = TRUE
        /\ ~closed
        /\ UNCHANGED <<request, sent, buf, phase, applied, late>>
        BY <1>5 DEF HangUp
  <2>2. Well' /\ Stopped'
        BY <1>3, <2>1 DEF Well, Stopped
  <2>3. Follows'
        BY <1>2, <1>3, <2>1 DEF Follows
  <2>4. QED BY <2>2, <2>3
<1>6. CASE Exec
  <2>1. /\ phase = "exec" /\ phase' \in {"refused", "advertise"}
        /\ UNCHANGED <<request, sent, closed, buf, applied, late>>
        BY <1>6 DEF Exec
  <2>2. Well' /\ Stopped' /\ Follows'
        BY <1>3, <2>1 DEF Well, Stopped, Follows, Phases
  <2>3. QED BY <2>2
<1>7. CASE Advertise
  <2>1. /\ phase = "advertise"
        /\ phase' = IF Pushes(request) THEN "commands" ELSE "negotiate"
        /\ UNCHANGED <<request, sent, closed, buf, applied, late>>
        BY <1>7 DEF Advertise
  <2>2. Well' /\ Stopped' /\ Follows'
        BY <1>3, <2>1 DEF Well, Stopped, Follows, Phases
  <2>3. QED BY <2>2
<1>8. CASE Read
      BY <1>8, ReadKeeps
<1>9. CASE Eof
  <2>1. /\ Reading
        /\ closed /\ buf = sent
        /\ phase' = "process"
        /\ UNCHANGED <<request, sent, closed, buf, applied, late>>
        BY <1>9 DEF Eof
  <2>2. Well' /\ Stopped' /\ Follows'
        BY <1>3, <2>1 DEF Well, Stopped, Follows, Phases, Reading
  <2>3. QED BY <2>2
<1>10. CASE TimesOut
  <2>1. /\ phase \in {"probe", "pack"}
        /\ buf = sent
        /\ phase' = "process"
        /\ late' = (late \/ sent < Total)
        /\ UNCHANGED <<request, sent, closed, buf, applied>>
        BY <1>10 DEF TimesOut
  <2>2. Well'
        BY <1>3, <2>1 DEF Well, Phases
  <2>3. Follows'
        BY <2>1 DEF Follows
  <2>4. late' \/ buf' = Total'
    <3>1. sent = Total \/ sent < Total
          BY <1>1 DEF Well
    <3>2. CASE sent < Total
          BY <2>1, <3>2
    <3>3. CASE sent = Total
          BY <1>3, <2>1, <3>3
    <3>4. QED BY <3>1, <3>2, <3>3
  <2>5. Stopped'
        BY <1>3, <2>1, <2>4 DEF Stopped, Well
  <2>6. QED BY <2>2, <2>3, <2>5
<1>11. CASE Process
  <2>1. /\ phase = "process"
        /\ applied' = IF Pushes(request) THEN Taken(buf) ELSE Parsed(buf)
        /\ phase' = "answered"
        /\ UNCHANGED <<request, sent, closed, buf, late>>
        BY <1>11 DEF Process
  <2>2. Well' /\ Stopped'
        BY <1>3, <2>1 DEF Well, Stopped, Phases
  <2>3. Follows'
        BY <1>3, <2>1 DEF Follows
  <2>4. QED BY <2>2, <2>3
<1>12. CASE Fail
  <2>1. /\ phase \in {"advertise", "process"}
        /\ phase' = "refused"
        /\ UNCHANGED <<request, sent, closed, buf, applied, late>>
        BY <1>12 DEF Fail
  <2>2. Well' /\ Stopped' /\ Follows'
        BY <1>3, <2>1 DEF Well, Stopped, Follows, Phases
  <2>3. QED BY <2>2
<1>13. CASE UNCHANGED vars
  <2>1. UNCHANGED <<request, sent, closed, buf, phase, applied, late>>
        BY <1>13 DEF vars
  <2>2. Well' /\ Stopped'
        BY <1>3, <2>1 DEF Well, Stopped
  <2>3. Follows'
        BY <1>3, <2>1 DEF Follows
  <2>4. QED BY <2>2, <2>3
<1>14. QED BY <1>4, <1>5, <1>6, <1>7, <1>8, <1>9, <1>10, <1>11, <1>12, <1>13 DEF Next

LEMMA AlwaysInv == Spec => []IInv
<1>1. Init => IInv
      BY InitHolds
<1>2. IInv /\ [Next]_vars => IInv'
      BY StepKeeps
<1>3. QED BY <1>1, <1>2, PTL DEF Spec

-----------------------------------------------------------------------------
(* Every state a session can reach is well formed: ssh.rs, exec_request to the
   answer. *)
THEOREM SessionTypeCorrect == Spec => []TypeOK
<1>1. IInv => TypeOK
  <2> SUFFICES ASSUME IInv PROVE TypeOK
      OBVIOUS
  <2>1. /\ sent \in 0 .. Total /\ buf \in 0 .. sent
    <3>1. Total \in Nat
          BY Offsets DEF IInv, Well
    <3>2. QED BY <3>1 DEF IInv, Well
  <2>2. applied \subseteq AllLines
        BY OnlyLines DEF IInv, Follows
  <2>3. QED BY <2>1, <2>2 DEF IInv, Well, TypeOK
<1>2. QED BY <1>1, AlwaysInv, PTL

(* Of part of a push receive_pack carries out only what needs no pack, of the
   commands that came in whole, if no byte of the pack was read; and only of a client
   that closed or paused. *)
THEOREM CutPushesUseNoPack == Spec => []CutPushUsesNoPack
<1>1. IInv => CutPushUsesNoPack
  <2> SUFFICES ASSUME IInv, Pushes(request), buf < Total, applied # {}
               PROVE  /\ buf <= PackOffset
                      /\ closed \/ late
                      /\ \A i \in applied : request.lines[i] # "update" /\ LineUnits * i <= buf
      BY DEF CutPushUsesNoPack
  <2>1. /\ buf \in Nat /\ PackOffset \in Nat /\ Total \in Nat
        BY Offsets DEF IInv, Well
  <2>2. applied = Taken(buf) /\ phase = "answered"
        BY DEF IInv, Follows
  <2>3. ~(buf > PackOffset) /\ applied = NeedNoPack(buf)
        BY <2>1, <2>2 DEF Taken
  <2>4. closed \/ late
        BY <2>1, <2>2, <2>3 DEF IInv, Stopped
  <2>5. QED BY <2>1, <2>3, <2>4 DEF NeedNoPack
<1>2. QED BY <1>1, AlwaysInv, PTL

(* The reader's guesses are right for a client that does not pause, but for a read
   that ends inside the word PACK. *)
THEOREM SteadyPushesTakeEffect == Spec => []SteadyPushTakesEffect
<1>1. IInv => SteadyPushTakesEffect
  <2> SUFFICES ASSUME IInv, Pushes(request), phase = "answered", sent = Total, ~late
               PROVE  \/ applied = AllLines
                      \/ buf > PackOffset /\ buf < PackOffset + MagicUnits
      BY DEF SteadyPushTakesEffect
  <2>1. \/ buf = Total
        \/ buf > PackOffset /\ buf < PackOffset + MagicUnits
        BY DEF IInv, Stopped
  <2>2. applied = Taken(buf)
        BY DEF IInv, Follows
  <2>3. QED BY <2>1, <2>2 DEF Taken
<1>2. QED BY <1>1, AlwaysInv, PTL

(* The end of a fetch ends it: a line numbered i ends where Parsed says, and the
   last of them before the end of the whole. *)
LEMMA WholeIsParsed ==
    ASSUME request \in Requests, ~Pushes(request)
    PROVE  Parsed(Total) = AllLines
<1>1. /\ Len(request.lines) \in Nat /\ request.haves \in Nat
      /\ LineUnits \in Nat
      /\ request.lines = <<>> => Len(request.lines) = 0 /\ request.haves = 0
      BY Offsets, SshAssumption DEF Request
<1>2. AllLines = 1 .. Len(request.lines) + request.haves
      BY DEF AllLines
<1>3. ASSUME NEW i \in AllLines
      PROVE  LineUnits * i + (IF i > Len(request.lines) THEN 1 ELSE 0) <= Total
  <2>1. request.lines # <<>>
        BY <1>1, <1>2
  <2>2. Total = LineUnits * Len(request.lines) + 1 + LineUnits * (request.haves + 1)
        BY <2>1 DEF Total, PackOffset
  <2>3. PICK d \in Nat : Len(request.lines) + (request.haves + 1) = i + d
    <3>1. /\ Len(request.lines) + (request.haves + 1) - i \in Nat
          /\ Len(request.lines) + (request.haves + 1)
                = i + (Len(request.lines) + (request.haves + 1) - i)
          BY <1>1, <1>2
    <3>2. QED BY <3>1
  <2>4. \A a, b, c \in Nat : a * (b + c) = a * b + a * c /\ a * b \in Nat
        OBVIOUS
  <2>5. /\ LineUnits * (Len(request.lines) + (request.haves + 1))
             = LineUnits * Len(request.lines) + LineUnits * (request.haves + 1)
        /\ LineUnits * (Len(request.lines) + (request.haves + 1))
             = LineUnits * i + LineUnits * d
        /\ LineUnits * i \in Nat /\ LineUnits * d \in Nat
        /\ LineUnits * Len(request.lines) \in Nat /\ LineUnits * (request.haves + 1) \in Nat
    <3>1. i \in Nat /\ request.haves + 1 \in Nat
          BY <1>1, <1>2
    <3>2. QED BY <1>1, <2>3, <2>4, <3>1
  <2>6. QED
    <3> DEFINE li == LineUnits * i
               ld == LineUnits * d
               ll == LineUnits * Len(request.lines)
               lh == LineUnits * (request.haves + 1)
    <3>1. /\ ll + lh = li + ld
          /\ li \in Nat /\ ld \in Nat /\ ll \in Nat /\ lh \in Nat
          BY <2>5
    <3>2. Total = ll + 1 + lh
          BY <2>2
    <3> HIDE DEF li, ld, ll, lh
    <3>3. li + 1 <= Total /\ li + 0 <= Total
          BY <3>1, <3>2
    <3>4. QED BY <3>3 DEF li
<1>4. QED BY <1>3 DEF Parsed

(* read_bounded stops at `done`, and not before it unless the client closed. *)
THEOREM FetchesAnsweredWhole == Spec => []FetchAnsweredWhole
<1>1. IInv => FetchAnsweredWhole
  <2> SUFFICES ASSUME IInv, ~Pushes(request), phase = "answered", ~closed
               PROVE  applied = AllLines
      BY DEF FetchAnsweredWhole
  <2>1. buf = Total
        BY DEF IInv, Stopped
  <2>2. applied = Parsed(buf)
        BY DEF IInv, Follows
  <2>3. QED BY <2>1, <2>2, WholeIsParsed DEF IInv, Well
<1>2. QED BY <1>1, AlwaysInv, PTL

(* The one exception to PackIsReadWhole: where the four bytes that tell a pack come
   in one read, the reader does not stop inside the pack of a client that is still
   there and has not paused, as its comment says. *)
THEOREM UncutMagicReadsWholePacks ==
    ASSUME MagicUnits = 1
    PROVE  Spec => []PackIsReadWhole
<1>1. IInv => PackIsReadWhole
  <2> SUFFICES ASSUME IInv, Pushes(request), phase = "process", buf > PackOffset, ~closed, ~late
               PROVE  buf = Total
      BY DEF PackIsReadWhole
  <2>1. buf = Total \/ (buf > PackOffset /\ buf < PackOffset + 1)
        BY DEF IInv, Stopped
  <2>2. buf \in Nat /\ PackOffset \in Nat
        BY Offsets DEF IInv, Well
  <2>3. QED BY <2>1, <2>2
<1>2. QED BY <1>1, AlwaysInv, PTL
=============================================================================
