------------------------------ MODULE SendFile ------------------------------
(***************************************************************************)
(* One file on its way to the server: the retry loop of do_backup, the     *)
(* send_file it calls, and the data connection below that (openRemoteFile, *)
(* sendDataRemote and closeRemoteFile).                                    *)
(*                                                                         *)
(* Byte i of the local file is the number i; 0 is a byte of memory that is *)
(* not of the file.  The server and the network may do anything.           *)
(***************************************************************************)
EXTENDS Integers, Sequences

CONSTANTS
  MaxLen,      \* the longest file
  Payload,     \* payload_size, the size of out_buffer
  MaxEnqueue,  \* maxEnqueueSize of the data socket
  Word,        \* 2^16: chars_left and chars_read_since_eof are uint16_t
  MaxWire,     \* bound: no more bytes than this are queued in an attempt
  Lossy        \* may data that was queued be lost without an error?

ASSUME SendBounds ==
  /\ MaxLen \in Nat
  /\ Payload \in Nat \ {0} /\ MaxEnqueue \in Nat \ {0}
  /\ Word \in Nat /\ Payload < Word
  /\ MaxWire \in Nat /\ MaxLen =< MaxWire
  /\ Lossy \in BOOLEAN

MaxRetries == 3

VARIABLES
  len,         \* the length of the local file
  fpos,        \* the position of curr_fp
  pc,          \* where the loop is
  retry,       \* retry_count
  sock,        \* dataSocket: "null", "open", or "freed" but not NULL
  sendRc,      \* send_rc: "SUCCESS", "TARGET_BUSY", or "failed"
  bufPos,      \* the file position out_buffer was read from
  charsRead,   \* chars_read
  left,        \* chars_left
  since,       \* chars_read_since_eof
  charsSent,   \* actual_chars_sent; it starts with anything
  wire,        \* the bytes queued on the data connection in this attempt
  remote,      \* what the server holds under the file's name
  start,       \* history: fpos when this attempt began
  unset,       \* history: in this attempt a call left its results unset
  lost         \* history: in this attempt queued bytes did not arrive

local  == <<len, fpos, bufPos, charsRead>>
loop   == <<retry, start>>
counts == <<left, since, charsSent>>
ghosts == <<unset, lost>>
vars   == <<local, loop, counts, ghosts, pc, sock, sendRc, wire, remote>>

Smaller(a, b) == IF a < b THEN a ELSE b

\* n bytes of memory from out_buffer + from.
Memory(from, n) ==
  [i \in 1 .. n |-> IF from + i =< charsRead THEN bufPos + from + i ELSE 0]

Prefixes(w) == {SubSeq(w, 1, n) : n \in 0 .. Len(w)}

Init ==
  /\ len \in 0 .. MaxLen
  /\ fpos = 0 /\ bufPos = 0 /\ charsRead = 0 /\ left = 0 /\ since = 0
  /\ charsSent \in 0 .. Word - 1
  /\ pc = "open" /\ retry = 0 /\ start = 0
  /\ sock = "null" /\ sendRc = "SUCCESS"
  /\ wire = << >> /\ remote = << >>
  /\ unset = FALSE /\ lost = FALSE

\* (mutants) One attempt too many; the count starts again.
TryAgainOneMore ==
  /\ retry' = retry + 1
  /\ pc' = IF retry' =< MaxRetries + 1 THEN "open" ELSE "gaveup"
TryAgainForever ==
  /\ retry' = (retry + 1) % (MaxRetries + 1)
  /\ pc' = "open"

\* send_file has returned -1: another attempt, if there is one left.
TryAgain ==
  /\ retry' = retry + 1
  /\ pc' = IF retry' =< MaxRetries THEN "open" ELSE "gaveup"

-----------------------------------------------------------------------------
(* openRemoteFile *)

\* The file is opened; STOR empties it.
OpenOk ==
  /\ pc = "open" /\ sock = "null"
  /\ sock' = "open" /\ sendRc' = "SUCCESS"
  /\ wire' = << >> /\ remote' = << >> /\ start' = fpos
  /\ unset' = FALSE /\ lost' = FALSE
  /\ pc' = "read"
  /\ UNCHANGED <<local, counts, retry>>

\* Unexpected characters, or no usable answer to PASV.
OpenFailsEarly ==
  /\ pc = "open"
  /\ TryAgain
  /\ UNCHANGED <<local, counts, ghosts, sock, sendRc, wire, remote, start>>

\* No data connection, or an answer to STOR other than 150 (125 accepts it too,
\* and the file is emptied): the socket is freed, and the pointer to it kept
\* (closeAndFreeDataSocket clears its parameter).
OpenRefused ==
  /\ pc = "open" /\ sock = "null"
  /\ sock' = "freed"
  /\ remote' \in {remote, << >>}
  /\ TryAgain
  /\ UNCHANGED <<local, counts, unset, lost, sendRc, wire, start>>

\* No answer to STOR: the socket stays open.  The server may have acted on it.
OpenUnanswered ==
  /\ pc = "open" /\ sock = "null"
  /\ sock' = "open"
  /\ remote' \in {remote, << >>}
  /\ TryAgain
  /\ UNCHANGED <<local, counts, unset, lost, sendRc, wire, start>>

\* openDataSocketPASV: assert((* s) == NULL).
OpenAsserts ==
  /\ pc = "open" /\ sock # "null"
  /\ pc' = "aborted"
  /\ UNCHANGED <<local, loop, counts, ghosts, sock, sendRc, wire, remote>>

-----------------------------------------------------------------------------
(* fread *)

ReadFull ==
  /\ pc = "read"
  /\ len - fpos >= Payload
  /\ bufPos' = fpos /\ charsRead' = Payload /\ fpos' = fpos + Payload
  /\ pc' = "full"
  /\ UNCHANGED <<len, loop, counts, ghosts, sock, sendRc, wire, remote>>

ReadTail ==
  /\ pc = "read"
  /\ len - fpos < Payload
  /\ bufPos' = fpos /\ charsRead' = len - fpos /\ fpos' = len
  /\ left' = len - fpos /\ since' = 0
  /\ pc' = "tail"
  /\ UNCHANGED <<len, charsSent, loop, ghosts, sock, sendRc, wire, remote>>

ReadError ==
  /\ pc = "read"
  /\ pc' = "closelocal"
  /\ UNCHANGED <<local, loop, counts, ghosts, sock, sendRc, wire, remote>>

-----------------------------------------------------------------------------
(* sendDataRemote: what it does with n bytes from out_buffer + from.       *)

Queued(from, n) ==
  /\ Len(wire) + n =< MaxWire
  /\ charsSent' = Smaller(n, MaxEnqueue)
  /\ wire' = wire \o Memory(from, Smaller(n, MaxEnqueue))
  /\ sendRc' = "SUCCESS"
  /\ UNCHANGED unset

NoBuffer ==
  /\ charsSent' = 0
  /\ sendRc' = "TARGET_BUSY"
  /\ UNCHANGED <<wire, unset>>

\* REMOTE_CLOSED_EARLY or USER_SIGNAL: the count is not set.
SendFails ==
  /\ sendRc' = "failed"
  /\ UNCHANGED <<charsSent, wire, unset>>

\* The outgoing queue has no room: neither result is set.
NoRoom ==
  /\ sendRc' \in {"SUCCESS", "TARGET_BUSY", "failed"}
  /\ unset' = TRUE
  /\ UNCHANGED <<charsSent, wire>>

SendDataRemote(from, n) == Queued(from, n) \/ NoBuffer \/ SendFails \/ NoRoom

\* (mutant) No seek after a send that took a part of the buffer only.
SendFullNoSeek ==
  /\ pc = "full"
  /\ SendDataRemote(0, charsRead)
  /\ pc' = IF sendRc' = "failed" THEN "close" ELSE "read"
  /\ UNCHANGED <<local, left, since, loop, lost, sock, remote>>

\* A full buffer: what was not sent is read again.
SendFull ==
  /\ pc = "full"
  /\ SendDataRemote(0, charsRead)
  /\ fpos' = IF charsSent' < charsRead THEN fpos + charsSent' - charsRead ELSE fpos
  /\ pc' = IF sendRc' = "failed" THEN "close" ELSE "read"
  /\ UNCHANGED <<len, bufPos, charsRead, left, since, loop, lost, sock, remote>>

\* (mutant) Every piece of the last part is taken from its beginning.
SendTailSameBytes ==
  /\ pc = "tail" /\ left > 0
  /\ SendDataRemote(0, left)
  /\ since' = (since + charsSent') % Word
  /\ left' = (left - charsSent') % Word
  /\ pc' = IF sendRc' = "failed" THEN "close" ELSE "tail"
  /\ UNCHANGED <<local, loop, lost, sock, remote>>

\* The last part of the file is sent piece by piece, without reading again.
SendTail ==
  /\ pc = "tail" /\ left > 0
  /\ SendDataRemote(since, left)
  /\ since' = (since + charsSent') % Word
  /\ left' = (left - charsSent') % Word
  /\ pc' = IF sendRc' = "failed" THEN "close" ELSE "tail"
  /\ UNCHANGED <<local, loop, lost, sock, remote>>

\* All of it is sent: done_read, unless the last result was TARGET_BUSY.
TailDone ==
  /\ pc = "tail" /\ left = 0
  /\ pc' = IF sendRc = "SUCCESS" THEN "close" ELSE "read"
  /\ UNCHANGED <<local, loop, counts, ghosts, sock, sendRc, wire, remote>>

-----------------------------------------------------------------------------
(* closeRemoteFile: it reads one reply, does not look at it, and succeeds. *)

\* What the server stored when the data connection is closed.
Deliver ==
  /\ remote' \in IF sendRc = "failed" \/ Lossy THEN Prefixes(wire) ELSE {wire}
  /\ lost' = (remote' # wire)

Close ==
  /\ pc = "close"
  /\ Deliver
  /\ sock' = "null"
  /\ IF sendRc = "SUCCESS"
       THEN retry' = retry + 1 /\ pc' = IF retry' > MaxRetries THEN "gaveup" ELSE "done"
       ELSE TryAgain
  /\ UNCHANGED <<local, counts, unset, sendRc, wire, start>>

CloseLocal ==
  /\ pc = "closelocal"
  /\ Deliver
  /\ sock' = "null"
  /\ retry' = retry + 1 /\ pc' = "localerror"
  /\ UNCHANGED <<local, counts, unset, sendRc, wire, start>>

-----------------------------------------------------------------------------

\* The next file, -17, -16, and a failed assertion.
Ended == pc \in {"done", "gaveup", "localerror", "aborted"}

Terminated == Ended /\ UNCHANGED vars

Next ==
  \/ OpenOk \/ OpenFailsEarly \/ OpenRefused \/ OpenUnanswered \/ OpenAsserts
  \/ ReadFull \/ ReadTail \/ ReadError
  \/ SendFull \/ SendTail \/ TailDone
  \/ Close \/ CloseLocal
  \/ Terminated

Spec == Init /\ [][Next]_vars

\* A buffer of the TCP layer does become free again: it retransmits until the
\* peer has acknowledged, or gives the connection up.
Progress == charsSent' > 0 \/ sendRc' = "failed"
FairSpec == /\ Spec
            /\ WF_vars(Next)
            /\ SF_vars(SendFull /\ Progress)
            /\ SF_vars(SendTail /\ Progress)

-----------------------------------------------------------------------------
(* Properties *)

\* The types of the variables of the loop and of send_file.
TypeOK ==
  /\ len \in 0 .. MaxLen /\ fpos \in 0 .. len /\ start \in 0 .. len
  /\ bufPos \in 0 .. len /\ charsRead \in 0 .. Payload
  /\ pc \in {"open", "read", "full", "tail", "close", "closelocal",
             "done", "gaveup", "localerror", "aborted"}
  /\ retry \in 0 .. MaxRetries + 1
  /\ sock \in {"null", "open", "freed"}
  /\ sendRc \in {"SUCCESS", "TARGET_BUSY", "failed"}
  /\ left \in 0 .. Word - 1 /\ since \in 0 .. Word - 1 /\ charsSent \in 0 .. Word - 1
  /\ wire \in Seq(0 .. MaxLen) /\ remote \in Seq(0 .. MaxLen)
  /\ unset \in BOOLEAN /\ lost \in BOOLEAN

\* The bytes of the file from position p on, n of them.
Slice(p, n) == [i \in 1 .. n |-> p + i]

\* The bytes queued so far are those of the file from where the attempt began,
\* none missing and none twice, and reading goes on right behind them.
Contiguous ==
  /\ wire = Slice(start, Len(wire))
  /\ pc = "read" => fpos = start + Len(wire)

\* Partial sends, the seek that takes back what was not sent, busy buffers and
\* the piecewise last part leave no gap and repeat nothing (BACKUP.C:330-388),
\* in every attempt in which each call sets its results.
NoGap == pc \in {"read", "full", "tail", "close"} /\ ~unset => Contiguous

\* When the loop counts the file as sent, the server has all of it from where
\* the last attempt began; in a first attempt that is all of it.
StoresTheRest ==
  pc = "done" /\ ~unset /\ ~lost =>
    /\ remote = Slice(start, len - start)
    /\ retry = 1 => start = 0

\* The loop ends, whatever the server does, unless it runs on unset results.
Terminates == <>(Ended \/ unset)

-----------------------------------------------------------------------------
(* The transfer that do_backup sees *)

Abstract ==
  INSTANCE FileTransfer
    WITH Files   <- {Slice(0, n) : n \in 0 .. MaxLen},
         Resumes <- TRUE, EndsEarly <- FALSE,
         file    <- Slice(0, len),
         status  <- IF Ended THEN pc ELSE "trying",
         tries   <- retry,
         copy    <- IF pc = "done" /\ ~unset /\ ~lost THEN remote ELSE << >>,
         flawed  <- pc = "done" /\ (unset \/ lost)

\* send_file and the loop around it (BACKUP.C:222-255) make at most four attempts
\* at the file, each with one of three results, and what counts as sent is the
\* whole file in a first attempt and its end in a later one; do_backup takes each
\* attempt for one step.
ImplementsFileTransfer == Abstract!Spec

-----------------------------------------------------------------------------
(* What the comments say and the code does not do *)

\* "If we successfully sent the file, we are done" and otherwise it is "Worth
\* retrying transfer" (BACKUP.C:400, 404): sent means the whole file.
WholeFile == pc = "done" /\ ~unset /\ ~lost => remote = Slice(0, len)

\* "Just reset the file pointer back the number of characters that weren't
\* sent" (BACKUP.C:385-386).
ResumesWhereSendingStopped == pc = "read" => Contiguous

\* "Forgetting to close the data socket will cause an assertion failure down the
\* line..." (MTCPFTP.CPP:505-506): one that was closed and freed causes none.
ClosedSocketAssertsNothing == pc = "aborted" => sock # "freed"
=============================================================================
