---------------------------- MODULE ReceiveFile -----------------------------
(***************************************************************************)
(* One file on its way back from the server: the retry loop of do_restore, *)
(* the restore_file it calls, and the data connection below that           *)
(* (openRemoteFile for RETR, rcvDataRemote, closeRemoteFile).              *)
(*                                                                         *)
(* Byte i of the remote file is the number i.  The local file is written   *)
(* through the buffer of its stream, and the disk may fill up.             *)
(***************************************************************************)
EXTENDS Integers, Sequences

CONSTANTS
  MaxLen,   \* the longest file
  Payload,  \* payload_size, the size of in_buffer
  Window    \* the size of the data socket's receive buffer

ASSUME ReceiveBounds ==
  /\ MaxLen \in Nat
  /\ Payload \in Nat \ {0} /\ Window \in Nat \ {0}

MaxRetries == 3

VARIABLES
  len,       \* the length of the remote file
  pc,        \* where the loop is
  retry,     \* retry_count
  result,    \* what restore_file returned: 0, -1 or -2
  sock,      \* dataSocket: "null", "open", or "freed" but not NULL
  given,     \* how many bytes the server has sent in this attempt
  ended,     \* the server, or the network, has closed the data connection
  queue,     \* the bytes in the socket's receive buffer
  cache,     \* the bytes in the stream's buffer
  disk,      \* the bytes in the local file
  diskFull,  \* history: in this attempt bytes could not be written
  undefined  \* history: a null stream was used

file   == <<cache, disk, diskFull>>
remote == <<given, ended, queue>>
vars   == <<len, pc, retry, result, sock, remote, file, undefined>>

Init ==
  /\ len \in 0 .. MaxLen
  /\ pc = "fopen" /\ retry = 0 /\ result = 0
  /\ sock = "null"
  /\ given = 0 /\ ended = FALSE /\ queue = << >>
  /\ cache = << >> /\ disk = << >> /\ diskFull = FALSE
  /\ undefined = FALSE

-----------------------------------------------------------------------------
(* The local file *)

\* Every attempt starts the file anew.
Fopen ==
  /\ pc = "fopen"
  /\ cache' = << >> /\ disk' = << >> /\ diskFull' = FALSE
  /\ pc' = "open"
  /\ UNCHANGED <<len, retry, result, sock, remote, undefined>>

\* The result of fopen is not looked at; what becomes of the attempt depends on
\* what lies at address 0.
FopenFails ==
  /\ pc = "fopen"
  /\ undefined' = TRUE
  /\ pc' \in {"done", "gaveup", "localerror", "aborted"}
  /\ UNCHANGED <<len, retry, result, sock, remote, file>>

\* fclose writes what is left in the stream's buffer; whether it could is not
\* looked at.
Flush ==
  \/ disk' = disk \o cache /\ cache' = << >> /\ UNCHANGED diskFull
  \/ cache # << >> /\ cache' = << >> /\ diskFull' = TRUE /\ UNCHANGED disk

\* (mutants) One attempt too many; an attempt that failed is not counted.
FcloseOneMore ==
  /\ pc = "fclose"
  /\ Flush
  /\ retry' = retry + 1
  /\ pc' = IF result = -2 THEN "localerror"
           ELSE IF retry' > MaxRetries + 1 THEN "gaveup"
           ELSE IF result = 0 THEN "done" ELSE "fopen"
  /\ UNCHANGED <<len, result, sock, remote, undefined>>

FcloseUncounted ==
  /\ pc = "fclose"
  /\ Flush
  /\ retry' = IF result = -1 THEN retry ELSE retry + 1
  /\ pc' = IF result = -2 THEN "localerror"
           ELSE IF retry' > MaxRetries THEN "gaveup"
           ELSE IF result = 0 THEN "done" ELSE "fopen"
  /\ UNCHANGED <<len, result, sock, remote, undefined>>

\* The file is closed and the result of the attempt looked at; a success of the
\* fourth is a failure.
Fclose ==
  /\ pc = "fclose"
  /\ Flush
  /\ retry' = retry + 1
  /\ pc' = IF result = -2 THEN "localerror"
           ELSE IF retry' > MaxRetries THEN "gaveup"
           ELSE IF result = 0 THEN "done" ELSE "fopen"
  /\ UNCHANGED <<len, result, sock, remote, undefined>>

-----------------------------------------------------------------------------
(* openRemoteFile, with RETR *)

OpenOk ==
  /\ pc = "open" /\ sock = "null"
  /\ sock' = "open"
  /\ given' = 0 /\ ended' = FALSE /\ queue' = << >>
  /\ pc' = "recv"
  /\ UNCHANGED <<len, retry, result, file, undefined>>

\* Without a socket; with one that is freed, and the pointer kept; with one that
\* stays open because RETR was not answered.
OpenFails ==
  /\ pc = "open"
  /\ \/ UNCHANGED sock
     \/ sock = "null" /\ sock' \in {"freed", "open"}
  /\ result' = -1 /\ pc' = "fclose"
  /\ UNCHANGED <<len, retry, remote, file, undefined>>

\* openDataSocketPASV: assert((* s) == NULL).
OpenAsserts ==
  /\ pc = "open" /\ sock # "null"
  /\ pc' = "aborted"
  /\ UNCHANGED <<len, retry, result, sock, remote, file, undefined>>

-----------------------------------------------------------------------------
(* The server and the network *)

Give ==
  /\ pc = "recv" /\ ~ended
  /\ given < len /\ Len(queue) < Window
  /\ given' = given + 1 /\ queue' = Append(queue, given + 1)
  /\ UNCHANGED <<len, pc, retry, result, sock, ended, file, undefined>>

\* At the end of the file or before it.
End ==
  /\ pc = "recv" /\ ~ended
  /\ ended' = TRUE
  /\ UNCHANGED <<len, pc, retry, result, sock, given, queue, file, undefined>>

-----------------------------------------------------------------------------
(* restore_file: rcvDataRemote and fwrite.  There is no timeout.           *)

Smaller(a, b) == IF a < b THEN a ELSE b
Count == Smaller(Payload, Len(queue))
Bytes == SubSeq(queue, 1, Count)

\* A turn of the loop that gets nothing and changes nothing is not a step.
Something == Count > 0 \/ ended

\* (mutant) A full buffer is taken for the last one.
ReceiveLastFull ==
  /\ pc = "recv" /\ Something
  /\ queue' = SubSeq(queue, Count + 1, Len(queue))
  /\ \/ cache' = cache \o Bytes /\ UNCHANGED disk
     \/ cache' = << >> /\ disk' = disk \o cache \o Bytes
  /\ IF ended
       THEN pc' = "close" /\ result' = 0
       ELSE UNCHANGED <<pc, result>>
  /\ UNCHANGED <<len, retry, sock, given, ended, diskFull, undefined>>

\* The connection is closed and less than a buffer was left in it: that was the
\* end of the file.  What is received goes to the stream's buffer or through it.
Receive ==
  /\ pc = "recv" /\ Something
  /\ queue' = SubSeq(queue, Count + 1, Len(queue))
  /\ \/ cache' = cache \o Bytes /\ UNCHANGED disk
     \/ cache' = << >> /\ disk' = disk \o cache \o Bytes
  /\ IF ended /\ Count < Payload
       THEN pc' = "close" /\ result' = 0
       ELSE UNCHANGED <<pc, result>>
  /\ UNCHANGED <<len, retry, sock, given, ended, diskFull, undefined>>

\* fwrite takes less than it was given.
ReceiveNoRoom ==
  /\ pc = "recv" /\ Count > 0
  /\ queue' = SubSeq(queue, Count + 1, Len(queue))
  /\ diskFull' = TRUE
  /\ result' = -2 /\ pc' = "close"
  /\ UNCHANGED <<len, retry, sock, given, ended, cache, disk, undefined>>

\* closeRemoteFile reads one reply, 226 or 426, and does not look at it.
Close ==
  /\ pc = "close"
  /\ sock' = "null"
  /\ pc' = "fclose"
  /\ UNCHANGED <<len, retry, result, remote, file, undefined>>

-----------------------------------------------------------------------------

\* The file counts as restored, -12, -11, a failed assertion.
Ended == pc \in {"done", "gaveup", "localerror", "aborted"}

Terminated == Ended /\ UNCHANGED vars

Loop ==
  \/ Fopen \/ FopenFails \/ Fclose
  \/ OpenOk \/ OpenFails \/ OpenAsserts
  \/ Receive \/ ReceiveNoRoom \/ Close

Next == Loop \/ Give \/ End \/ Terminated

Spec == Init /\ [][Next]_vars

\* The program is a thread.  Nothing but the server ends a transfer: it sends the
\* file and closes the connection, or the connection breaks.
FairSpec == Spec /\ WF_vars(Loop) /\ WF_vars(Give) /\ WF_vars(End)

-----------------------------------------------------------------------------
(* Properties *)

\* The types of the variables of the loop, restore_file and the connection.
TypeOK ==
  /\ len \in 0 .. MaxLen /\ given \in 0 .. len
  /\ pc \in {"fopen", "open", "recv", "close", "fclose",
             "done", "gaveup", "localerror", "aborted"}
  /\ retry \in 0 .. MaxRetries + 1 /\ result \in {0, -1, -2}
  /\ sock \in {"null", "open", "freed"}
  /\ queue \in Seq(1 .. MaxLen) /\ Len(queue) =< Window
  /\ cache \in Seq(1 .. MaxLen) /\ disk \in Seq(1 .. MaxLen)
  /\ ended \in BOOLEAN /\ diskFull \in BOOLEAN /\ undefined \in BOOLEAN

\* The first n bytes of the file.
First(n) == [i \in 1 .. n |-> i]

\* A file that counts as restored holds every byte that arrived before the
\* connection was closed, once and in order, whichever attempt it was: the test
\* for the end of the data (MTCPFTP.CPP:634-647) loses nothing that was waiting
\* in the socket, and an earlier attempt leaves nothing behind (RESTORE.C:220).
KeepsWhatArrived ==
  pc = "done" /\ ~diskFull /\ ~undefined => disk = First(given)

\* The loop ends when the server closes the data connection in the end.
Terminates == <>Ended

-----------------------------------------------------------------------------
(* The transfer that do_restore sees *)

Abstract ==
  INSTANCE FileTransfer
    WITH Files   <- {First(n) : n \in 0 .. MaxLen},
         Resumes <- FALSE, EndsEarly <- TRUE,
         file    <- First(len),
         status  <- IF Ended THEN pc ELSE "trying",
         tries   <- retry,
         copy    <- IF pc = "done" /\ ~diskFull /\ ~undefined THEN disk ELSE << >>,
         flawed  <- undefined \/ (pc = "done" /\ diskFull)

\* restore_file and the loop around it (RESTORE.C:214-246) make at most four
\* attempts at the file, each with one of three results, and what counts as
\* restored is the file up to where the connection was closed, in whichever
\* attempt; do_restore takes each attempt for one step.
ImplementsFileTransfer == Abstract!Spec

-----------------------------------------------------------------------------
(* What the comments say and the code does not do *)

\* "If we successfully sent the file, we are done." and otherwise it is "Worth
\* retrying transfer." (RESTORE.C:366, 370): received means the whole file.
WholeFile == pc = "done" /\ ~diskFull /\ ~undefined => disk = First(len)
=============================================================================
