---------------------------- MODULE FileTransfer ----------------------------
(***************************************************************************)
(* What the loop of attempts around a file promises do_backup and          *)
(* do_restore, without saying how a file is sent or received: at most four *)
(* attempts, one result, and what the other side then holds of the file.   *)
(* SendFile and ReceiveFile show that they keep this promise; Backup and   *)
(* Restore make a step of each of its attempts.                            *)
(***************************************************************************)
EXTENDS Integers, Sequences

CONSTANTS
  Files,    \* the files there may be: sequences of bytes
  Resumes,  \* may a later attempt leave out the beginning of the file?
  EndsEarly \* may the end of the file be missing?

MaxRetries == 3

VARIABLES
  file,    \* the file on the side that sends
  status,  \* "trying", or what became of it
  tries,   \* attempts made
  copy,    \* what the other side holds, once the file counts as transferred
  flawed   \* something of which the caller learns nothing went wrong with the copy

vars == <<file, status, tries, copy, flawed>>

\* The parts of the file that may pass for the whole of it in this attempt.
Parts ==
  {SubSeq(file, from + 1, to) :
     from \in IF Resumes /\ tries > 0 THEN 0 .. Len(file) ELSE {0},
     to   \in IF EndsEarly THEN 0 .. Len(file) ELSE {Len(file)}}

Init ==
  /\ file \in Files
  /\ status = "trying" /\ tries = 0
  /\ copy = << >> /\ flawed = FALSE

\* An attempt with result 0, -1 or -2: -2 ends the loop, and so does the fourth
\* attempt, even if it succeeded.
Verdict(r) ==
  IF r = -2 THEN "localerror"
  ELSE IF tries + 1 > MaxRetries THEN "gaveup"
  ELSE IF r = 0 THEN "done" ELSE "trying"

Attempt(r) ==
  /\ status = "trying"
  /\ tries' = tries + 1
  /\ status' = Verdict(r)
  /\ IF status' = "done"
       THEN \/ copy' \in Parts /\ flawed' = FALSE
            \/ copy' = << >> /\ flawed' = TRUE
       ELSE UNCHANGED <<copy, flawed>>
  /\ UNCHANGED file

\* A failed assertion ends the program.
Abort ==
  /\ status = "trying"
  /\ status' = "aborted"
  /\ UNCHANGED <<file, tries, copy, flawed>>

\* The loop works on a null stream.
Derail ==
  /\ status = "trying"
  /\ status' \in {"done", "gaveup", "localerror", "aborted"}
  /\ flawed' = TRUE
  /\ UNCHANGED <<file, tries, copy>>

Next ==
  \/ \E r \in {0, -1, -2} : Attempt(r)
  \/ Abort \/ Derail

Spec == Init /\ [][Next]_vars
=============================================================================
