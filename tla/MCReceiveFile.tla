--------------------------- MODULE MCReceiveFile ----------------------------
(***************************************************************************)
(* Instances of ReceiveFile.  A buffer of 2 below a window of 3: more than *)
(* a buffer may be waiting when the server closes; files of 0 to 5 bytes   *)
(* are shorter than, as long as, and longer than either.                   *)
(***************************************************************************)
EXTENDS ReceiveFile
=============================================================================
