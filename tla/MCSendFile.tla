----------------------------- MODULE MCSendFile -----------------------------
(***************************************************************************)
(* Instances of SendFile.  Payload 4 and MaxEnqueue 2 make every full      *)
(* buffer go out in part, and a last part of three bytes in two pieces;    *)
(* files of 0 to 7 bytes are shorter than, as long as, and longer than a   *)
(* buffer; Word 8 lets chars_left wrap.                                    *)
(***************************************************************************)
EXTENDS SendFile
=============================================================================
