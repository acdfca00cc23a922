---------------------------- MODULE MCRoundTrip -----------------------------
(***************************************************************************)
(* The trees of MCBackup for RoundTrip, restored to a directory whose name *)
(* is as long as that of the directory backed up, once and a second time.  *)
(***************************************************************************)
EXTENDS MCBackup, RoundTrip

MCLocalDir == <<"D:">>
MCJunk     == <<"1", "6">>  \* a size or a time
MCFields   == MCElem \cup {"D:", "1", "6"}

ASSUME MCShortStrays == ShortStrays
=============================================================================
