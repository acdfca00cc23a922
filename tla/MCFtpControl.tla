---------------------------- MODULE MCFtpControl ----------------------------
(***************************************************************************)
(* One directory and one file in it for FtpControl, on servers without a   *)
(* directory for backups, with one, and with one that was used before.     *)
(***************************************************************************)
EXTENDS FtpControl

MCJobs == << [op |-> "d", name |-> <<"a">>],
             [op |-> "d", name |-> <<"a", "b">>],
             [op |-> "f", name |-> <<"a", "f">>] >>

MCServerTrees ==
  { {<< >>},
    {<< >>, <<"root">>},
    {<< >>, <<"root">>, <<"root", "backup">>} }

ASSUME MCNewBackup == NewBackup
=============================================================================
