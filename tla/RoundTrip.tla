----------------------------- MODULE RoundTrip ------------------------------
(***************************************************************************)
(* A backup, and restores of what it left on the server: Backup and        *)
(* Restore, joined by the control file and by the names of the files that  *)
(* the server has confirmed.                                               *)
(***************************************************************************)
EXTENDS BackupProps

CONSTANTS
  LocalDir,  \* where the restore goes, without a trailing separator
  Junk,      \* a field of an earlier entry that is taken for a name
  MaxRuns    \* bound: how often a restore is started

ASSUME RestoreBounds ==
  LocalDir \in Seq(Elem) /\ Junk \in Seq(Elem) /\ MaxRuns \in Nat \ {0}

VARIABLES rpc, rrc, rgot, rpos, rpath, runix, rretry, restored, run, made, cut, fault

rvars == <<rpc, rrc, rgot, rpos, rpath, runix, rretry, restored, run, made, cut, fault>>

R == INSTANCE Restore
       WITH list      <- ctrl,
            available <- Eof \in Range(ctrl),
            served    <- {acked[i].name : i \in {j \in DOMAIN acked : acked[j].op = "f"}},
            pc <- rpc, rc <- rrc, got <- rgot, pos <- rpos, path <- rpath,
            unix <- runix, retry <- rretry

RInit == Init /\ R!Start

BackupStep == ~Ended /\ Step /\ UNCHANGED rvars

\* A restore begins when the backup has ended, in whichever way.
RestoreStep == Ended /\ UNCHANGED vars /\ R!Step
RestoreAgain == Ended /\ rpc # "prepare" /\ UNCHANGED vars /\ R!Again

RDone == Ended /\ R!Ended /\ UNCHANGED <<vars, rvars>>

RNext == BackupStep \/ RestoreStep \/ RestoreAgain \/ RDone

RSpec == RInit /\ [][RNext]_<<vars, rvars>>

\* do_backup is one thread: it goes on as long as it has a step to make.  That
\* a remote call returns is part of it (mTCP's calls have timeouts; closeRemote
\* has none and relies on the server to close after QUIT).
RFairSpec == RSpec /\ WF_vars(BackupStep)

-----------------------------------------------------------------------------
(* Properties *)

\* The types of do_restore's variables.
RTypeOK == R!TypeOK

Following == rpc = "entry" /\ rpos =< Len(rgot)
Current   == rgot[rpos]

\* What is received from the server is written where it came from: the remote
\* name asked for is the local path below the directory restored to, over
\* descents, ascents and a unix_path that is stale at the root
\* (RESTORE.C:150-158, 188-196, 270-287).
AsksForItsOwn ==
  Following /\ Current.op = "f" =>
    R!RemoteName(Current.name) = R!Flat(rpath) \o Current.name

\* A restore that reports success has rebuilt the tree that was backed up, every
\* directory and every file, and nothing else, also when its transfers were cut;
\* if the backup did not lose entries by a failed findnext or gain some by the
\* search never opened (BACKUP.C:268-277, RESTORE.C:139-303).
RebuildsTree ==
  rpc = "exit" /\ rrc = 0 /\ ~skipped /\ Stray = << >> => made = Tree

\* Whatever a backup has listed and sent can be restored: no directory is listed
\* twice, no file is missing, the list is complete.  A restore fails only when
\* something outside fails: the server, the disk, a connection that ends early,
\* a directory that was there, a backup whose list was not confirmed (BACKUP.C:298,
\* RESTORE.C:112-115, 165, 241-246, 296).
FailsForAReason == rrc # 0 => fault \/ cut \/ Eof \notin Range(acked)

\* The search that was never opened yields nothing that would be too long below
\* the directory that is backed up.  The backup does not look: at that moment its
\* path is empty (BACKUP.C:143-151 with DIR.C:111-121).
ShortStrays == \A l \in Strays : \A e \in Range(l) : Len(Root) + Len(e.name) =< MaxPath

\* The sprintf calls of do_restore stay within their buffers, if local_dir is no
\* longer than the directory that was backed up and the control file came whole
\* (RESTORE.C:151, 194).
StaysInBuffer ==
  Following /\ Current.op \in {"d", "f"} /\ ~cut /\ Len(LocalDir) =< Len(Root) =>
    Len(LocalDir) + Len(R!Flat(rpath) \o Current.name) =< MaxPath

\* Below the directory it is started in, a restore writes into directories only
\* that it has made itself, also when an earlier one was interrupted there
\* (RESTORE.C:165-168, 220).
OnlyIntoItsOwn ==
  Following /\ Current.op = "f" => rpath = << >> \/ Dir(R!Flat(rpath)) \in made
=============================================================================
