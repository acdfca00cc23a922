------------------------------- MODULE Backup -------------------------------
(***************************************************************************)
(* do_backup: the walk over the local directory tree that mirrors it on    *)
(* the server and writes the control file a restore will follow.           *)
(*                                                                         *)
(* The server is the most general one: every remote call may give any of   *)
(* its results at any time.  A file is sent by send_file, whose inside is  *)
(* in SendFile; here it is one step with its three results.                *)
(*                                                                         *)
(* A path is a sequence of elements.  A name is one too, so a long name    *)
(* takes more of MaxPath than a short one: the path of entry n of the      *)
(* directory p is p \o n.                                                  *)
(***************************************************************************)
EXTENDS DirStack

CONSTANTS
  Elem,      \* what names are made of
  Root,      \* the local directory to back up, without its trailing separator
  OpenMax,   \* the longest path openDir can open: "\*.*" must fit behind it
  Entry,     \* the entries a directory may hold: [name, kind]
  Worlds,    \* the trees: functions from relative paths to their entries
  Strays     \* what the search that was never opened may still return

MaxRetries == 3                                 \* retry_count =< 3
Codes == {"SUCCESS", "TARGET_EXIST", "FAILED"}  \* FAILED: all the others

\* A path that can be opened is short enough that the push of it did not fill
\* the stack: every level of it takes at least one element.  (124 characters
\* can be opened; they have at most 63 levels, of 64 entries.)
ASSUME BackupBounds ==
  /\ Root \in Seq(Elem)
  /\ OpenMax \in Nat /\ OpenMax =< MaxPath
  /\ OpenMax + 1 < Len(Root) + MaxEntries

ASSUME BackupEntries ==
  \A e \in Entry : e.name \in Seq(Elem) \ {<< >>} /\ e.kind \in {"dot", "dir", "file"}

ASSUME BackupWorlds ==
  /\ \A w \in Worlds : \A d \in DOMAIN w : d \in Seq(Elem) /\ w[d] \in Seq(Entry)
  /\ << >> \in Strays /\ Strays \subseteq Seq({e \in Entry : e.kind # "dir"})

\* A tree: every directory but the root is an entry of one, and no two entries
\* have the same path.
ASSUME BackupTrees ==
  \A w \in Worlds :
    /\ \A d \in DOMAIN w \ {<< >>} : \E p \in DOMAIN w : \E i \in DOMAIN w[p] :
         w[p][i].kind = "dir" /\ d = p \o w[p][i].name
    /\ \A p, q \in DOMAIN w : \A i \in DOMAIN w[p], j \in DOMAIN w[q] :
         /\ w[p][i].kind # "dot" /\ w[q][j].kind # "dot"
         /\ p \o w[p][i].name = q \o w[q][j].name
         => p = q /\ i = j

VARIABLES
  fs,        \* the local tree; it does not change during the backup
  pc,        \* where do_backup is
  rc,        \* do_backup_rc, or the value an early return gives
  path,      \* the buffer path: the current directory
  unix,      \* what that buffer holds behind the separator that follows Root
  target,    \* unix_path_and_file
  ds,        \* dstack
  dir,       \* curr_dir: the directory and the entries its search has left
  file,      \* curr_file
  retry,     \* retry_count
  ctrl,      \* the entries written to the control file
  acked,     \* history: what the remote confirmed, in order
  skipped    \* history: findnext failed before the end of a directory

vars == <<fs, pc, rc, path, unix, target, ds, dir, file, retry, ctrl, acked, skipped>>

Rel(p) == SubSeq(p, Len(Root) + 1, Len(p))

\* strcpy(path, p): bytes behind a shorter string stay as they were, and
\* unix keeps what it showed.
UnixAfterCopy(p) == IF Len(p) > Len(Root) THEN Rel(p) ELSE unix

Entries(p) == IF Rel(p) \in DOMAIN fs THEN fs[Rel(p)] ELSE << >>

\* openDir can succeed on p: the pattern fits and something matches.
CanOpen(p) == Len(p) =< OpenMax /\ Entries(p) # << >>
Opened(p)  == [dir |-> p, left |-> Tail(Entries(p))]

Header(p)   == [op |-> "h", name |-> p]
Dir(n)      == [op |-> "d", name |-> n]
File(n)     == [op |-> "f", name |-> n]
CdUp        == [op |-> "c", name |-> << >>]
Eof         == [op |-> "e", name |-> << >>]

-----------------------------------------------------------------------------
(* Preparation *)

Init ==
  /\ fs \in Worlds
  /\ pc = "prepare" /\ rc = 0 /\ retry = 0
  /\ path = << >> /\ unix = << >> /\ target = << >>
  /\ \E l \in Strays : dir = [dir |-> << >>, left |-> l]
  /\ ds = InitDirStack(dir)
  /\ file \in Entry
  /\ ctrl = << >> /\ acked = << >> /\ skipped = FALSE

\* Memory, initDirStack, pushDir, openDir, tmpnam or fopen fails: an early
\* return, after which the local variables do not matter.
PrepareFails(r) ==
  /\ pc = "prepare"
  /\ r = -3 => PushRc(ds, Root) # 0
  /\ r \in {-4, -5, -6} => PushRc(ds, Root) = 0
  /\ r \in {-5, -6} => CanOpen(Root)
  /\ pc' = "exit" /\ rc' = r
  /\ UNCHANGED <<fs, path, unix, target, ds, dir, file, retry, ctrl, acked, skipped>>

\* The search pushed for the root is the one of curr_dir BEFORE it is opened.
Prepare ==
  /\ pc = "prepare"
  /\ PushRc(ds, Root) = 0
  /\ CanOpen(Root)
  /\ path' = Root
  /\ ds' = PushDir(ds, dir, Root)
  /\ unix' = IF ClearsTail(ds') THEN << >> ELSE UnixAfterCopy(Root)
  /\ dir' = Opened(Root)
  /\ file' = Head(Entries(Root))
  /\ ctrl' = <<Header(Root)>>
  /\ pc' = "init"
  /\ UNCHANGED <<fs, rc, target, retry, acked, skipped>>

\* A failure is remembered, and the next call made all the same.
InitRemote(c) ==
  /\ pc = "init"
  /\ rc' = IF c = "SUCCESS" THEN rc ELSE -7
  /\ pc' = "mkroot"
  /\ UNCHANGED <<fs, path, unix, target, ds, dir, file, retry, ctrl, acked, skipped>>

\* (mutant) A success of MKD clears what initRemote had reported.
MakeBackupDirClears(c) ==
  /\ pc = "mkroot"
  /\ rc' = IF c \in {"SUCCESS", "TARGET_EXIST"} THEN 0 ELSE -8
  /\ pc' = "cdroot"
  /\ UNCHANGED <<fs, path, unix, target, ds, dir, file, retry, ctrl, acked, skipped>>

MakeBackupDir(c) ==
  /\ pc = "mkroot"
  /\ rc' = IF c \in {"SUCCESS", "TARGET_EXIST"} THEN rc ELSE -8
  /\ pc' = "cdroot"
  /\ UNCHANGED <<fs, path, unix, target, ds, dir, file, retry, ctrl, acked, skipped>>

ChangeDir(c) ==
  /\ pc = "cdroot"
  /\ rc' = IF c = "SUCCESS" THEN rc ELSE -9
  /\ pc' = IF rc' = 0 THEN "visit" ELSE "finish"
  /\ UNCHANGED <<fs, path, unix, target, ds, dir, file, retry, ctrl, acked, skipped>>

\* shutdown(-1) when the server cannot be reached; an assertion that fails, or
\* a call on a control socket that initRemote left unusable.
Abort ==
  /\ \/ pc \in {"init", "send", "sendctrl"}
     \/ pc \in {"mkroot", "cdroot", "close"} /\ rc # 0
  /\ pc' = "aborted"
  /\ UNCHANGED <<fs, rc, path, unix, target, ds, dir, file, retry, ctrl, acked, skipped>>

-----------------------------------------------------------------------------
(* The traversal *)

\* The path of curr_file does not fit its buffer.
PathTooLong ==
  /\ pc = "visit"
  /\ Len(path \o file.name) > MaxPath
  /\ rc' = -10 /\ pc' = "finish"
  /\ UNCHANGED <<fs, path, unix, target, ds, dir, file, retry, ctrl, acked, skipped>>

\* (mutant) A path that does not fit is built all the same.
VisitTooLong(kind) ==
  /\ pc = "visit"
  /\ file.kind = kind
  /\ target' = unix \o file.name

\* curr_file is visited: its path fits, and its remote name is built from what
\* the path buffer holds behind the root.
Visit(kind) ==
  /\ pc = "visit"
  /\ Len(path \o file.name) =< MaxPath
  /\ file.kind = kind
  /\ target' = unix \o file.name

VisitDot ==
  /\ Visit("dot")
  /\ pc' = "next"
  /\ UNCHANGED <<fs, rc, path, unix, ds, dir, file, retry, ctrl, acked, skipped>>

\* A subdirectory is recorded, pushed and opened before the remote hears of it.
EnterDir(opens) ==
  /\ Visit("dir")
  /\ opens => CanOpen(path \o file.name)
  /\ path' = path \o file.name
  /\ unix' = UnixAfterCopy(path')
  /\ ctrl' = Append(ctrl, Dir(file.name))
  /\ LET pushed == PushRc(ds, path') = 0
     IN  /\ ds' = IF pushed THEN PushDir(ds, dir, path') ELSE ds
         /\ IF pushed /\ opens
              THEN /\ dir' = Opened(path') /\ file' = Head(Entries(path'))
                   /\ pc' = "mkdir"
                   /\ UNCHANGED rc
              ELSE /\ rc' = IF pushed THEN -13 ELSE -12
                   /\ pc' = "finish"
                   /\ UNCHANGED <<dir, file>>
  /\ UNCHANGED <<fs, retry, acked, skipped>>

\* (mutant) The walk goes on when the directory could not be made.
MkDirAttemptForgives(c) ==
  /\ pc = "mkdir"
  /\ acked' = IF c = "SUCCESS" THEN Append(acked, Dir(target)) ELSE acked
  /\ IF c # "SUCCESS" /\ retry + 1 =< MaxRetries
       THEN retry' = retry + 1 /\ UNCHANGED <<pc, rc>>
       ELSE retry' = 0 /\ pc' = "visit" /\ UNCHANGED rc
  /\ UNCHANGED <<fs, path, unix, target, ds, dir, file, ctrl, skipped>>

\* One turn of the do ... while around mkDirRemote.  Only SUCCESS ends it
\* early, and only the number of attempts is looked at afterwards.
MkDirAttempt(c) ==
  /\ pc = "mkdir"
  /\ acked' = IF c = "SUCCESS" THEN Append(acked, Dir(target)) ELSE acked
  /\ IF c # "SUCCESS" /\ retry + 1 =< MaxRetries
       THEN retry' = retry + 1 /\ UNCHANGED <<pc, rc>>
       ELSE IF retry + 1 > MaxRetries
              THEN retry' = retry + 1 /\ rc' = -14 /\ pc' = "finish"
              ELSE retry' = 0 /\ pc' = "visit" /\ UNCHANGED rc
  /\ UNCHANGED <<fs, path, unix, target, ds, dir, file, ctrl, skipped>>

\* A file is recorded and then opened.
OpenFile ==
  /\ Visit("file")
  /\ ctrl' = Append(ctrl, File(file.name))
  /\ pc' = "send"
  /\ UNCHANGED <<fs, rc, path, unix, ds, dir, file, retry, acked, skipped>>

\* fopen fails; the fclose of the null pointer that follows may end the program.
OpenFileFails ==
  /\ Visit("file")
  /\ ctrl' = Append(ctrl, File(file.name))
  /\ rc' = -15
  /\ pc' \in {"finish", "aborted"}
  /\ UNCHANGED <<fs, path, unix, ds, dir, file, retry, acked, skipped>>

\* (mutants) The loop makes one attempt too many; it starts again when it has
\* made them all; it goes on to the next file when none succeeded.
SendAttemptOneMore(r) ==
  /\ pc = "send"
  /\ acked' = IF r = 0 THEN Append(acked, File(target)) ELSE acked
  /\ retry' = IF r = 0 THEN 0 ELSE retry + 1
  /\ pc' = CASE r = 0 -> "next"
             [] r = -1 /\ retry + 1 =< MaxRetries + 1 -> "send"
             [] OTHER -> "finish"
  /\ rc' = IF pc' = "finish" THEN -17 ELSE rc
  /\ UNCHANGED <<fs, path, unix, target, ds, dir, file, ctrl, skipped>>

SendAttemptAgain(r) ==
  /\ pc = "send"
  /\ acked' = IF r = 0 THEN Append(acked, File(target)) ELSE acked
  /\ retry' = IF r = -1 /\ retry < MaxRetries THEN retry + 1 ELSE 0
  /\ pc' = IF r = -1 THEN "send" ELSE "next"
  /\ UNCHANGED <<fs, rc, path, unix, target, ds, dir, file, ctrl, skipped>>

SendAttemptForgives(r) ==
  /\ pc = "send"
  /\ acked' = IF r = 0 THEN Append(acked, File(target)) ELSE acked
  /\ retry' = IF r = -1 /\ retry < MaxRetries THEN retry + 1 ELSE 0
  /\ pc' = IF retry' # 0 THEN "send" ELSE "next"
  /\ UNCHANGED <<fs, rc, path, unix, target, ds, dir, file, ctrl, skipped>>

\* One turn of the loop around send_file, and what follows the last one.
SendAttempt(r) ==
  /\ pc = "send"
  /\ acked' = IF r = 0 THEN Append(acked, File(target)) ELSE acked
  /\ IF r = -1 /\ retry + 1 =< MaxRetries
       THEN retry' = retry + 1 /\ UNCHANGED <<pc, rc>>
       ELSE IF r = -2 \/ retry + 1 > MaxRetries
              THEN /\ retry' = retry + 1
                   /\ rc' = IF r = -2 THEN -16 ELSE -17
                   /\ pc' = "finish"
              ELSE retry' = 0 /\ pc' = "next" /\ UNCHANGED rc
  /\ UNCHANGED <<fs, path, unix, target, ds, dir, file, ctrl, skipped>>

\* getNextFile gives another entry of the directory.
NextEntry ==
  /\ pc = "next"
  /\ dir.left # << >>
  /\ file' = Head(dir.left)
  /\ dir' = [dir EXCEPT !.left = Tail(@)]
  /\ pc' = "visit"
  /\ UNCHANGED <<fs, rc, path, unix, target, ds, retry, ctrl, acked, skipped>>

\* (mutants) What the path buffer shows behind the root is not cleared; no CDUP
\* entry is written.
CloseAndPopStale ==
  /\ pc = "next"
  /\ skipped' = (skipped \/ dir.left # << >>)
  /\ PopRc(ds) = 0
  /\ dir' = PoppedSearch(ds)
  /\ path' = PoppedPath(ds)
  /\ ds' = PopDir(ds)
  /\ unix' = UnixAfterCopy(path')
  /\ ctrl' = Append(ctrl, CdUp)
  /\ UNCHANGED <<fs, pc, rc, target, file, retry, acked>>

CloseAndPopSilent ==
  /\ pc = "next"
  /\ skipped' = (skipped \/ dir.left # << >>)
  /\ PopRc(ds) = 0
  /\ dir' = PoppedSearch(ds)
  /\ path' = PoppedPath(ds)
  /\ ds' = PopDir(ds)
  /\ unix' = IF ClearsTail(ds') /\ Len(path') = Len(Root)
                THEN << >> ELSE UnixAfterCopy(path')
  /\ UNCHANGED <<fs, pc, rc, target, file, retry, ctrl, acked>>

\* getNextFile gives nothing, at the end of the directory or because the disk
\* could not be read, which it does not tell apart: go back to the parent.
CloseAndPop ==
  /\ pc = "next"
  /\ skipped' = (skipped \/ dir.left # << >>)
  /\ PopRc(ds) = 0
  /\ dir' = PoppedSearch(ds)
  /\ path' = PoppedPath(ds)
  /\ ds' = PopDir(ds)
  /\ unix' = IF ClearsTail(ds') /\ Len(path') = Len(Root)
                THEN << >> ELSE UnixAfterCopy(path')
  /\ ctrl' = Append(ctrl, CdUp)
  /\ UNCHANGED <<fs, pc, rc, target, file, retry, acked>>

\* There is no parent: all_dirs_traversed.
LastClose ==
  /\ pc = "next"
  /\ PopRc(ds) # 0
  /\ pc' = "finish"
  /\ UNCHANGED <<fs, rc, path, unix, target, ds, dir, file, retry, ctrl, acked, skipped>>

-----------------------------------------------------------------------------
(* The end *)

GiveUp ==
  /\ pc = "finish" /\ rc # 0
  /\ pc' = "close"
  /\ UNCHANGED <<fs, rc, path, unix, target, ds, dir, file, retry, ctrl, acked, skipped>>

Finalize ==
  /\ pc = "finish" /\ rc = 0
  /\ ctrl' = Append(ctrl, Eof)
  /\ pc' = "sendctrl"
  /\ UNCHANGED <<fs, rc, path, unix, target, ds, dir, file, retry, acked, skipped>>

\* One attempt, and a failure is not fatal.
SendControlFile(r) ==
  /\ pc = "sendctrl"
  /\ acked' = IF r = 0 THEN Append(acked, Eof) ELSE acked
  /\ pc' = "close"
  /\ UNCHANGED <<fs, rc, path, unix, target, ds, dir, file, retry, ctrl, skipped>>

\* closeRemote returns once the server has closed the control connection.
Close ==
  /\ pc = "close"
  /\ pc' = "exit"
  /\ UNCHANGED <<fs, rc, path, unix, target, ds, dir, file, retry, ctrl, acked, skipped>>

-----------------------------------------------------------------------------

Ended == pc \in {"exit", "aborted"}

Terminated == Ended /\ UNCHANGED vars

Step ==
  \/ \E r \in -6 .. -1 : PrepareFails(r)
  \/ Prepare
  \/ \E c \in Codes : InitRemote(c) \/ MakeBackupDir(c) \/ ChangeDir(c) \/ MkDirAttempt(c)
  \/ PathTooLong \/ VisitDot
  \/ \E opens \in BOOLEAN : EnterDir(opens)
  \/ OpenFile \/ OpenFileFails
  \/ \E r \in {0, -1, -2} : SendAttempt(r) \/ SendControlFile(r)
  \/ NextEntry \/ CloseAndPop \/ LastClose
  \/ GiveUp \/ Finalize \/ Close
  \/ Abort

Next == Step \/ Terminated

Spec == Init /\ [][Next]_vars

-----------------------------------------------------------------------------
(* Properties *)

PCs == {"prepare", "init", "mkroot", "cdroot", "visit", "next", "mkdir", "send",
        "finish", "sendctrl", "close", "exit", "aborted"}

SearchType == [dir : Seq(Elem), left : Seq(Entry)]
StackType  == [ entries    : [0 .. MaxEntries - 1 -> SearchType],
                pathName   : Seq(Elem),
                pathSplits : [0 .. MaxEntries - 1 -> Nat],
                nextEntry  : Nat ]
CtrlType   == [op : {"h", "d", "f", "c", "e"}, name : Seq(Elem)]
AckedType  == [op : {"d", "f", "e"}, name : Seq(Elem)]

\* The types of do_backup's variables.  On the way, an error code that stops
\* the loop is only ever one of the codes BACKUP.C assigns.
TypeOK ==
  /\ fs \in Worlds
  /\ pc \in PCs
  /\ rc \in -17 .. 0
  /\ path \in Seq(Elem) /\ unix \in Seq(Elem) /\ target \in Seq(Elem)
  /\ ds \in StackType
  /\ dir \in SearchType
  /\ file \in Entry
  /\ retry \in 0 .. MaxRetries + 1
  /\ ctrl \in Seq(CtrlType)
  /\ acked \in Seq(AckedType)
  /\ skipped \in BOOLEAN

Walking == pc \in {"visit", "next", "mkdir", "send"} /\ ds.nextEntry > 0

\* The path the walk believes in and the search it advances stay together over
\* pushes, pops and the shared path buffer, so every file and directory goes
\* to the remote name that is its own path below the root (BACKUP.C:125-151,
\* 160-178, 268-277 with DIR.C:86-121).
MirrorsSource ==
  Walking =>
    /\ path = dir.dir
    /\ pc = "send"  => Root \o target = path \o file.name
    /\ pc = "mkdir" => Root \o target = path

\* Once a step has failed nothing more is listed or stored, and no later
\* success of the preparation hides the failure (BACKUP.C:105-121, 281).
FailureIsFinal ==
  [][rc # 0 => rc' # 0 /\ ctrl' = ctrl /\ acked' = acked]_vars

\* do_backup ends for every tree and whatever the server answers.
Terminates == <>Ended
=============================================================================
