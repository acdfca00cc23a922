--------------------------- MODULE RoundTripProofs --------------------------
(***************************************************************************)
(* Proofs about the walk of do_backup and about the restores that follow   *)
(* it, for every tree, every root, every limit on paths and levels, every  *)
(* server, every interruption.                                             *)
(*                                                                         *)
(* The walk (Inv).  MirrorsSource is not inductive: what a pop brings back *)
(* depends on what the entries of the stack hold.  The strengthening says  *)
(* that entry i of the stack is the search of the directory whose path is  *)
(* the recorded prefix number i, that the recorded lengths are ordered and *)
(* start at the root, and that there is room for one more push.            *)
(*                                                                         *)
(* The list (Journal).  A restore that follows the list so far is at every *)
(* moment where the walk is, and level i of its way is the directory that  *)
(* search i on the stack belongs to (Charted, Searched); the levels have   *)
(* been confirmed (Made), and what is under way is listed (Announced).     *)
(*                                                                         *)
(* The account (Account).  Of the directories the server has, every entry  *)
(* is there too, or is still ahead of a search on the stack, or is the     *)
(* file or directory under way (Covered): nothing is forgotten.  Nothing   *)
(* is listed twice because what is ahead is listed nowhere yet (Fresh): a  *)
(* directory that is entered is new, and so is all there is in it, since   *)
(* what is listed below a directory is listed after it (Opens).            *)
(*                                                                         *)
(* What a restore has in its hands is a list the backup wrote, so that the *)
(* types of the one rest on those of the other (Received).  Where it is    *)
(* (OnTheWay): at the root, or in a directory below it that it has made    *)
(* itself, level by level, and whose path unix_path holds.  A way back up  *)
(* needs the levels: the directory alone is not inductive.                 *)
(*                                                                         *)
(* What a restore is worth rests on the account of the backup: as far as   *)
(* the list was followed, what it names is what was made (AsListed), a     *)
(* list that has an end came whole (CameWhole), and every failure and      *)
(* every repeated attempt has its reason (Excused).  That its buffers are  *)
(* large enough rests on the backup's having looked at the same lengths    *)
(* (Fitting).                                                              *)
(***************************************************************************)
EXTENDS RoundTrip, SequenceLemmas

Active == pc \in {"init", "mkroot", "cdroot", "visit", "next", "mkdir", "send"}
NonDir == {e \in Entry : e.kind # "dir"}

Nested ==
  \A i, j \in 0 .. ds.nextEntry : i =< j => ds.pathSplits[i] =< ds.pathSplits[j]

Lengths ==
  /\ ds.pathSplits[0] = 0
  /\ ds.pathSplits[ds.nextEntry] = Len(ds.pathName)
  /\ ds.nextEntry >= 1 => ds.pathSplits[1] = Len(Root)
  /\ \A i \in 1 .. ds.nextEntry : Len(Root) + i - 1 =< ds.pathSplits[i]

Room ==
  /\ ds.nextEntry \in 0 .. MaxEntries - 1
  /\ Len(ds.pathName) =< OpenMax

Saved ==
  /\ ds.entries[0].left \in Seq(NonDir)
  /\ \A i \in 1 .. ds.nextEntry - 1 :
       ds.entries[i].dir = SubSeq(ds.pathName, 1, ds.pathSplits[i])

StackInv == Nested /\ Lengths /\ Room /\ Saved

\* The path, the search and the remote name of the innermost directory agree.
Here ==
  /\ path = ds.pathName
  /\ ds.nextEntry >= 1 =>
       /\ StartsWith(path, Root)
       /\ dir.dir = path
       /\ unix = Rel(path)
  /\ ds.nextEntry = 0 =>
       /\ dir.left \in Seq(NonDir)
       /\ pc = "visit" => file.kind # "dir"

Targets ==
  /\ pc = "send" => target = unix \o file.name
  /\ pc = "mkdir" => target = unix
  /\ pc \in {"init", "mkroot", "cdroot", "mkdir"} => ds.nextEntry >= 1

\* The counter of the retry loops stays within its bound until one gives up.
Tries == pc = "prepare" \/ Active => retry =< MaxRetries

Inv ==
  /\ TypeOK
  /\ Tries
  /\ pc = "prepare" => ds.nextEntry = 0 /\ ds.pathSplits[0] = 0 /\ dir.left \in Seq(NonDir)
  /\ Active => StackInv /\ Here /\ Targets

-----------------------------------------------------------------------------
(* What the operators of Backup return *)

LEMMA EntriesType ==
  ASSUME TypeOK, NEW p \in Seq(Elem)
  PROVE  Entries(p) \in Seq(Entry)
  BY BackupWorlds DEF Entries, TypeOK

LEMMA RelType ==
  ASSUME NEW p \in Seq(Elem), StartsWith(p, Root)
  PROVE  Rel(p) \in Seq(Elem) /\ Root \o Rel(p) = p
  <1>1. Root \in Seq(Elem) /\ Starts(p, Root)
    BY BackupBounds, Zenon DEF StartsWith, Starts
  <1> QED
    BY <1>1, PrefixAndRest DEF Rel

\* A subdirectory's path below the root is its parent's and its name.
LEMMA RelOfEntry ==
  ASSUME NEW p \in Seq(Elem), NEW m \in Seq(Elem), StartsWith(p, Root)
  PROVE  /\ p \o m \in Seq(Elem)
         /\ Len(p \o m) = Len(p) + Len(m)
         /\ StartsWith(p \o m, p) /\ StartsWith(p \o m, Root)
         /\ Rel(p \o m) = Rel(p) \o m
  <1>1. Root \in Seq(Elem) /\ Starts(p, Root)
    BY BackupBounds, Zenon DEF StartsWith, Starts
  <1>2. /\ p \o m \in Seq(Elem) /\ Len(p \o m) = Len(p) + Len(m)
        /\ Starts(p \o m, p) /\ Starts(p \o m, Root)
        /\ Rest(p \o m, Root) = Rest(p, Root) \o m
    BY <1>1, AppendedName
  <1>3. StartsWith(p \o m, p) /\ StartsWith(p \o m, Root)
    BY <1>2, Zenon DEF StartsWith, Starts
  <1>4. Rel(p) = Rest(p, Root) /\ Rel(p \o m) = Rest(p \o m, Root)
    BY Zenon DEF Rel, Rest
  <1> QED
    BY <1>2, <1>3, <1>4

\* A path that can be opened has fewer levels than the stack has entries.
LEMMA RoomForOne ==
  ASSUME NEW n \in Nat, NEW d \in Nat, NEW m \in Nat, m >= 1,
         Len(Root) + n - 1 =< d, d + m =< OpenMax
  PROVE  n + 1 < MaxEntries /\ Len(Root) + n =< d + m
  <1>1. Len(Root) \in Nat /\ OpenMax \in Nat /\ MaxEntries \in Nat
        /\ OpenMax + 1 < Len(Root) + MaxEntries
    BY BackupBounds, StackBounds
  <1> QED
    BY <1>1

LEMMA OpenedType ==
  ASSUME TypeOK, NEW p \in Seq(Elem), CanOpen(p)
  PROVE  /\ Opened(p) \in SearchType /\ Opened(p).dir = p
         /\ Head(Entries(p)) \in Entry
         /\ Len(p) =< OpenMax
  <1>1. Entries(p) \in Seq(Entry) /\ Entries(p) # << >>
    BY EntriesType DEF CanOpen
  <1>2. Tail(Entries(p)) \in Seq(Entry) /\ Head(Entries(p)) \in Entry
    BY <1>1
  <1> QED
    BY <1>2 DEF Opened, SearchType, CanOpen

\* The conjuncts of TypeOK a step may keep while it changes others.
LEMMA TypeParts ==
  ASSUME TypeOK
  PROVE  /\ rc \in -17 .. 0 /\ retry \in 0 .. MaxRetries + 1
         /\ pc \in PCs
         /\ path \in Seq(Elem) /\ unix \in Seq(Elem) /\ target \in Seq(Elem)
         /\ ctrl \in Seq(CtrlType) /\ acked \in Seq(AckedType)
         /\ dir \in SearchType /\ ds \in StackType
  BY DEF TypeOK

LEMMA StackParts ==
  ASSUME TypeOK
  PROVE  /\ ds.entries \in [0 .. MaxEntries - 1 -> SearchType]
         /\ ds.pathName \in Seq(Elem) /\ Len(ds.pathName) \in Nat
         /\ ds.pathSplits \in [0 .. MaxEntries - 1 -> Nat]
         /\ ds.nextEntry \in Nat
  BY DEF TypeOK, StackType

LEMMA TargetType ==
  ASSUME TypeOK
  PROVE  Dir(target) \in AckedType /\ File(target) \in AckedType /\ Eof \in AckedType
  BY DEF TypeOK, Dir, File, Eof, AckedType

LEMMA NameType ==
  ASSUME TypeOK
  PROVE  file \in Entry /\ file.name \in Seq(Elem) /\ Len(file.name) \in Nat \ {0}
  BY BackupEntries DEF TypeOK

\* The structure a push leaves has the type of one, even when it filled the
\* last entry.
LEMMA PushType ==
  ASSUME TypeOK, NEW d \in SearchType, NEW p \in Seq(Elem)
  PROVE  PushDir(ds, d, p) \in StackType
  <1>1. /\ ds.entries \in [0 .. MaxEntries - 1 -> SearchType]
        /\ ds.pathSplits \in [0 .. MaxEntries - 1 -> Nat]
        /\ ds.nextEntry \in Nat
    BY DEF TypeOK, StackType
  <1>2. Len(p) \in Nat /\ Len(p) % 256 \in Nat
    OBVIOUS
  <1>3. [ds.entries EXCEPT ![ds.nextEntry] = d] \in [0 .. MaxEntries - 1 -> SearchType]
    BY <1>1
  <1>4. [ds.pathSplits EXCEPT ![ds.nextEntry + 1] = Len(p)] \in [0 .. MaxEntries - 1 -> Nat]
    BY <1>1, <1>2
  <1> QED
    BY <1>1, <1>2, <1>3, <1>4, StackBounds DEF PushDir, StackType

\* What a push that leaves room does to each part of the structure.
LEMMA PushFields ==
  ASSUME TypeOK, NEW d \in SearchType, NEW p \in Seq(Elem), ds.nextEntry + 1 < MaxEntries,
         NEW s, s = PushDir(ds, d, p)
  PROVE  LET n == ds.nextEntry
         IN  /\ s.nextEntry = n + 1
             /\ s.pathName = p
             /\ s.entries[n] = d
             /\ \A i \in 0 .. n - 1 : s.entries[i] = ds.entries[i]
             /\ s.pathSplits[n + 1] = Len(p)
             /\ \A i \in 0 .. n : s.pathSplits[i] = ds.pathSplits[i]
  <1> DEFINE n == ds.nextEntry
  <1>1. /\ n \in Nat /\ n + 1 \in Nat /\ n + 1 < MaxEntries /\ MaxEntries \in Nat
        /\ ds.entries \in [0 .. MaxEntries - 1 -> SearchType]
        /\ ds.pathSplits \in [0 .. MaxEntries - 1 -> Nat]
    BY StackParts, StackBounds
  <1>2. /\ s.nextEntry = n + 1
        /\ s.pathName = p
        /\ s.entries = [ds.entries EXCEPT ![n] = d]
        /\ s.pathSplits = [ds.pathSplits EXCEPT ![n + 1] = Len(p)]
    BY <1>1 DEF PushDir
  <1>3. s.entries[n] = d /\ s.pathSplits[n + 1] = Len(p)
    <2>1. n \in 0 .. MaxEntries - 1 /\ n + 1 \in 0 .. MaxEntries - 1
      BY <1>1
    <2> HIDE DEF n
    <2> QED
      BY <1>1, <1>2, <2>1
  <1>4. ASSUME NEW i \in 0 .. n - 1 PROVE s.entries[i] = ds.entries[i]
    <2>1. i \in 0 .. MaxEntries - 1 /\ i # n
      BY <1>1
    <2> HIDE DEF n
    <2> QED
      BY <1>1, <1>2, <2>1
  <1>5. ASSUME NEW i \in 0 .. n PROVE s.pathSplits[i] = ds.pathSplits[i]
    <2>1. i \in 0 .. MaxEntries - 1 /\ i # n + 1
      BY <1>1
    <2> HIDE DEF n
    <2> QED
      BY <1>1, <1>2, <2>1
  <1> QED
    BY <1>2, <1>3, <1>4, <1>5

-----------------------------------------------------------------------------
(* Initial states *)

LEMMA StrayType ==
  ASSUME NEW l \in Strays
  PROVE  l \in Seq(NonDir) /\ l \in Seq(Entry)
  <1>1. l \in Seq(NonDir)
    BY BackupWorlds DEF NonDir
  <1> QED
    BY <1>1 DEF NonDir

LEMMA InitInv == Init => Inv
  <1> SUFFICES ASSUME Init PROVE Inv
    OBVIOUS
  <1> USE StackBounds
  <1>1. PICK l \in Strays : dir = [dir |-> << >>, left |-> l]
    BY DEF Init
  <1>2. dir \in SearchType /\ dir.left \in Seq(NonDir)
    BY <1>1, StrayType DEF SearchType
  <1>3. /\ ds.entries = [i \in 0 .. MaxEntries - 1 |-> dir]
        /\ ds.pathName = << >>
        /\ ds.pathSplits = [i \in 0 .. MaxEntries - 1 |-> 0]
        /\ ds.nextEntry = 0
    BY DEF Init, InitDirStack
  <1>4. ds \in StackType
    <2>1. /\ ds.entries \in [0 .. MaxEntries - 1 -> SearchType]
          /\ ds.pathName \in Seq(Elem)
          /\ ds.pathSplits \in [0 .. MaxEntries - 1 -> Nat]
          /\ ds.nextEntry \in Nat
      BY <1>2, <1>3
    <2> QED
      BY <2>1 DEF Init, InitDirStack, StackType
  <1>5. TypeOK
    <2>1. rc \in -17 .. 0 /\ retry \in 0 .. MaxRetries + 1
      BY DEF Init, MaxRetries
    <2>4. fs \in Worlds /\ pc \in PCs /\ file \in Entry /\ skipped \in BOOLEAN
      BY Zenon DEF Init, PCs
    <2>2. path \in Seq(Elem) /\ unix \in Seq(Elem) /\ target \in Seq(Elem)
      BY DEF Init
    <2>3. /\ ctrl \in Seq(CtrlType)
          /\ acked \in Seq(AckedType)
      BY DEF Init
    <2> QED
      BY <1>2, <1>4, <2>1, <2>2, <2>3, <2>4 DEF TypeOK
  <1>6. ds.nextEntry = 0 /\ ds.pathSplits[0] = 0 /\ ~Active
    BY <1>3 DEF Init, Active
  <1>7. Tries
    BY DEF Tries, Init, MaxRetries
  <1> QED
    BY <1>2, <1>5, <1>6, <1>7 DEF Inv

-----------------------------------------------------------------------------
(* Actions that leave the stack and the path alone *)

LEMMA StackKept ==
  ASSUME StackInv, UNCHANGED ds
  PROVE  StackInv'
  BY DEF StackInv, Nested, Lengths, Room, Saved

LEMMA HereKept ==
  ASSUME Here, UNCHANGED <<ds, path, unix>>, dir'.dir = dir.dir,
         ds.nextEntry = 0 => dir'.left \in Seq(NonDir) /\ (pc' = "visit" => file'.kind # "dir")
  PROVE  Here'
  BY DEF Here, Rel

LEMMA PrepareFailsInv ==
  ASSUME Inv, NEW r \in -6 .. -1, PrepareFails(r)
  PROVE  Inv'
  <1>1. TypeOK'
    BY DEF Inv, TypeOK, PrepareFails, PCs
  <1>2. ~Active' /\ pc' # "prepare"
    BY DEF PrepareFails, Active
  <1> QED
    BY <1>1, <1>2 DEF Inv, Tries

LEMMA CallsInv ==
  ASSUME Inv, NEW c \in Codes, InitRemote(c) \/ MakeBackupDir(c) \/ ChangeDir(c)
  PROVE  Inv'
  <1>1. TypeOK'
    <2>1. rc' \in -17 .. 0
      <3>1. rc' \in {rc, -7, -8, -9}
        BY DEF InitRemote, MakeBackupDir, ChangeDir
      <3> QED
        BY <3>1, TypeParts DEF Inv
    <2>3. pc' \in PCs
      BY DEF InitRemote, MakeBackupDir, ChangeDir, PCs
    <2>2. UNCHANGED <<fs, path, unix, target, ds, dir, file, retry, ctrl, acked, skipped>>
      BY DEF InitRemote, MakeBackupDir, ChangeDir
    <2> QED
      BY <2>1, <2>2, <2>3 DEF Inv, TypeOK
  <1>2. Active /\ pc' \notin {"prepare", "send", "mkdir"} /\ UNCHANGED <<ds, path, unix, dir>>
    BY DEF InitRemote, MakeBackupDir, ChangeDir, Active
  <1>3. ds.nextEntry # 0
    <2>1. pc \in {"init", "mkroot", "cdroot"}
      BY DEF InitRemote, MakeBackupDir, ChangeDir
    <2> QED
      BY <1>2, <2>1, StackParts DEF Inv, Targets
  <1>4. StackInv'
    BY <1>2, StackKept DEF Inv
  <1>5. Here'
    BY <1>2, <1>3, HereKept DEF Inv
  <1>6. Targets'
    BY <1>2, <1>3, StackParts DEF Inv, Targets
  <1>7. Tries'
    <2>1. UNCHANGED retry
      BY DEF InitRemote, MakeBackupDir, ChangeDir
    <2> QED
      BY <1>2, <2>1 DEF Inv, Tries, MaxRetries
  <1> QED
    BY <1>1, <1>2, <1>4, <1>5, <1>6, <1>7 DEF Inv

\* The actions after which the traversal is over.
LEMMA EndInv ==
  ASSUME Inv,
         \/ Abort \/ PathTooLong \/ OpenFileFails \/ LastClose
         \/ GiveUp \/ Finalize \/ Close
         \/ \E r \in {0, -1, -2} : SendControlFile(r)
  PROVE  Inv'
  <1>1. TypeOK'
    <2>1. CASE OpenFileFails
      <3>1. target' \in Seq(Elem) /\ File(file.name) \in CtrlType
        BY <2>1, NameType DEF Inv, TypeOK, OpenFileFails, Visit, File, CtrlType
      <3> QED
        BY <2>1, <3>1 DEF Inv, TypeOK, OpenFileFails, Visit, File, PCs
    <2>2. CASE Finalize
      <3>1. Eof \in CtrlType
        BY DEF Eof, CtrlType, AckedType
      <3>2. ctrl' \in Seq(CtrlType)
        BY <2>2, <3>1 DEF Inv, TypeOK, Finalize
      <3> QED
        BY <2>2, <3>2 DEF Inv, TypeOK, Finalize, PCs
    <2>3. CASE \E r \in {0, -1, -2} : SendControlFile(r)
      <3>1. Eof \in AckedType
        BY DEF Eof, CtrlType, AckedType
      <3>2. acked' \in Seq(AckedType)
        <4>1. acked' = acked \/ acked' = Append(acked, Eof)
          BY <2>3 DEF SendControlFile
        <4>2. acked \in Seq(AckedType)
          BY DEF Inv, TypeOK
        <4> QED
          BY <3>1, <4>1, <4>2
      <3>3. /\ pc' = "close"
            /\ UNCHANGED <<fs, rc, path, unix, target, ds, dir, file, retry, ctrl, skipped>>
        BY <2>3 DEF SendControlFile
      <3> QED
        BY <3>2, <3>3 DEF Inv, TypeOK, PCs
    <2>4. CASE Abort \/ PathTooLong \/ LastClose \/ GiveUp \/ Close
      <3>0. rc' = rc \/ rc' = -10
        BY <2>4 DEF Abort, PathTooLong, LastClose, GiveUp, Close
      <3>1. rc' \in -17 .. 0 /\ pc' \in PCs
        <4>1. pc' \in {"aborted", "finish", "close", "exit"}
          BY <2>4 DEF Abort, PathTooLong, LastClose, GiveUp, Close
        <4> QED
          BY <3>0, <4>1, TypeParts DEF Inv, PCs
      <3>2. UNCHANGED <<fs, path, unix, target, ds, dir, file, retry, ctrl, acked, skipped>>
        BY <2>4 DEF Abort, PathTooLong, LastClose, GiveUp, Close
      <3> QED
        BY <3>1, <3>2 DEF Inv, TypeOK
    <2> QED
      BY <2>1, <2>2, <2>3, <2>4
  <1>2. ~Active' /\ pc' # "prepare"
    BY DEF Abort, PathTooLong, OpenFileFails, LastClose, GiveUp, Finalize, Close,
           SendControlFile, Active, Visit
  <1> QED
    BY <1>1, <1>2 DEF Inv, Tries

-----------------------------------------------------------------------------
(* Preparation *)

LEMMA PrepareInv ==
  ASSUME Inv, Prepare
  PROVE  Inv'
  <1>0. /\ TypeOK /\ ds.nextEntry = 0 /\ ds.pathSplits[0] = 0 /\ dir.left \in Seq(NonDir)
        /\ dir \in SearchType /\ Root \in Seq(Elem) /\ CanOpen(Root)
        /\ Len(Root) \in Nat /\ MaxEntries \in Nat /\ OpenMax \in Nat
    BY TypeParts, BackupBounds, StackBounds DEF Inv, Prepare
  <1>1. /\ Opened(Root) \in SearchType /\ Opened(Root).dir = Root
        /\ Head(Entries(Root)) \in Entry /\ Len(Root) =< OpenMax
    BY <1>0, OpenedType
  <1>2. 1 < MaxEntries
    BY <1>0, <1>1, BackupBounds
  <1>3. /\ ds'.nextEntry = 1
        /\ ds'.pathName = Root
        /\ ds'.entries[0] = dir
        /\ ds'.pathSplits[1] = Len(Root)
        /\ ds'.pathSplits[0] = 0
    <2>1. ds' = PushDir(ds, dir, Root) /\ ds.nextEntry + 1 < MaxEntries
      BY <1>0, <1>2 DEF Prepare
    <2> QED
      BY <1>0, <2>1, PushFields
  <1>4. unix' = << >> /\ Rel(Root) = << >>
    BY <1>0, <1>3 DEF Prepare, ClearsTail, Rel
  <1>5. TypeOK'
    <2>1. ds' \in StackType
      BY <1>0, PushType DEF Prepare
    <2>2. Header(Root) \in CtrlType
      BY <1>0 DEF Header, CtrlType
    <2>3. ctrl' \in Seq(CtrlType)
      BY <2>2 DEF Prepare
    <2>4. dir' \in SearchType /\ file' \in Entry /\ path' \in Seq(Elem)
      BY <1>0, <1>1 DEF Prepare
    <2>6. unix' \in Seq(Elem)
      BY <1>4
    <2>7. pc' \in PCs
      BY DEF Prepare, PCs
    <2>5. UNCHANGED <<fs, rc, target, retry, acked, skipped>>
      BY DEF Prepare
    <2> QED
      BY <1>0, <2>1, <2>3, <2>4, <2>5, <2>6, <2>7 DEF TypeOK
  <1>6. StackInv'
    <2>1. Nested'
      <3>1. ASSUME NEW i \in 0 .. 1, NEW j \in 0 .. 1, i =< j
            PROVE  ds'.pathSplits[i] =< ds'.pathSplits[j]
        <4>1. (i = 0 /\ j = 0) \/ (i = 0 /\ j = 1) \/ (i = 1 /\ j = 1)
          BY <3>1
        <4> QED
          BY <4>1, <1>0, <1>3
      <3> QED
        BY <3>1, <1>3 DEF Nested
    <2>2. Lengths'
      BY <1>0, <1>3 DEF Lengths
    <2>3. Room' /\ Saved'
      BY <1>0, <1>1, <1>2, <1>3 DEF Room, Saved
    <2> QED
      BY <2>1, <2>2, <2>3 DEF StackInv
  <1>7. Here' /\ Targets' /\ pc' = "init"
    <2>1. path' = Root /\ dir' = Opened(Root) /\ pc' = "init"
      BY DEF Prepare
    <2>2. StartsWith(Root, Root)
      BY <1>0 DEF StartsWith
    <2>3. Rel(path)' = Rel(path')
      BY DEF Rel
    <2>4. Here'
      BY <1>1, <1>3, <1>4, <2>1, <2>2, <2>3 DEF Here
    <2> QED
      BY <1>3, <2>1, <2>4 DEF Targets
  <1>8. Tries'
    <2>1. pc = "prepare" /\ UNCHANGED retry
      BY DEF Prepare
    <2> QED
      BY <2>1 DEF Inv, Tries, MaxRetries
  <1> QED
    BY <1>5, <1>6, <1>7, <1>8 DEF Inv

-----------------------------------------------------------------------------
(* The traversal *)

\* A step on a file, or on the entry that links a directory to itself.
LEMMA VisitInv ==
  ASSUME Inv, VisitDot \/ OpenFile
  PROVE  Inv'
  <1>0. TypeOK /\ file.name \in Seq(Elem) /\ unix \in Seq(Elem) /\ ctrl \in Seq(CtrlType)
    BY NameType, TypeParts DEF Inv
  <1>1. /\ pc = "visit" /\ target' = unix \o file.name
        /\ UNCHANGED <<fs, rc, path, unix, ds, dir, file, retry, acked, skipped>>
    BY DEF VisitDot, OpenFile, Visit
  <1>2. /\ pc' \in {"next", "send"}
        /\ ctrl' = ctrl \/ ctrl' = Append(ctrl, File(file.name))
    BY DEF VisitDot, OpenFile
  <1>3. TypeOK'
    <2>1. File(file.name) \in CtrlType
      BY <1>0 DEF File, CtrlType
    <2>2. ctrl' \in Seq(CtrlType)
      BY <1>0, <1>2, <2>1
    <2>3. target' \in Seq(Elem) /\ pc' \in PCs
      BY <1>0, <1>1, <1>2 DEF PCs
    <2> QED
      BY <1>0, <1>1, <2>2, <2>3 DEF TypeOK
  <1>4. Active /\ StackInv /\ Here
    BY <1>1 DEF Inv, Active
  <1>5. StackInv'
    BY <1>1, <1>4, StackKept
  <1>6. Here'
    BY <1>1, <1>2, <1>4, HereKept DEF Here
  <1>7. Targets'
    BY <1>1, <1>2 DEF Targets
  <1>8. Tries'
    BY <1>1, <1>4 DEF Inv, Tries, MaxRetries
  <1> QED
    BY <1>2, <1>3, <1>5, <1>6, <1>7, <1>8 DEF Inv

LEMMA AttemptInv ==
  ASSUME Inv,
         (\E c \in Codes : MkDirAttempt(c)) \/ (\E r \in {0, -1, -2} : SendAttempt(r))
  PROVE  Inv'
  <1>1. /\ pc \in {"mkdir", "send"}
        /\ UNCHANGED <<fs, path, unix, target, ds, dir, file, ctrl, skipped>>
    BY DEF MkDirAttempt, SendAttempt
  <1>2. /\ pc' \in {pc, "visit", "next", "finish"}
        /\ pc' = "visit" => pc = "mkdir"
    BY DEF MkDirAttempt, SendAttempt
  <1>3. TypeOK'
    <2>1. \/ acked' = acked
          \/ acked' = Append(acked, Dir(target))
          \/ acked' = Append(acked, File(target))
      BY DEF MkDirAttempt, SendAttempt
    <2>7. acked \in Seq(AckedType) /\ Dir(target) \in AckedType /\ File(target) \in AckedType
      BY TypeParts, TargetType DEF Inv
    <2>2. acked' \in Seq(AckedType)
      BY <2>1, <2>7
    <2>3. rc' \in {rc, -14, -16, -17}
      BY DEF MkDirAttempt, SendAttempt
    <2>4. rc' \in -17 .. 0
      BY <2>3, TypeParts DEF Inv
    <2>5. retry \in 0 .. 3
      BY <1>1, TypeParts DEF Inv, Tries, Active, MaxRetries
    <2>6. retry' = 0 \/ retry' = retry + 1
      BY DEF MkDirAttempt, SendAttempt
    <2>8. retry' \in 0 .. MaxRetries + 1
      BY <2>5, <2>6 DEF MaxRetries
    <2>9. pc' \in PCs
      BY <1>1, <1>2 DEF PCs
    <2> QED
      BY <1>1, <2>2, <2>4, <2>8, <2>9 DEF Inv, TypeOK
  <1>4. Active /\ StackInv /\ Here /\ Targets
    BY <1>1 DEF Inv, Active
  <1>5. StackInv'
    BY <1>1, <1>4, StackKept
  <1>6. Here'
    <2>1. pc' = "visit" => ds.nextEntry # 0
      BY <1>2, <1>4, StackParts DEF Inv, Targets
    <2>2. ds.nextEntry = 0 => dir'.left \in Seq(NonDir)
      BY <1>1, <1>4 DEF Here
    <2> QED
      BY <1>1, <1>4, <2>1, <2>2, HereKept
  <1>7. Targets'
    BY <1>1, <1>2, <1>4 DEF Targets
  <1>8. pc' # "prepare"
    BY <1>1, <1>2
  <1>9. Tries'
    <2>1. retry \in Nat /\ MaxRetries = 3
      BY TypeParts DEF Inv, MaxRetries
    <2>2. retry' = 0 \/ (retry' = retry + 1 /\ (retry + 1 =< MaxRetries \/ pc' = "finish"))
      BY DEF MkDirAttempt, SendAttempt
    <2> QED
      BY <1>8, <2>1, <2>2 DEF Tries, Active
  <1> QED
    BY <1>3, <1>5, <1>6, <1>7, <1>8, <1>9 DEF Inv

LEMMA NextEntryInv ==
  ASSUME Inv, NextEntry
  PROVE  Inv'
  <1>1. /\ pc = "next" /\ pc' = "visit" /\ dir.left # << >> /\ file' = Head(dir.left)
        /\ UNCHANGED <<fs, rc, path, unix, target, ds, retry, ctrl, acked, skipped>>
    BY DEF NextEntry
  <1>2. TypeOK /\ dir \in SearchType /\ Active /\ StackInv /\ Here
    BY <1>1, TypeParts DEF Inv, Active
  <1>3. dir'.dir = dir.dir /\ dir'.left = Tail(dir.left) /\ dir' \in SearchType
    <2>1. dir' = [dir EXCEPT !.left = Tail(@)]
      BY DEF NextEntry
    <2>2. Tail(dir.left) \in Seq(Entry)
      BY <1>1, <1>2 DEF SearchType
    <2> QED
      BY <1>2, <2>1, <2>2 DEF SearchType
  <1>4. file' \in Entry
    BY <1>1, <1>2 DEF SearchType
  <1>5. TypeOK'
    BY <1>1, <1>2, <1>3, <1>4 DEF TypeOK, PCs
  <1>6. StackInv'
    BY <1>1, <1>2, StackKept
  <1>7. ds.nextEntry = 0 => dir'.left \in Seq(NonDir) /\ file'.kind # "dir"
    <2>1. SUFFICES ASSUME ds.nextEntry = 0
                   PROVE  dir'.left \in Seq(NonDir) /\ file'.kind # "dir"
      OBVIOUS
    <2>2. dir.left \in Seq(NonDir)
      BY <1>2, <2>1 DEF Here
    <2>3. Tail(dir.left) \in Seq(NonDir) /\ Head(dir.left) \in NonDir
      BY <1>1, <2>2
    <2> QED
      BY <1>1, <1>3, <2>3 DEF NonDir
  <1>8. Here'
    BY <1>1, <1>2, <1>3, <1>7, HereKept
  <1>9. Targets'
    BY <1>1 DEF Targets
  <1>10. Tries'
    BY <1>1, <1>2 DEF Inv, Tries, MaxRetries
  <1> QED
    BY <1>1, <1>5, <1>6, <1>8, <1>9, <1>10 DEF Inv

\* A subdirectory: its path extends the one on the stack, so the lengths stay
\* ordered, every saved directory is still a prefix, and the remote name grows
\* by the same name.
LEMMA EnterDirInv ==
  ASSUME Inv, NEW opens \in BOOLEAN, EnterDir(opens)
  PROVE  Inv'
  <1> DEFINE n == ds.nextEntry
             p == path \o file.name
  <1>1. /\ TypeOK /\ Tries /\ StackInv /\ Here /\ Active
        /\ pc = "visit" /\ file.kind = "dir" /\ target' = unix \o file.name
    BY DEF EnterDir, Visit, Inv, Active
  <1>2. /\ path' = p /\ unix' = UnixAfterCopy(p) /\ ctrl' = Append(ctrl, Dir(file.name))
        /\ UNCHANGED <<fs, retry, acked, skipped>>
    BY DEF EnterDir
  <1>3. /\ file.name \in Seq(Elem) /\ Len(file.name) \in Nat \ {0}
        /\ path \in Seq(Elem) /\ unix \in Seq(Elem) /\ ctrl \in Seq(CtrlType)
        /\ Root \in Seq(Elem) /\ dir \in SearchType
    BY <1>1, NameType, TypeParts, BackupBounds
  <1>4. n \in Nat /\ n >= 1 /\ path = ds.pathName
    BY <1>1, StackParts DEF Here
  <1>5. StartsWith(path, Root) /\ dir.dir = path /\ unix = Rel(path)
    BY <1>1, <1>4 DEF Here
  <1>6. /\ p \in Seq(Elem) /\ Len(p) = Len(path) + Len(file.name)
        /\ StartsWith(p, path) /\ StartsWith(p, Root)
        /\ Rel(p) = Rel(path) \o file.name
    BY <1>3, <1>5, RelOfEntry
  <1>m. Len(file.name) \in Nat /\ Len(file.name) >= 1
    BY <1>3
  <1> HIDE DEF p
  <1>7. Rel(p) \in Seq(Elem) /\ Len(p) \in Nat /\ Len(path) \in Nat /\ Len(Root) \in Nat
    <2>1. Rel(p) \in Seq(Elem)
      BY <1>6, RelType
    <2>2. p \in Seq(Elem) /\ path \in Seq(Elem) /\ Root \in Seq(Elem)
      BY <1>3, <1>6, Zenon
    <2> QED
      BY <2>1, <2>2
  <1>8. Len(p) > Len(Root) /\ unix' = Rel(p) /\ target' = Rel(p)
    <2>1. Len(Root) =< Len(path)
      BY <1>5 DEF StartsWith
    <2>2. Len(p) > Len(Root)
      BY <1>3, <1>6, <1>7, <2>1
    <2> QED
      BY <1>1, <1>2, <1>5, <1>6, <2>2 DEF UnixAfterCopy
  <1>9. Dir(file.name) \in CtrlType
    BY <1>3 DEF Dir, CtrlType
  <1>10. ctrl' \in Seq(CtrlType)
    BY <1>2, <1>3, <1>9
  <1>11. CASE ~(PushRc(ds, path') = 0 /\ opens)
    <2>1. /\ ds' = ds \/ ds' = PushDir(ds, dir, p)
          /\ rc' \in {-12, -13} /\ pc' = "finish" /\ UNCHANGED <<dir, file>>
      BY <1>2, <1>11 DEF EnterDir
    <2>2. ds' \in StackType
      BY <1>1, <1>3, <1>6, <2>1, PushType, TypeParts
    <2>3. rc' \in -17 .. 0 /\ pc' \in PCs
      BY <2>1 DEF PCs
    <2>4. TypeOK'
      BY <1>1, <1>2, <1>6, <1>7, <1>8, <1>10, <2>1, <2>2, <2>3 DEF TypeOK
    <2>5. ~Active' /\ pc' # "prepare"
      BY <2>1 DEF Active
    <2> QED
      BY <2>4, <2>5 DEF Inv, Tries
  <1>12. CASE PushRc(ds, path') = 0 /\ opens
    <2>1. /\ ds' = PushDir(ds, dir, p) /\ dir' = Opened(p) /\ file' = Head(Entries(p))
          /\ pc' = "mkdir" /\ rc' = rc /\ CanOpen(p)
      BY <1>2, <1>12 DEF EnterDir, p
    <2>2. /\ dir' \in SearchType /\ dir'.dir = p /\ file' \in Entry
          /\ Len(p) =< OpenMax
      BY <1>1, <1>6, <2>1, OpenedType
    <2>3. TypeOK'
      <3>1. ds' \in StackType /\ pc' \in PCs
        BY <1>1, <1>3, <1>6, <2>1, PushType DEF PCs
      <3> QED
        BY <1>1, <1>2, <1>6, <1>7, <1>8, <1>10, <2>1, <2>2, <3>1 DEF TypeOK
    <2>4. /\ ds.pathSplits[0] = 0 /\ ds.pathSplits[n] = Len(path)
          /\ ds.pathSplits[1] = Len(Root)
          /\ \A i \in 1 .. n : Len(Root) + i - 1 =< ds.pathSplits[i]
          /\ \A i, j \in 0 .. n : i =< j => ds.pathSplits[i] =< ds.pathSplits[j]
          /\ ds.entries[0].left \in Seq(NonDir)
          /\ \A i \in 1 .. n - 1 : ds.entries[i].dir = SubSeq(path, 1, ds.pathSplits[i])
      BY <1>1, <1>4 DEF StackInv, Lengths, Nested, Saved
    <2>5. n + 1 < MaxEntries /\ Len(Root) + n =< Len(path) + Len(file.name)
      <3>1. Len(Root) + n - 1 =< Len(path)
        BY <1>4, <2>4
      <3>2. Len(path) + Len(file.name) =< OpenMax
        BY <1>6, <2>2
      <3> QED
        BY <1>m, <1>4, <1>7, <3>1, <3>2, RoomForOne
    <2>6. /\ ds'.nextEntry = n + 1
          /\ ds'.pathName = p
          /\ ds'.entries[n] = dir
          /\ \A i \in 0 .. n - 1 : ds'.entries[i] = ds.entries[i]
          /\ ds'.pathSplits[n + 1] = Len(p)
          /\ \A i \in 0 .. n : ds'.pathSplits[i] = ds.pathSplits[i]
      <3>1. /\ TypeOK /\ dir \in SearchType /\ p \in Seq(Elem)
            /\ ds.nextEntry + 1 < MaxEntries /\ ds' = PushDir(ds, dir, p)
        BY <1>1, <1>3, <1>6, <2>1, <2>5
      <3> QED
        BY <3>1, PushFields
    <2>s. \A i \in 0 .. n : ds.pathSplits[i] \in 0 .. Len(path)
      <3>1. ASSUME NEW i \in 0 .. n PROVE ds.pathSplits[i] \in 0 .. Len(path)
        <4>1. i \in 0 .. MaxEntries - 1 /\ n \in 0 .. n /\ i =< n
          BY <1>4, <2>5, StackBounds
        <4>2. ds.pathSplits[i] \in Nat /\ ds.pathSplits[i] =< Len(path)
          BY <1>1, <2>4, <4>1, StackParts
        <4> QED
          BY <4>2, <1>7
      <3> QED
        BY <3>1
    <2> HIDE DEF n
    <2>7. Nested'
      <3>1. ASSUME NEW i \in 0 .. n + 1, NEW j \in 0 .. n + 1, i =< j
            PROVE  ds'.pathSplits[i] =< ds'.pathSplits[j]
        <4>1. CASE j =< n
          <5>1. i \in 0 .. n /\ j \in 0 .. n
            BY <3>1, <4>1, <1>4
          <5> QED
            BY <2>4, <2>6, <3>1, <5>1
        <4>2. CASE j = n + 1 /\ i =< n
          <5>1. i \in 0 .. n
            BY <4>2, <1>4
          <5>2. ds'.pathSplits[i] \in 0 .. Len(path)
            BY <2>6, <2>s, <5>1
          <5> QED
            BY <5>2, <4>2, <2>6, <1>3, <1>6, <1>7
        <4>3. CASE j = n + 1 /\ i = n + 1
          BY <4>3, <2>6, <1>7
        <4>4. j =< n \/ (j = n + 1 /\ i =< n) \/ (j = n + 1 /\ i = n + 1)
          BY <3>1, <1>4
        <4> QED
          BY <4>1, <4>2, <4>3, <4>4
      <3> QED
        BY <3>1, <2>6 DEF Nested
    <2>8. Lengths'
      <3>1. ds'.pathSplits[0] = 0 /\ ds'.pathSplits[1] = Len(Root)
        <4>1. 0 \in 0 .. n /\ 1 \in 0 .. n
          BY <1>4
        <4> QED
          BY <4>1, <2>4, <2>6
      <3>2. ASSUME NEW i \in 1 .. n + 1 PROVE Len(Root) + i - 1 =< ds'.pathSplits[i]
        <4>1. CASE i = n + 1
          <5>1. Len(Root) + i - 1 = Len(Root) + n
            BY <4>1, <1>4, <1>7
          <5>2. ds'.pathSplits[i] = Len(path) + Len(file.name)
            BY <4>1, <2>6, <1>6, Zenon
          <5> QED
            BY <5>1, <5>2, <2>5
        <4>2. CASE i =< n
          <5>1. i \in 1 .. n /\ i \in 0 .. n
            BY <4>2, <1>4, SMT
          <5>2. Len(Root) + i - 1 =< ds.pathSplits[i] /\ ds'.pathSplits[i] = ds.pathSplits[i]
            BY <5>1, <2>4, <2>6, Zenon
          <5> QED
            BY <5>2
        <4>3. i = n + 1 \/ i =< n
          BY <1>4
        <4> QED
          BY <4>1, <4>2, <4>3
      <3> QED
        BY <3>1, <3>2, <2>6 DEF Lengths
    <2>9. Room'
      BY <1>4, <2>2, <2>5, <2>6, StackBounds DEF Room
    <2>10. Saved'
      <3>1. ds'.entries[0].left \in Seq(NonDir)
        <4>1. 0 \in 0 .. n - 1
          BY <1>4
        <4> QED
          BY <4>1, <2>4, <2>6
      <3>2. ASSUME NEW i \in 1 .. n
            PROVE  ds'.entries[i].dir = SubSeq(p, 1, ds'.pathSplits[i])
        <4>1. i \in 0 .. n
          BY <1>4
        <4>2. ds.pathSplits[i] \in 0 .. Len(path) /\ ds'.pathSplits[i] = ds.pathSplits[i]
          BY <4>1, <2>s, <2>6
        <4>3. SubSeq(p, 1, ds'.pathSplits[i]) = SubSeq(path, 1, ds.pathSplits[i])
          <5>1. Starts(p, path)
            BY <1>6, Zenon DEF StartsWith, Starts
          <5>2. p \in Seq(Elem) /\ path \in Seq(Elem)
            BY <1>3, <1>6
          <5>3. SubSeq(p, 1, ds.pathSplits[i]) = SubSeq(path, 1, ds.pathSplits[i])
            BY <4>2, <5>1, <5>2, PrefixOfExtension
          <5> QED
            BY <4>2, <5>3
        <4>4. CASE i =< n - 1
          <5>1. i \in 1 .. n - 1 /\ i \in 0 .. n - 1
            BY <4>4, <1>4
          <5>2. ds'.entries[i].dir = SubSeq(path, 1, ds.pathSplits[i])
            BY <5>1, <2>4, <2>6
          <5> QED
            BY <5>2, <4>3
        <4>5. CASE i = n
          <5>1. SubSeq(path, 1, Len(path)) = path
            BY <1>3
          <5>2. ds'.entries[i].dir = path /\ ds.pathSplits[i] = Len(path)
            BY <4>5, <1>5, <2>4, <2>6
          <5> QED
            BY <5>1, <5>2, <4>3
        <4>6. i =< n - 1 \/ i = n
          BY <1>4
        <4> QED
          BY <4>4, <4>5, <4>6
      <3>3. ds'.nextEntry - 1 = n
        BY <1>4, <2>6
      <3> QED
        BY <3>1, <3>2, <3>3, <2>6 DEF Saved
    <2>11. StackInv'
      BY <2>7, <2>8, <2>9, <2>10 DEF StackInv
    <2>12. Here'
      <3>1. Rel(path)' = Rel(path')
        BY DEF Rel
      <3>2. n + 1 # 0 /\ n + 1 >= 1
        BY <1>4
      <3> QED
        BY <1>2, <1>6, <1>8, <2>2, <2>6, <3>1, <3>2 DEF Here
    <2>13. Targets' /\ Tries'
      <3>1. n + 1 >= 1
        BY <1>4
      <3>2. target' = unix' /\ pc' = "mkdir" /\ ds'.nextEntry >= 1 /\ retry' = retry
        BY <1>2, <1>8, <2>1, <2>6, <3>1
      <3> QED
        BY <1>1, <3>2 DEF Targets, Tries, MaxRetries
    <2> QED
      BY <2>1, <2>3, <2>11, <2>12, <2>13 DEF Inv
  <1> QED
    BY <1>11, <1>12

\* Back to the parent: the truncated path is the recorded prefix of the one
\* that is left, and the search given back is the parent's.  At the root the
\* buffer holds nothing behind the separator because popDir cleared it there.
LEMMA CloseAndPopInv ==
  ASSUME Inv, CloseAndPop
  PROVE  Inv'
  <1> DEFINE n == ds.nextEntry
             k == ds.nextEntry - 1
             m == ds.pathSplits[k]
             q == SubSeq(path, 1, m)
  <1>1. /\ pc = "next" /\ PopRc(ds) = 0
        /\ skipped' = (skipped \/ dir.left # << >>)
        /\ dir' = PoppedSearch(ds) /\ path' = PoppedPath(ds) /\ ds' = PopDir(ds)
        /\ unix' = IF ClearsTail(ds') /\ Len(path') = Len(Root)
                     THEN << >> ELSE UnixAfterCopy(path')
        /\ ctrl' = Append(ctrl, CdUp)
        /\ UNCHANGED <<fs, pc, rc, target, file, retry, acked>>
    BY DEF CloseAndPop
  <1>2. TypeOK /\ Tries /\ StackInv /\ Here
    BY <1>1 DEF Inv, Active
  <1>3. /\ n \in Nat /\ n >= 1 /\ n =< MaxEntries - 1 /\ MaxEntries \in Nat
        /\ k \in Nat /\ k = n - 1
        /\ path = ds.pathName /\ path \in Seq(Elem) /\ Len(path) \in Nat
        /\ Root \in Seq(Elem) /\ Len(Root) \in Nat
    <2>1. n \in 0 .. MaxEntries - 1 /\ n # 0 /\ path = ds.pathName
      BY <1>1, <1>2 DEF StackInv, Room, Here, PopRc
    <2>2. path \in Seq(Elem) /\ Root \in Seq(Elem)
      BY <1>2, TypeParts, BackupBounds
    <2>3. MaxEntries \in Nat /\ Len(path) \in Nat /\ Len(Root) \in Nat
      BY <2>2, StackBounds
    <2> QED
      BY <2>1, <2>2, <2>3
  <1>4. /\ ds.pathSplits[0] = 0 /\ ds.pathSplits[n] = Len(path)
        /\ ds.pathSplits[1] = Len(Root)
        /\ \A i \in 1 .. n : Len(Root) + i - 1 =< ds.pathSplits[i]
        /\ \A i, j \in 0 .. n : i =< j => ds.pathSplits[i] =< ds.pathSplits[j]
        /\ Len(path) =< OpenMax
        /\ ds.entries[0].left \in Seq(NonDir)
        /\ \A i \in 1 .. n - 1 : ds.entries[i].dir = SubSeq(path, 1, ds.pathSplits[i])
    BY <1>2, <1>3 DEF StackInv, Lengths, Nested, Room, Saved
  <1>5. StartsWith(path, Root)
    BY <1>2, <1>3 DEF Here
  <1>6. \A i \in 0 .. n : ds.pathSplits[i] \in 0 .. Len(path)
    <2>1. ASSUME NEW i \in 0 .. n PROVE ds.pathSplits[i] \in 0 .. Len(path)
      <3>1. i \in 0 .. MaxEntries - 1 /\ n \in 0 .. n /\ i =< n
        BY <1>3
      <3>2. ds.pathSplits[i] \in Nat /\ ds.pathSplits[i] =< Len(path)
        BY <1>2, <1>4, <3>1, StackParts
      <3> QED
        BY <3>2, <1>3
    <2> QED
      BY <2>1
  <1>7. /\ ds'.entries = ds.entries /\ ds'.pathName = q /\ ds'.pathSplits = ds.pathSplits
        /\ ds'.nextEntry = k
        /\ dir' = ds.entries[k] /\ path' = q
    BY <1>1, <1>3 DEF PopDir, PoppedPath, PoppedSearch
  <1>8. m \in 0 .. Len(path) /\ q \in Seq(Elem) /\ Len(q) = m
    <2>1. k \in 0 .. n
      BY <1>3
    <2>2. m \in 0 .. Len(path)
      BY <1>6, <2>1
    <2> QED
      BY <1>3, <2>2, PrefixProperties
  <1> HIDE DEF n, k, m, q
  <1>9. StackInv'
    <2>1. Nested'
      <3>1. ASSUME NEW i \in 0 .. k, NEW j \in 0 .. k, i =< j
            PROVE  ds'.pathSplits[i] =< ds'.pathSplits[j]
        <4>1. i \in 0 .. n /\ j \in 0 .. n
          BY <1>3
        <4> QED
          BY <1>4, <1>7, <3>1, <4>1
      <3> QED
        BY <3>1, <1>7 DEF Nested
    <2>2. Lengths'
      <3>1. ds'.pathSplits[0] = 0 /\ ds'.pathSplits[1] = Len(Root)
        BY <1>4, <1>7
      <3>2. ds'.pathSplits[k] = Len(q)
        BY <1>7, <1>8 DEF m, k
      <3>3. ASSUME NEW i \in 1 .. k PROVE Len(Root) + i - 1 =< ds'.pathSplits[i]
        <4>1. i \in 1 .. n
          BY <1>3
        <4> QED
          BY <1>4, <1>7, <4>1
      <3> QED
        BY <3>1, <3>2, <3>3, <1>7 DEF Lengths
    <2>3. Room'
      <3>1. k \in 0 .. MaxEntries - 1
        BY <1>3
      <3>2. Len(q) =< OpenMax
        BY <1>3, <1>4, <1>8, BackupBounds
      <3> QED
        BY <1>7, <3>1, <3>2 DEF Room
    <2>4. Saved'
      <3>1. ASSUME NEW i \in 1 .. k - 1
            PROVE  ds'.entries[i].dir = SubSeq(q, 1, ds'.pathSplits[i])
        <4>1. i \in 1 .. n - 1 /\ i \in 0 .. n /\ k \in 0 .. n /\ i =< k
          BY <1>3
        <4>2. ds.pathSplits[i] \in Nat /\ ds.pathSplits[i] =< m
          BY <1>4, <1>6, <4>1 DEF m, k
        <4>3. ds.pathSplits[i] \in 0 .. m
          BY <4>2, <1>8
        <4>4. SubSeq(q, 1, ds.pathSplits[i]) = SubSeq(path, 1, ds.pathSplits[i])
          BY <1>3, <1>8, <4>3, PrefixOfPrefix DEF q
        <4> QED
          BY <1>4, <1>7, <4>1, <4>4
      <3> QED
        BY <3>1, <1>4, <1>7 DEF Saved
    <2> QED
      BY <2>1, <2>2, <2>3, <2>4 DEF StackInv
  <1>10. /\ k >= 1 => StartsWith(q, Root) /\ dir'.dir = q /\ unix' = Rel(q)
         /\ unix' \in Seq(Elem)
    <2>1. CASE k = 0
      <3>1. unix' = << >> \/ unix' = UnixAfterCopy(q)
        BY <1>1, <1>7
      <3>2. m = 0 /\ ~(Len(q) > Len(Root))
        BY <1>3, <1>4, <1>8, <2>1 DEF m, k
      <3>3. unix' = << >> \/ unix' = unix
        BY <3>1, <3>2 DEF UnixAfterCopy
      <3>4. unix' \in Seq(Elem)
        <4>1. << >> \in Seq(Elem)
          OBVIOUS
        <4>2. unix \in Seq(Elem)
          BY <1>2, TypeParts
        <4> QED
          BY <3>3, <4>1, <4>2, Zenon
      <3>5. ~(k >= 1)
        BY <2>1
      <3> QED
        BY <3>4, <3>5
    <2>2. CASE k >= 1
      <3>1. k \in 1 .. n /\ k \in 1 .. n - 1
        BY <1>3, <2>2
      <3>2. dir'.dir = q
        BY <1>4, <1>7, <3>1 DEF q, m
      <3>3. Len(Root) + k - 1 =< m
        BY <1>4, <3>1 DEF m, k
      <3>4. Len(Root) \in 0 .. m
        BY <1>3, <1>8, <2>2, <3>3
      <3>5. SubSeq(q, 1, Len(Root)) = SubSeq(path, 1, Len(Root))
        BY <1>3, <1>8, <3>4, PrefixOfPrefix DEF q
      <3>6. StartsWith(q, Root)
        BY <1>5, <1>8, <3>4, <3>5 DEF StartsWith
      <3>7. Rel(q) \in Seq(Elem)
        BY <1>8, <3>6, RelType
      <3>8. unix' = Rel(q)
        <4>1. CASE k = 1
          <5>1. ClearsTail(ds')
            BY <1>7, <4>1 DEF ClearsTail
          <5>2. m = Len(Root)
            BY <1>4, <4>1 DEF m, k
          <5>3. unix' = << >>
            BY <1>1, <1>7, <1>8, <5>1, <5>2
          <5>4. Rel(q) = << >>
            BY <1>8, <5>2 DEF Rel
          <5> QED
            BY <5>3, <5>4
        <4>2. CASE k > 1
          <5>1. ~ClearsTail(ds')
            BY <1>3, <1>7, <4>2 DEF ClearsTail
          <5>2. Len(q) > Len(Root)
            BY <1>3, <1>8, <3>3, <4>2
          <5> QED
            BY <1>1, <1>7, <5>1, <5>2 DEF UnixAfterCopy
        <4> QED
          BY <1>3, <2>2, <4>1, <4>2
      <3> QED
        BY <3>2, <3>6, <3>7, <3>8
    <2> QED
      BY <1>3, <2>1, <2>2
  <1>11. Here'
    <2>1. Rel(path)' = Rel(path')
      BY DEF Rel
    <2>2. k = 0 => dir'.left \in Seq(NonDir)
      BY <1>4, <1>7
    <2>3. pc' # "visit"
      BY <1>1
    <2> QED
      BY <1>7, <1>10, <2>1, <2>2, <2>3 DEF Here
  <1>12. TypeOK'
    <2>1. dir' \in SearchType
      <3>1. k \in 0 .. MaxEntries - 1
        BY <1>3
      <3> QED
        BY <1>2, <1>7, <3>1, StackParts
    <2>2. ds' \in StackType
      <3>1. /\ ds'.entries \in [0 .. MaxEntries - 1 -> SearchType]
            /\ ds'.pathName \in Seq(Elem)
            /\ ds'.pathSplits \in [0 .. MaxEntries - 1 -> Nat]
            /\ ds'.nextEntry \in Nat
        BY <1>2, <1>3, <1>7, <1>8, StackParts
      <3> QED
        BY <1>1, <3>1 DEF PopDir, StackType
    <2>3. CdUp \in CtrlType
      BY DEF CdUp, CtrlType
    <2>4. ctrl' \in Seq(CtrlType)
      BY <1>1, <1>2, <2>3, TypeParts
    <2>5. skipped' \in BOOLEAN
      BY <1>1, Zenon
    <2> QED
      BY <1>1, <1>2, <1>7, <1>8, <1>10, <2>1, <2>2, <2>4, <2>5 DEF TypeOK
  <1>13. Targets' /\ Tries'
    BY <1>1, <1>2 DEF Targets, Tries, Active, MaxRetries
  <1> QED
    BY <1>1, <1>9, <1>11, <1>12, <1>13 DEF Inv

LEMMA StutterInv ==
  ASSUME Inv, UNCHANGED vars
  PROVE  Inv'
  BY DEF Inv, TypeOK, vars, Tries, Active, StackInv, Nested, Lengths, Room, Saved,
         Here, Targets, Rel

-----------------------------------------------------------------------------
(* The theorems *)

LEMMA NextInv ==
  ASSUME Inv, [Next]_vars
  PROVE  Inv'
  <1>1. CASE \E r \in -6 .. -1 : PrepareFails(r)
    BY <1>1, PrepareFailsInv
  <1>2. CASE Prepare
    BY <1>2, PrepareInv
  <1>3. CASE \E c \in Codes : InitRemote(c) \/ MakeBackupDir(c) \/ ChangeDir(c)
    BY <1>3, CallsInv
  <1>4. CASE (\E c \in Codes : MkDirAttempt(c)) \/ (\E r \in {0, -1, -2} : SendAttempt(r))
    BY <1>4, AttemptInv
  <1>5. CASE VisitDot \/ OpenFile
    BY <1>5, VisitInv
  <1>6. CASE \E opens \in BOOLEAN : EnterDir(opens)
    BY <1>6, EnterDirInv
  <1>7. CASE NextEntry
    BY <1>7, NextEntryInv
  <1>8. CASE CloseAndPop
    BY <1>8, CloseAndPopInv
  <1>9. CASE \/ Abort \/ PathTooLong \/ OpenFileFails \/ LastClose
             \/ GiveUp \/ Finalize \/ Close
             \/ \E r \in {0, -1, -2} : SendControlFile(r)
    BY <1>9, EndInv
  <1>10. CASE Terminated \/ UNCHANGED vars
    BY <1>10, StutterInv DEF Terminated
  <1> QED
    BY <1>1, <1>2, <1>3, <1>4, <1>5, <1>6, <1>7, <1>8, <1>9, <1>10 DEF Next, Step

LEMMA Invariant == Spec => []Inv
  <1>1. Init => Inv
    BY InitInv
  <1>2. Inv /\ [Next]_vars => Inv'
    BY NextInv
  <1> QED
    BY <1>1, <1>2, PTL DEF Spec

\* The variables of do_backup keep their types, and its error codes are only
\* those of BACKUP.C, for every tree and every server.
THEOREM BackupTypes == Spec => []TypeOK
  <1>1. Inv => TypeOK
    BY DEF Inv
  <1> QED
    BY <1>1, Invariant, PTL

\* Whatever the tree, the limits and the server, every file and directory is
\* sent to the remote name that is its own path below the root (BACKUP.C:125-151,
\* 160-178, 268-277; DIR.C:27-121).
THEOREM WalkMirrorsSource == Spec => []MirrorsSource
  <1>1. Inv => MirrorsSource
    <2> SUFFICES ASSUME Inv, Walking PROVE MirrorsSource
      BY DEF MirrorsSource
    <2>1. /\ TypeOK /\ Active /\ Here /\ Targets /\ ds.nextEntry >= 1
          /\ path \in Seq(Elem) /\ Root \in Seq(Elem) /\ file.name \in Seq(Elem)
      <3>1. TypeOK /\ Active /\ Here /\ Targets /\ ds.nextEntry > 0
        BY DEF Walking, Inv, Active
      <3> QED
        BY <3>1, NameType, TypeParts, StackParts, BackupBounds
    <2>2. StartsWith(path, Root) /\ dir.dir = path /\ unix = Rel(path)
      BY <2>1 DEF Here
    <2>3. Rel(path) \in Seq(Elem) /\ Root \o Rel(path) = path
      BY <2>1, <2>2, RelType
    <2>4. Root \o (Rel(path) \o file.name) = (Root \o Rel(path)) \o file.name
      <3> DEFINE r == Rel(path)
                 m == file.name
      <3>1. Root \in Seq(Elem) /\ r \in Seq(Elem) /\ m \in Seq(Elem)
        BY <2>1, <2>3
      <3> HIDE DEF r, m
      <3>2. Root \o (r \o m) = (Root \o r) \o m
        BY <3>1, ConcatAssociates
      <3> QED
        BY <3>2 DEF r, m
    <2> QED
      BY <2>1, <2>2, <2>3, <2>4 DEF MirrorsSource, Targets
  <1> QED
    BY <1>1, Invariant, PTL

-----------------------------------------------------------------------------
(* Failures *)

\* Where do_backup can be with an error code: between the calls of the
\* preparation, or past the loop.
Failed == rc # 0 => pc \in {"mkroot", "cdroot", "finish", "close", "exit", "aborted"}

LEMMA FailedStep ==
  ASSUME Failed, [Next]_vars
  PROVE  Failed' /\ (rc # 0 => rc' # 0 /\ ctrl' = ctrl /\ acked' = acked)
  <1> USE DEF Failed
  <1>1. CASE (\E r \in -6 .. -1 : PrepareFails(r)) \/ Prepare
    BY <1>1 DEF PrepareFails, Prepare
  <1>2. CASE \E c \in Codes : InitRemote(c) \/ MakeBackupDir(c) \/ ChangeDir(c)
    BY <1>2 DEF InitRemote, MakeBackupDir, ChangeDir
  <1>3. CASE (\E c \in Codes : MkDirAttempt(c)) \/ (\E r \in {0, -1, -2} : SendAttempt(r))
    BY <1>3 DEF MkDirAttempt, SendAttempt
  <1>4. CASE PathTooLong \/ VisitDot \/ OpenFile \/ OpenFileFails
    BY <1>4 DEF PathTooLong, VisitDot, OpenFile, OpenFileFails, Visit
  <1>5. CASE \E opens \in BOOLEAN : EnterDir(opens)
    BY <1>5 DEF EnterDir, Visit
  <1>6. CASE NextEntry \/ CloseAndPop \/ LastClose
    BY <1>6 DEF NextEntry, CloseAndPop, LastClose
  <1>7. CASE \/ GiveUp \/ Finalize \/ Close \/ Abort
             \/ \E r \in {0, -1, -2} : SendControlFile(r)
    BY <1>7 DEF GiveUp, Finalize, Close, Abort, SendControlFile
  <1>8. CASE Terminated \/ UNCHANGED vars
    BY <1>8 DEF Terminated, vars
  <1> QED
    BY <1>1, <1>2, <1>3, <1>4, <1>5, <1>6, <1>7, <1>8 DEF Next, Step

\* A failure is never forgotten, and after it the control file and the server
\* are left as they are, whatever the server answers later (BACKUP.C:105-121,
\* 281-284).
THEOREM FailuresAreFinal == Spec => FailureIsFinal
  <1>1. Init => Failed
    BY DEF Init, Failed
  <1>2. Failed /\ [Next]_vars => Failed'
    BY FailedStep
  <1>3. Failed /\ [Next]_vars => [rc # 0 => rc' # 0 /\ ctrl' = ctrl /\ acked' = acked]_vars
    BY FailedStep
  <1> QED
    BY <1>1, <1>2, <1>3, PTL DEF Spec, FailureIsFinal

-----------------------------------------------------------------------------
(* What the list and the server have of the walk *)

\* The names of the levels that a restore would be at, at the end of the list.
Follows(es) == FoldLeft(Follow, << >>, es)
Trail == Follows(ctrl)
At(i) == FlattenSeq(SubSeq(Trail, 1, i - 1))

\* A restore that has followed the list is where the walk is, and would come back
\* to the directories whose searches are on the stack.
Charted ==
  /\ Trail \in Seq(Seq(Elem))
  /\ unix = FlattenSeq(Trail)
  /\ ds.nextEntry = 0 => Trail = << >>
  /\ ds.nextEntry >= 1 =>
       /\ Len(Trail) = ds.nextEntry - 1
       /\ \A i \in 1 .. ds.nextEntry - 1 : Rel(ds.entries[i].dir) = At(i)

\* Every search is one of a directory of the tree, or was never opened.
Searched ==
  /\ << >> \in DOMAIN fs
  /\ IF ds.nextEntry = 0
       THEN Range(dir.left) \subseteq Range(Stray) /\ (pc # "next" => file \in Range(Stray))
       ELSE /\ unix \in DOMAIN fs
            /\ Range(dir.left) \subseteq Range(fs[unix])
            /\ pc # "next" => file \in Range(fs[unix])
  /\ \A i \in 1 .. ds.nextEntry - 1 :
       At(i) \in DOMAIN fs /\ Range(ds.entries[i].left) \subseteq Range(fs[At(i)])

\* The server has every directory on the way, the innermost one excepted while it
\* is being made.
Made ==
  /\ \A i \in 2 .. ds.nextEntry : i < ds.nextEntry \/ pc # "mkdir" =>
       \E j \in DOMAIN acked : acked[j] = Dir(At(i))
  /\ pc = "mkdir" =>
       /\ ds.nextEntry >= 2
       /\ \E e \in Range(fs[At(ds.nextEntry - 1)]) :
            e.kind = "dir" /\ unix = At(ds.nextEntry - 1) \o e.name

\* What is on its way to the server is listed already.
Announced ==
  /\ pc = "mkdir" => \E i \in Items : Listed(i) = Dir(unix)
  /\ pc = "send"  => file.kind = "file" /\ \E i \in Items : Listed(i) = File(unix \o file.name)

Journal ==
  /\ pc = "prepare" => ctrl = << >> /\ acked = << >> /\ unix = << >>
  /\ Active => Charted /\ Searched /\ Made /\ Announced
  /\ ParentFirst /\ ConfirmedIsListed

-----------------------------------------------------------------------------
(* Following a list *)

\* it[s] is where following the entries with the numbers in s leads.
Fold(it, n, es) ==
  it = [s \in SUBSET (1 .. n) |->
          IF s = {} THEN << >> ELSE Follow(it[s \ {Max(s)}], es[Max(s)])]

\* The largest number, which FoldLeft takes out of a set first.
LEMMA MaxIs ==
  ASSUME NEW n \in Nat, NEW s, s \subseteq 1 .. n + 1, n + 1 \in s
  PROVE  Max(s) = n + 1
<1>1. \A y \in s : n + 1 >= y OBVIOUS
<1>2. \A x \in s : (\A y \in s : x >= y) => x = n + 1 OBVIOUS
<1> QED BY <1>1, <1>2 DEF Max

\* The function that FoldLeft chooses exists.
LEMMA FoldExists ==
  ASSUME NEW es, NEW m \in Nat
  PROVE  \E it : Fold(it, m, es)
<1> DEFINE S == {n \in Nat : \E it : Fold(it, n, es)}
<1>1. 0 \in S
  <2>1. Fold([s \in SUBSET (1 .. 0) |-> << >>], 0, es)
    <3>1. 1 .. 0 = {} OBVIOUS
    <3>2. SUBSET (1 .. 0) = {{}} BY <3>1
    <3>3. \A s \in SUBSET (1 .. 0) : s = {} BY <3>2
    <3> QED BY <3>3, Zenon DEF Fold
  <2> QED BY <2>1, Zenon
<1>2. ASSUME NEW n \in Nat, n \in S PROVE n + 1 \in S
  <2>1. PICK it : Fold(it, n, es) BY <1>2
  <2> DEFINE g == [s \in SUBSET (1 .. n + 1) |->
                     IF n + 1 \in s THEN Follow(it[s \ {n + 1}], es[n + 1]) ELSE it[s]]
  <2>2. ASSUME NEW s \in SUBSET (1 .. n + 1)
        PROVE  g[s] = IF s = {} THEN << >> ELSE Follow(g[s \ {Max(s)}], es[Max(s)])
    <3>1. CASE n + 1 \in s
      <4>1. Max(s) = n + 1 BY <3>1, MaxIs
      <4>2. /\ s \ {n + 1} \in SUBSET (1 .. n + 1) /\ n + 1 \notin s \ {n + 1} /\ s # {}
        BY <3>1
      <4>3. g[s \ {n + 1}] = it[s \ {n + 1}] BY <4>2
      <4>4. g[s] = Follow(it[s \ {n + 1}], es[n + 1]) BY <3>1
      <4> HIDE DEF g
      <4> QED BY <4>1, <4>2, <4>3, <4>4
    <3>2. CASE n + 1 \notin s
      <4>1. s \in SUBSET (1 .. n)
        <5>1. \A x \in s : x \in 1 .. n + 1 /\ x # n + 1 BY <3>2
        <5>2. \A x \in s : x \in 1 .. n BY <5>1
        <5> QED BY <5>2
      <4>2. g[s] = it[s] BY <3>2
      <4>3. it[s] = IF s = {} THEN << >> ELSE Follow(it[s \ {Max(s)}], es[Max(s)])
        BY <2>1, <4>1, Zenon DEF Fold
      <4>4. s \ {Max(s)} \in SUBSET (1 .. n + 1) /\ n + 1 \notin s \ {Max(s)}
        BY <3>2
      <4>5. g[s \ {Max(s)}] = it[s \ {Max(s)}] BY <4>4, Zenon
      <4> HIDE DEF g
      <4> QED BY <4>2, <4>3, <4>5
    <3> QED BY <3>1, <3>2
  <2>3. g = [s \in SUBSET (1 .. n + 1) |-> g[s]] OBVIOUS
  <2> HIDE DEF g
  <2>4. Fold(g, n + 1, es) BY <2>2, <2>3, Zenon DEF Fold
  <2> QED BY <2>4
<1>3. \A n \in Nat : n \in S
  <2> HIDE DEF S
  <2> QED BY <1>1, <1>2, Inductive
<1> QED BY <1>3

LEMMA FollowsIs ==
  ASSUME NEW T, NEW es \in Seq(T)
  PROVE  \E it : Fold(it, Len(es), es) /\ Follows(es) = it[1 .. Len(es)]
<1> DEFINE F(it) == it = [s \in SUBSET (1 .. Len(es)) |->
          IF s = {} THEN << >> ELSE Follow(it[s \ {Max(s)}], es[Max(s)])]
   f == CHOOSE it : F(it)
<1>1. DOMAIN es = 1 .. Len(es) /\ Len(es) \in Nat OBVIOUS
<1>2. Follows(es) = f[1 .. Len(es)]
  BY <1>1 DEF Follows, FoldLeft, MapThenFoldSet
<1>3. \E it : F(it)
  <2>1. PICK it : Fold(it, Len(es), es) BY <1>1, FoldExists
  <2> QED BY <2>1 DEF Fold
<1>4. F(f)
  <2> HIDE DEF F
  <2> QED BY <1>3
<1>5. Fold(f, Len(es), es) BY <1>4, Zenon DEF Fold
<1> HIDE DEF f
<1> QED BY <1>2, <1>5

LEMMA FoldSteps ==
  ASSUME NEW m \in Nat, NEW es, NEW it, Fold(it, m, es)
  PROVE  /\ it[{}] = << >>
         /\ \A i \in 1 .. m : it[1 .. i] = Follow(it[1 .. i - 1], es[i])
<1>1. {} \in SUBSET (1 .. m) OBVIOUS
<1>2. it[{}] = << >> BY <1>1, Zenon DEF Fold
<1>3. ASSUME NEW i \in 1 .. m PROVE it[1 .. i] = Follow(it[1 .. i - 1], es[i])
  <2>1. i - 1 \in Nat /\ (i - 1) + 1 = i BY <1>3
  <2>2. /\ 1 .. i \in SUBSET (1 .. m) /\ 1 .. i # {} /\ (1 .. i) \ {i} = 1 .. i - 1
        /\ i \in 1 .. i
    BY <2>1
  <2>3. Max(1 .. i) = i
    <3>1. 1 .. i \subseteq 1 .. (i - 1) + 1 /\ (i - 1) + 1 \in 1 .. i BY <2>1
    <3>2. Max(1 .. i) = (i - 1) + 1 BY <2>1, <3>1, MaxIs
    <3> QED BY <2>1, <3>2
  <2>4. it[1 .. i] = IF 1 .. i = {} THEN << >>
                     ELSE Follow(it[(1 .. i) \ {Max(1 .. i)}], es[Max(1 .. i)])
    BY <2>2, Zenon DEF Fold
  <2> QED BY <2>2, <2>3, <2>4
<1> QED BY <1>2, <1>3

LEMMA FoldPrefix ==
  ASSUME NEW T, NEW es \in Seq(T), NEW e \in T, NEW it, NEW g, NEW t, t = Append(es, e),
         Fold(it, Len(es), es), Fold(g, Len(t), t)
  PROVE  it[1 .. Len(es)] = g[1 .. Len(es)]
<1> DEFINE S == {n \in Nat : n =< Len(es) => it[1 .. n] = g[1 .. n]}
<1>0. Len(es) \in Nat /\ Len(t) \in Nat /\ Len(t) = Len(es) + 1 OBVIOUS
<1>a. \A i \in 1 .. Len(t) : g[1 .. i] = Follow(g[1 .. i - 1], t[i])
  <2>1. Fold(g, Len(t), t) /\ Len(t) \in Nat BY <1>0
  <2> QED BY ONLY <2>1, FoldSteps
<1>1. 0 \in S
  <2>1. it[{}] = << >> /\ g[{}] = << >> BY <1>0, FoldSteps
  <2>2. 1 .. 0 = {} OBVIOUS
  <2> QED BY <2>1, <2>2
<1>2. ASSUME NEW n \in Nat, n \in S PROVE n + 1 \in S
  <2>1. SUFFICES ASSUME n + 1 =< Len(es) PROVE it[1 .. n + 1] = g[1 .. n + 1]
    OBVIOUS
  <2>2. n + 1 \in 1 .. Len(es) /\ n + 1 \in 1 .. Len(t) /\ (n + 1) - 1 = n
        /\ t[n + 1] = es[n + 1] /\ it[1 .. n] = g[1 .. n]
    BY <1>2, <2>1
  <2>3. it[1 .. n + 1] = Follow(it[1 .. (n + 1) - 1], es[n + 1])
    BY <1>0, <2>2, FoldSteps
  <2>4. g[1 .. n + 1] = Follow(g[1 .. (n + 1) - 1], t[n + 1])
    BY <1>a, <2>2
  <2> QED BY <2>2, <2>3, <2>4
<1>3. \A n \in Nat : n \in S
  <2> HIDE DEF S
  <2> QED BY <1>1, <1>2, Inductive
<1> QED BY <1>0, <1>3

LEMMA FollowsNothing == Follows(<< >>) = << >>
<1>1. << >> \in Seq({}) /\ Len(<< >>) = 0 /\ 1 .. 0 = {} OBVIOUS
<1>2. PICK it : Fold(it, 0, << >>) /\ Follows(<< >>) = it[{}] BY <1>1, FollowsIs
<1> QED BY <1>2, FoldSteps

\* One more entry is followed after the others.
LEMMA FollowsAppend ==
  ASSUME NEW T, NEW es \in Seq(T), NEW e \in T
  PROVE  Follows(Append(es, e)) = Follow(Follows(es), e)
<1>0. PICK t : t = Append(es, e) OBVIOUS
<1>1. /\ t \in Seq(T) /\ Len(t) = Len(es) + 1 /\ Len(es) \in Nat /\ t[Len(t)] = e
  BY <1>0
<1>2. PICK it : Fold(it, Len(es), es) /\ Follows(es) = it[1 .. Len(es)] BY FollowsIs
<1>3. PICK g : Fold(g, Len(t), t) /\ Follows(t) = g[1 .. Len(t)] BY <1>1, FollowsIs
<1>4. it[1 .. Len(es)] = g[1 .. Len(es)] BY <1>0, <1>2, <1>3, FoldPrefix
<1>5. g[1 .. Len(t)] = Follow(g[1 .. Len(t) - 1], t[Len(t)])
  <2>1. Len(t) \in Nat /\ Len(t) \in 1 .. Len(t) BY <1>1
  <2> QED BY <1>3, <2>1, FoldSteps
<1>6. Len(t) - 1 = Len(es) BY <1>1
<1> QED BY <1>0, <1>1, <1>2, <1>3, <1>4, <1>5, <1>6

LEMMA FollowsKept ==
  ASSUME TypeOK, NEW c \in CtrlType, ctrl' = Append(ctrl, c)
  PROVE  Trail' = Follow(Trail, c)
<1>1. ctrl \in Seq(CtrlType) BY TypeParts
<1>2. Follows(Append(ctrl, c)) = Follow(Follows(ctrl), c) BY <1>1, FollowsAppend
<1> QED BY <1>2 DEF Trail

\* What is listed stays so, under the same name.
LEMMA ListedStays ==
  ASSUME TypeOK, ctrl' = ctrl \/ \E c \in CtrlType : ctrl' = Append(ctrl, c)
  PROVE  \A i \in Items : i \in Items' /\ Listed(i)' = Listed(i)
<1>1. ctrl \in Seq(CtrlType) BY TypeParts
<1>2. CASE ctrl' = ctrl BY <1>2 DEF Items, Listed
<1>3. CASE \E c \in CtrlType : ctrl' = Append(ctrl, c)
  <2>1. PICK c \in CtrlType : ctrl' = Append(ctrl, c) BY <1>3
  <2>2. ASSUME NEW i \in 1 .. Len(ctrl)
        PROVE  i \in DOMAIN ctrl' /\ ctrl'[i] = ctrl[i]
               /\ SubSeq(ctrl', 1, i - 1) = SubSeq(ctrl, 1, i - 1)
    BY <1>1, <2>1
  <2>3. DOMAIN ctrl = 1 .. Len(ctrl) BY <1>1
  <2> QED BY <2>2, <2>3 DEF Items, Listed
<1> QED BY <1>2, <1>3

\* The entry written last is listed below the end of the list before it.
LEMMA ListedLast ==
  ASSUME TypeOK, NEW c \in CtrlType, ctrl' = Append(ctrl, c), c.op \in {"d", "f"}
  PROVE  \E i \in Items' : Listed(i)' = [op |-> c.op, name |-> FlattenSeq(Trail) \o c.name]
<1>1. ctrl \in Seq(CtrlType) BY TypeParts
<1>i. PICK i : i = Len(ctrl) + 1 OBVIOUS
<1>2. i \in DOMAIN ctrl' /\ ctrl'[i] = c /\ SubSeq(ctrl', 1, i - 1) = ctrl
  BY <1>1, <1>i
<1>3. i \in Items' BY <1>2 DEF Items
<1>4. Listed(i)' = [op |-> ctrl'[i].op, name |-> Where(SubSeq(ctrl', 1, i - 1)) \o ctrl'[i].name]
  BY DEF Listed
<1>5. Where(ctrl) = FlattenSeq(Trail) BY DEF Where, Trail, Follows
<1> QED BY <1>2, <1>3, <1>4, <1>5

LEMMA RangeParts ==
  ASSUME NEW T, NEW s \in Seq(T), s # << >>
  PROVE  Head(s) \in Range(s) /\ Range(Tail(s)) \subseteq Range(s)
<1>1. 1 \in DOMAIN s /\ Head(s) = s[1] BY DEF Range
<1>2. ASSUME NEW i \in DOMAIN Tail(s) PROVE i + 1 \in DOMAIN s /\ Tail(s)[i] = s[i + 1]
  OBVIOUS
<1> QED BY <1>1, <1>2 DEF Range

-----------------------------------------------------------------------------
(* What was confirmed before stays accounted for *)

LEMMA AckedAppend ==
  ASSUME TypeOK, NEW a \in AckedType, acked' = Append(acked, a)
  PROVE  /\ DOMAIN acked' = DOMAIN acked \cup {Len(acked) + 1}
         /\ acked'[Len(acked) + 1] = a
         /\ \A k \in DOMAIN acked : acked'[k] = acked[k] /\ k \in 1 .. Len(acked)
         /\ DOMAIN acked = 1 .. Len(acked) /\ Len(acked) \in Nat
BY TypeParts

\* The end of the list is no part of the tree.
LEMMA HistoryKept ==
  ASSUME TypeOK, ParentFirst, ConfirmedIsListed,
         UNCHANGED fs, Stray' = Stray, acked' = acked \/ acked' = Append(acked, Eof),
         ctrl' = ctrl \/ \E c \in CtrlType : ctrl' = Append(ctrl, c)
  PROVE  ParentFirst' /\ ConfirmedIsListed'
<1>0. \A i \in Items : i \in Items' /\ Listed(i)' = Listed(i) BY ListedStays
<1>1. CASE acked' = acked
  <2>1. ParentFirst' BY <1>1 DEF ParentFirst
  <2>2. ConfirmedIsListed' BY <1>0, <1>1 DEF ConfirmedIsListed
  <2> QED BY <2>1, <2>2
<1>2. CASE acked' = Append(acked, Eof)
  <2>0. Eof \in AckedType /\ Eof.op = "e" BY TargetType DEF Eof
  <2>1. \A k \in DOMAIN acked' : acked'[k].op # "e" =>
          k \in DOMAIN acked /\ acked'[k] = acked[k] /\ k \in 1 .. Len(acked)
    BY <1>2, <2>0, AckedAppend
  <2>2. \A k \in 1 .. Len(acked) : acked'[k] = acked[k]
    BY <1>2, <2>0, AckedAppend
  <2>3. ParentFirst'
    <3>1. SUFFICES ASSUME NEW k \in DOMAIN acked', acked'[k].op # "e"
                   PROVE  \E d \in DOMAIN fs :
                            /\ d = << >> \/ \E j \in 1 .. k - 1 : acked'[j] = Dir(d)
                            /\ \E e \in Range(fs[d]) \cup Range(Stray) :
                                 acked'[k] = [op |-> Op(e), name |-> d \o e.name]
      BY DEF ParentFirst
    <3>2. k \in DOMAIN acked /\ acked'[k] = acked[k] /\ k \in 1 .. Len(acked)
      BY <2>1, <3>1
    <3>3. PICK d \in DOMAIN fs :
                            /\ d = << >> \/ \E j \in 1 .. k - 1 : acked[j] = Dir(d)
                            /\ \E e \in Range(fs[d]) \cup Range(Stray) :
                                 acked[k] = [op |-> Op(e), name |-> d \o e.name]
      BY <3>1, <3>2 DEF ParentFirst
    <3>4. \A j \in 1 .. k - 1 : acked'[j] = acked[j] BY <2>2, <3>2, TypeParts
    <3> QED BY <3>2, <3>3, <3>4
  <2>4. ConfirmedIsListed' BY <1>0, <2>1 DEF ConfirmedIsListed
  <2> QED BY <2>3, <2>4
<1> QED BY <1>1, <1>2

\* One more directory or file, below one that is there.
LEMMA HistoryGrows ==
  ASSUME TypeOK, ParentFirst, ConfirmedIsListed, UNCHANGED <<fs, ctrl>>, Stray' = Stray,
         NEW a \in AckedType, acked' = Append(acked, a),
         NEW d \in DOMAIN fs, d = << >> \/ \E j \in DOMAIN acked : acked[j] = Dir(d),
         \E e \in Range(fs[d]) \cup Range(Stray) : a = [op |-> Op(e), name |-> d \o e.name],
         \E i \in Items : Listed(i) = a
  PROVE  ParentFirst' /\ ConfirmedIsListed'
<1>0. \A i \in Items : i \in Items' /\ Listed(i)' = Listed(i) BY ListedStays
<1>1. /\ DOMAIN acked' = DOMAIN acked \cup {Len(acked) + 1}
      /\ acked'[Len(acked) + 1] = a
      /\ \A k \in DOMAIN acked : acked'[k] = acked[k] /\ k \in 1 .. Len(acked)
      /\ DOMAIN acked = 1 .. Len(acked) /\ Len(acked) \in Nat
  BY AckedAppend
<1>2. ParentFirst'
  <2>1. SUFFICES ASSUME NEW k \in DOMAIN acked', acked'[k].op # "e"
                 PROVE  \E c \in DOMAIN fs :
                          /\ c = << >> \/ \E j \in 1 .. k - 1 : acked'[j] = Dir(c)
                          /\ \E e \in Range(fs[c]) \cup Range(Stray) :
                               acked'[k] = [op |-> Op(e), name |-> c \o e.name]
    BY DEF ParentFirst
  <2>2. CASE k \in DOMAIN acked
    <3>1. acked'[k] = acked[k] /\ k \in 1 .. Len(acked) BY <1>1, <2>2
    <3>2. PICK c \in DOMAIN fs :
                            /\ c = << >> \/ \E j \in 1 .. k - 1 : acked[j] = Dir(c)
                            /\ \E e \in Range(fs[c]) \cup Range(Stray) :
                                 acked[k] = [op |-> Op(e), name |-> c \o e.name]
      BY <2>1, <2>2, <3>1 DEF ParentFirst
    <3>3. \A j \in 1 .. k - 1 : acked'[j] = acked[j] BY <1>1, <3>1
    <3> QED BY <3>1, <3>2, <3>3
  <2>3. CASE k = Len(acked) + 1
    <3>1. \A j \in DOMAIN acked : j \in 1 .. k - 1 /\ acked'[j] = acked[j]
      BY <1>1, <2>3
    <3>2. acked'[k] = a BY <1>1, <2>3
    <3> QED BY <3>1, <3>2
  <2> QED BY <1>1, <2>2, <2>3
<1>3. ConfirmedIsListed'
  <2>1. SUFFICES ASSUME NEW k \in DOMAIN acked', acked'[k].op # "e"
                 PROVE  \E i \in Items' : Listed(i)' = acked'[k]
    BY DEF ConfirmedIsListed
  <2>2. CASE k \in DOMAIN acked
    BY <1>0, <1>1, <2>1, <2>2 DEF ConfirmedIsListed
  <2>3. CASE k = Len(acked) + 1 BY <1>0, <1>1, <2>3
  <2> QED BY <1>1, <2>2, <2>3
<1> QED BY <1>2, <1>3

-----------------------------------------------------------------------------
(* The walk, and what it has left behind it *)

LEMMA JournalBegins == Init => Journal
<1> SUFFICES ASSUME Init PROVE Journal OBVIOUS
<1>1. /\ pc = "prepare" /\ ctrl = << >> /\ acked = << >> /\ unix = << >>
  BY DEF Init
<1>2. DOMAIN acked = {} BY <1>1
<1> QED BY <1>1, <1>2 DEF Journal, Active, ParentFirst, ConfirmedIsListed

\* When the walk is over the history does not change any more.
LEMMA JournalEnds ==
  ASSUME Inv, Journal, ~Active', pc' # "prepare",
         UNCHANGED fs, Stray' = Stray, acked' = acked \/ acked' = Append(acked, Eof),
         ctrl' = ctrl \/ \E c \in CtrlType : ctrl' = Append(ctrl, c)
  PROVE  Journal'
BY HistoryKept DEF Inv, Journal

LEMMA EndJournal ==
  ASSUME Inv, Journal,
         \/ Abort \/ PathTooLong \/ OpenFileFails \/ LastClose
         \/ GiveUp \/ Finalize \/ Close
         \/ \E r \in -6 .. -1 : PrepareFails(r)
         \/ \E r \in {0, -1, -2} : SendControlFile(r)
  PROVE  Journal'
<1> USE DEF Abort, PathTooLong, OpenFileFails, LastClose, GiveUp, Finalize, Close,
            PrepareFails, SendControlFile, Visit
<1>1. ~Active' /\ pc' # "prepare" BY DEF Active
<1>2. UNCHANGED <<fs, ds>> OBVIOUS
<1>3. acked' = acked \/ acked' = Append(acked, Eof) OBVIOUS
<1>4. ctrl' = ctrl \/ ctrl' = Append(ctrl, File(file.name)) \/ ctrl' = Append(ctrl, Eof)
  OBVIOUS
<1>5. File(file.name) \in CtrlType /\ Eof \in CtrlType
  BY NameType DEF Inv, File, Eof, CtrlType
<1>6. Stray' = Stray BY <1>2 DEF Stray
<1>7. ctrl' = ctrl \/ \E c \in CtrlType : ctrl' = Append(ctrl, c) BY <1>4, <1>5
<1> QED BY <1>1, <1>2, <1>3, <1>6, <1>7, JournalEnds

\* The chart depends on the list only by where it leads.
LEMMA ChartKept ==
  ASSUME Charted, Trail' = Trail, UNCHANGED <<unix, ds>>
  PROVE  Charted' /\ \A i : At(i)' = At(i)
BY DEF Charted, At, Rel

LEMMA SearchedKept ==
  ASSUME Searched, Trail' = Trail, UNCHANGED <<fs, unix, ds>>,
         Range(dir'.left) \subseteq Range(dir.left),
         \/ pc' = "next"
         \/ file' = file /\ pc # "next"
         \/ file' \in Range(dir.left)
  PROVE  Searched'
<1>1. \A i : At(i)' = At(i) BY DEF At
<1>2. Stray' = Stray BY DEF Stray
<1> QED BY <1>1, <1>2 DEF Searched

LEMMA MadeKept ==
  ASSUME Made, Trail' = Trail, UNCHANGED <<fs, unix, ds>>,
         \A j \in DOMAIN acked : j \in DOMAIN acked' /\ acked'[j] = acked[j],
         pc' = "mkdir" => pc = "mkdir",
         pc = "mkdir" => pc' = "mkdir"
  PROVE  Made'
<1>1. \A i : At(i)' = At(i) BY DEF At
<1>2. At(ds.nextEntry - 1)' = At(ds.nextEntry - 1) BY DEF At
<1> QED BY <1>1, <1>2 DEF Made

\* The steps that write no entry and are told nothing.
LEMMA QuietJournal ==
  ASSUME Inv, Journal, Active, UNCHANGED <<fs, ctrl, acked, unix, ds>>,
         pc \notin {"mkdir", "send"}, pc' \notin {"prepare", "mkdir", "send"},
         Range(dir'.left) \subseteq Range(dir.left),
         \/ pc' = "next"
         \/ file' = file /\ pc # "next"
         \/ file' \in Range(dir.left)
  PROVE  Journal'
<1>1. Trail' = Trail BY DEF Trail
<1>2. Charted' BY <1>1, ChartKept DEF Journal
<1>3. Searched' BY <1>1, SearchedKept DEF Journal
<1>4. Made' BY <1>1, MadeKept DEF Journal
<1>5. Announced' BY DEF Announced
<1>6. ParentFirst' /\ ConfirmedIsListed'
  <2>1. Stray' = Stray BY DEF Stray
  <2> QED BY <2>1, HistoryKept DEF Inv, Journal
<1> QED BY <1>2, <1>3, <1>4, <1>5, <1>6 DEF Journal

LEMMA CallsJournal ==
  ASSUME Inv, Journal,
         (\E c \in Codes : InitRemote(c) \/ MakeBackupDir(c) \/ ChangeDir(c)) \/ VisitDot
  PROVE  Journal'
<1> USE DEF InitRemote, MakeBackupDir, ChangeDir, VisitDot, Visit
<1>1. Active /\ pc \notin {"mkdir", "send", "next"} /\ pc' \notin {"prepare", "mkdir", "send"}
  BY DEF Active
<1>2. UNCHANGED <<fs, ctrl, acked, unix, ds, dir, file>> OBVIOUS
<1> QED BY <1>1, <1>2, QuietJournal

LEMMA NextEntryJournal ==
  ASSUME Inv, Journal, NextEntry
  PROVE  Journal'
<1>1. /\ pc = "next" /\ pc' = "visit" /\ dir.left # << >> /\ file' = Head(dir.left)
      /\ dir' = [dir EXCEPT !.left = Tail(@)]
      /\ UNCHANGED <<fs, ctrl, acked, unix, ds>>
  BY DEF NextEntry
<1>2. dir \in SearchType /\ dir.left \in Seq(Entry) BY TypeParts DEF Inv, SearchType
<1>3. dir'.left = Tail(dir.left) BY <1>1, <1>2 DEF SearchType
<1>4. Head(dir.left) \in Range(dir.left) /\ Range(Tail(dir.left)) \subseteq Range(dir.left)
  BY <1>1, <1>2, RangeParts
<1> QED BY <1>1, <1>3, <1>4, QuietJournal DEF Active

\* A file is listed where the restore will be.
LEMMA OpenFileJournal ==
  ASSUME Inv, Journal, OpenFile
  PROVE  Journal'
<1>1. /\ pc = "visit" /\ pc' = "send" /\ file.kind = "file"
      /\ ctrl' = Append(ctrl, File(file.name))
      /\ UNCHANGED <<fs, acked, unix, ds, dir, file>>
  BY DEF OpenFile, Visit
<1>2. TypeOK /\ File(file.name) \in CtrlType /\ Active
  BY <1>1, NameType DEF Inv, File, CtrlType, Active
<1>3. Trail' = Trail
  <2>1. Trail' = Follow(Trail, File(file.name)) BY <1>1, <1>2, FollowsKept
  <2> QED BY <2>1 DEF Follow, File
<1>4. Charted' BY <1>1, <1>2, <1>3, ChartKept DEF Journal
<1>5. Searched' BY <1>1, <1>2, <1>3, SearchedKept DEF Journal
<1>6. Made' BY <1>1, <1>2, <1>3, MadeKept DEF Journal
<1>7. Announced'
  <2>1. \E i \in Items' : Listed(i)' = [op |-> "f", name |-> FlattenSeq(Trail) \o file.name]
    BY <1>1, <1>2, ListedLast DEF File
  <2>2. FlattenSeq(Trail) = unix BY <1>2 DEF Journal, Charted
  <2> QED BY <1>1, <2>1, <2>2 DEF Announced, File
<1>8. ParentFirst' /\ ConfirmedIsListed'
  <2>1. Stray' = Stray BY <1>1 DEF Stray
  <2> QED BY <1>1, <1>2, <2>1, HistoryKept DEF Journal
<1> QED BY <1>1, <1>4, <1>5, <1>6, <1>7, <1>8 DEF Journal

\* The level the walk is at, and the one above it.
LEMMA AtHere ==
  ASSUME Inv, Journal, Active, ds.nextEntry >= 1
  PROVE  At(ds.nextEntry) = unix
<1>1. Trail \in Seq(Seq(Elem)) /\ Len(Trail) = ds.nextEntry - 1 /\ unix = FlattenSeq(Trail)
  BY DEF Journal, Charted
<1>2. SubSeq(Trail, 1, ds.nextEntry - 1) = Trail BY <1>1
<1> QED BY <1>1, <1>2 DEF At

\* A directory is made below one that is there, and then is there.
LEMMA MkDirJournal ==
  ASSUME Inv, Journal, NEW c \in Codes, MkDirAttempt(c)
  PROVE  Journal'
<1>1. /\ pc = "mkdir" /\ pc' \in {"mkdir", "visit", "finish"}
      /\ UNCHANGED <<fs, unix, ds, dir, file, ctrl>>
      /\ pc' = "visit" => c = "SUCCESS"
      /\ acked' = IF c = "SUCCESS" THEN Append(acked, Dir(target)) ELSE acked
  <2>1. retry \in Int BY TypeParts DEF Inv
  <2> QED BY <2>1 DEF MkDirAttempt, MaxRetries
<1>2. /\ TypeOK /\ Active /\ target = unix /\ Dir(target) \in AckedType
      /\ Stray' = Stray /\ Trail' = Trail
  BY <1>1, TargetType DEF Inv, Targets, Active, Stray, Trail
<1>3. /\ Charted /\ Searched /\ Made /\ Announced /\ ParentFirst /\ ConfirmedIsListed
      /\ ds.nextEntry \in Nat /\ ds.nextEntry >= 2
  BY <1>1, <1>2, StackParts DEF Journal, Made
<1> DEFINE n == ds.nextEntry
<1>4. ParentFirst' /\ ConfirmedIsListed'
  <2>1. CASE c # "SUCCESS" BY <1>1, <1>2, <1>3, <2>1, HistoryKept
  <2>2. CASE c = "SUCCESS"
    <3> DEFINE d == At(n - 1)
    <3>1. d \in DOMAIN fs
      <4>1. n - 1 \in 1 .. n - 1 BY <1>3
      <4> QED BY <1>3, <4>1 DEF Searched
    <3>2. d = << >> \/ \E j \in DOMAIN acked : acked[j] = Dir(d)
      <4>1. CASE n = 2
        <5>1. Trail \in Seq(Seq(Elem)) BY <1>3 DEF Charted
        <5>2. SubSeq(Trail, 1, 0) = << >> BY <5>1
        <5>3. (n - 1) - 1 = 0 BY <4>1
        <5> QED BY <5>2, <5>3, FlattenNothing DEF At
      <4>2. CASE n # 2
        <5>1. n - 1 \in 2 .. n /\ n - 1 < n BY <1>3, <4>2
        <5> QED BY <1>3, <5>1 DEF Made
      <4> QED BY <4>1, <4>2
    <3>3. \E e \in Range(fs[d]) \cup Range(Stray) :
            Dir(target) = [op |-> Op(e), name |-> d \o e.name]
      BY <1>1, <1>2, <1>3 DEF Made, Op, Dir
    <3>4. \E i \in Items : Listed(i) = Dir(target) BY <1>1, <1>2, <1>3 DEF Announced
    <3>5. acked' = Append(acked, Dir(target)) BY <1>1, <2>2
    <3> HIDE DEF d
    <3> QED BY <1>1, <1>2, <1>3, <3>1, <3>2, <3>3, <3>4, <3>5, HistoryGrows
  <2> QED BY <2>1, <2>2
<1>5. CASE pc' = "finish" BY <1>4, <1>5 DEF Journal, Active
<1>6. CASE pc' # "finish"
  <2>1. Charted' BY <1>1, <1>2, <1>3, ChartKept
  <2>2. Searched'
    BY <1>1, <1>2, <1>3, SearchedKept
  <2>3. \A j \in DOMAIN acked : j \in DOMAIN acked' /\ acked'[j] = acked[j]
    BY <1>1, <1>2, AckedAppend
  <2>4. Made'
    <3>1. CASE pc' = "mkdir" BY <1>1, <1>2, <1>3, <2>3, <3>1, MadeKept
    <3>2. CASE pc' = "visit"
      <4>1. \A i : At(i)' = At(i) BY <1>2 DEF At
      <4>2. At(n) = unix BY <1>2, <1>3, AtHere
      <4>3. acked' = Append(acked, Dir(unix)) BY <1>1, <1>2, <3>2
      <4>4. acked'[Len(acked) + 1] = Dir(At(n)) /\ Len(acked) + 1 \in DOMAIN acked'
        BY <1>2, <4>2, <4>3, AckedAppend
      <4>5. ASSUME NEW i \in 2 .. n PROVE \E j \in DOMAIN acked' : acked'[j] = Dir(At(i))
        <5>1. CASE i = n BY <4>4, <5>1
        <5>2. CASE i # n
          <6>1. i < n BY <1>3, <5>2
          <6>2. \E j \in DOMAIN acked : acked[j] = Dir(At(i)) BY <1>3, <6>1 DEF Made
          <6> QED BY <2>3, <6>2
        <5> QED BY <5>1, <5>2
      <4> QED BY <1>1, <3>2, <4>1, <4>5 DEF Made
    <3> QED BY <1>1, <1>6, <3>1, <3>2
  <2>5. Announced'
    <3>1. \A i \in Items : i \in Items' /\ Listed(i)' = Listed(i) BY <1>1, <1>2, ListedStays
    <3>2. pc' # "send" BY <1>1
    <3> QED BY <1>1, <1>3, <3>1, <3>2 DEF Announced
  <2>6. pc' # "prepare" BY <1>1
  <2> QED BY <1>4, <2>1, <2>2, <2>4, <2>5, <2>6 DEF Journal
<1> QED BY <1>5, <1>6

\* A file is stored in a directory that is there.
LEMMA SendJournal ==
  ASSUME Inv, Journal, NEW r \in {0, -1, -2}, SendAttempt(r)
  PROVE  Journal'
<1>1. /\ pc = "send" /\ pc' \in {"send", "next", "finish"}
      /\ UNCHANGED <<fs, unix, ds, dir, file, ctrl>>
      /\ acked' = IF r = 0 THEN Append(acked, File(target)) ELSE acked
  BY DEF SendAttempt
<1>2. /\ TypeOK /\ Active /\ target = unix \o file.name /\ File(target) \in AckedType
      /\ Stray' = Stray /\ Trail' = Trail
  BY <1>1, TargetType DEF Inv, Targets, Active, Stray, Trail
<1>3. /\ Charted /\ Searched /\ Made /\ Announced /\ ParentFirst /\ ConfirmedIsListed
      /\ ds.nextEntry \in Nat
  BY <1>1, <1>2, StackParts DEF Journal
<1> DEFINE n == ds.nextEntry
<1>4. ParentFirst' /\ ConfirmedIsListed'
  <2>1. CASE r # 0 BY <1>1, <1>2, <1>3, <2>1, HistoryKept
  <2>2. CASE r = 0
    <3>1. unix \in DOMAIN fs /\ file \in Range(fs[unix]) \cup Range(Stray)
      <4>1. CASE n = 0
        <5>1. unix = << >> BY <1>3, <4>1, FlattenNothing DEF Charted
        <5> QED BY <1>1, <1>3, <4>1, <5>1 DEF Searched
      <4>2. CASE n # 0 BY <1>1, <1>3, <4>2 DEF Searched
      <4> QED BY <4>1, <4>2
    <3>2. unix = << >> \/ \E j \in DOMAIN acked : acked[j] = Dir(unix)
      <4>1. CASE n =< 1
        <5>1. Trail \in Seq(Seq(Elem)) /\ (n >= 1 => Len(Trail) = n - 1)
          BY <1>3 DEF Charted
        <5>2. Trail = << >>
          <6>1. CASE n = 0 BY <1>3, <6>1 DEF Charted
          <6>2. CASE n = 1
            <7>1. Len(Trail) = 0 BY <5>1, <6>2
            <7> QED BY <5>1, <7>1
          <6> QED BY <1>3, <4>1, <6>1, <6>2
        <5> QED BY <1>3, <5>2, FlattenNothing DEF Charted
      <4>2. CASE n > 1
        <5>1. n \in 2 .. n /\ pc # "mkdir" /\ n >= 1 BY <1>1, <1>3, <4>2
        <5>2. At(n) = unix BY <1>2, <5>1, AtHere
        <5>3. \E j \in DOMAIN acked : acked[j] = Dir(At(n)) BY <1>3, <5>1 DEF Made
        <5> QED BY <5>2, <5>3
      <4> QED BY <1>3, <4>1, <4>2
    <3>3. File(target) = [op |-> Op(file), name |-> unix \o file.name]
      BY <1>1, <1>2, <1>3 DEF Announced, Op, File
    <3>4. \E i \in Items : Listed(i) = File(target) BY <1>1, <1>2, <1>3 DEF Announced
    <3>5. acked' = Append(acked, File(target)) BY <1>1, <2>2
    <3>6. \E e \in Range(fs[unix]) \cup Range(Stray) :
            File(target) = [op |-> Op(e), name |-> unix \o e.name]
      BY <3>1, <3>3
    <3> QED BY <1>1, <1>2, <1>3, <3>1, <3>2, <3>4, <3>5, <3>6, HistoryGrows
  <2> QED BY <2>1, <2>2
<1>5. CASE pc' = "finish" BY <1>4, <1>5 DEF Journal, Active
<1>6. CASE pc' # "finish"
  <2>1. Charted' BY <1>1, <1>2, <1>3, ChartKept
  <2>2. Searched' BY <1>1, <1>2, <1>3, SearchedKept
  <2>3. \A j \in DOMAIN acked : j \in DOMAIN acked' /\ acked'[j] = acked[j]
    BY <1>1, <1>2, AckedAppend
  <2>4. Made' BY <1>1, <1>2, <1>3, <2>3, MadeKept
  <2>5. Announced'
    <3>1. \A i \in Items : i \in Items' /\ Listed(i)' = Listed(i) BY <1>1, <1>2, ListedStays
    <3> QED BY <1>1, <1>3, <3>1 DEF Announced
  <2>6. pc' # "prepare" BY <1>1
  <2> QED BY <1>4, <2>1, <2>2, <2>4, <2>5, <2>6 DEF Journal
<1> QED BY <1>5, <1>6

\* What the walk finds when it has gone down a level.
LEMMA DirEntered ==
  ASSUME Inv, NEW opens \in BOOLEAN, EnterDir(opens), pc' = "mkdir"
  PROVE  /\ ds.nextEntry \in Nat /\ ds.nextEntry >= 1 /\ ds'.nextEntry = ds.nextEntry + 1
         /\ ds'.entries[ds.nextEntry] = dir
         /\ \A i \in 0 .. ds.nextEntry - 1 : ds'.entries[i] = ds.entries[i]
         /\ unix' = unix \o file.name /\ Rel(dir.dir) = unix
         /\ unix' \in DOMAIN fs
         /\ fs[unix'] # << >> /\ dir'.left = Tail(fs[unix']) /\ file' = Head(fs[unix'])
         /\ Range(dir'.left) \subseteq Range(fs[unix']) /\ file' \in Range(fs[unix'])
<1> DEFINE n == ds.nextEntry
<1>1. /\ pc = "visit" /\ file.kind = "dir" /\ path' = path \o file.name
      /\ unix' = UnixAfterCopy(path') /\ UNCHANGED fs
      /\ ds' = PushDir(ds, dir, path') /\ dir' = Opened(path')
      /\ file' = Head(Entries(path')) /\ opens
  BY DEF EnterDir, Visit
<1>2. CanOpen(path') BY <1>1 DEF EnterDir
<1>3. /\ TypeOK /\ StackInv /\ Here /\ path \in Seq(Elem) /\ dir \in SearchType
      /\ file.name \in Seq(Elem) /\ Len(file.name) \in Nat \ {0} /\ unix \in Seq(Elem)
  BY <1>1, TypeParts, NameType DEF Inv, Active
<1>4. n \in Nat /\ n >= 1 /\ path = ds.pathName
  BY <1>1, <1>3, StackParts DEF Here
<1>5. StartsWith(path, Root) /\ dir.dir = path /\ unix = Rel(path)
  BY <1>3, <1>4 DEF Here
<1>6. /\ path' \in Seq(Elem) /\ Len(path') = Len(path) + Len(file.name)
      /\ Rel(path') = Rel(path) \o file.name
  BY <1>1, <1>3, <1>5, RelOfEntry
<1>7. unix' = Rel(path')
  <2>1. Len(Root) =< Len(path) BY <1>5 DEF StartsWith
  <2>2. Len(Root) \in Nat /\ Len(path) \in Nat BY <1>3, BackupBounds
  <2>3. Len(path') > Len(Root) BY <1>3, <1>6, <2>1, <2>2
  <2> QED BY <1>1, <2>3 DEF UnixAfterCopy
<1>8. n + 1 < MaxEntries
  <2>1. Len(Root) + n - 1 =< Len(path)
    <3>1. n \in 1 .. n BY <1>4
    <3> QED BY <1>3, <1>4, <3>1 DEF StackInv, Lengths
  <2>2. Len(path) + Len(file.name) =< OpenMax BY <1>2, <1>6 DEF CanOpen
  <2>3. Len(path) \in Nat /\ Len(file.name) \in Nat /\ Len(file.name) >= 1 BY <1>3
  <2> QED BY <1>4, <2>1, <2>2, <2>3, RoomForOne
<1>9. /\ ds'.nextEntry = n + 1 /\ ds'.entries[n] = dir
      /\ \A i \in 0 .. n - 1 : ds'.entries[i] = ds.entries[i]
  <2>1. ds' = PushDir(ds, dir, path') /\ path' \in Seq(Elem) BY <1>1, <1>6
  <2> QED BY <1>3, <1>8, <2>1, PushFields
<1>10. /\ Entries(path') \in Seq(Entry) /\ Entries(path') # << >>
  BY <1>2, <1>3, <1>6, EntriesType DEF CanOpen
<1>11. unix' \in DOMAIN fs /\ Entries(path') = fs[unix']
  BY <1>7, <1>10 DEF Entries
<1>12. /\ fs[unix'] # << >> /\ dir'.left = Tail(fs[unix']) /\ file' = Head(fs[unix'])
       /\ Range(dir'.left) \subseteq Range(fs[unix']) /\ file' \in Range(fs[unix'])
  <2>1. Head(Entries(path')) \in Range(Entries(path'))
        /\ Range(Tail(Entries(path'))) \subseteq Range(Entries(path'))
    BY <1>10, RangeParts
  <2>2. dir'.left = Tail(Entries(path')) BY <1>1 DEF Opened
  <2> QED BY <1>1, <1>10, <1>11, <2>1, <2>2
<1> QED BY <1>4, <1>5, <1>6, <1>7, <1>9, <1>11, <1>12

\* The list has gone down with it.
LEMMA TrailDown ==
  ASSUME Inv, Journal, NEW opens \in BOOLEAN, EnterDir(opens), pc' = "mkdir"
  PROVE  /\ Trail' = Append(Trail, file.name)
         /\ Trail' \in Seq(Seq(Elem)) /\ Len(Trail') = ds.nextEntry
         /\ FlattenSeq(Trail') = unix'
         /\ \A i \in 1 .. ds.nextEntry : At(i)' = At(i)
         /\ \A i : i = ds.nextEntry + 1 => At(i)' = unix'
<1> DEFINE n == ds.nextEntry
           m == file.name
<1>1. pc = "visit" /\ ctrl' = Append(ctrl, Dir(m)) BY DEF EnterDir, Visit
<1>2. /\ TypeOK /\ Charted /\ m \in Seq(Elem) /\ Dir(m) \in CtrlType
  BY <1>1, NameType DEF Inv, Dir, CtrlType, Active, Journal
<1>3. n \in Nat /\ n >= 1 /\ unix' = unix \o m BY DirEntered
<1>4. /\ Trail \in Seq(Seq(Elem)) /\ Len(Trail) = n - 1 /\ FlattenSeq(Trail) = unix
      /\ Len(Trail) \in Nat
  BY <1>2, <1>3 DEF Charted
<1>5. Trail' = Append(Trail, m)
  <2>1. Trail' = Follow(Trail, Dir(m)) BY <1>1, <1>2, FollowsKept
  <2> QED BY <2>1 DEF Follow, Dir
<1>6. Trail' \in Seq(Seq(Elem)) /\ Len(Trail') = n BY <1>2, <1>3, <1>4, <1>5
<1>7. FlattenSeq(Trail') = unix' BY <1>2, <1>3, <1>4, <1>5, FlattenAppend
<1>8. ASSUME NEW i \in 1 .. n PROVE At(i)' = At(i)
  <2>1. i - 1 \in 0 .. Len(Trail) BY <1>3, <1>4
  <2>2. SubSeq(Append(Trail, m), 1, i - 1) = SubSeq(Trail, 1, i - 1)
    BY <1>2, <1>4, <2>1
  <2> QED BY <1>5, <2>2 DEF At
<1>9. ASSUME NEW i, i = n + 1 PROVE At(i)' = unix'
  <2>1. SubSeq(Trail', 1, i - 1) = Trail' BY <1>3, <1>6, <1>9
  <2> QED BY <1>7, <2>1 DEF At
<1> QED BY <1>5, <1>6, <1>7, <1>8, <1>9

\* The old levels stay where they were, and the new one is the last.
LEMMA EnterDirJournal ==
  ASSUME Inv, Journal, NEW opens \in BOOLEAN, EnterDir(opens)
  PROVE  Journal'
<1> DEFINE n == ds.nextEntry
           m == file.name
<1>1. /\ pc = "visit" /\ pc' \in {"mkdir", "finish"} /\ file.kind = "dir"
      /\ ctrl' = Append(ctrl, Dir(m)) /\ UNCHANGED <<fs, acked>>
  BY DEF EnterDir, Visit
<1>2. /\ TypeOK /\ Active /\ m \in Seq(Elem) /\ Dir(m) \in CtrlType
      /\ Charted /\ Searched /\ Made /\ n \in Nat /\ n # 0
  BY <1>1, NameType, StackParts DEF Inv, Dir, CtrlType, Active, Journal, Here
<1>3. Stray' = Stray
  <2>1. ds' = ds \/ ds' = PushDir(ds, dir, path') BY DEF EnterDir
  <2>2. CASE ds' = ds BY <2>2 DEF Stray
  <2>3. CASE ds' = PushDir(ds, dir, path')
    <3>1. ds'.entries = [ds.entries EXCEPT ![n] = dir] BY <2>3, Zenon DEF PushDir
    <3>2. 0 \in DOMAIN ds.entries BY <1>2, StackParts, StackBounds
    <3>3. ds'.entries[0] = ds.entries[0] BY <1>2, <3>1, <3>2
    <3> QED BY <3>3 DEF Stray
  <2> QED BY <2>1, <2>2, <2>3
<1>4. ParentFirst' /\ ConfirmedIsListed' BY <1>1, <1>2, <1>3, HistoryKept DEF Journal
<1>5. CASE pc' = "finish" BY <1>4, <1>5 DEF Journal, Active
<1>6. CASE pc' = "mkdir"
  <2>1. /\ n >= 1 /\ ds'.nextEntry = n + 1
        /\ ds'.entries[n] = dir
        /\ \A i \in 0 .. n - 1 : ds'.entries[i] = ds.entries[i]
        /\ unix' = unix \o m /\ Rel(dir.dir) = unix
        /\ unix' \in DOMAIN fs
        /\ Range(dir'.left) \subseteq Range(fs[unix']) /\ file' \in Range(fs[unix'])
    BY <1>6, DirEntered
  <2>2. /\ Trail \in Seq(Seq(Elem)) /\ Len(Trail) = n - 1 /\ FlattenSeq(Trail) = unix
        /\ Len(Trail) \in Nat
    BY <1>2, <2>1 DEF Charted
  <2>3. Trail' = Append(Trail, m) /\ Trail' \in Seq(Seq(Elem)) /\ Len(Trail') = n
    BY <1>6, TrailDown
  <2>5. FlattenSeq(Trail') = unix' BY <1>6, TrailDown
  <2>6. \A i \in 1 .. n : At(i)' = At(i) BY <1>6, TrailDown
  <2>7. At(n) = unix BY <1>2, <2>1, AtHere
  <2>8. Charted'
    <3>1. ASSUME NEW i \in 1 .. n PROVE Rel(ds'.entries[i].dir) = At(i)
      <4>1. CASE i = n BY <2>1, <2>7, <4>1
      <4>2. CASE i # n
        <5>1. i \in 1 .. n - 1 /\ i \in 0 .. n - 1 BY <1>2, <4>2
        <5> QED BY <1>2, <2>1, <5>1 DEF Charted
      <4> QED BY <4>1, <4>2
    <3>2. /\ ds'.nextEntry - 1 = n /\ ds'.nextEntry # 0 BY <1>2, <2>1
    <3>3. \A i \in 1 .. ds'.nextEntry - 1 : Rel(ds'.entries[i].dir) = At(i)'
      BY <2>6, <3>1, <3>2
    <3> QED BY <2>3, <2>5, <3>2, <3>3 DEF Charted, Rel
  <2>9. Searched'
    <3>1. ASSUME NEW i \in 1 .. n
          PROVE  At(i) \in DOMAIN fs /\ Range(ds'.entries[i].left) \subseteq Range(fs[At(i)])
      <4>1. CASE i = n BY <1>2, <2>1, <2>7, <4>1 DEF Searched
      <4>2. CASE i # n
        <5>1. i \in 1 .. n - 1 /\ i \in 0 .. n - 1 BY <1>2, <4>2
        <5> QED BY <1>2, <2>1, <5>1 DEF Searched
      <4> QED BY <4>1, <4>2
    <3>2. /\ ds'.nextEntry - 1 = n /\ ds'.nextEntry # 0 BY <1>2, <2>1
    <3> QED BY <1>1, <1>2, <2>1, <2>6, <3>1, <3>2 DEF Searched
  <2>10. Made'
    <3>1. ASSUME NEW i \in 2 .. n PROVE \E j \in DOMAIN acked : acked[j] = Dir(At(i))
      BY <1>1, <1>2, <3>1 DEF Made
    <3>2. \A i \in 2 .. n + 1 : i < n + 1 => i \in 2 .. n BY <1>2
    <3>3. \E e \in Range(fs[At(n)]) : e.kind = "dir" /\ unix' = At(n) \o e.name
      <4>1. file \in Range(fs[unix]) BY <1>1, <1>2 DEF Searched
      <4> QED BY <1>1, <2>1, <2>7, <4>1
    <3>4. At(ds.nextEntry - 1)' = At(n)
      <4>1. n \in 1 .. n /\ ds'.nextEntry - 1 = n BY <1>2, <2>1
      <4>2. At(n) = FlattenSeq(SubSeq(Trail, 1, n - 1)) BY DEF At
      <4>3. SubSeq(Trail', 1, (ds'.nextEntry - 1) - 1) = SubSeq(Trail, 1, n - 1)
        BY <1>2, <2>2, <2>3, <4>1
      <4> QED BY <4>2, <4>3 DEF At
    <3>5. \A i \in 2 .. ds'.nextEntry : i < ds'.nextEntry =>
            \E j \in DOMAIN acked' : acked'[j] = Dir(At(i)')
      <4>1. ASSUME NEW i \in 2 .. n + 1, i < n + 1
            PROVE  \E j \in DOMAIN acked : acked[j] = Dir(At(i)')
        <5>1. i \in 2 .. n /\ i \in 1 .. n BY <1>2, <4>1
        <5> QED BY <2>6, <3>1, <5>1
      <4> QED BY <1>1, <2>1, <4>1
    <3>6. ds'.nextEntry >= 2 BY <2>1, <1>2
    <3> QED BY <1>1, <1>6, <3>3, <3>4, <3>5, <3>6 DEF Made, Dir
  <2>11. Announced'
    <3>1. \E i \in Items' : Listed(i)' = [op |-> "d", name |-> FlattenSeq(Trail) \o m]
      BY <1>1, <1>2, ListedLast DEF Dir
    <3> QED BY <1>6, <2>1, <2>2, <3>1 DEF Announced, Dir
  <2> QED BY <1>4, <1>6, <2>8, <2>9, <2>10, <2>11 DEF Journal
<1> QED BY <1>1, <1>5, <1>6

\* What the walk, and the list, find when they have gone back up.
LEMMA WentUp ==
  ASSUME Inv, Journal, CloseAndPop
  PROVE  /\ ds.nextEntry \in Nat /\ ds.nextEntry >= 1 /\ ds'.nextEntry = ds.nextEntry - 1
         /\ ds'.entries = ds.entries /\ dir' = ds.entries[ds.nextEntry - 1]
         /\ Trail \in Seq(Seq(Elem)) /\ Len(Trail) = ds.nextEntry - 1
         /\ Trail' = IF Trail = << >> THEN << >> ELSE SubSeq(Trail, 1, Len(Trail) - 1)
         /\ \A i \in 1 .. ds.nextEntry - 1 : At(i)' = At(i)
<1> DEFINE n == ds.nextEntry
<1>1. /\ pc = "next" /\ PopRc(ds) = 0 /\ dir' = PoppedSearch(ds) /\ ds' = PopDir(ds)
      /\ ctrl' = Append(ctrl, CdUp)
  BY DEF CloseAndPop
<1>2. /\ TypeOK /\ Charted /\ CdUp \in CtrlType
  BY <1>1 DEF Inv, CdUp, CtrlType, Active, Journal
<1>3. n \in Nat /\ n >= 1 BY <1>1, <1>2, StackParts DEF PopRc
<1>4. /\ ds'.entries = ds.entries /\ ds'.nextEntry = n - 1 /\ dir' = ds.entries[n - 1]
  BY <1>1 DEF PopDir, PoppedSearch
<1>5. /\ Trail \in Seq(Seq(Elem)) /\ Len(Trail) = n - 1
  BY <1>2, <1>3 DEF Charted
<1>6. Trail' = IF Trail = << >> THEN << >> ELSE SubSeq(Trail, 1, Len(Trail) - 1)
  <2>1. Trail' = Follow(Trail, CdUp) BY <1>1, <1>2, FollowsKept
  <2> QED BY <2>1 DEF Follow, CdUp, Front
<1>7. ASSUME NEW i \in 1 .. n - 1 PROVE At(i)' = At(i)
  <2>1. /\ n - 1 - 1 \in 0 .. Len(Trail) /\ i - 1 \in 0 .. n - 1 - 1
        /\ Len(Trail) - 1 = n - 1 - 1
    BY <1>3, <1>5
  <2>2. Trail # << >> BY <1>5, <2>1
  <2>3. Trail' = SubSeq(Trail, 1, n - 1 - 1) BY <1>6, <2>1, <2>2
  <2>4. SubSeq(SubSeq(Trail, 1, n - 1 - 1), 1, i - 1) = SubSeq(Trail, 1, i - 1)
    BY <1>5, <2>1, PrefixOfPrefix
  <2> QED BY <2>3, <2>4 DEF At
<1> QED BY <1>3, <1>4, <1>5, <1>6, <1>7

\* The way back up is the one that the list describes.
LEMMA CloseAndPopJournal ==
  ASSUME Inv, Journal, CloseAndPop
  PROVE  Journal'
<1> DEFINE n == ds.nextEntry
           k == ds.nextEntry - 1
<1>1. /\ pc = "next" /\ pc' = pc /\ PopRc(ds) = 0
      /\ dir' = PoppedSearch(ds) /\ path' = PoppedPath(ds) /\ ds' = PopDir(ds)
      /\ unix' = IF ClearsTail(ds') /\ Len(path') = Len(Root)
                   THEN << >> ELSE UnixAfterCopy(path')
      /\ ctrl' = Append(ctrl, CdUp)
      /\ UNCHANGED <<fs, acked>>
  BY DEF CloseAndPop
<1>2. /\ TypeOK /\ Active /\ StackInv /\ CdUp \in CtrlType
      /\ Charted /\ Searched /\ Made
  BY <1>1 DEF Inv, CdUp, CtrlType, Active, Journal
<1>3. n \in Nat /\ n >= 1 /\ k \in Nat
  <2>1. n \in Nat /\ n >= 1 BY WentUp
  <2> QED BY <2>1
<1>4. /\ ds'.entries = ds.entries /\ ds'.nextEntry = k /\ dir' = ds.entries[k]
  BY WentUp
<1>5. Stray' = Stray BY <1>4 DEF Stray
<1>6. /\ Trail \in Seq(Seq(Elem)) /\ Len(Trail) = k /\ FlattenSeq(Trail) = unix
  BY <1>2, WentUp DEF Charted
<1>7. /\ Trail' = IF Trail = << >> THEN << >> ELSE SubSeq(Trail, 1, Len(Trail) - 1)
      /\ \A i \in 1 .. k : At(i)' = At(i)
  BY WentUp
<1>8. ParentFirst' /\ ConfirmedIsListed'
  BY <1>1, <1>2, <1>5, HistoryKept DEF Journal
<1> HIDE DEF n, k
<1>9. CASE k = 0
  <2>1. Trail' = << >>
    <3>1. Len(Trail) = 0 BY <1>6, <1>9
    <3> QED BY <1>6, <1>7, <3>1
  <2>2. unix = << >>
    <3>1. Trail = << >> BY <1>6, <1>9
    <3> QED BY <1>6, <3>1, FlattenNothing
  <2>3. unix' = << >>
    <3>1. path' = SubSeq(ds.pathName, 1, 0)
      <4>1. ds.pathSplits[k] = 0 BY <1>2, <1>9 DEF StackInv, Lengths
      <4> QED BY <1>1, <4>1 DEF PoppedPath, k
    <3>2. Len(path') = 0 BY <1>2, <3>1, StackParts
    <3>3. ~(Len(path') > Len(Root)) BY <3>2, BackupBounds
    <3> QED BY <1>1, <2>2, <3>3 DEF UnixAfterCopy
  <2>4. ds'.nextEntry = 0 /\ dir'.left = Stray BY <1>4, <1>9 DEF Stray
  <2>5. Charted' BY <2>1, <2>3, <2>4, FlattenNothing DEF Charted
  <2>6. Searched'
    <3>1. \A i \in 1 .. ds'.nextEntry - 1 : FALSE BY <2>4
    <3> QED BY <1>1, <1>2, <1>5, <2>4, <3>1 DEF Searched
  <2>7. Made'
    <3>1. \A i \in 2 .. ds'.nextEntry : FALSE BY <2>4
    <3> QED BY <1>1, <3>1 DEF Made
  <2>8. Announced' BY <1>1 DEF Announced
  <2> QED BY <1>1, <1>8, <2>5, <2>6, <2>7, <2>8 DEF Journal
<1>10. CASE k # 0
  <2>1. k >= 1 /\ k \in 1 .. n - 1 /\ Len(Trail) - 1 = k - 1 /\ k - 1 \in 0 .. Len(Trail)
    BY <1>3, <1>6, <1>10 DEF n, k
  <2>2. Trail' = SubSeq(Trail, 1, k - 1)
    <3>1. Trail # << >> BY <1>6, <1>10
    <3> QED BY <1>7, <2>1, <3>1
  <2>3. Trail' \in Seq(Seq(Elem)) /\ Len(Trail') = k - 1
    BY <1>6, <2>1, <2>2, PrefixProperties
  <2>4. \A i \in 1 .. k : At(i)' = At(i) BY <1>7
  <2>5. unix' = At(k)
    <3>1. Inv' BY <1>1, CloseAndPopInv
    <3>2. dir'.dir = path' /\ unix' = Rel(path')
      <4>1. Here' BY <1>1, <3>1 DEF Inv, Active
      <4>2. Rel(path)' = Rel(path') BY DEF Rel
      <4> QED BY <1>4, <2>1, <4>1, <4>2 DEF Here
    <3>3. Rel(ds.entries[k].dir) = At(k) BY <1>2, <1>3, <2>1 DEF Charted, n
    <3> QED BY <1>4, <3>2, <3>3
  <2>6. FlattenSeq(Trail') = At(k) BY <2>2 DEF At
  <2>7. \A i \in 1 .. k - 1 : i \in 1 .. n - 1 /\ i \in 1 .. k BY <1>3, <2>1 DEF n, k
  <2>8. ds'.nextEntry # 0 /\ ds'.nextEntry >= 1 /\ ds'.nextEntry = k BY <1>4, <2>1
  <2>9. Charted'
    <3>1. \A i \in 1 .. k - 1 : Rel(ds'.entries[i].dir) = At(i)'
      <4>1. \A i \in 1 .. n - 1 : Rel(ds.entries[i].dir) = At(i)
        BY <1>2, <1>3 DEF Charted, n
      <4> QED BY <1>4, <2>4, <2>7, <4>1
    <3> QED BY <2>3, <2>5, <2>6, <2>8, <3>1 DEF Charted, Rel
  <2>10. Searched'
    <3>1. \A i \in 1 .. n - 1 :
            At(i) \in DOMAIN fs /\ Range(ds.entries[i].left) \subseteq Range(fs[At(i)])
      BY <1>2 DEF Searched, n
    <3>2. unix' \in DOMAIN fs /\ Range(dir'.left) \subseteq Range(fs[unix'])
      BY <1>4, <2>1, <2>5, <3>1
    <3>3. \A i \in 1 .. k - 1 :
            At(i)' \in DOMAIN fs /\ Range(ds'.entries[i].left) \subseteq Range(fs[At(i)'])
      BY <1>4, <2>4, <2>7, <3>1
    <3> QED BY <1>1, <1>2, <2>8, <3>2, <3>3 DEF Searched
  <2>11. Made'
    <3>1. ASSUME NEW i \in 2 .. k PROVE \E j \in DOMAIN acked : acked[j] = Dir(At(i)')
      <4>1. i \in 2 .. n /\ i \in 1 .. k /\ i < n BY <1>3, <2>1, <3>1 DEF n, k
      <4>2. \E j \in DOMAIN acked : acked[j] = Dir(At(i)) BY <1>2, <4>1 DEF Made, n
      <4> QED BY <2>4, <4>1, <4>2
    <3> QED BY <1>1, <2>8, <3>1 DEF Made, Dir
  <2>12. Announced' BY <1>1 DEF Announced
  <2> QED BY <1>1, <1>8, <2>9, <2>10, <2>11, <2>12 DEF Journal
<1> QED BY <1>9, <1>10

\* The walk begins at the root, with nothing listed but the header.
LEMMA Prepared ==
  ASSUME Inv, Journal, Prepare
  PROVE  /\ pc' = "init" /\ ctrl' = <<Header(Root)>> /\ UNCHANGED <<fs, acked>>
         /\ ds'.nextEntry = 1 /\ unix' = << >> /\ Trail' = << >>
         /\ << >> \in DOMAIN fs /\ fs[<< >>] # << >>
         /\ dir'.left = Tail(fs[<< >>]) /\ file' = Head(fs[<< >>])
         /\ Range(dir'.left) \subseteq Range(fs[<< >>]) /\ file' \in Range(fs[<< >>])
<1>1. /\ pc = "prepare" /\ pc' = "init" /\ CanOpen(Root) /\ path' = Root
      /\ ds' = PushDir(ds, dir, Root)
      /\ unix' = IF ClearsTail(ds') THEN << >> ELSE UnixAfterCopy(Root)
      /\ dir' = Opened(Root) /\ file' = Head(Entries(Root))
      /\ ctrl' = <<Header(Root)>> /\ UNCHANGED <<fs, acked>>
  BY DEF Prepare
<1>2. /\ TypeOK /\ ds.nextEntry = 0 /\ dir \in SearchType /\ Root \in Seq(Elem)
      /\ ctrl = << >> /\ acked = << >> /\ Header(Root) \in CtrlType /\ Len(Root) \in Nat
  BY <1>1, TypeParts, BackupBounds DEF Inv, Journal, Header, CtrlType
<1>3. ds'.nextEntry = 1
  <2>1. OpenMax \in Nat /\ Len(Root) =< OpenMax /\ OpenMax + 1 < Len(Root) + MaxEntries
        /\ MaxEntries \in Nat
    BY <1>1, BackupBounds, StackBounds DEF CanOpen
  <2>2. 1 < MaxEntries BY <1>2, <2>1
  <2> QED BY <1>1, <1>2, <2>2 DEF PushDir
<1>4. unix' = << >> /\ Rel(Root) = << >> BY <1>1, <1>2, <1>3 DEF ClearsTail, Rel
<1>5. Trail' = << >>
  <2>1. ctrl' = Append(ctrl, Header(Root)) BY <1>1, <1>2
  <2>2. Trail' = Follow(Trail, Header(Root)) BY <1>2, <2>1, FollowsKept
  <2>3. Trail = << >> BY <1>2, FollowsNothing DEF Trail
  <2> QED BY <2>2, <2>3 DEF Follow, Header
<1>6. Entries(Root) \in Seq(Entry) /\ Entries(Root) # << >>
  BY <1>1, <1>2, EntriesType DEF CanOpen
<1>7. << >> \in DOMAIN fs /\ Entries(Root) = fs[<< >>] BY <1>4, <1>6 DEF Entries
<1>8. Range(dir'.left) \subseteq Range(fs[<< >>]) /\ file' \in Range(fs[<< >>])
  <2>1. Head(Entries(Root)) \in Range(Entries(Root))
        /\ Range(Tail(Entries(Root))) \subseteq Range(Entries(Root))
    BY <1>6, RangeParts
  <2> QED BY <1>1, <1>7, <2>1 DEF Opened
<1> QED BY <1>1, <1>3, <1>4, <1>5, <1>6, <1>7, <1>8 DEF Opened

LEMMA PrepareJournal ==
  ASSUME Inv, Journal, Prepare
  PROVE  Journal'
<1>1. /\ pc' = "init" /\ ds'.nextEntry = 1 /\ unix' = << >> /\ Trail' = << >>
      /\ << >> \in DOMAIN fs /\ UNCHANGED <<fs, acked>>
      /\ Range(dir'.left) \subseteq Range(fs[<< >>]) /\ file' \in Range(fs[<< >>])
  BY Prepared
<1>2. acked = << >> BY DEF Prepare, Journal
<1>3. ds'.nextEntry - 1 = 0 /\ ds'.nextEntry # 0 /\ ds'.nextEntry >= 1 BY <1>1
<1>4. /\ \A i \in 1 .. ds'.nextEntry - 1 : FALSE
      /\ \A i \in 2 .. ds'.nextEntry : FALSE
  BY <1>1
<1>5. Charted' BY <1>1, <1>3, <1>4, FlattenNothing DEF Charted
<1>6. Searched' BY <1>1, <1>3, <1>4 DEF Searched
<1>7. Made' /\ Announced' BY <1>1, <1>4 DEF Made, Announced
<1>8. ParentFirst' /\ ConfirmedIsListed'
  <2>1. DOMAIN acked' = {} BY <1>1, <1>2
  <2> QED BY <2>1 DEF ParentFirst, ConfirmedIsListed
<1> QED BY <1>1, <1>5, <1>6, <1>7, <1>8 DEF Journal

LEMMA StutterJournal ==
  ASSUME Journal, UNCHANGED vars
  PROVE  Journal'
<1>1. UNCHANGED <<fs, pc, unix, ds, dir, file, ctrl, acked>> BY DEF vars
<1>2. Trail' = Trail /\ Stray' = Stray /\ Items' = Items BY <1>1 DEF Trail, Stray, Items
<1>3. \A i : At(i)' = At(i) /\ Listed(i)' = Listed(i) BY <1>1, <1>2 DEF At, Listed
<1>4. Active' = Active BY <1>1 DEF Active
<1>5. Charted => Charted' BY <1>1, <1>2, <1>3 DEF Charted, Rel
<1>6. Searched => Searched' BY <1>1, <1>2, <1>3 DEF Searched
<1>7. Made => Made'
  <2>1. At(ds.nextEntry - 1)' = At(ds.nextEntry - 1) BY <1>1, <1>2 DEF At
  <2> QED BY <1>1, <1>3, <2>1 DEF Made
<1>8. Announced => Announced' BY <1>1, <1>2, <1>3 DEF Announced
<1>9. ParentFirst' = ParentFirst BY <1>1, <1>2 DEF ParentFirst
<1>10. ConfirmedIsListed' = ConfirmedIsListed BY <1>1, <1>2, <1>3 DEF ConfirmedIsListed
<1> QED BY <1>1, <1>4, <1>5, <1>6, <1>7, <1>8, <1>9, <1>10 DEF Journal

LEMMA JournalStep == Inv /\ Journal /\ [Next]_vars => Journal'
<1> SUFFICES ASSUME Inv, Journal, [Next]_vars PROVE Journal'
  OBVIOUS
<1>1. CASE Prepare BY <1>1, PrepareJournal
<1>2. CASE (\E c \in Codes : InitRemote(c) \/ MakeBackupDir(c) \/ ChangeDir(c)) \/ VisitDot
  BY <1>2, CallsJournal
<1>3. CASE \E c \in Codes : MkDirAttempt(c) BY <1>3, MkDirJournal
<1>4. CASE \E r \in {0, -1, -2} : SendAttempt(r) BY <1>4, SendJournal
<1>5. CASE OpenFile BY <1>5, OpenFileJournal
<1>6. CASE \E opens \in BOOLEAN : EnterDir(opens) BY <1>6, EnterDirJournal
<1>7. CASE NextEntry BY <1>7, NextEntryJournal
<1>8. CASE CloseAndPop BY <1>8, CloseAndPopJournal
<1>9. CASE \/ Abort \/ PathTooLong \/ OpenFileFails \/ LastClose
           \/ GiveUp \/ Finalize \/ Close
           \/ \E r \in -6 .. -1 : PrepareFails(r)
           \/ \E r \in {0, -1, -2} : SendControlFile(r)
  BY <1>9, EndJournal
<1>10. CASE Terminated \/ UNCHANGED vars BY <1>10, StutterJournal DEF Terminated
<1> QED
  BY <1>1, <1>2, <1>3, <1>4, <1>5, <1>6, <1>7, <1>8, <1>9, <1>10 DEF Next, Step

LEMMA JournalInvariant == Spec => []Journal
<1>1. Init => Journal BY JournalBegins
<1>2. Inv /\ Journal /\ [Next]_vars => Journal' BY JournalStep
<1> QED BY <1>1, <1>2, Invariant, PTL DEF Spec

\* Whatever the tree and the server, nothing is stored where nothing was made
\* (do_backup, BACKUP.C:180-195 before 197, 222-242).
THEOREM ParentsComeFirst == Spec => []ParentFirst
<1>1. Journal => ParentFirst BY DEF Journal
<1> QED BY <1>1, JournalInvariant, PTL

\* At every moment, what the server has confirmed is found by a restore under the
\* name it was stored under (do_backup and ctrlFile, BACKUP.C:165, 211, 270-276;
\* do_restore, RESTORE.C:150-172, 188-196, 270-287).
THEOREM ConfirmedAreListed == Spec => []ConfirmedIsListed
<1>1. Journal => ConfirmedIsListed BY DEF Journal
<1> QED BY <1>1, JournalInvariant, PTL

-----------------------------------------------------------------------------
(* What a backup that reports success is worth *)

Item(d, e) == [op |-> Op(e), name |-> d \o e.name]
Shown(e)   == e.kind # "dot"
Catalogue  == {Listed(i) : i \in Items}

\* What the search of a directory on the way has still to give.
Waiting(i) == IF i = ds.nextEntry THEN dir.left ELSE ds.entries[i].left

\* What the server is being sent.
UnderWay(t) ==
  \/ pc = "mkdir" /\ t = Dir(unix)
  \/ pc = "send"  /\ t = File(unix \o file.name)

\* Nothing is forgotten of the directories that are there.
Covered ==
  \A d \in DOMAIN fs : d = << >> \/ Dir(d) \in Range(acked) \/ (pc = "mkdir" /\ d = unix) =>
    \A e \in Range(fs[d]) : Shown(e) =>
      \/ Item(d, e) \in Range(acked) \/ UnderWay(Item(d, e))
      \/ \E i \in 1 .. ds.nextEntry :
           /\ At(i) = d
           /\ e \in Range(Waiting(i)) \/ (i = ds.nextEntry /\ pc # "next" /\ e = file)

\* Everything listed is sent.
Delivered == \A t \in Catalogue : t \in Range(acked) \/ UnderWay(t)

\* No name is given twice.
Distinct(s) ==
  \A a, b \in DOMAIN s : Shown(s[a]) /\ Shown(s[b]) /\ s[a].name = s[b].name => a = b

\* What is ahead is not listed yet.
Fresh ==
  /\ \A i \in 1 .. ds.nextEntry :
       /\ Distinct(Waiting(i))
       /\ \A e \in Range(Waiting(i)) : Shown(e) => Item(At(i), e) \notin Catalogue
  /\ ds.nextEntry >= 1 /\ pc \notin {"next", "send"} /\ Shown(file) =>
       /\ Item(unix, file) \notin Catalogue
       /\ \A e \in Range(dir.left) : Shown(e) => e.name # file.name

\* The directories on the way are listed, and so is the one of everything listed.
Opens ==
  /\ \A i \in 1 .. ds.nextEntry : At(i) = << >> \/ Dir(At(i)) \in Catalogue
  /\ \A i, j \in 1 .. ds.nextEntry : At(i) = At(j) => i = j
  /\ ds.nextEntry >= 1 => \A t \in Catalogue :
       \E d \in DOMAIN fs : \E e \in Range(fs[d]) :
         Shown(e) /\ t = Item(d, e) /\ (d = << >> \/ Dir(d) \in Catalogue)

\* Nothing is listed twice, or that is not there.
Once ==
  \A i, j \in Items : Listed(i) = Listed(j) /\ (Stray = << >> \/ Listed(i).op = "d") => i = j

Sources ==
  \A t \in Catalogue : \E d \in DOMAIN fs : \E e \in Range(fs[d]) \cup Range(Stray) :
    Shown(e) /\ t = Item(d, e)

\* The list ends with an end, and only when all is done.
Closed == ctrl # << >> /\ ctrl[Len(ctrl)] = Eof
Ending ==
  /\ \A i \in DOMAIN ctrl : ctrl[i].op = "e" =>
       i = Len(ctrl) /\ ctrl[i] = Eof /\ pc \in {"sendctrl", "close", "exit", "aborted"}
  /\ pc = "sendctrl" \/ (pc \in {"close", "exit"} /\ rc = 0) => Closed
  /\ Eof \in Range(acked) => Closed

Complete ==
  \A d \in DOMAIN fs : d = << >> \/ Dir(d) \in Range(acked) =>
    \A e \in Range(fs[d]) : Shown(e) => Item(d, e) \in Range(acked)

\* The walk has come to its end without a failure.
Finished == Closed \/ (pc = "finish" /\ rc = 0)

Account ==
  /\ Once /\ Sources /\ Ending
  /\ pc = "prepare" => ctrl = << >>
  /\ Active => Delivered /\ Fresh /\ Opens /\ (~skipped => Covered)
  /\ Finished => (\A t \in Catalogue : t \in Range(acked)) /\ (~skipped => Complete)

-----------------------------------------------------------------------------
(* The tree *)

LEMMA InTree ==
  ASSUME TypeOK, NEW d \in DOMAIN fs
  PROVE  /\ d \in Seq(Elem) /\ fs[d] \in Seq(Entry)
         /\ \A e \in Range(fs[d]) : e \in Entry /\ e.name \in Seq(Elem) /\ Len(e.name) >= 1
<1>1. d \in Seq(Elem) /\ fs[d] \in Seq(Entry) BY BackupWorlds DEF TypeOK
<1>2. \A e \in Range(fs[d]) : e \in Entry BY <1>1 DEF Range
<1>3. \A e \in Entry : e.name \in Seq(Elem) /\ Len(e.name) >= 1 BY BackupEntries
<1> QED BY <1>1, <1>2, <1>3

LEMMA Places ==
  ASSUME TypeOK
  PROVE  \A p, q \in DOMAIN fs : \A i \in DOMAIN fs[p], j \in DOMAIN fs[q] :
           /\ fs[p][i].kind # "dot" /\ fs[q][j].kind # "dot"
           /\ p \o fs[p][i].name = q \o fs[q][j].name
           => p = q /\ i = j
<1>1. fs \in Worlds BY DEF TypeOK
<1> QED BY <1>1, BackupTrees, Zenon

\* A path leads to one entry of one directory.
LEMMA OnePlace ==
  ASSUME TypeOK, NEW d \in DOMAIN fs, NEW c \in DOMAIN fs,
         NEW e \in Range(fs[d]), NEW f \in Range(fs[c]), Shown(e), Shown(f),
         d \o e.name = c \o f.name
  PROVE  d = c /\ e = f
<1>1. PICK i \in DOMAIN fs[d] : e = fs[d][i] BY DEF Range
<1>2. PICK j \in DOMAIN fs[c] : f = fs[c][j] BY DEF Range
<1>3. /\ fs[d][i].kind # "dot" /\ fs[c][j].kind # "dot"
      /\ d \o fs[d][i].name = c \o fs[c][j].name
  BY <1>1, <1>2 DEF Shown
<1>a. /\ d \in DOMAIN fs /\ c \in DOMAIN fs
      /\ i \in DOMAIN fs[d] /\ j \in DOMAIN fs[c]
  OBVIOUS
<1>b. \A k \in DOMAIN fs[d], l \in DOMAIN fs[c] :
        /\ fs[d][k].kind # "dot" /\ fs[c][l].kind # "dot"
        /\ d \o fs[d][k].name = c \o fs[c][l].name
        => d = c /\ k = l
  BY ONLY TypeOK, <1>a, Places, Zenon
<1>4. d = c /\ i = j BY ONLY <1>a, <1>b, <1>3, Zenon
<1> QED BY <1>1, <1>2, <1>4

LEMMA SameItem ==
  ASSUME TypeOK, NEW d \in DOMAIN fs, NEW c \in DOMAIN fs,
         NEW e \in Range(fs[d]), NEW f \in Range(fs[c]), Shown(e), Shown(f),
         Item(d, e) = Item(c, f)
  PROVE  d = c /\ e = f
<1>1. d \o e.name = c \o f.name BY DEF Item
<1> QED BY <1>1, OnePlace

LEMMA NamedOnce ==
  ASSUME TypeOK, NEW d \in DOMAIN fs
  PROVE  Distinct(fs[d])
<1>1. SUFFICES ASSUME NEW a \in DOMAIN fs[d], NEW b \in DOMAIN fs[d],
                      Shown(fs[d][a]), Shown(fs[d][b]), fs[d][a].name = fs[d][b].name
               PROVE  a = b
  BY DEF Distinct
<1>2. d \o fs[d][a].name = d \o fs[d][b].name BY <1>1
<1> QED BY <1>1, <1>2, Places, Zenon DEF Shown

LEMMA DistinctRest ==
  ASSUME NEW T, NEW s \in Seq(T), s # << >>, Distinct(s)
  PROVE  /\ Distinct(Tail(s))
         /\ Shown(Head(s)) => \A e \in Range(Tail(s)) : Shown(e) => e.name # Head(s).name
<1>1. 1 \in DOMAIN s /\ Head(s) = s[1] OBVIOUS
<1>2. ASSUME NEW i \in DOMAIN Tail(s)
      PROVE i + 1 \in DOMAIN s /\ Tail(s)[i] = s[i + 1] /\ i + 1 # 1 /\ i \in Int
  OBVIOUS
<1>3. Distinct(Tail(s)) BY <1>2 DEF Distinct
<1>4. ASSUME Shown(Head(s)), NEW e \in Range(Tail(s)), Shown(e), e.name = Head(s).name
      PROVE  FALSE
  <2>1. PICK i \in DOMAIN Tail(s) : e = Tail(s)[i] BY DEF Range
  <2>2. i + 1 \in DOMAIN s /\ e = s[i + 1] /\ i + 1 # 1 BY <1>2, <2>1
  <2> QED BY <1>1, <1>4, <2>2 DEF Distinct
<1> QED BY <1>3, <1>4

-----------------------------------------------------------------------------
(* The list *)

\* One more entry, and what it lists.
LEMMA Catalogued ==
  ASSUME TypeOK, NEW c \in CtrlType, ctrl' = Append(ctrl, c), NEW n, n = Len(ctrl) + 1
  PROVE  /\ \A i \in Items : i \in Items' /\ Listed(i)' = Listed(i) /\ i # n
         /\ c.op \in {"d", "f"} =>
              /\ Items' = Items \cup {n}
              /\ Listed(n)' = [op |-> c.op, name |-> FlattenSeq(Trail) \o c.name]
              /\ Catalogue' = Catalogue \cup
                                {[op |-> c.op, name |-> FlattenSeq(Trail) \o c.name]}
         /\ c.op \notin {"d", "f"} => Items' = Items /\ Catalogue' = Catalogue
<1>1. ctrl \in Seq(CtrlType) BY TypeParts
<1>2. \A i \in Items : i \in Items' /\ Listed(i)' = Listed(i) BY ListedStays
<1>3. /\ DOMAIN ctrl' = DOMAIN ctrl \cup {n} /\ n \notin DOMAIN ctrl
      /\ \A i \in DOMAIN ctrl : ctrl'[i] = ctrl[i]
      /\ ctrl'[n] = c /\ SubSeq(ctrl', 1, n - 1) = ctrl
  BY <1>1
<1>4. \A i \in Items : i # n BY <1>3 DEF Items
<1>5. CASE c.op \in {"d", "f"}
  <2>1. Items' = Items \cup {n} BY <1>3, <1>5 DEF Items
  <2>2. Listed(n)' = [op |-> c.op, name |-> FlattenSeq(Trail) \o c.name]
    <3>1. Listed(n)' = [op |-> ctrl'[n].op, name |-> Where(SubSeq(ctrl', 1, n - 1)) \o ctrl'[n].name]
      BY DEF Listed
    <3>2. Where(ctrl) = FlattenSeq(Trail) BY DEF Where, Trail, Follows
    <3> QED BY <1>3, <3>1, <3>2
  <2> DEFINE new == [op |-> c.op, name |-> FlattenSeq(Trail) \o c.name]
  <2>3. Catalogue' = {Listed(i)' : i \in Items'} BY DEF Catalogue
  <2>4. Catalogue' = Catalogue \cup {new}
    <3> HIDE DEF new
    <3>1. Listed(n)' = new BY <2>2 DEF new
    <3> QED BY <1>2, <2>1, <2>3, <3>1 DEF Catalogue
  <2> QED BY <1>2, <1>4, <1>5, <2>1, <2>2, <2>4
<1>6. CASE c.op \notin {"d", "f"}
  <2>1. Items' = Items BY <1>3, <1>6 DEF Items
  <2>2. Catalogue' = {Listed(i)' : i \in Items'} BY DEF Catalogue
  <2>3. Catalogue' = Catalogue BY <1>2, <2>1, <2>2 DEF Catalogue
  <2> QED BY <1>2, <1>4, <1>6, <2>1, <2>3
<1> QED BY <1>5, <1>6

\* Nothing is listed that was not.
LEMMA ListKeptOrEnded ==
  ASSUME TypeOK, UNCHANGED fs, Stray' = Stray, Once, Sources,
         ctrl' = ctrl \/ \E c \in CtrlType : ctrl' = Append(ctrl, c) /\ c.op \notin {"d", "f"}
  PROVE  Once' /\ Sources' /\ Catalogue' = Catalogue
<1>1. Items' = Items /\ (\A i \in Items : Listed(i)' = Listed(i)) /\ Catalogue' = Catalogue
  <2>1. CASE ctrl' = ctrl BY <2>1 DEF Items, Listed, Catalogue
  <2>2. CASE \E c \in CtrlType : ctrl' = Append(ctrl, c) /\ c.op \notin {"d", "f"}
    <3>1. PICK c \in CtrlType : ctrl' = Append(ctrl, c) /\ c.op \notin {"d", "f"} BY <2>2
    <3>2. PICK n : n = Len(ctrl) + 1 OBVIOUS
    <3> QED BY <3>1, <3>2, Catalogued
  <2> QED BY <2>1, <2>2
<1>2. Once' BY <1>1 DEF Once
<1>3. Sources' BY <1>1 DEF Sources
<1> QED BY <1>1, <1>2, <1>3

\* What is listed is new, or came from the search that was never opened.
LEMMA ListGrows ==
  ASSUME TypeOK, UNCHANGED fs, Stray' = Stray, Once, Sources,
         NEW c \in CtrlType, ctrl' = Append(ctrl, c), c.op \in {"d", "f"},
         NEW d \in DOMAIN fs, d = FlattenSeq(Trail),
         NEW e \in Range(fs[d]) \cup Range(Stray), Shown(e), c.op = Op(e), c.name = e.name,
         Item(d, e) \notin Catalogue \/ (Stray # << >> /\ c.op = "f")
  PROVE  Once' /\ Sources' /\ Catalogue' = Catalogue \cup {Item(d, e)}
<1>0. PICK n : n = Len(ctrl) + 1 OBVIOUS
<1>1. [op |-> c.op, name |-> FlattenSeq(Trail) \o c.name] = Item(d, e) BY DEF Item
<1>2. /\ \A i \in Items : i \in Items' /\ Listed(i)' = Listed(i) /\ i # n
      /\ Items' = Items \cup {n} /\ Listed(n)' = Item(d, e)
      /\ Catalogue' = Catalogue \cup {Item(d, e)}
  BY <1>0, <1>1, Catalogued
<1>3. Once'
  <2>1. SUFFICES ASSUME NEW i \in Items', NEW j \in Items', Listed(i)' = Listed(j)',
                        Stray = << >> \/ Listed(i)'.op = "d"
                 PROVE  i = j
    BY DEF Once
  <2>2. CASE i \in Items /\ j \in Items
    BY <1>2, <2>1, <2>2 DEF Once
  <2>3. Item(d, e).op = c.op BY DEF Item
  <2>4. \A m \in Items : Listed(m) \in Catalogue BY DEF Catalogue
  <2>5. CASE i = n /\ j \in Items
    <3>1. Listed(j) = Item(d, e) BY <1>2, <2>1, <2>5
    <3> QED BY <1>2, <2>1, <2>3, <2>4, <2>5, <3>1
  <2>6. CASE j = n /\ i \in Items
    <3>1. Listed(i) = Item(d, e) BY <1>2, <2>1, <2>6
    <3> QED BY <1>2, <2>1, <2>3, <2>4, <2>6, <3>1
  <2> QED BY <1>2, <2>2, <2>5, <2>6
<1>4. Sources' BY <1>2 DEF Sources
<1> QED BY <1>2, <1>3, <1>4

LEMMA RangeOfAppend ==
  ASSUME NEW T, NEW s \in Seq(T), NEW a \in T
  PROVE  Range(Append(s, a)) = Range(s) \cup {a}
<1>1. PICK t : t = Append(s, a) OBVIOUS
<1>2. /\ DOMAIN t = DOMAIN s \cup {Len(s) + 1} /\ t[Len(s) + 1] = a
      /\ \A i \in DOMAIN s : t[i] = s[i]
  BY <1>1
<1>3. Range(t) = Range(s) \cup {a} BY <1>2, Zenon DEF Range
<1> QED BY <1>1, <1>3

LEMMA RangeCovered ==
  ASSUME NEW T, NEW s \in Seq(T), s # << >>, NEW e \in Range(s)
  PROVE  e = Head(s) \/ e \in Range(Tail(s))
<1>1. PICK i \in DOMAIN s : e = s[i] BY DEF Range
<1>2. CASE i = 1 BY <1>1, <1>2
<1>3. CASE i # 1
  <2>1. i - 1 \in DOMAIN Tail(s) /\ Tail(s)[i - 1] = e BY <1>1, <1>3
  <2> QED BY <2>1 DEF Range
<1> QED BY <1>2, <1>3

-----------------------------------------------------------------------------
(* The end *)

\* Before the end is written there is none, and the server has none.
LEMMA EndingKept ==
  ASSUME TypeOK, Ending, pc \notin {"sendctrl", "close", "exit", "aborted"},
         pc' # "sendctrl", pc' \in {"close", "exit"} => rc' # 0,
         ctrl' = ctrl \/ \E c \in CtrlType : ctrl' = Append(ctrl, c) /\ c.op # "e",
         acked' = acked \/ \E a \in AckedType : acked' = Append(acked, a) /\ a.op # "e"
  PROVE  Ending' /\ ~Closed'
<1>1. ctrl \in Seq(CtrlType) /\ acked \in Seq(AckedType) BY TypeParts
<1>2. \A i \in DOMAIN ctrl : ctrl[i].op # "e" BY DEF Ending
<1>3. ~Closed
  <2>1. SUFFICES ASSUME ctrl # << >>, ctrl[Len(ctrl)] = Eof PROVE FALSE BY DEF Closed
  <2>2. Len(ctrl) \in DOMAIN ctrl BY <1>1, <2>1
  <2> QED BY <1>2, <2>1, <2>2 DEF Eof
<1>4. Eof \notin Range(acked) BY <1>3 DEF Ending
<1>5. \A i \in DOMAIN ctrl' : ctrl'[i].op # "e"
  <2>1. CASE ctrl' = ctrl BY <1>2, <2>1
  <2>2. CASE \E c \in CtrlType : ctrl' = Append(ctrl, c) /\ c.op # "e"
    BY <1>1, <1>2, <2>2
  <2> QED BY <2>1, <2>2
<1>6. ~Closed'
  <2>1. SUFFICES ASSUME ctrl' # << >>, ctrl'[Len(ctrl')] = Eof PROVE FALSE BY DEF Closed
  <2>2. ctrl' \in Seq(CtrlType) BY <1>1
  <2>3. Len(ctrl') \in DOMAIN ctrl' BY <2>1, <2>2
  <2> QED BY <1>5, <2>1, <2>3 DEF Eof
<1>7. Eof \notin Range(acked')
  <2>1. CASE acked' = acked BY <1>4, <2>1
  <2>2. CASE \E a \in AckedType : acked' = Append(acked, a) /\ a.op # "e"
    <3>1. PICK a \in AckedType : acked' = Append(acked, a) /\ a.op # "e" BY <2>2
    <3>2. a # Eof BY <3>1 DEF Eof
    <3>3. Range(acked') = Range(acked) \cup {a} BY <1>1, <3>1, RangeOfAppend
    <3> QED BY <1>4, <3>2, <3>3
  <2> QED BY <2>1, <2>2
<1> QED BY <1>5, <1>6, <1>7 DEF Ending

\* A walk that is broken off says nothing but what it has listed.
LEMMA BrokenOff ==
  ASSUME TypeOK, Account, Once', Sources',
         pc \notin {"sendctrl", "close", "exit", "aborted"},
         pc' \notin {"prepare", "sendctrl"}, ~Active',
         pc' \in {"finish", "close", "exit"} => rc' # 0,
         ctrl' = ctrl \/ \E c \in CtrlType : ctrl' = Append(ctrl, c) /\ c.op # "e",
         acked' = acked \/ \E a \in AckedType : acked' = Append(acked, a) /\ a.op # "e"
  PROVE  Account'
<1>1. Ending' /\ ~Closed' BY EndingKept DEF Account
<1>2. ~Finished' BY <1>1 DEF Finished
<1> QED BY <1>1, <1>2 DEF Account

\* A walk that goes on.
LEMMA GoesOn ==
  ASSUME TypeOK, Account, Once', Sources', Active, Active',
         Delivered', Fresh', Opens', ~skipped' => Covered',
         ctrl' = ctrl \/ \E c \in CtrlType : ctrl' = Append(ctrl, c) /\ c.op # "e",
         acked' = acked \/ \E a \in AckedType : acked' = Append(acked, a) /\ a.op # "e"
  PROVE  Account'
<1>1. /\ pc \notin {"sendctrl", "close", "exit", "aborted"}
      /\ pc' \notin {"prepare", "sendctrl", "close", "exit", "finish"}
  BY DEF Active
<1>2. Ending' /\ ~Closed' BY <1>1, EndingKept DEF Account
<1>3. ~Finished' BY <1>1, <1>2 DEF Finished
<1> QED BY <1>1, <1>2, <1>3 DEF Account

LEMMA EndAccount ==
  ASSUME Inv, Journal, Account,
         \/ \E r \in -6 .. -1 : PrepareFails(r)
         \/ PathTooLong \/ GiveUp \/ Finalize \/ Close \/ Abort
         \/ \E r \in {0, -1, -2} : SendControlFile(r)
  PROVE  Account'
<1> USE DEF PrepareFails, PathTooLong, GiveUp, Finalize, Close, Abort, SendControlFile
<1>1. /\ TypeOK /\ UNCHANGED <<fs, ds, skipped>> /\ Eof \in CtrlType
      /\ ctrl' = ctrl \/ ctrl' = Append(ctrl, Eof)
  BY DEF Inv, Eof, CtrlType
<1>2. Stray' = Stray BY <1>1 DEF Stray
<1>3. Once' /\ Sources' /\ Catalogue' = Catalogue
  <2>1. Eof.op \notin {"d", "f"} BY DEF Eof
  <2> QED BY <1>1, <1>2, <2>1, ListKeptOrEnded DEF Account
<1>4. CASE \/ \E r \in -6 .. -1 : PrepareFails(r)
           \/ PathTooLong \/ GiveUp
           \/ (Abort /\ pc \notin {"sendctrl", "close"})
  <2>1. /\ pc \notin {"sendctrl", "close", "exit", "aborted"}
        /\ pc' \notin {"prepare", "sendctrl"}
        /\ UNCHANGED <<ctrl, acked>>
    BY <1>4
  <2>2. pc' \in {"finish", "close", "exit"} => rc' # 0 BY <1>4
  <2>3. ~Active' BY <1>4 DEF Active
  <2> QED BY <1>1, <1>3, <2>1, <2>2, <2>3, BrokenOff
<1>5. CASE Finalize
  <2>1. /\ pc = "finish" /\ rc = 0 /\ ctrl' = Append(ctrl, Eof) /\ pc' = "sendctrl"
        /\ UNCHANGED acked /\ ctrl \in Seq(CtrlType)
    BY <1>1, <1>5, TypeParts
  <2>2. Finished BY <2>1 DEF Finished
  <2>3. \A i \in DOMAIN ctrl : ctrl[i].op # "e" BY <2>1 DEF Account, Ending
  <2>4. Ending'
    <3>1. \A i \in DOMAIN ctrl' : ctrl'[i].op = "e" => i = Len(ctrl') /\ ctrl'[i] = Eof
      BY <1>1, <2>1, <2>3
    <3>2. Closed' BY <1>1, <2>1 DEF Closed
    <3> QED BY <2>1, <3>1, <3>2 DEF Ending
  <2>5. ~Active' BY <2>1 DEF Active
  <2>6. Complete' = Complete BY <1>1, <2>1 DEF Complete
  <2> QED BY <1>1, <1>3, <2>1, <2>2, <2>4, <2>5, <2>6 DEF Account
<1>6. CASE \/ \E r \in {0, -1, -2} : SendControlFile(r)
           \/ Close \/ (Abort /\ pc \in {"sendctrl", "close"})
  <2>1. /\ pc \in {"sendctrl", "close"} /\ pc' \in {"close", "exit", "aborted"}
        /\ UNCHANGED <<ctrl, rc>>
        /\ acked' = acked \/ (pc = "sendctrl" /\ acked' = Append(acked, Eof))
    BY <1>6
  <2>2. Closed' = Closed /\ (pc = "sendctrl" => Closed)
    BY <2>1 DEF Closed, Account, Ending
  <2>3. \A t : t \in Range(acked') <=> t \in Range(acked) \/ (t = Eof /\ acked' # acked)
    <3>1. CASE acked' = acked BY <3>1
    <3>2. CASE acked' = Append(acked, Eof)
      <4>1. acked \in Seq(AckedType) /\ Eof \in AckedType BY <1>1, TypeParts, TargetType
      <4>2. Range(acked') = Range(acked) \cup {Eof} BY <3>2, <4>1, RangeOfAppend
      <4>3. acked' # acked BY <3>2, <4>1
      <4> QED BY <4>2, <4>3
    <3> QED BY <2>1, <3>1, <3>2
  <2>4. Ending'
    <3>1. \A i \in DOMAIN ctrl' : ctrl'[i].op = "e" => i = Len(ctrl') /\ ctrl'[i] = Eof
      BY <2>1 DEF Account, Ending
    <3>2. pc' \in {"close", "exit"} /\ rc' = 0 => Closed'
      BY <2>1, <2>2, <1>6 DEF Account, Ending
    <3>3. Eof \in Range(acked') => Closed'
      BY <2>1, <2>2, <2>3 DEF Account, Ending
    <3> QED BY <2>1, <3>1, <3>2, <3>3 DEF Ending
  <2>5. ~Active' /\ pc' # "prepare" /\ pc' # "finish" BY <2>1 DEF Active
  <2>6. Finished' => Finished BY <2>2, <2>5 DEF Finished
  <2>7. \A d : Dir(d) # Eof BY DEF Dir, Eof
  <2>8. Complete => Complete' BY <1>1, <2>3, <2>7 DEF Complete
  <2> QED BY <1>1, <1>3, <2>3, <2>4, <2>5, <2>6, <2>8 DEF Account
<1> QED BY <1>4, <1>5, <1>6

\* All searches are at their end: nothing is left of what was seen.
LEMMA LastAccount ==
  ASSUME Inv, Journal, Account, LastClose
  PROVE  Account'
<1>1. /\ pc = "next" /\ pc' = "finish" /\ PopRc(ds) # 0
      /\ UNCHANGED <<fs, ctrl, acked, ds, skipped, rc>>
  BY DEF LastClose
<1>2. TypeOK /\ Stray' = Stray /\ Active /\ ds.nextEntry = 0
  BY <1>1 DEF Inv, Stray, Active, PopRc
<1>3. Once' /\ Sources' /\ Catalogue' = Catalogue
  BY <1>1, <1>2, ListKeptOrEnded DEF Account
<1>4. Ending' /\ ~Closed' BY <1>1, <1>2, EndingKept DEF Account
<1>5. \A t \in Catalogue : t \in Range(acked)
  BY <1>1, <1>2 DEF Account, Delivered, UnderWay
<1>6. ~skipped => Complete
  <2>1. \A i \in 1 .. ds.nextEntry : FALSE BY <1>2
  <2>2. \A t : ~UnderWay(t) BY <1>1 DEF UnderWay
  <2> QED BY <1>1, <1>2, <2>1, <2>2 DEF Account, Covered, Complete
<1>7. Complete' = Complete BY <1>1 DEF Complete
<1> QED BY <1>1, <1>3, <1>4, <1>5, <1>6, <1>7 DEF Account, Active

-----------------------------------------------------------------------------
(* The walk *)

LEMMA AckedRange ==
  ASSUME TypeOK, NEW a \in AckedType, acked' = Append(acked, a)
  PROVE  Range(acked') = Range(acked) \cup {a}
BY TypeParts, RangeOfAppend

\* Steps that list nothing, send nothing and pass over nothing but a dot entry.
LEMMA QuietAccount ==
  ASSUME Inv, Journal, Account, Active, Active',
         UNCHANGED <<fs, ctrl, acked, unix, ds, dir, file, skipped>>,
         pc \notin {"next", "mkdir", "send"}, pc' \notin {"mkdir", "send"},
         pc' = "next" => ~Shown(file)
  PROVE  Account'
<1>1. /\ TypeOK /\ Delivered /\ Fresh /\ Opens /\ (~skipped => Covered)
      /\ Stray' = Stray /\ Trail' = Trail
  BY DEF Inv, Account, Stray, Trail
<1>2. Once' /\ Sources' /\ Catalogue' = Catalogue
  BY <1>1, ListKeptOrEnded DEF Account
<1>3. /\ \A i : At(i)' = At(i) /\ Waiting(i)' = Waiting(i)
      /\ \A t : ~UnderWay(t) /\ ~UnderWay(t)'
  BY <1>1 DEF At, Waiting, UnderWay
<1>4. Delivered' BY <1>1, <1>2, <1>3 DEF Delivered
<1>5. Fresh' BY <1>1, <1>2, <1>3 DEF Fresh
<1>6. Opens' BY <1>1, <1>2, <1>3 DEF Opens
<1>7. ~skipped' => Covered'
  <2>1. SUFFICES ASSUME Covered PROVE Covered' BY <1>1
  <2>2. SUFFICES ASSUME NEW d \in DOMAIN fs, d = << >> \/ Dir(d) \in Range(acked),
                        NEW e \in Range(fs[d]), Shown(e)
                 PROVE  \/ Item(d, e) \in Range(acked)
                        \/ \E i \in 1 .. ds.nextEntry :
                             /\ At(i) = d
                             /\ e \in Range(Waiting(i)) \/ (i = ds.nextEntry /\ pc' # "next" /\ e = file)
    BY <1>3 DEF Covered
  <2>3. \/ Item(d, e) \in Range(acked)
        \/ \E i \in 1 .. ds.nextEntry :
             /\ At(i) = d
             /\ e \in Range(Waiting(i)) \/ (i = ds.nextEntry /\ e = file)
    BY <1>3, <2>1, <2>2 DEF Covered
  <2>4. e = file => pc' # "next" BY <2>2
  <2> QED BY <2>3, <2>4
<1> QED BY <1>1, <1>2, <1>4, <1>5, <1>6, <1>7, GoesOn

LEMMA CallsAccount ==
  ASSUME Inv, Journal, Account,
         (\E c \in Codes : InitRemote(c) \/ MakeBackupDir(c) \/ ChangeDir(c)) \/ VisitDot
  PROVE  Account'
<1> USE DEF InitRemote, MakeBackupDir, ChangeDir, VisitDot, Visit
<1>1. /\ pc \in {"init", "mkroot", "cdroot", "visit"}
      /\ pc' \in {"mkroot", "cdroot", "visit", "next", "finish"}
      /\ UNCHANGED <<fs, ctrl, acked, unix, ds, dir, file, skipped>>
      /\ pc' = "next" => ~Shown(file)
      /\ pc' = "finish" => rc' # 0
  BY DEF Shown
<1>2. CASE pc' = "finish"
  <2>1. TypeOK /\ Stray' = Stray BY <1>1 DEF Inv, Stray
  <2>2. Once' /\ Sources' BY <1>1, <2>1, ListKeptOrEnded DEF Account
  <2> QED BY <1>1, <1>2, <2>1, <2>2, BrokenOff DEF Active
<1>3. CASE pc' # "finish" BY <1>1, <1>3, QuietAccount DEF Active
<1> QED BY <1>2, <1>3

\* The next entry is one that was ahead.
LEMMA NextEntryAccount ==
  ASSUME Inv, Journal, Account, NextEntry
  PROVE  Account'
<1>1. /\ pc = "next" /\ pc' = "visit" /\ dir.left # << >> /\ file' = Head(dir.left)
      /\ dir' = [dir EXCEPT !.left = Tail(@)]
      /\ UNCHANGED <<fs, ctrl, acked, unix, ds, skipped>>
  BY DEF NextEntry
<1>2. /\ TypeOK /\ Active /\ Active' /\ Stray' = Stray /\ Trail' = Trail
      /\ dir \in SearchType /\ dir.left \in Seq(Entry) /\ dir'.left = Tail(dir.left)
      /\ ds.nextEntry \in Nat
  BY <1>1, TypeParts, StackParts DEF Inv, Active, Stray, Trail, SearchType
<1>3. Delivered /\ Fresh /\ Opens /\ (~skipped => Covered)
  BY <1>2 DEF Account
<1>4. Once' /\ Sources' /\ Catalogue' = Catalogue
  BY <1>1, <1>2, ListKeptOrEnded DEF Account
<1> DEFINE n == ds.nextEntry
<1>5. /\ \A i : At(i)' = At(i)
      /\ \A i : i # n => Waiting(i)' = Waiting(i)
      /\ \A i : i = n => Waiting(i) = dir.left /\ Waiting(i)' = Tail(dir.left)
      /\ \A t : ~UnderWay(t) /\ ~UnderWay(t)'
  BY <1>1, <1>2 DEF At, Waiting, UnderWay
<1>6. /\ Head(dir.left) \in Range(dir.left) /\ Range(Tail(dir.left)) \subseteq Range(dir.left)
      /\ \A e \in Range(dir.left) : e = Head(dir.left) \/ e \in Range(Tail(dir.left))
  BY <1>1, <1>2, RangeParts, RangeCovered
<1>7. Delivered' BY <1>3, <1>4, <1>5, <1>1 DEF Delivered
<1>8. Opens' BY <1>1, <1>3, <1>4, <1>5 DEF Opens
<1>9. Fresh'
  <2>0. \A i \in 1 .. n : Distinct(Waiting(i))
                           /\ \A e \in Range(Waiting(i)) : Shown(e) => Item(At(i), e) \notin Catalogue
    BY <1>3 DEF Fresh
  <2>1. ASSUME NEW i \in 1 .. n
        PROVE  Distinct(Waiting(i)') /\ Range(Waiting(i)') \subseteq Range(Waiting(i))
    <3>1. CASE i # n
      <4>1. Waiting(i)' = Waiting(i) BY <1>5, <3>1
      <4>2. Distinct(Waiting(i)') BY <2>0, <4>1
      <4> QED BY <4>1, <4>2
    <3>2. CASE i = n
      <4>1. Distinct(dir.left) BY <1>5, <2>0, <3>2
      <4>2. Distinct(Tail(dir.left)) BY <1>1, <1>2, <4>1, DistinctRest
      <4> QED BY <1>5, <1>6, <3>2, <4>2
    <3> QED BY <3>1, <3>2
  <2>2. ASSUME n >= 1, Shown(file')
        PROVE  /\ Item(unix, file') \notin Catalogue
               /\ \A e \in Range(dir'.left) : Shown(e) => e.name # file'.name
    <3>1. n \in 1 .. n BY <1>2, <2>2
    <3>2. Distinct(dir.left) /\ \A e \in Range(dir.left) : Shown(e) => Item(At(n), e) \notin Catalogue
      BY <1>3, <1>5, <3>1 DEF Fresh
    <3>3. At(n) = unix BY <1>2, <2>2, AtHere
    <3>4. \A e \in Range(Tail(dir.left)) : Shown(e) => e.name # Head(dir.left).name
      BY <1>1, <1>2, <2>2, <3>2, DistinctRest
    <3> QED BY <1>1, <1>2, <1>6, <2>2, <3>2, <3>3, <3>4
  <2> QED BY <1>1, <1>4, <1>5, <2>0, <2>1, <2>2 DEF Fresh
<1>10. ~skipped' => Covered'
  <2>1. SUFFICES ASSUME Covered PROVE Covered' BY <1>1, <1>3
  <2>2. SUFFICES ASSUME NEW d \in DOMAIN fs, d = << >> \/ Dir(d) \in Range(acked),
                        NEW e \in Range(fs[d]), Shown(e)
                 PROVE  \/ Item(d, e) \in Range(acked)
                        \/ \E i \in 1 .. n :
                             /\ At(i) = d
                             /\ e \in Range(Waiting(i)') \/ (i = n /\ e = file')
    BY <1>1, <1>5 DEF Covered
  <2>3. \/ Item(d, e) \in Range(acked)
        \/ \E i \in 1 .. n : At(i) = d /\ e \in Range(Waiting(i))
    BY <1>1, <1>5, <2>1, <2>2 DEF Covered
  <2>4. ASSUME NEW i \in 1 .. n, e \in Range(Waiting(i))
        PROVE  e \in Range(Waiting(i)') \/ (i = n /\ e = file')
    BY <1>1, <1>5, <1>6, <2>4
  <2> QED BY <2>3, <2>4
<1> QED BY <1>1, <1>2, <1>4, <1>7, <1>8, <1>9, <1>10, GoesOn

\* A visit lists what has not been listed.
LEMMA VisitLists ==
  ASSUME Inv, Journal, Account, pc = "visit", Shown(file), UNCHANGED fs, Stray' = Stray,
         NEW c \in CtrlType, ctrl' = Append(ctrl, c), c.op = Op(file), c.name = file.name
  PROVE  /\ Once' /\ Sources' /\ Catalogue' = Catalogue \cup {Item(unix, file)}
         /\ unix \in DOMAIN fs
         /\ ds.nextEntry >= 1 => file \in Range(fs[unix]) /\ Item(unix, file) \notin Catalogue
<1>1. /\ TypeOK /\ Active /\ Charted /\ Searched /\ Fresh /\ ds.nextEntry \in Nat
      /\ c.op \in {"d", "f"}
  BY StackParts DEF Inv, Active, Journal, Account, Op
<1>2. unix = FlattenSeq(Trail) BY <1>1 DEF Charted
<1>3. CASE ds.nextEntry = 0
  <2>1. unix = << >> BY <1>1, <1>2, <1>3, FlattenNothing DEF Charted
  <2>2. unix \in DOMAIN fs /\ file \in Range(Stray) BY <1>1, <1>3, <2>1 DEF Searched
  <2>3. c.op = "f"
    <3>1. file.kind # "dir" BY <1>1, <1>3 DEF Inv, Here
    <3> QED BY <3>1 DEF Op
  <2>4. Stray # << >> BY <2>2 DEF Range
  <2>5. Once' /\ Sources' /\ Catalogue' = Catalogue \cup {Item(unix, file)}
    <3>1. Once /\ Sources BY DEF Account
    <3> QED BY <1>1, <1>2, <2>2, <2>3, <2>4, <3>1, ListGrows
  <2> QED BY <1>1, <1>3, <2>2, <2>5
<1>4. CASE ds.nextEntry # 0
  <2>1. unix \in DOMAIN fs /\ file \in Range(fs[unix]) BY <1>1, <1>4 DEF Searched
  <2>2. ds.nextEntry >= 1 BY <1>1, <1>4
  <2>3. Item(unix, file) \notin Catalogue BY <1>1, <2>2 DEF Fresh
  <2>4. Once' /\ Sources' /\ Catalogue' = Catalogue \cup {Item(unix, file)}
    <3>1. Once /\ Sources BY DEF Account
    <3> QED BY <1>1, <1>2, <2>1, <2>3, <3>1, ListGrows
  <2> QED BY <2>1, <2>3, <2>4
<1> QED BY <1>3, <1>4

\* What is listed stays apart from what is ahead: the levels are different
\* directories, and the names of one are different.
LEMMA AheadStaysFresh ==
  ASSUME Inv, Journal, Account, pc = "visit", Shown(file)
  PROVE  \A i \in 1 .. ds.nextEntry : \A e \in Range(Waiting(i)) :
           Shown(e) => Item(At(i), e) \notin Catalogue \cup {Item(unix, file)}
<1>1. TypeOK /\ Active /\ Charted /\ Searched /\ Fresh /\ Opens /\ ds.nextEntry \in Nat
  BY StackParts DEF Inv, Active, Journal, Account
<1> DEFINE n == ds.nextEntry
<1>2. SUFFICES ASSUME NEW i \in 1 .. n, NEW e \in Range(Waiting(i)), Shown(e),
                      Item(At(i), e) = Item(unix, file)
               PROVE  FALSE
  <2>1. \A i \in 1 .. n : \A e \in Range(Waiting(i)) : Shown(e) => Item(At(i), e) \notin Catalogue
    BY <1>1 DEF Fresh
  <2> QED BY <2>1
<1>3. n >= 1 /\ n # 0 /\ unix \in DOMAIN fs /\ file \in Range(fs[unix]) /\ At(n) = unix
  <2>1. n >= 1 /\ n # 0 BY <1>1, <1>2
  <2> QED BY <1>1, <2>1, AtHere DEF Searched
<1>4. CASE i = n
  <2>1. Waiting(i) = dir.left BY <1>4 DEF Waiting
  <2>2. e \in Range(dir.left) /\ e \in Range(fs[unix]) BY <1>1, <1>2, <2>1 DEF Searched
  <2>3. e = file BY <1>1, <1>2, <1>3, <1>4, <2>2, SameItem
  <2> QED BY <1>1, <1>2, <1>3, <2>2, <2>3 DEF Fresh
<1>5. CASE i # n
  <2>1. i \in 1 .. n - 1 BY <1>1, <1>5
  <2>2. Waiting(i) = ds.entries[i].left BY <1>5 DEF Waiting
  <2>3. At(i) \in DOMAIN fs /\ e \in Range(fs[At(i)]) BY <1>1, <1>2, <2>1, <2>2 DEF Searched
  <2>4. At(i) = At(n) BY <1>1, <1>2, <1>3, <2>3, SameItem
  <2>5. n \in 1 .. n BY <1>1
  <2> QED BY <1>1, <1>5, <2>4, <2>5 DEF Opens
<1> QED BY <1>4, <1>5

\* A file is listed: it is under way.
LEMMA OpenFileAccount ==
  ASSUME Inv, Journal, Account, OpenFile \/ OpenFileFails
  PROVE  Account'
<1>1. /\ pc = "visit" /\ file.kind = "file" /\ ctrl' = Append(ctrl, File(file.name))
      /\ UNCHANGED <<fs, acked, unix, ds, dir, file, skipped>>
  BY DEF OpenFile, OpenFileFails, Visit
<1>2. /\ TypeOK /\ Active /\ Stray' = Stray /\ Shown(file) /\ Op(file) = "f"
      /\ File(file.name) \in CtrlType /\ File(file.name).op = "f"
      /\ File(file.name).name = file.name
  BY <1>1, NameType DEF Inv, Active, Stray, Shown, Op, File, CtrlType
<1>3. /\ Once' /\ Sources' /\ Catalogue' = Catalogue \cup {Item(unix, file)}
      /\ unix \in DOMAIN fs
      /\ ds.nextEntry >= 1 => file \in Range(fs[unix]) /\ Item(unix, file) \notin Catalogue
  BY <1>1, <1>2, VisitLists
<1>4. CASE OpenFileFails
  <2>1. pc' \in {"finish", "aborted"} /\ rc' # 0 BY <1>4 DEF OpenFileFails
  <2> QED BY <1>1, <1>2, <1>3, <2>1, BrokenOff DEF Active
<1>5. CASE OpenFile
  <2>1. pc' = "send" BY <1>5 DEF OpenFile
  <2>2. Trail' = Trail
    <3>1. Trail' = Follow(Trail, File(file.name)) BY <1>1, <1>2, FollowsKept
    <3> QED BY <3>1 DEF Follow, File
  <2>3. /\ \A i : At(i)' = At(i) /\ Waiting(i)' = Waiting(i)
        /\ \A t : ~UnderWay(t)
        /\ \A t : UnderWay(t)' <=> t = File(unix \o file.name)
    BY <1>1, <2>1, <2>2 DEF At, Waiting, UnderWay
  <2>4. Delivered /\ Fresh /\ Opens /\ (~skipped => Covered) BY <1>2 DEF Account
  <2>5. Item(unix, file) = File(unix \o file.name) BY <1>2 DEF Item, File
  <2>6. Delivered' BY <1>1, <1>3, <2>3, <2>4, <2>5 DEF Delivered
  <2>7. Fresh'
    <3>1. \A i \in 1 .. ds.nextEntry : \A e \in Range(Waiting(i)) :
             Shown(e) => Item(At(i), e) \notin Catalogue'
      BY <1>1, <1>2, <1>3, AheadStaysFresh
    <3>2. \A i \in 1 .. ds.nextEntry : Distinct(Waiting(i)) BY <2>4 DEF Fresh
    <3> QED BY <1>1, <2>1, <2>3, <3>1, <3>2 DEF Fresh
  <2>8. Opens'
    <3>1. ds.nextEntry >= 1 => At(ds.nextEntry) = unix /\ ds.nextEntry \in 1 .. ds.nextEntry
      BY <1>2, AtHere, StackParts
    <3>2. ds.nextEntry >= 1 => unix = << >> \/ Dir(unix) \in Catalogue
      BY <2>4, <3>1 DEF Opens
    <3>3. ds.nextEntry >= 1 => \A t \in Catalogue' : \E d \in DOMAIN fs : \E e \in Range(fs[d]) :
            Shown(e) /\ t = Item(d, e) /\ (d = << >> \/ Dir(d) \in Catalogue')
      BY <1>2, <1>3, <2>4, <3>2 DEF Opens
    <3> QED BY <1>1, <1>3, <2>3, <2>4, <3>3 DEF Opens
  <2>9. ~skipped' => Covered'
    <3>1. SUFFICES ASSUME Covered PROVE Covered' BY <1>1, <2>4
    <3>2. SUFFICES ASSUME NEW d \in DOMAIN fs, d = << >> \/ Dir(d) \in Range(acked),
                          NEW e \in Range(fs[d]), Shown(e)
                   PROVE  \/ Item(d, e) \in Range(acked)
                          \/ \E i \in 1 .. ds.nextEntry :
                               /\ At(i) = d
                               /\ e \in Range(Waiting(i)) \/ (i = ds.nextEntry /\ e = file)
      BY <1>1, <2>1, <2>3 DEF Covered
    <3> QED BY <1>1, <2>3, <3>1, <3>2 DEF Covered
  <2>10. Active' BY <2>1 DEF Active
  <2> QED BY <1>1, <1>2, <1>3, <2>6, <2>7, <2>8, <2>9, <2>10, GoesOn
<1> QED BY <1>4, <1>5

\* A directory is entered: it is new, and so is what is in it.
LEMMA EnterDirAccount ==
  ASSUME Inv, Journal, Account, NEW opens \in BOOLEAN, EnterDir(opens)
  PROVE  Account'
<1> DEFINE n == ds.nextEntry
<1>1. /\ pc = "visit" /\ pc' \in {"mkdir", "finish"} /\ file.kind = "dir"
      /\ ctrl' = Append(ctrl, Dir(file.name)) /\ UNCHANGED <<fs, acked, skipped>>
      /\ pc' = "finish" => rc' # 0
  BY DEF EnterDir, Visit
<1>2. /\ TypeOK /\ Active /\ Shown(file) /\ Op(file) = "d"
      /\ Dir(file.name) \in CtrlType /\ Dir(file.name).op = "d"
      /\ Dir(file.name).name = file.name /\ n \in Nat /\ n # 0
  BY <1>1, NameType, StackParts DEF Inv, Active, Shown, Op, Dir, CtrlType, Here
<1>3. Stray' = Stray
  <2>1. ds' = ds \/ ds' = PushDir(ds, dir, path') BY DEF EnterDir
  <2>2. CASE ds' = ds BY <2>2 DEF Stray
  <2>3. CASE ds' = PushDir(ds, dir, path')
    <3>1. ds'.entries = [ds.entries EXCEPT ![n] = dir] BY <2>3, Zenon DEF PushDir
    <3>2. 0 \in DOMAIN ds.entries BY <1>2, StackParts, StackBounds
    <3>3. ds'.entries[0] = ds.entries[0] BY <1>2, <3>1, <3>2
    <3> QED BY <3>3 DEF Stray
  <2> QED BY <2>1, <2>2, <2>3
<1>4. /\ Once' /\ Sources' /\ Catalogue' = Catalogue \cup {Item(unix, file)}
      /\ unix \in DOMAIN fs
      /\ n >= 1 => file \in Range(fs[unix]) /\ Item(unix, file) \notin Catalogue
  BY <1>1, <1>2, <1>3, VisitLists
<1>5. CASE pc' = "finish" BY <1>1, <1>2, <1>4, <1>5, BrokenOff DEF Active
<1>6. CASE pc' = "mkdir"
  <2>1. /\ n >= 1 /\ ds'.nextEntry = n + 1
        /\ ds'.entries[n] = dir
        /\ \A i \in 0 .. n - 1 : ds'.entries[i] = ds.entries[i]
        /\ unix' = unix \o file.name /\ unix' \in DOMAIN fs
        /\ fs[unix'] # << >> /\ dir'.left = Tail(fs[unix']) /\ file' = Head(fs[unix'])
        /\ Range(dir'.left) \subseteq Range(fs[unix']) /\ file' \in Range(fs[unix'])
    BY <1>6, DirEntered
  <2>2. /\ \A i \in 1 .. n : At(i)' = At(i)
        /\ \A i : i = n + 1 => At(i)' = unix'
    BY <1>6, TrailDown
  <2>3. /\ \A i \in 1 .. n : Waiting(i)' = Waiting(i)
        /\ \A i : i = n + 1 => Waiting(i)' = dir'.left
    <3>1. ASSUME NEW i \in 1 .. n PROVE Waiting(i)' = Waiting(i)
      <4>1. i # ds'.nextEntry BY <1>2, <2>1
      <4>2. Waiting(i)' = ds'.entries[i].left BY <4>1 DEF Waiting
      <4>3. CASE i = n BY <2>1, <4>2, <4>3 DEF Waiting
      <4>4. CASE i # n
        <5>1. i \in 0 .. n - 1 BY <1>2, <4>4
        <5> QED BY <2>1, <4>2, <4>4, <5>1 DEF Waiting
      <4> QED BY <4>3, <4>4
    <3>2. ASSUME NEW i, i = n + 1 PROVE Waiting(i)' = dir'.left
      BY <2>1, <3>2 DEF Waiting
    <3> QED BY <3>1, <3>2
  <2>4. Item(unix, file) = Dir(unix') BY <1>2, <2>1 DEF Item, Dir
  <2>5. /\ \A t : ~UnderWay(t)
        /\ \A t : UnderWay(t)' <=> t = Dir(unix')
    BY <1>1, <1>6 DEF UnderWay
  <2>6. Delivered /\ Fresh /\ Opens /\ (~skipped => Covered) BY <1>2 DEF Account
  <2>7. /\ n \in 1 .. n /\ At(n) = unix /\ file \in Range(fs[unix])
        /\ Item(unix, file) \notin Catalogue
    BY <1>2, <1>4, <2>1, AtHere
  <2>8. unix' # << >> /\ unix' # unix
    <3>1. /\ unix \in Seq(Elem) /\ file.name \in Seq(Elem) /\ Len(file.name) >= 1
      BY <1>2, TypeParts, NameType
    <3>2. Len(unix') = Len(unix) + Len(file.name) /\ Len(unix) \in Nat BY <2>1, <3>1
    <3> QED BY <3>1, <3>2
  <2>9. \A e \in Range(fs[unix']) : Shown(e) => Item(unix', e) \notin Catalogue'
    <3>1. SUFFICES ASSUME NEW e \in Range(fs[unix']), Shown(e), Item(unix', e) \in Catalogue'
                   PROVE  FALSE
      OBVIOUS
    <3>2. CASE Item(unix', e) \in Catalogue
      <4>1. PICK d \in DOMAIN fs : \E f \in Range(fs[d]) :
              Shown(f) /\ Item(unix', e) = Item(d, f) /\ (d = << >> \/ Dir(d) \in Catalogue)
        BY <2>1, <2>6, <3>2 DEF Opens
      <4>2. d = unix' BY <1>2, <2>1, <3>1, <4>1, SameItem
      <4> QED BY <2>4, <2>7, <2>8, <4>1, <4>2
    <3>3. CASE Item(unix', e) = Item(unix, file)
      <4>1. unix' = unix BY <1>2, <1>4, <2>1, <2>7, <3>1, <3>3, SameItem
      <4> QED BY <2>8, <4>1
    <3> QED BY <1>4, <3>1, <3>2, <3>3
  <2>10. Delivered' BY <1>1, <1>4, <2>4, <2>5, <2>6 DEF Delivered
  <2>11. Fresh'
    <3>1. fs[unix'] \in Seq(Entry) /\ Distinct(fs[unix']) BY <1>2, <2>1, InTree, NamedOnce
    <3>2. /\ Distinct(dir'.left)
          /\ Shown(file') => \A e \in Range(dir'.left) : Shown(e) => e.name # file'.name
      BY <2>1, <3>1, DistinctRest
    <3>3. ASSUME NEW i \in 1 .. n + 1
          PROVE  /\ Distinct(Waiting(i)')
                 /\ \A e \in Range(Waiting(i)') : Shown(e) => Item(At(i)', e) \notin Catalogue'
      <4>1. CASE i \in 1 .. n
        <5>1. Waiting(i)' = Waiting(i) /\ At(i)' = At(i) BY <2>2, <2>3, <4>1
        <5>2. \A e \in Range(Waiting(i)) : Shown(e) => Item(At(i), e) \notin Catalogue'
          BY <1>1, <1>2, <1>4, <4>1, AheadStaysFresh
        <5>3. Distinct(Waiting(i)) BY <2>6, <4>1 DEF Fresh
        <5>4. Distinct(Waiting(i)') BY <5>1, <5>3
        <5> QED BY <5>1, <5>2, <5>4
      <4>2. CASE i = n + 1
        <5>1. Waiting(i)' = dir'.left /\ At(i)' = unix' BY <2>2, <2>3, <4>2
        <5>2. Distinct(Waiting(i)') BY <3>2, <5>1
        <5> QED BY <2>1, <2>9, <5>1, <5>2
      <4> QED BY <1>2, <4>1, <4>2
    <3>4. Item(unix, file)' = Item(unix', file') BY DEF Item, Op
    <3> QED BY <1>6, <2>1, <2>9, <3>2, <3>3, <3>4 DEF Fresh
  <2>12. Opens'
    <3>1. Dir(unix') \in Catalogue' BY <1>4, <2>4
    <3>2. ASSUME NEW i \in 1 .. n + 1 PROVE At(i)' = << >> \/ Dir(At(i)') \in Catalogue'
      <4>1. CASE i \in 1 .. n BY <1>4, <2>2, <2>6, <4>1 DEF Opens
      <4>2. CASE i = n + 1 BY <2>2, <3>1, <4>2
      <4> QED BY <1>2, <4>1, <4>2
    <3>3. \A i \in 1 .. n : At(i)' # unix'
      <4>1. SUFFICES ASSUME NEW i \in 1 .. n, At(i) = unix' PROVE FALSE BY <2>2
      <4>2. At(i) = << >> \/ Dir(At(i)) \in Catalogue BY <2>6 DEF Opens
      <4> QED BY <2>4, <2>7, <2>8, <4>1, <4>2
    <3>4. ASSUME NEW i \in 1 .. n + 1, NEW j \in 1 .. n + 1, At(i)' = At(j)' PROVE i = j
      <4>1. CASE i \in 1 .. n /\ j \in 1 .. n BY <2>2, <2>6, <3>4, <4>1 DEF Opens
      <4>2. CASE i = n + 1 /\ j \in 1 .. n BY <2>2, <3>3, <3>4, <4>2
      <4>3. CASE j = n + 1 /\ i \in 1 .. n BY <2>2, <3>3, <3>4, <4>3
      <4> QED BY <1>2, <4>1, <4>2, <4>3
    <3>5. \A t \in Catalogue' : \E d \in DOMAIN fs : \E e \in Range(fs[d]) :
            Shown(e) /\ t = Item(d, e) /\ (d = << >> \/ Dir(d) \in Catalogue')
      <4>1. unix = << >> \/ Dir(unix) \in Catalogue BY <2>6, <2>7 DEF Opens
      <4> QED BY <1>2, <1>4, <2>1, <2>6, <2>7, <4>1 DEF Opens
    <3> QED BY <1>1, <2>1, <3>2, <3>4, <3>5 DEF Opens, Dir
  <2>13. ~skipped' => Covered'
    <3>1. SUFFICES ASSUME Covered PROVE Covered' BY <1>1, <2>6
    <3>2. SUFFICES ASSUME NEW d \in DOMAIN fs,
                          d = << >> \/ Dir(d) \in Range(acked) \/ d = unix',
                          NEW e \in Range(fs[d]), Shown(e)
                   PROVE  \/ Item(d, e) \in Range(acked) \/ Item(d, e) = Dir(unix')
                          \/ \E i \in 1 .. n + 1 :
                               /\ At(i)' = d
                               /\ e \in Range(Waiting(i)') \/ (i = n + 1 /\ e = file')
      BY <1>1, <1>6, <2>1, <2>5 DEF Covered
    <3>3. CASE d = unix'
      <4>1. e = file' \/ e \in Range(dir'.left)
        BY <1>2, <2>1, <3>2, <3>3, InTree, RangeCovered
      <4>2. n + 1 \in 1 .. n + 1 BY <1>2
      <4> QED BY <2>2, <2>3, <3>3, <4>1, <4>2
    <3>4. CASE d # unix'
      <4>1. \/ Item(d, e) \in Range(acked)
            \/ \E i \in 1 .. n : At(i) = d /\ (e \in Range(Waiting(i)) \/ (i = n /\ e = file))
        BY <2>5, <3>1, <3>2, <3>4, <1>1 DEF Covered
      <4>2. ASSUME NEW i \in 1 .. n, At(i) = d, e \in Range(Waiting(i)) \/ (i = n /\ e = file)
            PROVE  \/ Item(d, e) = Dir(unix')
                   \/ \E j \in 1 .. n + 1 : At(j)' = d /\ e \in Range(Waiting(j)')
        <5>1. i \in 1 .. n + 1 BY <1>2
        <5>2. CASE e \in Range(Waiting(i)) BY <2>2, <2>3, <4>2, <5>1, <5>2
        <5>3. CASE i = n /\ e = file BY <2>4, <2>7, <4>2, <5>3
        <5> QED BY <4>2, <5>2, <5>3
      <4> QED BY <4>1, <4>2
    <3> QED BY <3>3, <3>4
  <2>14. Active' BY <1>6 DEF Active
  <2> QED BY <1>1, <1>2, <1>4, <2>10, <2>11, <2>12, <2>13, <2>14, GoesOn
<1> QED BY <1>1, <1>5, <1>6

\* What was under way is on the server; the next attempt, if any, is for the same.
LEMMA AttemptAccount ==
  ASSUME Inv, Journal, Account,
         \/ pc = "mkdir" /\ pc' \in {"mkdir", "visit"}
         \/ pc = "send" /\ pc' \in {"send", "next"},
         UNCHANGED <<fs, ctrl, unix, ds, dir, file, skipped>>,
         NEW a \in AckedType, UnderWay(a), a.op # "e",
         \/ acked' = Append(acked, a)
         \/ acked' = acked /\ pc' = pc
  PROVE  Account'
<1>1. /\ TypeOK /\ Active /\ Active' /\ Stray' = Stray /\ Trail' = Trail
      /\ ds.nextEntry \in Nat
  BY StackParts DEF Inv, Active, Stray, Trail
<1>2. Delivered /\ Fresh /\ Opens /\ (~skipped => Covered) /\ Made /\ Announced
  BY <1>1 DEF Account, Journal
<1>3. Once' /\ Sources' /\ Catalogue' = Catalogue
  BY <1>1, ListKeptOrEnded DEF Account
<1>4. /\ \A i : At(i)' = At(i) /\ Waiting(i)' = Waiting(i)
      /\ \A t : UnderWay(t) => t = a
      /\ pc' = pc => \A t : UnderWay(t)' <=> UnderWay(t)
  BY <1>1 DEF At, Waiting, UnderWay
<1>5. /\ Range(acked) \subseteq Range(acked')
      /\ Range(acked') \subseteq Range(acked) \cup {a}
      /\ a \in Range(acked') \/ UnderWay(a)'
  <2>1. CASE acked' = Append(acked, a)
    <3>1. Range(acked') = Range(acked) \cup {a} BY <1>1, <2>1, AckedRange
    <3> QED BY <3>1
  <2>2. CASE acked' = acked /\ pc' = pc BY <1>4, <2>2
  <2> QED BY <2>1, <2>2
<1>6. Delivered' BY <1>2, <1>3, <1>4, <1>5 DEF Delivered
<1>7. Fresh'
  <2>1. pc' \notin {"next", "send"} => pc \notin {"next", "send"} OBVIOUS
  <2> QED BY <1>2, <1>3, <1>4, <2>1 DEF Fresh
<1>8. Opens' BY <1>2, <1>3, <1>4 DEF Opens
<1>9. ~skipped' => Covered'
  <2>1. SUFFICES ASSUME Covered PROVE Covered' BY <1>2
  <2>2. SUFFICES ASSUME NEW d \in DOMAIN fs,
                        d = << >> \/ Dir(d) \in Range(acked') \/ (pc' = "mkdir" /\ d = unix),
                        NEW e \in Range(fs[d]), Shown(e)
                 PROVE  \/ Item(d, e) \in Range(acked') \/ UnderWay(Item(d, e))'
                        \/ \E i \in 1 .. ds.nextEntry :
                             /\ At(i) = d
                             /\ e \in Range(Waiting(i)) \/ (i = ds.nextEntry /\ pc' # "next" /\ e = file)
    <3>1. \A d, e : UnderWay(Item(d, e))' <=> (UnderWay(Item(d, e)))' OBVIOUS
    <3>2. \A d, e : Item(d, e)' = Item(d, e) BY DEF Item, Op
    <3> QED BY <1>4, <3>2 DEF Covered, UnderWay, Dir, File
  <2>3. d = << >> \/ Dir(d) \in Range(acked) \/ (pc = "mkdir" /\ d = unix)
    <3>1. Dir(d) = a => pc = "mkdir" /\ d = unix BY <1>4 DEF UnderWay, Dir, File
    <3> QED BY <1>5, <2>2, <3>1
  <2>4. \/ Item(d, e) \in Range(acked) \/ UnderWay(Item(d, e))
        \/ \E i \in 1 .. ds.nextEntry :
             /\ At(i) = d
             /\ e \in Range(Waiting(i)) \/ (i = ds.nextEntry /\ pc # "next" /\ e = file)
    BY <2>1, <2>2, <2>3 DEF Covered
  <2>5. ASSUME NEW i \in 1 .. ds.nextEntry, At(i) = d, i = ds.nextEntry, e = file, pc' = "next"
        PROVE  Item(d, e) = a
    <3>1. pc = "send" /\ file.kind = "file" BY <1>2, <2>5 DEF Announced
    <3>2. d = unix BY <1>1, <2>5, AtHere
    <3> QED BY <1>4, <2>5, <3>1, <3>2 DEF UnderWay, Item, Op, File
  <2>6. UnderWay(Item(d, e)) => Item(d, e) \in Range(acked') \/ UnderWay(Item(d, e))'
    BY <1>4, <1>5
  <2>7. pc' = "next" => a \in Range(acked') BY <1>5 DEF UnderWay
  <2> QED BY <1>5, <2>4, <2>5, <2>6, <2>7
<1> QED BY <1>1, <1>3, <1>6, <1>7, <1>8, <1>9, GoesOn

LEMMA MkDirAccount ==
  ASSUME Inv, Journal, Account, NEW c \in Codes, MkDirAttempt(c)
  PROVE  Account'
<1>1. /\ pc = "mkdir" /\ pc' \in {"mkdir", "visit", "finish"}
      /\ UNCHANGED <<fs, unix, ds, dir, file, ctrl, skipped>>
      /\ pc' = "visit" => c = "SUCCESS"
      /\ pc' = "finish" => rc' # 0
      /\ acked' = IF c = "SUCCESS" THEN Append(acked, Dir(target)) ELSE acked
  <2>1. retry \in Int BY TypeParts DEF Inv
  <2> QED BY <2>1 DEF MkDirAttempt, MaxRetries
<1>2. /\ TypeOK /\ Active /\ target = unix /\ Dir(target) \in AckedType
      /\ Dir(target).op = "d" /\ UnderWay(Dir(target)) /\ Stray' = Stray
  BY <1>1, TargetType DEF Inv, Targets, Active, UnderWay, Stray, Dir
<1>3. CASE pc' = "finish"
  <2>1. Once' /\ Sources' BY <1>1, <1>2, ListKeptOrEnded DEF Account
  <2> QED BY <1>1, <1>2, <1>3, <2>1, BrokenOff DEF Active
<1>4. CASE pc' # "finish"
  <2>1. acked' = Append(acked, Dir(target)) \/ (acked' = acked /\ pc' = pc)
    BY <1>1, <1>4
  <2> QED BY <1>1, <1>2, <1>4, <2>1, AttemptAccount
<1> QED BY <1>3, <1>4

LEMMA SendAccount ==
  ASSUME Inv, Journal, Account, NEW r \in {0, -1, -2}, SendAttempt(r)
  PROVE  Account'
<1>1. /\ pc = "send" /\ pc' \in {"send", "next", "finish"}
      /\ UNCHANGED <<fs, unix, ds, dir, file, ctrl, skipped>>
      /\ pc' = "next" => r = 0
      /\ pc' = "finish" => rc' # 0
      /\ acked' = IF r = 0 THEN Append(acked, File(target)) ELSE acked
  <2>1. retry \in Int BY TypeParts DEF Inv
  <2> QED BY <2>1 DEF SendAttempt, MaxRetries
<1>2. /\ TypeOK /\ Active /\ target = unix \o file.name /\ File(target) \in AckedType
      /\ File(target).op = "f" /\ UnderWay(File(target)) /\ Stray' = Stray
  BY <1>1, TargetType DEF Inv, Targets, Active, UnderWay, Stray, File
<1>3. CASE pc' = "finish"
  <2>1. Once' /\ Sources' BY <1>1, <1>2, ListKeptOrEnded DEF Account
  <2> QED BY <1>1, <1>2, <1>3, <2>1, BrokenOff DEF Active
<1>4. CASE pc' # "finish"
  <2>1. acked' = Append(acked, File(target)) \/ (acked' = acked /\ pc' = pc)
    BY <1>1, <1>4
  <2> QED BY <1>1, <1>2, <1>4, <2>1, AttemptAccount
<1> QED BY <1>3, <1>4

\* What is left of a directory when its search gives nothing more is nothing,
\* or it is remembered that something was left.
LEMMA CloseAndPopAccount ==
  ASSUME Inv, Journal, Account, CloseAndPop
  PROVE  Account'
<1> DEFINE n == ds.nextEntry
<1>1. /\ pc = "next" /\ pc' = pc /\ ctrl' = Append(ctrl, CdUp)
      /\ skipped' = (skipped \/ dir.left # << >>) /\ UNCHANGED <<fs, acked>>
  BY DEF CloseAndPop
<1>2. /\ TypeOK /\ Active /\ Active' /\ CdUp \in CtrlType /\ CdUp.op = "c"
  BY <1>1 DEF Inv, CdUp, CtrlType, Active
<1>3. /\ n \in Nat /\ n >= 1 /\ ds'.nextEntry = n - 1
      /\ ds'.entries = ds.entries /\ dir' = ds.entries[n - 1]
      /\ \A i \in 1 .. n - 1 : At(i)' = At(i)
  BY WentUp
<1>4. Stray' = Stray BY <1>3 DEF Stray
<1>5. Once' /\ Sources' /\ Catalogue' = Catalogue
  BY <1>1, <1>2, <1>4, ListKeptOrEnded DEF Account
<1>6. /\ \A i \in 1 .. n - 1 : i \in 1 .. n /\ Waiting(i)' = Waiting(i)
      /\ \A t : ~UnderWay(t) /\ ~UnderWay(t)'
  BY <1>1, <1>3 DEF Waiting, UnderWay
<1>7. Delivered /\ Fresh /\ Opens /\ (~skipped => Covered) BY <1>2 DEF Account
<1>8. Delivered' BY <1>1, <1>5, <1>6, <1>7 DEF Delivered
<1>9. Fresh'
  <2>1. ASSUME NEW i \in 1 .. n - 1
        PROVE  /\ Distinct(Waiting(i)')
               /\ \A e \in Range(Waiting(i)') : Shown(e) => Item(At(i)', e) \notin Catalogue'
    <3>1. /\ Distinct(Waiting(i))
          /\ \A e \in Range(Waiting(i)) : Shown(e) => Item(At(i), e) \notin Catalogue
      BY <1>6, <1>7 DEF Fresh
    <3>2. Waiting(i)' = Waiting(i) /\ At(i)' = At(i) BY <1>3, <1>6
    <3>3. Distinct(Waiting(i)') BY <3>1, <3>2
    <3> QED BY <1>5, <3>1, <3>2, <3>3
  <2> QED BY <1>1, <1>3, <2>1 DEF Fresh
<1>10. Opens'
  <2>1. ds'.nextEntry >= 1 => n >= 1 BY <1>3
  <2>2. \A t \in Catalogue' : \E d \in DOMAIN fs : \E e \in Range(fs[d]) :
          Shown(e) /\ t = Item(d, e) /\ (d = << >> \/ Dir(d) \in Catalogue')
    BY <1>3, <1>5, <1>7 DEF Opens
  <2>3. \A i \in 1 .. n - 1 : At(i)' = << >> \/ Dir(At(i)') \in Catalogue'
    BY <1>3, <1>5, <1>6, <1>7 DEF Opens
  <2>4. \A i, j \in 1 .. n - 1 : At(i)' = At(j)' => i = j
    BY <1>3, <1>6, <1>7 DEF Opens
  <2> QED BY <1>1, <1>3, <2>2, <2>3, <2>4 DEF Opens, Dir
<1>11. ~skipped' => Covered'
  <2>1. SUFFICES ASSUME Covered, dir.left = << >> PROVE Covered' BY <1>1, <1>7
  <2>2. SUFFICES ASSUME NEW d \in DOMAIN fs, d = << >> \/ Dir(d) \in Range(acked),
                        NEW e \in Range(fs[d]), Shown(e)
                 PROVE  \/ Item(d, e) \in Range(acked)
                        \/ \E i \in 1 .. n - 1 : At(i)' = d /\ e \in Range(Waiting(i)')
    BY <1>1, <1>3, <1>6 DEF Covered
  <2>3. \/ Item(d, e) \in Range(acked)
        \/ \E i \in 1 .. n : At(i) = d /\ e \in Range(Waiting(i))
    BY <1>1, <1>6, <2>1, <2>2 DEF Covered
  <2>4. \A i \in 1 .. n : e \in Range(Waiting(i)) => i \in 1 .. n - 1
    <3>1. \A i : i = n => Waiting(i) = << >> BY <2>1 DEF Waiting
    <3>2. Range(<< >>) = {} BY DEF Range
    <3> QED BY <1>3, <3>1, <3>2
  <2> QED BY <1>3, <1>6, <2>3, <2>4
<1> QED BY <1>1, <1>2, <1>5, <1>8, <1>9, <1>10, <1>11, GoesOn

\* The root is the first directory, and all of it is ahead.
LEMMA PrepareAccount ==
  ASSUME Inv, Journal, Account, Prepare
  PROVE  Account'
<1>1. /\ pc' = "init" /\ ctrl' = <<Header(Root)>> /\ UNCHANGED <<fs, acked>>
      /\ ds'.nextEntry = 1 /\ unix' = << >> /\ Trail' = << >>
      /\ << >> \in DOMAIN fs /\ fs[<< >>] # << >>
      /\ dir'.left = Tail(fs[<< >>]) /\ file' = Head(fs[<< >>])
  BY Prepared
<1>2. /\ TypeOK /\ acked = << >> /\ ctrl = << >> /\ Header(Root).op = "h"
  BY DEF Prepare, Journal, Inv, Header
<1>3. /\ Items' = {} /\ Catalogue' = {} /\ Range(acked') = {}
  <2>1. Items' = {} BY <1>1, <1>2 DEF Items
  <2>2. Catalogue' = {Listed(i)' : i \in Items'} BY DEF Catalogue
  <2> QED BY <1>1, <1>2, <2>1, <2>2 DEF Range
<1>4. Once' /\ Sources' /\ Delivered' BY <1>3 DEF Once, Sources, Delivered
<1>5. /\ \A i : i = 1 => At(i)' = << >> /\ Waiting(i)' = dir'.left
      /\ 1 .. ds'.nextEntry = {1}
  <2>1. ASSUME NEW i, i = 1 PROVE At(i)' = << >>
    <3>1. SubSeq(<< >>, 1, i - 1) = << >> BY <2>1
    <3> QED BY <1>1, <3>1, FlattenNothing DEF At
  <2>2. ASSUME NEW i, i = 1 PROVE Waiting(i)' = dir'.left BY <1>1, <2>2 DEF Waiting
  <2> QED BY <1>1, <2>1, <2>2
<1>6. fs[<< >>] \in Seq(Entry) /\ Distinct(fs[<< >>]) BY <1>1, <1>2, InTree, NamedOnce
<1>7. Fresh'
  <2>1. /\ Distinct(dir'.left)
        /\ Shown(file') => \A e \in Range(dir'.left) : Shown(e) => e.name # file'.name
    BY <1>1, <1>6, DistinctRest
  <2>2. \A i \in 1 .. ds'.nextEntry : Distinct(Waiting(i)') BY <1>5, <2>1
  <2> QED BY <1>3, <2>1, <2>2 DEF Fresh
<1>8. Opens' BY <1>3, <1>5 DEF Opens
<1>9. Covered'
  <2>1. SUFFICES ASSUME NEW d \in DOMAIN fs, d = << >> \/ Dir(d) \in Range(acked'),
                        NEW e \in Range(fs[d])
                 PROVE  \E i \in 1 .. ds'.nextEntry :
                          /\ At(i)' = d
                          /\ e \in Range(Waiting(i)') \/ (i = ds'.nextEntry /\ e = file')
    BY <1>1 DEF Covered, Dir
  <2>2. d = << >> BY <1>3, <2>1
  <2>3. e = file' \/ e \in Range(dir'.left) BY <1>1, <1>6, <2>1, <2>2, RangeCovered
  <2> QED BY <1>1, <1>5, <2>2, <2>3
<1>10. Ending' /\ ~Closed'
  <2>1. ctrl' = Append(ctrl, Header(Root)) /\ Header(Root) \in CtrlType
    BY <1>1, <1>2, BackupBounds DEF Header, CtrlType
  <2>2. pc = "prepare" BY DEF Prepare
  <2> QED BY <1>1, <1>2, <2>1, <2>2, EndingKept DEF Account
<1>11. ~Finished' BY <1>1, <1>10 DEF Finished
<1> QED BY <1>1, <1>4, <1>7, <1>8, <1>9, <1>10, <1>11 DEF Account

LEMMA AccountBegins == Init => Account
<1> SUFFICES ASSUME Init PROVE Account OBVIOUS
<1>1. pc = "prepare" /\ ctrl = << >> /\ acked = << >> BY DEF Init
<1>2. Items = {} /\ Catalogue = {} BY <1>1 DEF Items, Catalogue
<1>3. ~Closed /\ Eof \notin Range(acked) BY <1>1 DEF Closed, Range
<1>4. Once /\ Sources BY <1>2 DEF Once, Sources
<1>5. Ending BY <1>1, <1>3 DEF Ending
<1> QED BY <1>1, <1>3, <1>4, <1>5 DEF Account, Active, Finished

LEMMA StutterAccount ==
  ASSUME Account, UNCHANGED vars
  PROVE  Account'
<1>1. UNCHANGED <<fs, pc, rc, unix, ds, dir, file, ctrl, acked, skipped>> BY DEF vars
<1>2. Trail' = Trail /\ Stray' = Stray /\ Items' = Items BY <1>1 DEF Trail, Stray, Items
<1>3. \A i : At(i)' = At(i) /\ Listed(i)' = Listed(i) /\ Waiting(i)' = Waiting(i)
  BY <1>1, <1>2 DEF At, Listed, Waiting
<1>4. Catalogue' = Catalogue
  <2>1. Catalogue' = {Listed(i)' : i \in Items'} BY DEF Catalogue
  <2> QED BY <1>2, <1>3, <2>1 DEF Catalogue
<1>5. \A t : UnderWay(t)' <=> UnderWay(t) BY <1>1 DEF UnderWay, Dir, File
<1>6. Once' = Once /\ Sources' = Sources BY <1>1, <1>2, <1>3, <1>4 DEF Once, Sources
<1>7. Ending' = Ending /\ Finished' = Finished BY <1>1 DEF Ending, Closed, Finished
<1>8. Active' = Active BY <1>1 DEF Active
<1>9. Delivered => Delivered' BY <1>1, <1>4, <1>5 DEF Delivered
<1>10. Fresh => Fresh'
  <2>1. Item(unix, file)' = Item(unix, file) BY <1>1 DEF Item, Op
  <2>2. \A i, e : Item(At(i), e)' = Item(At(i), e) BY <1>3 DEF Item, Op
  <2> QED BY <1>1, <1>3, <1>4, <2>1, <2>2 DEF Fresh
<1>11. Opens => Opens' BY <1>1, <1>3, <1>4 DEF Opens, Dir
<1>12. Covered => Covered'
  <2>1. \A d, e : UnderWay(Item(d, e))' <=> UnderWay(Item(d, e))
    BY <1>1 DEF UnderWay, Dir, File
  <2> QED BY <1>1, <1>3, <2>1 DEF Covered
<1>13. Complete' = Complete BY <1>1 DEF Complete
<1> QED BY <1>1, <1>4, <1>6, <1>7, <1>8, <1>9, <1>10, <1>11, <1>12, <1>13 DEF Account

LEMMA AccountStep == Inv /\ Journal /\ Account /\ [Next]_vars => Account'
<1> SUFFICES ASSUME Inv, Journal, Account, [Next]_vars PROVE Account'
  OBVIOUS
<1>1. CASE Prepare BY <1>1, PrepareAccount
<1>2. CASE (\E c \in Codes : InitRemote(c) \/ MakeBackupDir(c) \/ ChangeDir(c)) \/ VisitDot
  BY <1>2, CallsAccount
<1>3. CASE \E c \in Codes : MkDirAttempt(c) BY <1>3, MkDirAccount
<1>4. CASE \E r \in {0, -1, -2} : SendAttempt(r) BY <1>4, SendAccount
<1>5. CASE OpenFile \/ OpenFileFails BY <1>5, OpenFileAccount
<1>6. CASE \E opens \in BOOLEAN : EnterDir(opens) BY <1>6, EnterDirAccount
<1>7. CASE NextEntry BY <1>7, NextEntryAccount
<1>8. CASE CloseAndPop BY <1>8, CloseAndPopAccount
<1>9. CASE LastClose BY <1>9, LastAccount
<1>10. CASE \/ Abort \/ PathTooLong \/ GiveUp \/ Finalize \/ Close
            \/ \E r \in -6 .. -1 : PrepareFails(r)
            \/ \E r \in {0, -1, -2} : SendControlFile(r)
  BY <1>10, EndAccount
<1>11. CASE Terminated \/ UNCHANGED vars BY <1>11, StutterAccount DEF Terminated
<1> QED
  BY <1>1, <1>2, <1>3, <1>4, <1>5, <1>6, <1>7, <1>8, <1>9, <1>10, <1>11 DEF Next, Step

LEMMA AccountInvariant == Spec => []Account
<1>1. Init => Account BY AccountBegins
<1>2. Inv /\ Journal /\ Account /\ [Next]_vars => Account' BY AccountStep
<1> QED BY <1>1, <1>2, Invariant, JournalInvariant, PTL DEF Spec

-----------------------------------------------------------------------------

\* Level by level, the server has every directory of the tree.
LEMMA EveryDirectory ==
  ASSUME TypeOK, Complete
  PROVE  \A d \in DOMAIN fs : d = << >> \/ Dir(d) \in Range(acked)
<1> DEFINE S == {n \in Nat : \A d \in DOMAIN fs : Len(d) =< n => d = << >> \/ Dir(d) \in Range(acked)}
<1>1. 0 \in S
  <2>1. \A d \in DOMAIN fs : Len(d) =< 0 => d = << >> BY InTree
  <2> QED BY <2>1
<1>2. ASSUME NEW n \in Nat, n \in S PROVE n + 1 \in S
  <2>1. SUFFICES ASSUME NEW d \in DOMAIN fs, Len(d) =< n + 1, d # << >>
                 PROVE  Dir(d) \in Range(acked)
    OBVIOUS
  <2>2. fs \in Worlds BY DEF TypeOK
  <2>3. PICK p \in DOMAIN fs : \E i \in DOMAIN fs[p] :
          fs[p][i].kind = "dir" /\ d = p \o fs[p][i].name
    BY <2>1, <2>2, BackupTrees
  <2>4. PICK e \in Range(fs[p]) : e.kind = "dir" /\ d = p \o e.name
    BY <2>3 DEF Range
  <2>5. Len(p) =< n
    <3>1. p \in Seq(Elem) /\ e.name \in Seq(Elem) /\ Len(e.name) >= 1 BY InTree
    <3>2. Len(d) = Len(p) + Len(e.name) /\ Len(p) \in Nat /\ Len(e.name) \in Nat BY <2>4, <3>1
    <3> QED BY <2>1, <3>1, <3>2
  <2>6. p = << >> \/ Dir(p) \in Range(acked) BY <1>2, <2>5
  <2>7. Item(p, e) \in Range(acked) BY <2>4, <2>6 DEF Complete, Shown
  <2>8. Item(p, e) = Dir(d) BY <2>4 DEF Item, Op, Dir
  <2> QED BY <2>7, <2>8
<1>3. \A n \in Nat : n \in S
  <2> HIDE DEF S
  <2> QED BY <1>1, <1>2, Inductive
<1>4. \A d \in DOMAIN fs : Len(d) \in Nat BY InTree
<1> QED BY <1>3, <1>4

\* The tree, the server and the list have the same, whenever the walk has come to
\* its end and no search was cut short.
LEMMA NothingMissing ==
  ASSUME TypeOK, Journal, Account, Finished, ~skipped
  PROVE  /\ Tree \subseteq Range(acked)
         /\ \A t \in Tree : \E i \in Items : Listed(i) = t
<1>1. Complete /\ ConfirmedIsListed BY DEF Account, Journal
<1>2. ASSUME NEW t \in Tree PROVE t \in Range(acked) /\ t.op # "e"
  <2>1. PICK d \in DOMAIN fs : t \in {[op |-> Op(e), name |-> d \o e.name] :
                   e \in {f \in Range(fs[d]) : f.kind # "dot"}}
    BY DEF Tree
  <2>2. PICK e \in Range(fs[d]) : e.kind # "dot" /\ t = Item(d, e)
    BY <2>1 DEF Item
  <2>3. d = << >> \/ Dir(d) \in Range(acked) BY <1>1, EveryDirectory
  <2>4. t \in Range(acked) BY <1>1, <2>2, <2>3 DEF Complete, Shown
  <2> QED BY <2>2, <2>4 DEF Item, Op
<1>3. ASSUME NEW t \in Tree PROVE \E i \in Items : Listed(i) = t
  <2>1. PICK k \in DOMAIN acked : acked[k] = t BY <1>2 DEF Range
  <2> QED BY <1>1, <1>2, <2>1 DEF ConfirmedIsListed
<1> QED BY <1>2, <1>3

\* A backup that reports success has stored and listed every directory and file of
\* the tree, each once, whatever the tree and the server (do_backup,
\* BACKUP.C:125-303).
THEOREM SuccessIsComplete == Spec => []CompleteOnSuccess
<1>1. TypeOK /\ Journal /\ Account => CompleteOnSuccess
  <2>1. SUFFICES ASSUME TypeOK, Journal, Account, pc = "exit", rc = 0, ~skipped
                 PROVE  /\ Tree \subseteq Range(acked)
                        /\ \A t \in Tree : \E i \in Items : Listed(i) = t
                        /\ Stray = << >> => \A i, j \in Items : Listed(i) = Listed(j) => i = j
    BY DEF CompleteOnSuccess
  <2>2. Finished BY <2>1 DEF Account, Ending, Finished
  <2>3. Stray = << >> => \A i, j \in Items : Listed(i) = Listed(j) => i = j
    BY <2>1 DEF Account, Once
  <2> QED BY <2>1, <2>2, <2>3, NothingMissing
<1> QED BY <1>1, BackupTypes, JournalInvariant, AccountInvariant, PTL

-----------------------------------------------------------------------------
(* The restores *)

RPCs == {"prepare", "init", "chdir", "list", "entry", "close", "exit", "aborted"}

\* The list as it was received, and what is read from it.
Received ==
  /\ rgot \in Seq(CtrlType) /\ Len(rgot) =< Len(ctrl)
  /\ rpos \in 1 .. Len(rgot) + 1
  /\ rpath \in Seq(Seq(Elem)) /\ runix \in Seq(Seq(Elem))

\* The counters and the history.
Counted ==
  /\ rpc \in RPCs
  /\ rrc \in -14 .. 0
  /\ rretry \in 0 .. R!MaxRetries
  /\ run \in 1 .. MaxRuns
  /\ made \subseteq restored
  /\ cut \in BOOLEAN /\ fault \in BOOLEAN

\* No restore begins before the backup has ended, and none reads before it has
\* a list.
Unread ==
  /\ ~Ended => rpc = "prepare"
  /\ rpc \in {"prepare", "init", "chdir", "list"} =>
       rgot = << >> /\ rpos = 1 /\ rpath = << >> /\ runix = << >>

\* unix_path is the path, except at the root, and every level of the path is a
\* directory that this restore has made.
OnTheWay ==
  rpc = "entry" =>
    /\ rpath = << >> \/ runix = rpath
    /\ \A i \in 1 .. Len(rpath) : Dir(R!Flat(SubSeq(rpath, 1, i))) \in made

RInv == Received /\ Counted /\ Unread /\ OnTheWay

-----------------------------------------------------------------------------
(* The initial state, and the backup *)

LEMMA RestoreStarts == RInit => RInv
<1> SUFFICES ASSUME RInit PROVE RInv OBVIOUS
<1>1. /\ rpc = "prepare" /\ rrc = 0 /\ rgot = << >> /\ rpos = 1
      /\ rpath = << >> /\ runix = << >> /\ rretry = 0
      /\ restored = {} /\ made = {} /\ run = 1 /\ cut = FALSE /\ fault = FALSE
      /\ ctrl = << >>
  BY DEF RInit, R!Start, Init
<1>2. Received BY <1>1 DEF Received
<1>3. Counted
  <2>1. rrc \in -14 .. 0 /\ rretry \in 0 .. R!MaxRetries /\ run \in 1 .. MaxRuns
    BY <1>1, RestoreBounds DEF R!MaxRetries
  <2> QED BY <1>1, <2>1 DEF Counted, RPCs
<1>4. Unread /\ OnTheWay BY <1>1 DEF Unread, OnTheWay
<1> QED BY <1>2, <1>3, <1>4 DEF RInv

\* As long as the backup writes its list there is nothing to restore.
LEMMA BackupGoesOn ==
  ASSUME TypeOK', RInv, BackupStep
  PROVE  RInv'
<1>1. ~Ended /\ UNCHANGED rvars BY DEF BackupStep
<1>2. UNCHANGED <<rpc, rrc, rgot, rpos, rpath, runix, rretry, restored, run, made, cut, fault>>
  BY <1>1 DEF rvars
<1>3. rpc = "prepare" /\ rgot = << >> BY <1>1 DEF RInv, Unread
<1>4. Received'
  <2>1. ctrl' \in Seq(CtrlType) BY DEF TypeOK
  <2>2. Len(rgot') =< Len(ctrl') BY <1>2, <1>3, <2>1
  <2> QED BY <1>2, <2>2 DEF RInv, Received
<1>5. Counted' BY <1>2 DEF RInv, Counted
<1>6. Unread' /\ OnTheWay' BY <1>2, <1>3 DEF RInv, Unread, OnTheWay
<1> QED BY <1>4, <1>5, <1>6 DEF RInv

-----------------------------------------------------------------------------
(* The steps of a restore that leave the list and the path alone *)

LEMMA ListKept ==
  ASSUME UNCHANGED vars, UNCHANGED rgot, Received
  PROVE  rgot' \in Seq(CtrlType) /\ Len(rgot') =< Len(ctrl')
BY DEF vars, Received

\* The steps between two entries: what is read, and where, stays.
LEMMA PreparationGoesOn ==
  ASSUME RInv, Ended, UNCHANGED vars,
         \/ R!Prepare \/ \E r \in -5 .. -1 : R!PrepareFails(r)
         \/ \E ok \in BOOLEAN : R!InitRemote(ok) \/ R!ChangeDir(ok)
         \/ R!GetListFails \/ R!EndOfList \/ R!Unexpected \/ R!Abort \/ R!Close
  PROVE  RInv'
<1> USE DEF R!Prepare, R!PrepareFails, R!InitRemote, R!ChangeDir, R!GetListFails,
            R!EndOfList, R!Unexpected, R!Abort, R!Close, R!ghosts
<1>1. UNCHANGED <<rgot, rpos, rpath, runix, rretry, restored, run, made, cut>>
  OBVIOUS
<1>2. /\ rpc' \in {"init", "chdir", "list", "close", "exit", "aborted"}
      /\ rpc' \in {"init", "chdir", "list"} => rpc \in {"prepare", "init", "chdir"}
  OBVIOUS
<1>3. rrc' \in -14 .. 0
  <2>1. rrc' \in {rrc, -5, -4, -3, -2, -1, -6, -7, -8, -14} OBVIOUS
  <2> QED BY <2>1 DEF RInv, Counted
<1>4. fault' \in BOOLEAN
  <2>1. fault \in BOOLEAN BY DEF RInv, Counted
  <2>2. CASE R!GetListFails BY <2>1, <2>2, Zenon
  <2>3. CASE \E ok \in BOOLEAN : R!InitRemote(ok) \/ R!ChangeDir(ok)
    BY <2>1, <2>3, Zenon
  <2>4. CASE \/ R!Prepare \/ \E r \in -5 .. -1 : R!PrepareFails(r)
             \/ R!EndOfList \/ R!Unexpected \/ R!Abort \/ R!Close
    <3>1. fault' = fault \/ fault' = TRUE BY <2>4
    <3> QED BY <2>1, <3>1
  <2> QED BY <2>2, <2>3, <2>4
<1>5. Ended' BY DEF vars, Ended
<1>6. Received' BY <1>1, ListKept DEF RInv, Received
<1>7. Counted' BY <1>1, <1>2, <1>3, <1>4 DEF RInv, Counted, RPCs
<1>8. Unread' BY <1>1, <1>2, <1>5 DEF RInv, Unread
<1>9. OnTheWay' BY <1>2 DEF OnTheWay
<1> QED BY <1>6, <1>7, <1>8, <1>9 DEF RInv

-----------------------------------------------------------------------------
(* The list is received *)

\* What is left of an entry that was torn is an entry still.
LEMMA TornIsAnEntry ==
  ASSUME NEW e \in CtrlType, NEW t \in R!Torn(e)
  PROVE  t \in CtrlType
<1>1. e.name \in Seq(Elem) /\ e.op \in {"h", "d", "f", "c", "e"} BY DEF CtrlType
<1>2. CASE e.op \in {"d", "f"}
  <2>1. PICK n \in {SubSeq(e.name, 1, k) : k \in 0 .. Len(e.name)} \cup {Junk} :
          t = [op |-> e.op, name |-> n]
    BY <1>2, Zenon DEF R!Torn
  <2>2. ASSUME NEW k \in 0 .. Len(e.name) PROVE SubSeq(e.name, 1, k) \in Seq(Elem)
    BY <1>1, PrefixProperties
  <2>3. n \in Seq(Elem) BY <2>2, RestoreBounds
  <2> QED BY <1>1, <2>1, <2>3 DEF CtrlType
<1>3. CASE e.op \notin {"d", "f"}
  <2>1. t = e BY <1>3, Zenon DEF R!Torn
  <2> QED BY <2>1
<1> QED BY <1>2, <1>3

LEMMA ListArrives ==
  ASSUME TypeOK, RInv, Ended, UNCHANGED vars, R!GetList
  PROVE  RInv'
<1>0. UNCHANGED ctrl /\ ctrl \in Seq(CtrlType) BY DEF vars, TypeOK
<1>1. /\ rpc = "list" /\ rpc' = "entry"
      /\ UNCHANGED <<rrc, rpos, rpath, runix, rretry, restored, run, made, fault>>
  BY DEF R!GetList
<1>2. rpos = 1 /\ rpath = << >> /\ runix = << >> BY <1>1 DEF RInv, Unread
<1>3. rgot' \in Seq(CtrlType) /\ Len(rgot') =< Len(ctrl)
  <2>1. CASE rgot' = ctrl BY <1>0, <2>1
  <2>2. CASE \E n \in 1 .. Len(ctrl), torn \in BOOLEAN : \E e \in R!Torn(ctrl[n]) :
               rgot' = SubSeq(ctrl, 1, n - 1) \o IF torn THEN <<e>> ELSE << >>
    <3>1. PICK n \in 1 .. Len(ctrl), torn \in BOOLEAN : \E e \in R!Torn(ctrl[n]) :
               rgot' = SubSeq(ctrl, 1, n - 1) \o IF torn THEN <<e>> ELSE << >>
      BY <2>2
    <3>2. PICK e \in R!Torn(ctrl[n]) :
               rgot' = SubSeq(ctrl, 1, n - 1) \o IF torn THEN <<e>> ELSE << >>
      BY <3>1
    <3>3. ctrl[n] \in CtrlType BY <1>0
    <3>4. e \in CtrlType BY <3>3, TornIsAnEntry
    <3> DEFINE s == SubSeq(ctrl, 1, n - 1)
    <3>5. s \in Seq(CtrlType) /\ Len(s) = n - 1
      <4>1. n - 1 \in 0 .. Len(ctrl) BY <1>0
      <4> QED BY <1>0, <4>1, PrefixProperties
    <3> HIDE DEF s
    <3>6. CASE torn
      <4>1. rgot' = s \o <<e>> BY <3>2, <3>6 DEF s
      <4>2. s \o <<e>> \in Seq(CtrlType) /\ Len(s \o <<e>>) = n BY <3>4, <3>5
      <4> QED BY <1>0, <4>1, <4>2
    <3>7. CASE ~torn
      <4>1. rgot' = s \o << >> BY <3>2, <3>7 DEF s
      <4>2. s \o << >> \in Seq(CtrlType) /\ Len(s \o << >>) = n - 1 BY <3>5
      <4> QED BY <1>0, <4>1, <4>2
    <3> QED BY <3>6, <3>7
  <2> QED BY <2>1, <2>2, Zenon DEF R!GetList
<1>4. cut' \in BOOLEAN BY Zenon DEF R!GetList, RInv, Counted
<1>5. Received'
  <2>1. rpos' \in 1 .. Len(rgot') + 1 BY <1>1, <1>2, <1>3
  <2> QED BY <1>0, <1>1, <1>3, <2>1 DEF RInv, Received
<1>6. Counted' BY <1>1, <1>4 DEF RInv, Counted, RPCs
<1>7. Unread' BY <1>1 DEF Unread, vars, Ended
<1>8. OnTheWay' BY <1>1, <1>2 DEF OnTheWay
<1> QED BY <1>5, <1>6, <1>7, <1>8 DEF RInv

-----------------------------------------------------------------------------
(* The list is followed *)

LEMMA AtEntry ==
  ASSUME RInv, NEW op, R!At(op)
  PROVE  /\ rpc = "entry" /\ rpos =< Len(rgot) /\ R!Current = rgot[rpos]
         /\ R!Current.op = op /\ R!Current.name \in Seq(Elem)
         /\ rpos + 1 \in 1 .. Len(rgot) + 1
<1>1. rpc = "entry" /\ rpos =< Len(rgot) /\ R!Current = rgot[rpos] /\ R!Current.op = op
  BY DEF R!At, R!Current
<1>2. rgot \in Seq(CtrlType) /\ rpos \in 1 .. Len(rgot) + 1 BY DEF RInv, Received
<1>3. rpos \in 1 .. Len(rgot) BY <1>1, <1>2
<1>4. rgot[rpos] \in CtrlType BY <1>2, <1>3
<1> QED BY <1>1, <1>2, <1>3, <1>4 DEF CtrlType

LEMMA HeaderRead ==
  ASSUME RInv, Ended, UNCHANGED vars, R!Header
  PROVE  RInv'
<1>1. /\ UNCHANGED <<rgot, rrc, rpath, runix, rretry, restored, run, made, cut, fault, rpc>>
      /\ rpos' = rpos + 1 /\ R!At("h")
  BY DEF R!Header, R!Advance, R!ghosts
<1>2. rpos + 1 \in 1 .. Len(rgot) + 1 /\ rpc = "entry" BY <1>1, AtEntry
<1>3. Received' BY <1>1, <1>2, ListKept DEF RInv, Received
<1>4. Counted' BY <1>1 DEF RInv, Counted
<1>5. Unread' BY <1>1, <1>2 DEF Unread, vars, Ended
<1>6. OnTheWay' BY <1>1 DEF RInv, OnTheWay
<1> QED BY <1>3, <1>4, <1>5, <1>6 DEF RInv

\* A level goes: those above it are still the ones that were made.
LEMMA WayUp ==
  ASSUME RInv, Ended, UNCHANGED vars, R!CdUp
  PROVE  RInv'
<1>1. /\ UNCHANGED <<rgot, rrc, rretry, restored, run, made, cut, fault, rpc>>
      /\ rpos' = rpos + 1 /\ R!At("c")
  BY DEF R!CdUp, R!Advance, R!ghosts
<1>2. rpos + 1 \in 1 .. Len(rgot) + 1 /\ rpc = "entry" BY <1>1, AtEntry
<1>3. rpath \in Seq(Seq(Elem)) /\ runix \in Seq(Seq(Elem)) BY DEF RInv, Received
<1>4. /\ rpath' \in Seq(Seq(Elem)) /\ runix' \in Seq(Seq(Elem))
      /\ rpath' = << >> \/ runix' = rpath'
      /\ \A i \in 1 .. Len(rpath') : i \in 1 .. Len(rpath) /\ SubSeq(rpath', 1, i) = SubSeq(rpath, 1, i)
  <2>1. CASE rpath = << >> BY <1>3, <2>1 DEF R!CdUp
  <2>2. CASE rpath # << >>
    <3>1. /\ rpath' = SubSeq(rpath, 1, Len(rpath) - 1)
          /\ runix' = IF rpath' = << >> THEN rpath ELSE rpath'
      BY <2>2 DEF R!CdUp, R!Front
    <3>2. Len(rpath) - 1 \in 0 .. Len(rpath) BY <1>3, <2>2
    <3>3. rpath' \in Seq(Seq(Elem)) /\ Len(rpath') = Len(rpath) - 1
      BY <1>3, <3>1, <3>2, PrefixProperties
    <3>4. ASSUME NEW i \in 1 .. Len(rpath')
          PROVE  i \in 1 .. Len(rpath) /\ SubSeq(rpath', 1, i) = SubSeq(rpath, 1, i)
      <4>1. i \in 0 .. Len(rpath) - 1 /\ i \in 1 .. Len(rpath) BY <3>2, <3>3
      <4> QED BY <1>3, <3>1, <3>2, <4>1, PrefixOfPrefix
    <3> QED BY <1>3, <3>1, <3>3, <3>4
  <2> QED BY <2>1, <2>2
<1>5. Received' BY <1>1, <1>2, <1>4, ListKept DEF RInv, Received
<1>6. Counted' BY <1>1 DEF RInv, Counted
<1>7. Unread' BY <1>1, <1>2 DEF Unread, vars, Ended
<1>8. OnTheWay'
  <2>1. \A i \in 1 .. Len(rpath) : Dir(R!Flat(SubSeq(rpath, 1, i))) \in made
    BY <1>2 DEF RInv, OnTheWay
  <2>2. ASSUME NEW i \in 1 .. Len(rpath')
        PROVE  Dir(R!Flat(SubSeq(rpath', 1, i))) \in made'
    BY <1>1, <1>4, <2>1
  <2> QED BY <1>4, <2>2 DEF OnTheWay
<1> QED BY <1>5, <1>6, <1>7, <1>8 DEF RInv

\* Going one level down.
LEMMA OneMore ==
  ASSUME NEW T, NEW p \in Seq(T), NEW n \in T
  PROVE  /\ Append(p, n) \in Seq(T) /\ Len(Append(p, n)) = Len(p) + 1
         /\ \A i \in 1 .. Len(p) : SubSeq(Append(p, n), 1, i) = SubSeq(p, 1, i)
         /\ SubSeq(Append(p, n), 1, Len(p) + 1) = Append(p, n)
OBVIOUS

LEMMA WayDown ==
  ASSUME RInv, Ended, UNCHANGED vars, NEW ok \in BOOLEAN, R!MakeDir(ok)
  PROVE  RInv'
<1> DEFINE n == R!Current.name
<1>1. /\ UNCHANGED <<rgot, rretry, run, cut>>
      /\ rpath' = Append(rpath, n) /\ runix' = rpath' /\ R!At("d")
  BY DEF R!MakeDir
<1>2. /\ rpc = "entry" /\ n \in Seq(Elem) /\ rpos + 1 \in 1 .. Len(rgot) + 1
      /\ rpath \in Seq(Seq(Elem)) /\ rpos \in 1 .. Len(rgot) + 1
  BY <1>1, AtEntry DEF RInv, Received
<1> HIDE DEF n
<1>3. /\ rpath' \in Seq(Seq(Elem)) /\ Len(rpath') = Len(rpath) + 1
      /\ \A i \in 1 .. Len(rpath) : SubSeq(rpath', 1, i) = SubSeq(rpath, 1, i)
      /\ SubSeq(rpath', 1, Len(rpath) + 1) = rpath'
  BY <1>1, <1>2, OneMore
<1>4. /\ rpc' \in {rpc, "close"} /\ rpos' \in {rpos, rpos + 1} /\ rrc' \in {rrc, -10}
      /\ fault' \in BOOLEAN /\ made' \subseteq restored' /\ made \subseteq made'
      /\ rpc' = "entry" => Dir(R!Flat(rpath')) \in made'
  <2> DEFINE new == Dir(R!Flat(rpath'))
  <2>1. made \subseteq restored /\ fault \in BOOLEAN BY DEF RInv, Counted
  <2>2. CASE ok
    <3>1. /\ restored' = restored \cup {new} /\ made' = made \cup {new}
          /\ rpos' = rpos + 1 /\ rpc' = rpc /\ rrc' = rrc /\ fault' = fault
      BY <2>2 DEF R!MakeDir, R!Put, R!Advance, Dir
    <3> QED BY <2>1, <3>1
  <2>3. CASE ~ok
    <3>1. /\ rrc' = -10 /\ rpc' = "close" /\ rpos' = rpos
          /\ restored' = restored /\ made' = made
          /\ fault' = (fault \/ [op |-> "d", name |-> R!Flat(rpath')] \notin made)
      BY <2>3 DEF R!MakeDir
    <3>2. fault' \in BOOLEAN BY <2>1, <3>1, Zenon
    <3> QED BY <2>1, <3>1, <3>2
  <2> QED BY <2>2, <2>3
<1>5. Received' BY <1>1, <1>2, <1>3, <1>4, ListKept DEF RInv, Received
<1>6. Counted'
  <2>1. rrc' \in -14 .. 0 BY <1>4 DEF RInv, Counted
  <2> QED BY <1>1, <1>4, <2>1 DEF RInv, Counted, RPCs
<1>7. Unread' BY <1>2, <1>4 DEF Unread, vars, Ended
<1>8. OnTheWay'
  <2>1. SUFFICES ASSUME rpc' = "entry", NEW i \in 1 .. Len(rpath')
                 PROVE  Dir(R!Flat(SubSeq(rpath', 1, i))) \in made'
    BY <1>1 DEF OnTheWay
  <2>2. CASE i \in 1 .. Len(rpath)
    <3>1. Dir(R!Flat(SubSeq(rpath, 1, i))) \in made BY <1>2, <2>2 DEF RInv, OnTheWay
    <3> QED BY <1>3, <1>4, <2>2, <3>1
  <2>3. CASE i = Len(rpath) + 1 BY <1>3, <1>4, <2>1, <2>3
  <2>4. Len(rpath) \in Nat BY <1>2
  <2> QED BY <1>3, <2>2, <2>3, <2>4
<1> QED BY <1>5, <1>6, <1>7, <1>8 DEF RInv

LEMMA FileTried ==
  ASSUME RInv, Ended, UNCHANGED vars, NEW r \in {0, -1, -2}, R!FileAttempt(r)
  PROVE  RInv'
<1>1. UNCHANGED <<rgot, rpath, runix, run, cut>> /\ R!At("f")
  BY DEF R!FileAttempt
<1>2. rpc = "entry" /\ rpos + 1 \in 1 .. Len(rgot) + 1 /\ rpos \in 1 .. Len(rgot) + 1
  BY <1>1, AtEntry DEF RInv, Received
<1>3. rpc' \in {rpc, "close"} /\ rpos' \in {rpos, rpos + 1} BY DEF R!FileAttempt
<1>4. rrc' \in -14 .. 0
  <2>1. rrc' \in {rrc, -11, -12} BY DEF R!FileAttempt
  <2> QED BY <2>1 DEF RInv, Counted
<1>5. rretry' \in 0 .. R!MaxRetries
  <2>1. rretry' = IF r = -1 /\ rretry < R!MaxRetries THEN rretry + 1 ELSE 0
    BY DEF R!FileAttempt
  <2> QED BY <2>1 DEF RInv, Counted, R!MaxRetries
<1>6. fault' \in BOOLEAN
  <2>1. fault \in BOOLEAN BY DEF RInv, Counted
  <2> QED BY <2>1, Zenon DEF R!FileAttempt
<1>7. made' \subseteq restored' /\ made \subseteq made'
  BY DEF R!FileAttempt, R!Put, RInv, Counted
<1>8. Received' BY <1>1, <1>2, <1>3, ListKept DEF RInv, Received
<1>9. Counted' BY <1>1, <1>3, <1>4, <1>5, <1>6, <1>7 DEF RInv, Counted, RPCs
<1>10. Unread' BY <1>2, <1>3 DEF Unread, vars, Ended
<1>11. OnTheWay' BY <1>1, <1>2, <1>7 DEF RInv, OnTheWay
<1> QED BY <1>8, <1>9, <1>10, <1>11 DEF RInv

LEMMA StartedAgain ==
  ASSUME TypeOK, RInv, Ended, UNCHANGED vars, R!Again
  PROVE  RInv'
<1>1. /\ rpc' = "prepare" /\ rrc' = 0 /\ rgot' = << >> /\ rpos' = 1
      /\ rpath' = << >> /\ runix' = << >> /\ rretry' = 0
      /\ made' = {} /\ cut' = FALSE /\ fault' = FALSE
      /\ run' = run + 1 /\ run < MaxRuns
  BY DEF R!Again
<1>2. rrc' \in -14 .. 0 /\ rretry' \in 0 .. R!MaxRetries /\ run' \in 1 .. MaxRuns
  BY <1>1, RestoreBounds DEF RInv, Counted, R!MaxRetries
<1>3. Received'
  <2>1. UNCHANGED ctrl /\ ctrl \in Seq(CtrlType) BY DEF vars, TypeOK
  <2> QED BY <1>1, <2>1 DEF Received
<1>4. Counted' BY <1>1, <1>2 DEF Counted, RPCs
<1>5. Unread' /\ OnTheWay' BY <1>1 DEF Unread, OnTheWay
<1> QED BY <1>3, <1>4, <1>5 DEF RInv

-----------------------------------------------------------------------------

LEMMA RestoreGoesOn ==
  ASSUME TypeOK, RInv, RestoreStep
  PROVE  RInv'
<1>1. Ended /\ UNCHANGED vars /\ R!Step BY DEF RestoreStep
<1>2. CASE \/ R!Prepare \/ \E r \in -5 .. -1 : R!PrepareFails(r)
           \/ \E ok \in BOOLEAN : R!InitRemote(ok) \/ R!ChangeDir(ok)
           \/ R!GetListFails \/ R!EndOfList \/ R!Unexpected \/ R!Abort \/ R!Close
  BY <1>1, <1>2, PreparationGoesOn
<1>3. CASE R!GetList BY <1>1, <1>3, ListArrives
<1>4. CASE R!Header BY <1>1, <1>4, HeaderRead
<1>5. CASE R!CdUp BY <1>1, <1>5, WayUp
<1>6. CASE \E ok \in BOOLEAN : R!MakeDir(ok) BY <1>1, <1>6, WayDown
<1>7. CASE \E r \in {0, -1, -2} : R!FileAttempt(r) BY <1>1, <1>7, FileTried
<1> QED BY <1>1, <1>2, <1>3, <1>4, <1>5, <1>6, <1>7, Zenon DEF R!Step

LEMMA RInvKept ==
  ASSUME UNCHANGED <<vars, rvars>>, RInv
  PROVE  RInv'
BY DEF vars, rvars, RInv, Received, Counted, Unread, OnTheWay, Ended

LEMMA RInvStep == TypeOK /\ TypeOK' /\ RInv /\ [RNext]_<<vars, rvars>> => RInv'
<1> SUFFICES ASSUME TypeOK, TypeOK', RInv, [RNext]_<<vars, rvars>> PROVE RInv'
  OBVIOUS
<1>1. CASE BackupStep BY <1>1, BackupGoesOn
<1>2. CASE RestoreStep BY <1>2, RestoreGoesOn
<1>3. CASE RestoreAgain BY <1>3, StartedAgain DEF RestoreAgain
<1>4. CASE RDone \/ UNCHANGED <<vars, rvars>> BY <1>4, RInvKept DEF RDone
<1> QED BY <1>1, <1>2, <1>3, <1>4, Zenon DEF RNext

\* The backup inside of the round trip is the one of Backup.
LEMMA BackupWithin == RInit /\ [][RNext]_<<vars, rvars>> => Spec
<1>1. RInit => Init BY DEF RInit
<1>2. [RNext]_<<vars, rvars>> => [Next]_vars
  BY DEF RNext, BackupStep, RestoreStep, RestoreAgain, RDone, Next, vars
<1> QED BY <1>1, <1>2, PTL DEF Spec

LEMMA RInvariant == RSpec => [](TypeOK /\ RInv)
<1>1. RSpec => []TypeOK
  BY BackupWithin, BackupTypes, PTL DEF RSpec
<1>2. TypeOK /\ TypeOK' /\ RInv /\ [RNext]_<<vars, rvars>> => RInv'
  BY RInvStep
<1> QED BY <1>1, <1>2, RestoreStarts, PTL DEF RSpec

\* The types of the variables of a restore, whatever the server sends it.
THEOREM RestoreTypes == RSpec => []RTypeOK
<1>1. RInv => RTypeOK
  BY DEF RInv, Received, Counted, RTypeOK, R!TypeOK, RPCs
<1> QED BY <1>1, RInvariant, PTL

LEMMA FlatOfNothing == R!Flat(<< >>) = << >>
BY DEF R!Flat, R!FlattenSeq

\* What is received is what was stored from this very place: the stale unix_path
\* is never asked for (do_restore, RESTORE.C:150-158, 188-196, 270-287).
THEOREM RestoreAsksForItsOwn == RSpec => []AsksForItsOwn
<1>1. RInv => AsksForItsOwn
  <2>1. SUFFICES ASSUME RInv, Following, Current.op = "f"
                 PROVE  R!RemoteName(Current.name) = R!Flat(rpath) \o Current.name
    BY DEF AsksForItsOwn
  <2>2. Current.name \in Seq(Elem)
    BY <2>1, AtEntry DEF Following, Current, R!At, R!Current
  <2>3. CASE rpath = << >>
    <3>1. << >> \o Current.name = Current.name BY <2>2
    <3> QED BY <2>3, <3>1, FlatOfNothing DEF R!RemoteName
  <2>4. CASE rpath # << >>
    <3>1. runix = rpath BY <2>1, <2>4 DEF RInv, OnTheWay, Following
    <3> QED BY <2>4, <3>1 DEF R!RemoteName
  <2> QED BY <2>3, <2>4
<1> QED BY <1>1, RInvariant, PTL

\* A restore writes into directories only that it has made itself (do_restore,
\* RESTORE.C:165-168).
THEOREM RestoreOnlyIntoItsOwn == RSpec => []OnlyIntoItsOwn
<1>1. RInv => OnlyIntoItsOwn
  <2>1. SUFFICES ASSUME RInv, Following, rpath # << >>
                 PROVE  Dir(R!Flat(rpath)) \in made
    BY DEF OnlyIntoItsOwn
  <2>2. rpath \in Seq(Seq(Elem)) BY <2>1 DEF RInv, Received
  <2>3. Len(rpath) \in 1 .. Len(rpath) /\ SubSeq(rpath, 1, Len(rpath)) = rpath
    BY <2>1, <2>2
  <2>4. Dir(R!Flat(SubSeq(rpath, 1, Len(rpath)))) \in made
    BY <2>1, <2>3 DEF RInv, OnTheWay, Following
  <2> QED BY <2>3, <2>4
<1> QED BY <1>1, RInvariant, PTL

-----------------------------------------------------------------------------
(* The list and what was made of it *)

\* What entry i of the received list names.
Found(i) == [op |-> rgot[i].op, name |-> Where(SubSeq(rgot, 1, i - 1)) \o rgot[i].name]
Before(p) == {i \in 1 .. p - 1 : rgot[i].op \in {"d", "f"}}

\* A list that was not cut is the one the backup wrote, and so is one with an end.
CameWhole ==
  rpc = "entry" =>
    /\ ~cut => rgot = ctrl
    /\ (\E i \in DOMAIN rgot : rgot[i].op = "e") => rgot = ctrl

\* What has been made is what the list names as far as it was followed, and the
\* path is where that leads.
AsListed ==
  /\ rpc \in {"prepare", "init", "chdir", "list"} => made = {}
  /\ rpc = "entry" =>
       /\ \A i \in 1 .. rpos - 1 : rgot[i].op # "e"
       /\ rpath = Follows(SubSeq(rgot, 1, rpos - 1))
       /\ made = {Found(i) : i \in Before(rpos)}
  /\ rpc \in {"close", "exit"} /\ rrc = 0 => Closed /\ made = Catalogue

\* Every failure, and every attempt that had to be repeated, has its reason.
Excused ==
  /\ rpc \in {"prepare", "init", "list", "entry"} => rrc = 0
  /\ rpc \in {"prepare", "init", "chdir", "list"} => rretry = 0
  /\ rrc # 0 \/ rretry # 0 => fault \/ cut \/ Eof \notin Range(acked)

Progress == CameWhole /\ AsListed /\ Excused

LEMMA SameFlat == \A p : R!Flat(p) = FlattenSeq(p)
BY DEF R!Flat, R!FlattenSeq, FlattenSeq

LEMMA RestoreKeeps ==
  ASSUME UNCHANGED vars
  PROVE  /\ UNCHANGED <<ctrl, acked>> /\ Catalogue' = Catalogue /\ Closed' = Closed
<1>1. UNCHANGED <<ctrl, acked>> BY DEF vars
<1>2. Items' = Items /\ \A i : Listed(i)' = Listed(i) BY <1>1 DEF Items, Listed
<1>3. Catalogue' = {Listed(i)' : i \in Items'} BY DEF Catalogue
<1>4. Catalogue' = Catalogue BY <1>2, <1>3 DEF Catalogue
<1> QED BY <1>1, <1>4 DEF Closed

LEMMA ProgressBegins == RInit => Progress
<1> SUFFICES ASSUME RInit PROVE Progress OBVIOUS
<1>1. rpc = "prepare" /\ rrc = 0 /\ rretry = 0 /\ made = {} BY DEF RInit, R!Start
<1> QED BY <1>1 DEF Progress, CameWhole, AsListed, Excused

LEMMA ProgressWaits ==
  ASSUME RInv, Progress, BackupStep
  PROVE  Progress'
<1>1. ~Ended /\ UNCHANGED <<rpc, rrc, rretry, made>> BY DEF BackupStep, rvars
<1>2. rpc = "prepare" BY <1>1 DEF RInv, Unread
<1>3. rrc = 0 /\ rretry = 0 /\ made = {} BY <1>2 DEF Progress, AsListed, Excused
<1> QED BY <1>1, <1>2, <1>3 DEF Progress, CameWhole, AsListed, Excused

\* The end is only at the end, and where it is received all has been made.
LEMMA AllMade ==
  ASSUME TypeOK, RInv, Account, Progress, R!At("e")
  PROVE  Closed /\ made = Catalogue
<1>1. rpc = "entry" /\ rpos =< Len(rgot) /\ rgot[rpos].op = "e" /\ rpos \in DOMAIN rgot
  BY AtEntry DEF RInv, Received
<1>2. rgot = ctrl BY <1>1 DEF Progress, CameWhole
<1>3. ctrl \in Seq(CtrlType) BY TypeParts
<1>4. rpos = Len(ctrl) /\ ctrl[rpos] = Eof BY <1>1, <1>2 DEF Account, Ending
<1>5. Before(rpos) = Items BY <1>1, <1>2, <1>3, <1>4 DEF Before, Items
<1>6. \A i \in Items : Found(i) = Listed(i) BY <1>2 DEF Found, Listed
<1>7. made = {Found(i) : i \in Before(rpos)} BY <1>1 DEF Progress, AsListed
<1>8. made = Catalogue BY <1>5, <1>6, <1>7 DEF Catalogue
<1>9. ctrl # << >> BY <1>1, <1>2
<1> QED BY <1>4, <1>8, <1>9 DEF Closed

\* The list does not come to its end before its last entry, unless it was cut.
LEMMA NoEndMissed ==
  ASSUME TypeOK, RInv, Account, Progress, rpc = "entry", rpos > Len(rgot)
  PROVE  cut \/ Eof \notin Range(acked)
<1>1. SUFFICES ASSUME ~cut, Eof \in Range(acked) PROVE FALSE OBVIOUS
<1>2. rgot = ctrl BY <1>1 DEF Progress, CameWhole
<1>3. Closed BY <1>1 DEF Account, Ending
<1>4. ctrl \in Seq(CtrlType) /\ rpos \in Nat BY TypeParts DEF RInv, Received
<1>5. Len(ctrl) \in 1 .. rpos - 1 BY <1>2, <1>3, <1>4 DEF Closed
<1>6. ctrl[Len(ctrl)].op # "e" BY <1>2, <1>5 DEF Progress, AsListed
<1> QED BY <1>3, <1>6 DEF Closed, Eof

\* The calls between two entries.
LEMMA PreparationProgress ==
  ASSUME TypeOK, RInv, Account, Progress, UNCHANGED vars,
         \/ R!Prepare \/ \E r \in -5 .. -1 : R!PrepareFails(r)
         \/ \E ok \in BOOLEAN : R!InitRemote(ok) \/ R!ChangeDir(ok)
         \/ R!GetListFails \/ R!EndOfList \/ R!Unexpected \/ R!Abort \/ R!Close
  PROVE  Progress'
<1>1. UNCHANGED <<ctrl, acked>> /\ Catalogue' = Catalogue /\ Closed' = Closed
  BY RestoreKeeps
<1>2. /\ UNCHANGED <<made, rretry, cut>> /\ rpc' # "entry"
      /\ rpc' \in {"init", "chdir", "list"} => rpc \in {"prepare", "init", "chdir"}
  BY DEF R!Prepare, R!PrepareFails, R!InitRemote, R!ChangeDir, R!GetListFails,
         R!EndOfList, R!Unexpected, R!Abort, R!Close, R!ghosts
<1>3. CameWhole' BY <1>2 DEF CameWhole
<1>4. fault \in BOOLEAN BY DEF RInv, Counted
<1>5. CASE R!Prepare \/ R!Close
  <2>1. /\ UNCHANGED <<rrc, fault>>
        /\ (rpc = "prepare" /\ rpc' = "init") \/ (rpc = "close" /\ rpc' = "exit")
    BY <1>5 DEF R!Prepare, R!Close, R!ghosts
  <2> QED BY <1>1, <1>2, <1>3, <2>1 DEF Progress, AsListed, Excused
<1>6. CASE R!EndOfList
  <2>1. R!At("e") /\ rpc' = "close" /\ UNCHANGED <<rrc, fault>>
    BY <1>6 DEF R!EndOfList, R!ghosts
  <2>2. Closed /\ made = Catalogue BY <2>1, AllMade
  <2> QED BY <1>1, <1>2, <1>3, <2>1, <2>2 DEF Progress, AsListed, Excused
<1>7. CASE R!Unexpected
  <2>1. rpc = "entry" /\ rpos > Len(rgot) /\ rpc' = "close" /\ rrc' = -14 /\ UNCHANGED fault
    BY <1>7 DEF R!Unexpected, R!ghosts
  <2>2. cut \/ Eof \notin Range(acked) BY <2>1, NoEndMissed
  <2> QED BY <1>1, <1>2, <1>3, <2>1, <2>2 DEF Progress, AsListed, Excused
<1>8. CASE R!GetListFails
  <2>1. rpc' = "close" /\ rrc' = -8 /\ fault' = (fault \/ Eof \in Range(ctrl))
    BY <1>8 DEF R!GetListFails
  <2>2. Eof \in Range(acked) => fault'
    <3>1. SUFFICES ASSUME Eof \in Range(acked) PROVE fault' OBVIOUS
    <3>2. Closed /\ ctrl \in Seq(CtrlType) BY <3>1, TypeParts DEF Account, Ending
    <3>3. Len(ctrl) \in DOMAIN ctrl /\ ctrl[Len(ctrl)] = Eof BY <3>2 DEF Closed
    <3>4. Eof \in Range(ctrl) BY <3>3 DEF Range
    <3> QED BY <2>1, <3>4, Zenon
  <2> QED BY <1>1, <1>2, <1>3, <2>1, <2>2 DEF Progress, AsListed, Excused
<1>9. CASE \E r \in -5 .. -1 : R!PrepareFails(r)
  <2>1. rpc' = "exit" /\ rrc' # 0 /\ fault' = TRUE BY <1>9 DEF R!PrepareFails
  <2> QED BY <1>1, <1>2, <1>3, <2>1 DEF Progress, AsListed, Excused
<1>10. CASE R!Abort
  <2>1. rpc' = "aborted" /\ fault' = TRUE BY <1>10 DEF R!Abort
  <2> QED BY <1>1, <1>2, <1>3, <2>1 DEF Progress, AsListed, Excused
<1>11. CASE \E ok \in BOOLEAN : R!InitRemote(ok) \/ R!ChangeDir(ok)
  <2>1. PICK ok \in BOOLEAN : R!InitRemote(ok) \/ R!ChangeDir(ok) BY <1>11
  <2>2. fault' = (fault \/ ~ok) BY <2>1 DEF R!InitRemote, R!ChangeDir
  <2>3. ~ok => fault' BY <2>2, Zenon
  <2>4. fault => fault' BY <2>2, Zenon
  <2>5. /\ rpc \in {"init", "chdir"} /\ rpc' \in {"chdir", "list", "close"}
        /\ rpc' = "list" => rrc' = 0
        /\ rpc' = "close" => rrc' # 0
        /\ ok => rrc' = rrc
    BY <2>1 DEF R!InitRemote, R!ChangeDir
  <2>6. AsListed' BY <1>1, <1>2, <2>5 DEF Progress, AsListed
  <2>7. Excused' BY <1>1, <1>2, <2>1, <2>3, <2>4, <2>5 DEF Progress, Excused
  <2> QED BY <1>3, <2>6, <2>7 DEF Progress
<1> QED BY <1>5, <1>6, <1>7, <1>8, <1>9, <1>10, <1>11

\* A list of which only the beginning came has no end.
LEMMA ListProgress ==
  ASSUME TypeOK, RInv, Account, Progress, UNCHANGED vars, R!GetList
  PROVE  Progress'
<1>1. UNCHANGED <<ctrl, acked>> BY RestoreKeeps
<1>2. /\ rpc = "list" /\ rpc' = "entry"
      /\ UNCHANGED <<rrc, rpos, rpath, rretry, made, fault>>
  BY DEF R!GetList
<1>3. ctrl \in Seq(CtrlType) /\ rpos = 1 /\ rpath = << >> /\ made = {} /\ rrc = 0 /\ rretry = 0
  BY <1>2, TypeParts DEF RInv, Unread, Progress, AsListed, Excused
<1>4. CameWhole'
  <2>1. CASE rgot' = ctrl BY <1>1, <2>1 DEF CameWhole
  <2>2. CASE cut' = TRUE /\ \E n \in 1 .. Len(ctrl), torn \in BOOLEAN : \E e \in R!Torn(ctrl[n]) :
               rgot' = SubSeq(ctrl, 1, n - 1) \o IF torn THEN <<e>> ELSE << >>
    <3>1. PICK n \in 1 .. Len(ctrl), torn \in BOOLEAN : \E e \in R!Torn(ctrl[n]) :
               rgot' = SubSeq(ctrl, 1, n - 1) \o IF torn THEN <<e>> ELSE << >>
      BY <2>2
    <3>2. PICK e \in R!Torn(ctrl[n]) :
               rgot' = SubSeq(ctrl, 1, n - 1) \o IF torn THEN <<e>> ELSE << >>
      BY <3>1
    <3> DEFINE s == SubSeq(ctrl, 1, n - 1)
    <3>3. /\ s \in Seq(CtrlType) /\ Len(s) = n - 1
          /\ \A i \in 1 .. n - 1 : s[i] = ctrl[i]
      <4>1. n - 1 \in 0 .. Len(ctrl) BY <1>3
      <4> QED BY <1>3, <4>1, PrefixProperties
    <3>4. \A i \in 1 .. n - 1 : s[i].op # "e"
      <4>1. \A i \in 1 .. n - 1 : i \in DOMAIN ctrl /\ i # Len(ctrl) BY <1>3
      <4> QED BY <3>3, <4>1 DEF Account, Ending
    <3>5. ctrl[n] \in CtrlType /\ n \in DOMAIN ctrl BY <1>3
    <3>6. e.op = "e" => e = ctrl[n] /\ n = Len(ctrl)
      <4>1. SUFFICES ASSUME e.op = "e" PROVE e = ctrl[n] /\ n = Len(ctrl) OBVIOUS
      <4>2. CASE ctrl[n].op \in {"d", "f"}
        <5>1. PICK m \in {SubSeq(ctrl[n].name, 1, k) : k \in 0 .. Len(ctrl[n].name)} \cup {Junk} :
                e = [op |-> ctrl[n].op, name |-> m]
          BY <4>2, Zenon DEF R!Torn
        <5>2. e.op = ctrl[n].op BY <5>1
        <5> QED BY <4>1, <4>2, <5>2
      <4>3. CASE ctrl[n].op \notin {"d", "f"}
        <5>1. e = ctrl[n] BY <4>3, Zenon DEF R!Torn
        <5> QED BY <3>5, <4>1, <5>1 DEF Account, Ending
      <4> QED BY <4>2, <4>3
    <3> HIDE DEF s
    <3>7. CASE torn
      <4>0. e \in CtrlType BY <3>5, TornIsAnEntry
      <4>1. rgot' = s \o <<e>> BY <3>2, <3>7 DEF s
      <4>t. PICK t : t = s \o <<e>> OBVIOUS
      <4>2. /\ t \in Seq(CtrlType) /\ Len(t) = n /\ t[n] = e
            /\ \A i \in 1 .. n - 1 : t[i] = s[i]
        BY <3>3, <4>0, <4>t
      <4>3. ASSUME NEW i \in DOMAIN t, t[i].op = "e" PROVE t = ctrl
        <5>1. i \in 1 .. n BY <4>2
        <5>2. i = n BY <3>4, <4>2, <4>3, <5>1
        <5>3. e = ctrl[n] /\ n = Len(ctrl) BY <3>6, <4>2, <4>3, <5>2
        <5>4. \A j \in 1 .. n : t[j] = ctrl[j] BY <3>3, <4>2, <5>3
        <5> QED BY <1>3, <4>2, <5>3, <5>4, SequencesEqual
      <4> QED BY <1>1, <2>2, <4>1, <4>t, <4>3 DEF CameWhole
    <3>8. CASE ~torn
      <4>1. rgot' = s \o << >> BY <3>2, <3>8 DEF s
      <4>2. rgot' = s BY <3>3, <4>1
      <4>3. \A i \in DOMAIN s : s[i].op # "e" BY <3>3, <3>4
      <4> QED BY <1>1, <2>2, <4>2, <4>3 DEF CameWhole
    <3> QED BY <3>7, <3>8
  <2> QED BY <2>1, <2>2, Zenon DEF R!GetList
<1>5. AsListed'
  <2>1. SubSeq(rgot', 1, rpos' - 1) = << >> /\ 1 .. rpos' - 1 = {} BY <1>2, <1>3
  <2>2. \A i \in 1 .. rpos' - 1 : FALSE BY <2>1
  <2>3. {Found(i)' : i \in Before(rpos)'} = {} BY <1>2, <2>1 DEF Before
  <2>4. rpath' = Follows(SubSeq(rgot', 1, rpos' - 1)) BY <1>2, <1>3, <2>1, FollowsNothing
  <2> QED BY <1>2, <1>3, <2>2, <2>3, <2>4 DEF AsListed
<1>6. Excused' BY <1>2, <1>3 DEF Excused
<1> QED BY <1>4, <1>5, <1>6 DEF Progress

\* One entry further, the path and what was made have followed it.
LEMMA OneFurther ==
  ASSUME RInv, Progress, UNCHANGED <<ctrl, cut, rgot>>,
         rpc = "entry", rpos =< Len(rgot), rgot[rpos].op # "e",
         rpc' = "entry", rpos' = rpos + 1, rpath' = Follow(rpath, rgot[rpos]),
         IF rgot[rpos].op \in {"d", "f"}
           THEN made' = made \cup {[op |-> rgot[rpos].op,
                                   name |-> FlattenSeq(rpath) \o rgot[rpos].name]}
           ELSE made' = made
  PROVE  CameWhole' /\ AsListed'
<1>1. CameWhole' BY DEF Progress, CameWhole
<1>2. rgot \in Seq(CtrlType) /\ rpos \in 1 .. Len(rgot) BY DEF RInv, Received
<1>3. /\ \A i \in 1 .. rpos - 1 : rgot[i].op # "e"
      /\ rpath = Follows(SubSeq(rgot, 1, rpos - 1))
      /\ made = {Found(i) : i \in Before(rpos)}
  BY DEF Progress, AsListed
<1>4. 1 .. rpos' - 1 = (1 .. rpos - 1) \cup {rpos} BY <1>2
<1>5. \A i \in 1 .. rpos' - 1 : rgot'[i].op # "e" BY <1>3, <1>4
<1>6. rpath' = Follows(SubSeq(rgot', 1, rpos' - 1))
  <2> DEFINE s == SubSeq(rgot, 1, rpos - 1)
  <2>1. s \in Seq(CtrlType) /\ rgot[rpos] \in CtrlType
    <3>1. rpos - 1 \in 0 .. Len(rgot) BY <1>2
    <3> QED BY <1>2, <3>1, PrefixProperties
  <2>2. SubSeq(rgot', 1, rpos' - 1) = Append(s, rgot[rpos])
    <3>1. SubSeq(rgot, 1, rpos) = Append(SubSeq(rgot, 1, rpos - 1), rgot[rpos]) BY <1>2
    <3>2. rpos' - 1 = rpos BY <1>2
    <3> QED BY <3>1, <3>2
  <2> HIDE DEF s
  <2>3. Follows(Append(s, rgot[rpos])) = Follow(Follows(s), rgot[rpos])
    BY <2>1, FollowsAppend
  <2> QED BY <1>3, <2>2, <2>3 DEF s
<1>7. made' = {Found(i)' : i \in Before(rpos)'}
  <2>1. \A i : Found(i)' = Found(i) BY DEF Found
  <2>2. \A i : i = rpos => Found(i) = [op |-> rgot[i].op, name |-> FlattenSeq(rpath) \o rgot[i].name]
    BY <1>3 DEF Found, Where, Follows
  <2>3. CASE rgot[rpos].op \in {"d", "f"}
    <3>1. Before(rpos)' = Before(rpos) \cup {rpos} BY <1>4, <2>3 DEF Before
    <3>2. made' = made \cup {Found(i) : i \in {rpos}} BY <2>2, <2>3
    <3> QED BY <1>3, <2>1, <3>1, <3>2
  <2>4. CASE rgot[rpos].op \notin {"d", "f"}
    <3>1. Before(rpos)' = Before(rpos) BY <1>4, <2>4 DEF Before
    <3> QED BY <1>3, <2>1, <2>4, <3>1
  <2> QED BY <2>3, <2>4
<1>8. AsListed' BY <1>5, <1>6, <1>7 DEF AsListed
<1> QED BY <1>1, <1>8

LEMMA HeaderProgress ==
  ASSUME RInv, Progress, UNCHANGED vars, R!Header
  PROVE  Progress'
<1>1. UNCHANGED <<ctrl, acked>> BY RestoreKeeps
<1>2. /\ UNCHANGED <<rgot, rrc, rpath, rretry, made, cut, fault, rpc>>
      /\ rpos' = rpos + 1 /\ R!At("h")
  BY DEF R!Header, R!Advance, R!ghosts
<1>3. rpc = "entry" /\ rpos =< Len(rgot) /\ rgot[rpos].op = "h" BY <1>2, AtEntry
<1>4. rpath' = Follow(rpath, rgot[rpos]) BY <1>2, <1>3 DEF Follow
<1>5. CameWhole' /\ AsListed' BY <1>1, <1>2, <1>3, <1>4, OneFurther
<1>6. Excused' BY <1>1, <1>2, <1>3 DEF Progress, Excused
<1> QED BY <1>5, <1>6 DEF Progress

LEMMA CdUpProgress ==
  ASSUME RInv, Progress, UNCHANGED vars, R!CdUp
  PROVE  Progress'
<1>1. UNCHANGED <<ctrl, acked>> BY RestoreKeeps
<1>2. /\ UNCHANGED <<rgot, rrc, rretry, made, cut, fault, rpc>>
      /\ rpos' = rpos + 1 /\ R!At("c")
  BY DEF R!CdUp, R!Advance, R!ghosts
<1>3. rpc = "entry" /\ rpos =< Len(rgot) /\ rgot[rpos].op = "c" BY <1>2, AtEntry
<1>4. rpath' = Follow(rpath, rgot[rpos]) BY <1>3 DEF R!CdUp, R!Front, Follow, Front
<1>5. CameWhole' /\ AsListed' BY <1>1, <1>2, <1>3, <1>4, OneFurther
<1>6. Excused' BY <1>1, <1>2, <1>3 DEF Progress, Excused
<1> QED BY <1>5, <1>6 DEF Progress

\* Where a restore is, is where the backup was.
LEMMA NameHere ==
  ASSUME RInv, Progress, rpc = "entry"
  PROVE  \A i : i = rpos => Found(i) = [op |-> rgot[i].op, name |-> FlattenSeq(rpath) \o rgot[i].name]
BY DEF Progress, AsListed, Found, Where, Follows

\* No directory is made twice, as none is listed twice.
LEMMA NotMadeBefore ==
  ASSUME TypeOK, RInv, Account, Progress, R!At("d"),
         [op |-> "d", name |-> FlattenSeq(rpath) \o rgot[rpos].name] \in made
  PROVE  cut
<1>1. SUFFICES ASSUME ~cut PROVE FALSE OBVIOUS
<1>2. rpc = "entry" /\ rpos =< Len(rgot) /\ rgot[rpos].op = "d" BY AtEntry
<1>3. rgot = ctrl /\ rpos \in 1 .. Len(ctrl)
  BY <1>1, <1>2 DEF Progress, CameWhole, RInv, Received
<1>4. ctrl \in Seq(CtrlType) BY TypeParts
<1>5. PICK n : n = rpos OBVIOUS
<1>6. Found(n) = [op |-> "d", name |-> FlattenSeq(rpath) \o rgot[rpos].name]
  BY <1>2, <1>5, NameHere
<1>7. PICK i \in Before(rpos) : Found(i) = Found(n)
  BY <1>2, <1>6 DEF Progress, AsListed
<1>8. i \in Items /\ n \in Items /\ i # n
  BY <1>2, <1>3, <1>4, <1>5 DEF Before, Items
<1>9. Listed(i) = Found(i) /\ Listed(n) = Found(n) BY <1>3 DEF Found, Listed
<1>10. Listed(i) = Listed(n) /\ Listed(i).op = "d" BY <1>6, <1>7, <1>9
<1> QED BY <1>8, <1>10 DEF Account, Once

LEMMA MakeDirProgress ==
  ASSUME TypeOK, RInv, Account, Progress, UNCHANGED vars, NEW ok \in BOOLEAN, R!MakeDir(ok)
  PROVE  Progress'
<1>1. UNCHANGED <<ctrl, acked>> BY RestoreKeeps
<1> DEFINE n == rgot[rpos].name
<1>2. /\ UNCHANGED <<rgot, rretry, cut>> /\ R!At("d")
      /\ rpath' = Append(rpath, n)
  BY DEF R!MakeDir, R!Current
<1>3. /\ rpc = "entry" /\ rpos =< Len(rgot) /\ rgot[rpos].op = "d" /\ n \in Seq(Elem)
      /\ rpath \in Seq(Seq(Elem))
  BY <1>2, AtEntry DEF RInv, Received
<1>4. R!Flat(rpath') = FlattenSeq(rpath) \o n BY <1>2, <1>3, SameFlat, FlattenAppend
<1>5. CASE ok
  <2>1. /\ made' = made \cup {[op |-> "d", name |-> R!Flat(rpath')]}
        /\ rpos' = rpos + 1 /\ UNCHANGED <<rpc, rrc, fault>>
    BY <1>5 DEF R!MakeDir, R!Put, R!Advance
  <2>2. rpath' = Follow(rpath, rgot[rpos]) BY <1>2, <1>3 DEF Follow
  <2>3. CameWhole' /\ AsListed' BY <1>1, <1>2, <1>3, <1>4, <2>1, <2>2, OneFurther
  <2>4. Excused' BY <1>1, <1>2, <1>3, <2>1 DEF Progress, Excused
  <2> QED BY <2>3, <2>4 DEF Progress
<1>6. CASE ~ok
  <2>1. /\ rrc' = -10 /\ rpc' = "close"
        /\ fault' = (fault \/ [op |-> "d", name |-> R!Flat(rpath')] \notin made)
    BY <1>6 DEF R!MakeDir
  <2>2. [op |-> "d", name |-> R!Flat(rpath')] \in made => cut
    BY <1>2, <1>4, NotMadeBefore
  <2>3. fault' \/ cut' BY <1>2, <2>1, <2>2, Zenon
  <2> QED BY <2>1, <2>3 DEF Progress, CameWhole, AsListed, Excused
<1> QED BY <1>5, <1>6

\* Every file on the list is on the server, under the name it is asked for.
LEMMA Available ==
  ASSUME TypeOK, RInv, Account, Progress, R!At("f"), ~cut, Eof \in Range(acked)
  PROVE  R!RemoteName(rgot[rpos].name) \in {acked[i].name : i \in {j \in DOMAIN acked : acked[j].op = "f"}}
<1>1. rpc = "entry" /\ rpos =< Len(rgot) /\ rgot[rpos].op = "f" /\ rgot[rpos].name \in Seq(Elem)
  BY AtEntry
<1>2. rgot = ctrl /\ rpos \in 1 .. Len(ctrl)
  BY <1>1 DEF Progress, CameWhole, RInv, Received
<1>3. ctrl \in Seq(CtrlType) BY TypeParts
<1>4. PICK n : n = rpos OBVIOUS
<1>5. Listed(n) = [op |-> "f", name |-> FlattenSeq(rpath) \o rgot[rpos].name]
  BY <1>1, <1>2, <1>4, NameHere DEF Found, Listed
<1>6. n \in Items BY <1>1, <1>2, <1>3, <1>4 DEF Items
<1>7. Listed(n) \in Range(acked)
  <2>1. Closed BY DEF Account, Ending
  <2> QED BY <1>6, <2>1 DEF Account, Finished, Catalogue
<1>8. PICK i \in DOMAIN acked : acked[i] = Listed(n) BY <1>7 DEF Range
<1>9. acked[i].op = "f" /\ acked[i].name = FlattenSeq(rpath) \o rgot[rpos].name BY <1>5, <1>8
<1>10. R!RemoteName(rgot[rpos].name) = FlattenSeq(rpath) \o rgot[rpos].name
  <2>1. CASE rpath = << >>
    <3>1. << >> \o rgot[rpos].name = rgot[rpos].name BY <1>1
    <3> QED BY <2>1, <3>1, FlattenNothing DEF R!RemoteName
  <2>2. CASE rpath # << >>
    <3>1. runix = rpath BY <1>1, <2>2 DEF RInv, OnTheWay
    <3> QED BY <2>2, <3>1, SameFlat DEF R!RemoteName
  <2> QED BY <2>1, <2>2
<1> QED BY <1>9, <1>10

LEMMA FileProgress ==
  ASSUME TypeOK, RInv, Account, Progress, UNCHANGED vars,
         NEW r \in {0, -1, -2}, R!FileAttempt(r)
  PROVE  Progress'
<1> DEFINE served == {acked[i].name : i \in {j \in DOMAIN acked : acked[j].op = "f"}}
           asked  == R!RemoteName(rgot[rpos].name)
<1>1. UNCHANGED <<ctrl, acked>> BY RestoreKeeps
<1>2. /\ UNCHANGED <<rgot, rpath, cut>> /\ R!At("f")
      /\ rretry' = IF r = -1 /\ rretry < R!MaxRetries THEN rretry + 1 ELSE 0
      /\ rrc' = IF r = -2 THEN -11 ELSE IF rretry = R!MaxRetries THEN -12 ELSE rrc
      /\ rpc' = IF rrc' = 0 THEN rpc ELSE "close"
      /\ rpos' = IF r = 0 /\ rrc' = 0 THEN rpos + 1 ELSE rpos
  BY DEF R!FileAttempt
<1>3. /\ rpc = "entry" /\ rpos =< Len(rgot) /\ rgot[rpos].op = "f" /\ rrc = 0
      /\ rretry \in 0 .. R!MaxRetries
  BY <1>2, AtEntry DEF Progress, Excused, RInv, Counted
<1>4. fault' = (fault \/ (r # 0 /\ asked \in served))
  BY Zenon DEF R!FileAttempt, R!Current
<1>5. IF r = 0 THEN made' = made \cup {[op |-> "f", name |-> R!Flat(rpath) \o rgot[rpos].name]}
               ELSE made' = made
  BY DEF R!FileAttempt, R!Put, R!Current
<1>6. ~cut /\ Eof \in Range(acked) => asked \in served BY <1>2, Available
<1> HIDE DEF served, asked
<1>7. r # 0 => fault' \/ cut \/ Eof \notin Range(acked) BY <1>4, <1>6, Zenon
<1>8. fault => fault' BY <1>4, Zenon
<1>9. rrc' # 0 \/ rretry' # 0 => r # 0 \/ rretry # 0
  BY <1>2, <1>3 DEF R!MaxRetries
<1>10. rretry # 0 => fault \/ cut \/ Eof \notin Range(acked) BY DEF Progress, Excused
<1>11. Excused'
  <2>1. rpc' \in {"entry", "close"} /\ (rpc' = "entry" => rrc' = 0) BY <1>2, <1>3
  <2>2. rrc' # 0 \/ rretry' # 0 => fault' \/ cut \/ Eof \notin Range(acked)
    BY <1>7, <1>8, <1>9, <1>10
  <2> QED BY <1>1, <1>2, <2>1, <2>2 DEF Excused
<1>12. CASE rrc' # 0
  <2>1. rpc' = "close" BY <1>2, <1>12
  <2> QED BY <1>11, <1>12, <2>1 DEF Progress, CameWhole, AsListed
<1>13. CASE rrc' = 0 /\ r = 0
  <2>1. rpc' = "entry" /\ rpos' = rpos + 1 BY <1>2, <1>3, <1>13
  <2>2. rpath' = Follow(rpath, rgot[rpos]) BY <1>2, <1>3 DEF Follow
  <2>3. made' = made \cup {[op |-> rgot[rpos].op, name |-> FlattenSeq(rpath) \o rgot[rpos].name]}
    BY <1>3, <1>5, <1>13, SameFlat
  <2>4. rgot[rpos].op # "e" /\ rgot[rpos].op \in {"d", "f"} BY <1>3
  <2>5. CameWhole' /\ AsListed' BY <1>1, <1>2, <1>3, <2>1, <2>2, <2>3, <2>4, OneFurther
  <2> QED BY <1>11, <2>5 DEF Progress
<1>14. CASE rrc' = 0 /\ r # 0
  <2>1. rpc' = "entry" /\ UNCHANGED <<rpos, made>> BY <1>2, <1>3, <1>5, <1>14
  <2>2. CameWhole' BY <1>1, <1>2, <1>3, <2>1 DEF Progress, CameWhole
  <2>3. Before(rpos)' = Before(rpos) /\ \A i : Found(i)' = Found(i)
    BY <1>2, <2>1 DEF Before, Found
  <2>4. {Found(i)' : i \in Before(rpos)'} = {Found(i) : i \in Before(rpos)} BY <2>3
  <2>5. AsListed' BY <1>2, <1>3, <2>1, <2>4 DEF Progress, AsListed
  <2> QED BY <1>11, <2>2, <2>5 DEF Progress
<1> QED BY <1>12, <1>13, <1>14

LEMMA ProgressStep ==
  ASSUME TypeOK, RInv, Account, Progress, [RNext]_<<vars, rvars>>
  PROVE  Progress'
<1>1. CASE BackupStep BY <1>1, ProgressWaits
<1>2. CASE RestoreStep
  <2>1. UNCHANGED vars /\ R!Step BY <1>2 DEF RestoreStep
  <2>2. CASE \/ R!Prepare \/ \E r \in -5 .. -1 : R!PrepareFails(r)
             \/ \E ok \in BOOLEAN : R!InitRemote(ok) \/ R!ChangeDir(ok)
             \/ R!GetListFails \/ R!EndOfList \/ R!Unexpected \/ R!Abort \/ R!Close
    BY <2>1, <2>2, PreparationProgress
  <2>3. CASE R!GetList BY <2>1, <2>3, ListProgress
  <2>4. CASE R!Header BY <2>1, <2>4, HeaderProgress
  <2>5. CASE R!CdUp BY <2>1, <2>5, CdUpProgress
  <2>6. CASE \E ok \in BOOLEAN : R!MakeDir(ok) BY <2>1, <2>6, MakeDirProgress
  <2>7. CASE \E r \in {0, -1, -2} : R!FileAttempt(r) BY <2>1, <2>7, FileProgress
  <2> QED BY <2>1, <2>2, <2>3, <2>4, <2>5, <2>6, <2>7, Zenon DEF R!Step
<1>3. CASE RestoreAgain
  <2>1. rpc' = "prepare" /\ rrc' = 0 /\ rretry' = 0 /\ made' = {}
    BY <1>3 DEF RestoreAgain, R!Again
  <2> QED BY <2>1 DEF Progress, CameWhole, AsListed, Excused
<1>4. CASE RDone \/ UNCHANGED <<vars, rvars>>
  <2>1. UNCHANGED vars /\ UNCHANGED <<rpc, rrc, rgot, rpos, rpath, rretry, made, cut, fault>>
    BY <1>4 DEF RDone, rvars
  <2>2. UNCHANGED <<ctrl, acked>> /\ Catalogue' = Catalogue /\ Closed' = Closed
    BY <2>1, RestoreKeeps
  <2>3. CameWhole' /\ Excused' BY <2>1, <2>2 DEF Progress, CameWhole, Excused
  <2>4. Before(rpos)' = Before(rpos) /\ \A i : Found(i)' = Found(i)
    BY <2>1 DEF Before, Found
  <2>5. {Found(i)' : i \in Before(rpos)'} = {Found(i) : i \in Before(rpos)} BY <2>4
  <2>6. AsListed' BY <2>1, <2>2, <2>5 DEF Progress, AsListed
  <2> QED BY <2>3, <2>6 DEF Progress
<1> QED BY <1>1, <1>2, <1>3, <1>4, Zenon DEF RNext

LEMMA ProgressInvariant == RSpec => [](TypeOK /\ RInv /\ Journal /\ Account /\ Progress)
<1>1. RSpec => Spec BY BackupWithin DEF RSpec
<1>2. Spec => []TypeOK /\ []Journal /\ []Account
  BY BackupTypes, JournalInvariant, AccountInvariant
<1>3. TypeOK /\ RInv /\ Account /\ Progress /\ [RNext]_<<vars, rvars>> => Progress'
  BY ProgressStep
<1> QED BY <1>1, <1>2, <1>3, ProgressBegins, RInvariant, PTL DEF RSpec

\* A restore that reports success has rebuilt the tree, no more and no less,
\* whatever the tree, the server, and the connections that were cut (do_restore,
\* RESTORE.C:139-303).
THEOREM SuccessRebuilds == RSpec => []RebuildsTree
<1>1. TypeOK /\ Journal /\ Account /\ Progress => RebuildsTree
  <2>1. SUFFICES ASSUME TypeOK, Journal, Account, Progress,
                        rpc = "exit", rrc = 0, ~skipped, Stray = << >>
                 PROVE  made = Tree
    BY DEF RebuildsTree
  <2>2. Closed /\ made = Catalogue BY <2>1 DEF Progress, AsListed
  <2>3. \A t \in Tree : t \in Catalogue
    <3>1. Finished BY <2>2 DEF Finished
    <3>2. \A t \in Tree : \E i \in Items : Listed(i) = t BY <2>1, <3>1, NothingMissing
    <3> QED BY <3>2 DEF Catalogue
  <2>4. ASSUME NEW t \in Catalogue PROVE t \in Tree
    <3>1. PICK d \in DOMAIN fs : \E e \in Range(fs[d]) \cup Range(Stray) : Shown(e) /\ t = Item(d, e)
      BY <2>1 DEF Account, Sources
    <3>2. Range(Stray) = {} BY <2>1 DEF Range
    <3>3. PICK e \in Range(fs[d]) : Shown(e) /\ t = Item(d, e) BY <3>1, <3>2
    <3>4. e \in {f \in Range(fs[d]) : f.kind # "dot"} BY <3>3 DEF Shown
    <3>5. t \in {[op |-> Op(f), name |-> d \o f.name] : f \in {f \in Range(fs[d]) : f.kind # "dot"}}
      BY <3>3, <3>4 DEF Item
    <3> QED BY <3>5 DEF Tree
  <2> QED BY <2>2, <2>3, <2>4
<1> QED BY <1>1, ProgressInvariant, PTL

\* A restore of a backup whose list was confirmed fails only when something outside
\* fails (BACKUP.C:298, RESTORE.C:112-115, 165, 241-246, 296).
THEOREM FailuresHaveReasons == RSpec => []FailsForAReason
<1>1. Progress => FailsForAReason BY DEF Progress, Excused, FailsForAReason
<1> QED BY <1>1, ProgressInvariant, PTL

-----------------------------------------------------------------------------
(* The lengths of what is listed *)

\* What is listed fits the buffers below the directory that was backed up.
Fitting ==
  /\ Stray \in Strays
  /\ pc = "prepare" => dir.left \in Strays
  /\ \A t \in Catalogue : Len(Root) + Len(t.name) =< MaxPath

LEMMA FittingBegins == Init => Fitting
<1> SUFFICES ASSUME Init PROVE Fitting OBVIOUS
<1>1. PICK l \in Strays : dir = [dir |-> << >>, left |-> l] BY DEF Init
<1>2. 0 \in 0 .. MaxEntries - 1 BY StackBounds
<1>3. ds.entries[0] = dir BY <1>2 DEF Init, InitDirStack
<1>4. Items = {} BY DEF Init, Items
<1>5. Catalogue = {} BY <1>4 DEF Catalogue
<1> QED BY <1>1, <1>3, <1>5 DEF Fitting, Stray

\* A visit looks at the length of what it lists, except that of a stray entry.
LEMMA NameFits ==
  ASSUME ShortStrays, Inv, Journal, Fitting, pc = "visit", Len(path \o file.name) =< MaxPath
  PROVE  Len(Root) + Len(unix \o file.name) =< MaxPath
<1>1. /\ TypeOK /\ Active /\ Here /\ Charted /\ Searched
      /\ file.name \in Seq(Elem) /\ Root \in Seq(Elem) /\ ds.nextEntry \in Nat
      /\ path \in Seq(Elem) /\ unix \in Seq(Elem)
  BY NameType, StackParts, TypeParts, BackupBounds DEF Inv, Active, Journal
<1>2. CASE ds.nextEntry = 0
  <2>1. unix = << >> BY <1>1, <1>2, FlattenNothing DEF Charted
  <2>2. file \in Range(Stray) BY <1>1, <1>2 DEF Searched
  <2>3. Len(Root) + Len(file.name) =< MaxPath BY <2>2 DEF ShortStrays, Fitting
  <2>4. unix \o file.name = file.name BY <1>1, <2>1
  <2> QED BY <2>3, <2>4, Zenon
<1>3. CASE ds.nextEntry # 0
  <2>1. StartsWith(path, Root) /\ unix = Rel(path) BY <1>1, <1>3 DEF Here
  <2>2. Root \o unix = path BY <1>1, <2>1, RelType
  <2>3. /\ Len(path) = Len(Root) + Len(unix) /\ Len(path \o file.name) = Len(path) + Len(file.name)
        /\ Len(unix \o file.name) = Len(unix) + Len(file.name)
        /\ Len(Root) \in Nat /\ Len(unix) \in Nat /\ Len(file.name) \in Nat
    BY <1>1, <2>2
  <2>4. MaxPath \in Nat BY StackBounds
  <2>5. PICK a \in Nat, b \in Nat, c \in Nat : a = Len(Root) /\ b = Len(unix) /\ c = Len(file.name)
    BY <2>3
  <2>6. Len(path \o file.name) = a + b + c /\ Len(unix \o file.name) = b + c BY <2>3, <2>5
  <2>7. a + b + c =< MaxPath BY <2>6
  <2>8. a + (b + c) =< MaxPath BY ONLY <2>4, <2>7
  <2> QED BY <2>5, <2>6, <2>8
<1> QED BY <1>2, <1>3

\* Nothing is listed, and the stack keeps what it holds for the root.
LEMMA FittingKept ==
  ASSUME TypeOK, Account, Fitting, UNCHANGED fs, Stray' = Stray, pc' # "prepare",
         ctrl' = ctrl \/ \E c \in CtrlType : ctrl' = Append(ctrl, c) /\ c.op \notin {"d", "f"}
  PROVE  Fitting'
<1>1. Catalogue' = Catalogue BY ListKeptOrEnded DEF Account
<1> QED BY <1>1 DEF Fitting

LEMMA FittingVisit ==
  ASSUME ShortStrays, Inv, Journal, Account, Fitting,
         OpenFile \/ OpenFileFails \/ \E opens \in BOOLEAN : EnterDir(opens)
  PROVE  Fitting'
<1>1. /\ pc = "visit" /\ Len(path \o file.name) =< MaxPath /\ UNCHANGED fs /\ pc' # "prepare"
      /\ \/ file.kind = "file" /\ ctrl' = Append(ctrl, File(file.name))
         \/ file.kind = "dir" /\ ctrl' = Append(ctrl, Dir(file.name))
  BY DEF OpenFile, OpenFileFails, EnterDir, Visit
<1>2. TypeOK /\ Active /\ file.name \in Seq(Elem) BY <1>1, NameType DEF Inv, Active
<1>3. PICK c \in CtrlType : /\ ctrl' = Append(ctrl, c) /\ c.op = Op(file) /\ c.name = file.name
  <2>1. File(file.name) \in CtrlType /\ Dir(file.name) \in CtrlType
    BY <1>2 DEF File, Dir, CtrlType
  <2>2. CASE file.kind = "file" /\ ctrl' = Append(ctrl, File(file.name))
    <3>1. File(file.name).op = Op(file) /\ File(file.name).name = file.name
      BY <2>2 DEF File, Op
    <3> QED BY <2>1, <2>2, <3>1
  <2>3. CASE file.kind = "dir" /\ ctrl' = Append(ctrl, Dir(file.name))
    <3>1. Dir(file.name).op = Op(file) /\ Dir(file.name).name = file.name
      BY <2>3 DEF Dir, Op
    <3> QED BY <2>1, <2>3, <3>1
  <2> QED BY <1>1, <2>2, <2>3
<1>4. Stray' = Stray
  <2>1. CASE OpenFile \/ OpenFileFails BY <2>1 DEF OpenFile, OpenFileFails, Stray
  <2>2. CASE \E opens \in BOOLEAN : EnterDir(opens)
    <3>1. file.kind = "dir" BY <2>2 DEF EnterDir, Visit
    <3>2. ds.nextEntry # 0 BY <1>1, <1>2, <3>1 DEF Inv, Here
    <3>3. PICK p : ds' = ds \/ ds' = PushDir(ds, dir, p) BY <2>2 DEF EnterDir
    <3>4. ds \in StackType BY <1>2 DEF TypeOK
    <3>5. 0 \in 0 .. MaxEntries - 1 BY StackBounds
    <3>6. CASE ds' = PushDir(ds, dir, p)
      <4>1. ds'.entries = [ds.entries EXCEPT ![ds.nextEntry] = dir] BY <3>6 DEF PushDir
      <4>2. ds'.entries[0] = ds.entries[0] BY <3>2, <3>4, <3>5, <4>1 DEF StackType
      <4> QED BY <4>2 DEF Stray
    <3>7. CASE ds' = ds BY <3>7 DEF Stray
    <3> QED BY <3>3, <3>6, <3>7
  <2> QED BY <2>1, <2>2
<1>5. Catalogue' = Catalogue \cup {Item(unix, file)}
  <2>1. Shown(file) BY <1>1 DEF Shown
  <2> QED BY <1>1, <1>3, <1>4, <2>1, VisitLists
<1>6. Len(Root) + Len(Item(unix, file).name) =< MaxPath BY <1>1, NameFits DEF Item
<1> QED BY <1>1, <1>4, <1>5, <1>6 DEF Fitting

LEMMA FittingStep ==
  ASSUME ShortStrays, Inv, Journal, Account, Fitting, [Next]_vars
  PROVE  Fitting'
<1>0. TypeOK BY DEF Inv
<1>1. CASE Prepare
  <2>1. pc = "prepare" /\ pc' = "init" /\ ds' = PushDir(ds, dir, Root) BY <1>1 DEF Prepare
  <2>2. ds.nextEntry = 0 /\ ds \in StackType BY <2>1 DEF Inv, TypeOK
  <2>3. 0 \in 0 .. MaxEntries - 1 BY StackBounds
  <2>4. ds'.entries = [ds.entries EXCEPT ![0] = dir] BY <2>1, <2>2 DEF PushDir
  <2>5. ds'.entries[0] = dir BY <2>2, <2>3, <2>4 DEF StackType
  <2>6. Stray' \in Strays BY <2>1, <2>5 DEF Fitting, Stray
  <2>7. ctrl' = <<Header(Root)>> BY <1>1 DEF Prepare
  <2>8. Items' = {} BY <2>7 DEF Items, Header
  <2>9. Catalogue' = {Listed(i)' : i \in Items'} BY DEF Catalogue
  <2> QED BY <2>1, <2>6, <2>8, <2>9 DEF Fitting
<1>2. CASE OpenFile \/ OpenFileFails \/ \E opens \in BOOLEAN : EnterDir(opens)
  BY <1>2, FittingVisit
<1>3. CASE CloseAndPop
  <2>1. /\ pc = "next" /\ pc' = pc /\ ctrl' = Append(ctrl, CdUp) /\ UNCHANGED fs
        /\ ds'.entries = ds.entries /\ CdUp \in CtrlType /\ CdUp.op = "c"
    BY <1>3 DEF CloseAndPop, PopDir, CdUp, CtrlType
  <2>2. Stray' = Stray BY <2>1 DEF Stray
  <2> QED BY <1>0, <2>1, <2>2, FittingKept
<1>4. CASE Finalize
  <2>1. /\ pc' = "sendctrl" /\ ctrl' = Append(ctrl, Eof) /\ UNCHANGED <<fs, ds>>
        /\ Eof \in CtrlType /\ Eof.op = "e"
    BY <1>4 DEF Finalize, Eof, CtrlType
  <2>2. Stray' = Stray BY <2>1 DEF Stray
  <2> QED BY <1>0, <2>1, <2>2, FittingKept
<1>5. CASE \/ VisitDot \/ Abort \/ PathTooLong \/ GiveUp \/ Close \/ NextEntry \/ LastClose
           \/ \E c \in Codes : InitRemote(c) \/ MakeBackupDir(c) \/ ChangeDir(c) \/ MkDirAttempt(c)
           \/ \E r \in -6 .. -1 : PrepareFails(r)
           \/ \E r \in {0, -1, -2} : SendAttempt(r) \/ SendControlFile(r)
  <2>1. UNCHANGED <<fs, ds, ctrl>> /\ pc' # "prepare"
    BY <1>5 DEF VisitDot, Visit, Abort, PathTooLong, GiveUp, Close, NextEntry, LastClose,
                InitRemote, MakeBackupDir, ChangeDir, MkDirAttempt, PrepareFails,
                SendAttempt, SendControlFile
  <2>2. Stray' = Stray BY <2>1 DEF Stray
  <2> QED BY <1>0, <2>1, <2>2, FittingKept
<1>6. CASE Terminated \/ UNCHANGED vars
  <2>1. UNCHANGED <<pc, dir, ds, ctrl>> BY <1>6 DEF Terminated, vars
  <2>2. Items' = Items /\ \A i : Listed(i)' = Listed(i) BY <2>1 DEF Items, Listed
  <2>3. Catalogue' = {Listed(i)' : i \in Items'} BY DEF Catalogue
  <2>4. Catalogue' = Catalogue BY <2>2, <2>3 DEF Catalogue
  <2> QED BY <2>1, <2>4 DEF Fitting, Stray
<1> QED BY <1>1, <1>2, <1>3, <1>4, <1>5, <1>6, Zenon DEF Next, Step

LEMMA FittingInvariant == ASSUME ShortStrays PROVE Spec => []Fitting
<1>1. Inv /\ Journal /\ Account /\ Fitting /\ [Next]_vars => Fitting'
  BY FittingStep
<1> QED BY <1>1, FittingBegins, Invariant, JournalInvariant, AccountInvariant, PTL DEF Spec

\* The paths a restore builds are no longer than those the backup went through, so
\* that its buffers hold them, whatever the tree and the server, unless the list was
\* cut or the restore goes to a longer directory (do_restore, RESTORE.C:151, 194).
THEOREM RestoreStaysInBuffer == ASSUME ShortStrays PROVE RSpec => []StaysInBuffer
<1>1. TypeOK /\ RInv /\ Progress /\ Fitting => StaysInBuffer
  <2>1. SUFFICES ASSUME TypeOK, RInv, Progress, Fitting, Following, Current.op \in {"d", "f"},
                        ~cut, Len(LocalDir) =< Len(Root)
                 PROVE  Len(LocalDir) + Len(R!Flat(rpath) \o Current.name) =< MaxPath
    BY DEF StaysInBuffer
  <2>2. /\ rpc = "entry" /\ rpos \in 1 .. Len(ctrl) /\ rgot = ctrl /\ ctrl \in Seq(CtrlType)
    BY <2>1, TypeParts DEF Following, Progress, CameWhole, RInv, Received
  <2>3. PICK n : n = rpos OBVIOUS
  <2>4. n \in Items BY <2>1, <2>2, <2>3 DEF Items, Current
  <2>5. Listed(n).name = FlattenSeq(rpath) \o Current.name
    BY <2>1, <2>2, <2>3, NameHere DEF Found, Listed, Current
  <2>6. Len(Root) + Len(Listed(n).name) =< MaxPath BY <2>1, <2>4 DEF Fitting, Catalogue
  <2>7. R!Flat(rpath) = FlattenSeq(rpath) BY SameFlat
  <2>8. FlattenSeq(rpath) \o Current.name \in Seq(Elem)
    <3>0. ctrl[rpos] \in CtrlType /\ Current = ctrl[rpos] BY <2>2 DEF Current
    <3>1. rpath \in Seq(Seq(Elem)) /\ Current.name \in Seq(Elem)
      BY <2>1, <3>0 DEF RInv, Received, CtrlType
    <3>2. FlattenSeq(rpath) \in Seq(Elem) BY <3>1, FlattenType
    <3> QED BY <3>1, <3>2
  <2>9. PICK l : l = FlattenSeq(rpath) \o Current.name OBVIOUS
  <2>10. Len(l) \in Nat /\ Len(Root) + Len(l) =< MaxPath BY <2>5, <2>6, <2>8, <2>9
  <2>11. Len(LocalDir) \in Nat /\ Len(Root) \in Nat /\ MaxPath \in Nat
    BY RestoreBounds, BackupBounds, StackBounds
  <2>12. Len(LocalDir) + Len(l) =< MaxPath BY <2>1, <2>10, <2>11
  <2> QED BY <2>7, <2>9, <2>12
<1>2. RSpec => Spec BY BackupWithin DEF RSpec
<1> QED BY <1>1, <1>2, ProgressInvariant, FittingInvariant, PTL

-----------------------------------------------------------------------------
(* The attempts at a file *)

\* What FileTransfer says of an attempt, after as many attempts as do_backup and
\* do_restore have counted.
Sending == INSTANCE FileTransfer
             WITH Files <- {}, Resumes <- TRUE, EndsEarly <- FALSE,
                  file <- << >>, status <- "trying", tries <- retry,
                  copy <- << >>, flawed <- FALSE
Receiving == INSTANCE FileTransfer
             WITH Files <- {}, Resumes <- FALSE, EndsEarly <- TRUE,
                  file <- << >>, status <- "trying", tries <- rretry,
                  copy <- << >>, flawed <- FALSE

\* do_backup goes on with the file, goes on to the next, or gives up, as
\* FileTransfer has it.
LEMMA SendAttemptAgrees ==
  ASSUME TypeOK, NEW r \in {0, -1, -2}, SendAttempt(r)
  PROVE  /\ Sending!Verdict(r) = "trying" => pc' = "send" /\ retry' = retry + 1
         /\ Sending!Verdict(r) = "done" => pc' = "next" /\ acked' = Append(acked, File(target))
         /\ Sending!Verdict(r) = "gaveup" => pc' = "finish" /\ rc' = -17
         /\ Sending!Verdict(r) = "localerror" => pc' = "finish" /\ rc' = -16
<1>1. retry \in Nat BY DEF TypeOK
<1> QED BY <1>1 DEF SendAttempt, MaxRetries, Sending!Verdict, Sending!MaxRetries

\* So does do_restore.
LEMMA FileAttemptAgrees ==
  ASSUME RTypeOK, Excused, NEW r \in {0, -1, -2}, R!FileAttempt(r)
  PROVE  /\ Receiving!Verdict(r) = "trying" => rpos' = rpos /\ rrc' = 0 /\ rretry' = rretry + 1
         /\ Receiving!Verdict(r) = "done" => rpos' = rpos + 1 /\ rrc' = 0 /\ rretry' = 0
         /\ Receiving!Verdict(r) = "gaveup" => rpc' = "close" /\ rrc' = -12
         /\ Receiving!Verdict(r) = "localerror" => rpc' = "close" /\ rrc' = -11
<1>1. rretry \in 0 .. 3 /\ rrc = 0
  BY DEF RTypeOK, R!TypeOK, R!MaxRetries, R!FileAttempt, R!At, Excused
<1> QED BY <1>1 DEF R!FileAttempt, R!MaxRetries, Receiving!Verdict, Receiving!MaxRetries
=============================================================================
