------------------------------ MODULE Restore -------------------------------
(***************************************************************************)
(* do_restore: it fetches the control file, follows it entry by entry,     *)
(* makes the directories and receives the files.                           *)
(*                                                                         *)
(* The server is the most general one, except that it has no files but     *)
(* those that were stored.  A file is received by restore_file, whose      *)
(* inside is in ReceiveFile; here it is one step with its results.  The    *)
(* restore may be interrupted and started again.                           *)
(*                                                                         *)
(* path is a sequence of names below LocalDir; Flat gives its elements,    *)
(* which is what the paths of Backup are made of.                          *)
(***************************************************************************)
EXTENDS Integers, Sequences, SequencesExt

CONSTANTS
  Junk,      \* a field of an earlier entry that is taken for a name
  MaxRuns    \* bound: how often the restore is started

VARIABLES
  list,       \* the control file on the server, a sequence of [op, name]
  available,  \* is it there?
  served,     \* the names of the files the server has
  pc, rc,     \* where do_restore is, and do_restore_rc
  got,        \* the control file as it was received
  pos,        \* the entry that entry_type was taken from
  path,       \* the buffer path, below local_dir
  unix,       \* unix_path
  retry,      \* retry_count
  restored,   \* the directories and files on the local disk: [op, name]
  run,        \* how often the restore was started
  made,       \* history: what this run has restored
  cut,        \* history: only the beginning of the control file came
  fault       \* history: something outside failed in this run

source == <<list, available, served>>
ghosts == <<run, made, cut, fault>>
vars   == <<source, pc, rc, got, pos, path, unix, retry, restored, ghosts>>

MaxRetries == 3

Flat(p) == FlattenSeq(p)
Put(op, name) ==
  /\ restored' = restored \cup {[op |-> op, name |-> name]}
  /\ made' = made \cup {[op |-> op, name |-> name]}

Start ==
  /\ pc = "prepare" /\ rc = 0 /\ got = << >> /\ pos = 1
  /\ path = << >> /\ unix = << >> /\ retry = 0
  /\ restored = {} /\ made = {} /\ run = 1 /\ cut = FALSE /\ fault = FALSE

-----------------------------------------------------------------------------
(* Preparation *)

Prepare ==
  /\ pc = "prepare"
  /\ pc' = "init"
  /\ UNCHANGED <<source, rc, got, pos, path, unix, retry, restored, ghosts>>

\* Memory, the stack, the push of local_dir, tmpnam or fopen: an early return.
PrepareFails(r) ==
  /\ pc = "prepare"
  /\ pc' = "exit" /\ rc' = r /\ fault' = TRUE
  /\ UNCHANGED <<source, got, pos, path, unix, retry, restored, run, made, cut>>

\* A failure is remembered, and the next call made all the same.
InitRemote(ok) ==
  /\ pc = "init"
  /\ rc' = IF ok THEN rc ELSE -6
  /\ fault' = (fault \/ ~ok)
  /\ pc' = "chdir"
  /\ UNCHANGED <<source, got, pos, path, unix, retry, restored, run, made, cut>>

ChangeDir(ok) ==
  /\ pc = "chdir"
  /\ rc' = IF ok THEN rc ELSE -7
  /\ fault' = (fault \/ ~ok)
  /\ pc' = IF rc' = 0 THEN "list" ELSE "close"
  /\ UNCHANGED <<source, got, pos, path, unix, retry, restored, run, made, cut>>

\* How an entry of which only the beginning came is read.  Its name ends where
\* the line does; after the letter alone ctrl_buffer still holds another entry.
Torn(e) == IF e.op \in {"d", "f"}
             THEN {[op |-> e.op, name |-> n] :
                     n \in {SubSeq(e.name, 1, k) : k \in 0 .. Len(e.name)} \cup {Junk}}
             ELSE {e}

\* The control file is received, without a retry: all of it, or only its beginning
\* when the connection is closed early or the disk is full, which looks the same.
GetList ==
  /\ pc = "list" /\ available
  /\ \/ got' = list /\ UNCHANGED cut
     \/ \E n \in 1 .. Len(list), torn \in BOOLEAN :
          /\ \E e \in Torn(list[n]) :
               got' = SubSeq(list, 1, n - 1) \o IF torn THEN <<e>> ELSE << >>
          /\ cut' = TRUE
  /\ pc' = "entry"
  /\ UNCHANGED <<source, rc, pos, path, unix, retry, restored, run, made, fault>>

GetListFails ==
  /\ pc = "list"
  /\ fault' = (fault \/ available)
  /\ rc' = -8 /\ pc' = "close"
  /\ UNCHANGED <<source, got, pos, path, unix, retry, restored, run, made, cut>>

-----------------------------------------------------------------------------
(* One entry of the control file *)

Current == got[pos]
At(op) == pc = "entry" /\ pos =< Len(got) /\ Current.op = op
Advance == pos' = pos + 1 /\ UNCHANGED pc

Header ==
  /\ At("h")
  /\ Advance
  /\ UNCHANGED <<source, rc, got, path, unix, retry, restored, ghosts>>

\* (mutant) A directory that is there already will do.
MakeDirLenient(ok) ==
  /\ At("d")
  /\ path' = Append(path, Current.name)
  /\ unix' = path'
  /\ IF ok
       THEN restored' = restored \cup {[op |-> "d", name |-> Flat(path')]}
            /\ Advance /\ UNCHANGED <<rc, fault, made>>
       ELSE rc' = -10 /\ pc' = "close" /\ fault' = TRUE /\ UNCHANGED <<pos, restored, made>>
  /\ UNCHANGED <<source, got, retry, run, cut>>

\* path and unix_path go down first.  _mkdir fails on a directory that exists, and
\* without a name it names one.
MakeDir(ok) ==
  /\ At("d")
  /\ path' = Append(path, Current.name)
  /\ unix' = path'
  /\ LET new == [op |-> "d", name |-> Flat(path')]
     IN  /\ ok => new \notin restored /\ Current.name # << >>
         /\ IF ok THEN /\ Put("d", new.name)
                       /\ Advance /\ UNCHANGED <<rc, fault>>
                  ELSE /\ rc' = -10 /\ pc' = "close"
                       /\ fault' = (fault \/ new \notin made)
                       /\ UNCHANGED <<pos, restored, made>>
  /\ UNCHANGED <<source, got, retry, run, cut>>

\* (mutant) unix_path is always put before the name.
RemoteNameStale(n) == Flat(unix) \o n

\* unix_path is not looked at when the path is local_dir: it is stale then.
RemoteName(n) == IF path = << >> THEN n ELSE Flat(unix) \o n

\* (mutant) The last attempt is not the last.
FileAttemptOneMore(r) ==
  /\ At("f")
  /\ r = 0 => RemoteName(Current.name) \in served
  /\ retry' = IF r = -1 /\ retry =< MaxRetries THEN retry + 1 ELSE 0
  /\ IF r = 0 THEN Put("f", Flat(path) \o Current.name) ELSE UNCHANGED <<restored, made>>
  /\ rc' = IF r = -2 THEN -11 ELSE IF retry > MaxRetries THEN -12 ELSE rc
  /\ fault' = (fault \/ (r # 0 /\ RemoteName(Current.name) \in served))
  /\ pc' = IF rc' = 0 THEN pc ELSE "close"
  /\ pos' = IF r = 0 /\ rc' = 0 THEN pos + 1 ELSE pos
  /\ UNCHANGED <<source, got, path, unix, run, cut>>

\* One turn of the loop around restore_file, and what follows the last one.
\* 0 is only possible for a file the server has.
FileAttempt(r) ==
  /\ At("f")
  /\ r = 0 => RemoteName(Current.name) \in served
  /\ retry' = IF r = -1 /\ retry < MaxRetries THEN retry + 1 ELSE 0
  /\ IF r = 0 THEN Put("f", Flat(path) \o Current.name) ELSE UNCHANGED <<restored, made>>
  /\ rc' = IF r = -2 THEN -11 ELSE IF retry = MaxRetries THEN -12 ELSE rc
  /\ fault' = (fault \/ (r # 0 /\ RemoteName(Current.name) \in served))
  /\ pc' = IF rc' = 0 THEN pc ELSE "close"
  /\ pos' = IF r = 0 /\ rc' = 0 THEN pos + 1 ELSE pos
  /\ UNCHANGED <<source, got, path, unix, run, cut>>

\* fopen fails and a null stream is used, an assertion fails, initRemote ends the
\* program, or a call is made on a socket that it left unusable.
Abort ==
  /\ pc \in {"init", "list"} \/ At("f") \/ (pc \in {"chdir", "close"} /\ rc # 0)
  /\ pc' = "aborted" /\ fault' = TRUE
  /\ UNCHANGED <<source, rc, got, pos, path, unix, retry, restored, run, made, cut>>

\* (mutant) Not even the root is looked for.
CdUpAtRoot ==
  /\ At("c")
  /\ path' = IF Len(path) =< 1 THEN path ELSE Front(path)
  /\ unix' = path'
  /\ Advance
  /\ UNCHANGED <<source, rc, got, retry, restored, ghosts>>

\* The last name is cut off, unless the path is local_dir.  unix_path is made
\* from what lies behind the separator of local_dir: back at the root that is the
\* old path.
CdUp ==
  /\ At("c")
  /\ IF path = << >>
       THEN UNCHANGED <<path, unix>>
       ELSE /\ path' = Front(path)
            /\ unix' = IF path' = << >> THEN path ELSE path'
  /\ Advance
  /\ UNCHANGED <<source, rc, got, retry, restored, ghosts>>

EndOfList ==
  /\ At("e")
  /\ pc' = "close"
  /\ UNCHANGED <<source, rc, got, pos, path, unix, retry, restored, ghosts>>

\* (mutant) The end of the received file is as good as its last entry.
UnexpectedForgives ==
  /\ pc = "entry" /\ pos > Len(got)
  /\ pc' = "close"
  /\ UNCHANGED <<source, rc, got, pos, path, unix, retry, restored, ghosts>>

\* getNextEntry has nothing more to read.
Unexpected ==
  /\ pc = "entry" /\ pos > Len(got)
  /\ rc' = -14 /\ pc' = "close"
  /\ UNCHANGED <<source, got, pos, path, unix, retry, restored, ghosts>>

\* closeRemote.
Close ==
  /\ pc = "close"
  /\ pc' = "exit"
  /\ UNCHANGED <<source, rc, got, pos, path, unix, retry, restored, ghosts>>

\* The program, or the machine, is stopped, and the restore started once more
\* into the same directory.
Again ==
  /\ run < MaxRuns
  /\ run' = run + 1
  /\ pc' = "prepare" /\ rc' = 0 /\ got' = << >> /\ pos' = 1
  /\ path' = << >> /\ unix' = << >> /\ retry' = 0
  /\ made' = {} /\ cut' = FALSE /\ fault' = FALSE
  /\ UNCHANGED <<source, restored>>

-----------------------------------------------------------------------------

Ended == pc \in {"exit", "aborted"}

Step ==
  \/ Prepare \/ \E r \in -5 .. -1 : PrepareFails(r)
  \/ \E ok \in BOOLEAN : InitRemote(ok) \/ ChangeDir(ok) \/ MakeDir(ok)
  \/ GetList \/ GetListFails
  \/ Header \/ CdUp \/ EndOfList \/ Unexpected
  \/ \E r \in {0, -1, -2} : FileAttempt(r)
  \/ Abort
  \/ Close

-----------------------------------------------------------------------------
(* Properties of the restore alone *)

\* The types of do_restore's variables.
TypeOK ==
  /\ pc \in {"prepare", "init", "chdir", "list", "entry", "close", "exit", "aborted"}
  /\ rc \in -14 .. 0
  /\ pos \in 1 .. Len(got) + 1 /\ Len(got) =< Len(list)
  /\ retry \in 0 .. MaxRetries
  /\ run \in 1 .. MaxRuns
  /\ made \subseteq restored
  /\ cut \in BOOLEAN /\ fault \in BOOLEAN
=============================================================================
