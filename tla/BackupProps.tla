---------------------------- MODULE BackupProps -----------------------------
(***************************************************************************)
(* What a finished or interrupted backup is worth to the restore that      *)
(* follows it: properties of Backup over the control file as do_restore    *)
(* reads it and over what the server confirmed.                            *)
(***************************************************************************)
EXTENDS Backup, SequencesExt

\* How do_restore follows a control file: a directory entry goes down, a
\* CDUP entry goes up unless it is at the root already.
Follow(trail, e) ==
  CASE e.op = "d" -> Append(trail, e.name)
    [] e.op = "c" -> IF trail = << >> THEN << >> ELSE Front(trail)
    [] OTHER      -> trail

Where(es) == FlattenSeq(FoldLeft(Follow, << >>, es))

\* The files and directories a control file lists, by their relative paths.
Listed(i) == [op |-> ctrl[i].op, name |-> Where(SubSeq(ctrl, 1, i - 1)) \o ctrl[i].name]
Items     == {i \in DOMAIN ctrl : ctrl[i].op \in {"d", "f"}}

\* The files and directories of the local tree.
Op(e) == IF e.kind = "dir" THEN "d" ELSE "f"
Tree == UNION { {[op |-> Op(e), name |-> d \o e.name] :
                   e \in {f \in Range(fs[d]) : f.kind # "dot"}} : d \in DOMAIN fs }

Stray == ds.entries[0].left

\* At every moment, what the server has confirmed is found by a restore that
\* follows the control file written so far, under the same name
\* (BACKUP.C:165, 211, 270-276; RESTORE.C:150-172, 188-196, 270-287).
ConfirmedIsListed ==
  \A k \in DOMAIN acked :
    acked[k].op # "e" => \E i \in Items : Listed(i) = acked[k]

\* What the server confirmed is an entry of the local tree, in a directory that
\* it had confirmed before, so that no file is stored where nothing was made
\* (BACKUP.C:180-195 before 197, 222-242).  The search that was never opened may
\* add entries of its own.
ParentFirst ==
  \A k \in DOMAIN acked : acked[k].op # "e" =>
    \E d \in DOMAIN fs :
      /\ d = << >> \/ \E j \in 1 .. k - 1 : acked[j] = Dir(d)
      /\ \E e \in Range(fs[d]) \cup Range(Stray) :
           acked[k] = [op |-> Op(e), name |-> d \o e.name]

\* A backup that reports success has stored every file and directory, and its
\* control file lists each of them, once when the search that was never opened
\* yields nothing.  Not so when findnext failed on the way: do_backup takes
\* that for the end of the directory.
CompleteOnSuccess ==
  pc = "exit" /\ rc = 0 /\ ~skipped =>
    /\ Tree \subseteq Range(acked)
    /\ \A t \in Tree : \E i \in Items : Listed(i) = t
    /\ Stray = << >> => \A i, j \in Items : Listed(i) = Listed(j) => i = j

-----------------------------------------------------------------------------
(* What the comments say and the code does not do *)

\* "If we successfully sent the file, we are done." (BACKUP.C:400)
SentMeansDone ==
  rc = -17 => \A k \in DOMAIN acked : acked[k] # File(target)
=============================================================================
