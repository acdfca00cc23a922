------------------------------ MODULE DirStack ------------------------------
(***************************************************************************)
(* dirStack_t and the functions of DIR.C that change one, as operators on  *)
(* the structure.  The stack keeps ONE path string, pathName, and in       *)
(* pathSplits the length it had at each depth; a pop truncates the string. *)
(*                                                                         *)
(* A path is a sequence of elements: characters when the functions are     *)
(* looked at alone, whole components when do_backup drives them.           *)
(***************************************************************************)
EXTENDS Integers, Sequences

CONSTANTS MaxEntries,  \* DIRSTACK_MAX_ENTRIES
          MaxPath      \* DIR_MAX_PATH, in elements

ASSUME StackBounds == MaxEntries \in Nat \ {0} /\ MaxPath \in Nat

\* A fresh stack.  Its entries are malloc'ed and not cleared: junk.
InitDirStack(junk) ==
  [ entries    |-> [i \in 0 .. MaxEntries - 1 |-> junk],
    pathName   |-> << >>,
    pathSplits |-> [i \in 0 .. MaxEntries - 1 |-> 0],
    nextEntry  |-> 0 ]

\* strstr(p, q) == p: the string p begins with the string q.
StartsWith(p, q) == Len(q) =< Len(p) /\ SubSeq(p, 1, Len(q)) = q

\* (mutant) The check that the new path lies below the current one is gone.
PushRcUnchecked(s, p) ==
  CASE s.nextEntry >= MaxEntries -> -2
    [] s.nextEntry < MaxEntries /\ Len(p) > MaxPath -> -3
    [] OTHER -> 0

\* What pushDir returns when it is given the path p.
PushRc(s, p) ==
  CASE s.nextEntry >= MaxEntries                             -> -2
    [] s.nextEntry < MaxEntries /\ Len(p) > MaxPath          -> -3
    [] /\ s.nextEntry < MaxEntries /\ Len(p) =< MaxPath
       /\ s.nextEntry # 0 /\ ~StartsWith(p, s.pathName)      -> -4
    [] OTHER                                                 -> 0

\* The structure after a pushDir that returns 0.  pathSplits has MaxEntries
\* elements, and the length is stored AFTER nextEntry was incremented: the
\* push that fills the last entry stores it one past the end, where the
\* structure keeps nextEntry, a uint8_t.
PushDir(s, d, p) ==
  LET n == s.nextEntry + 1
  IN  [ entries    |-> [s.entries EXCEPT ![s.nextEntry] = d],
        pathName   |-> p,
        pathSplits |-> IF n < MaxEntries THEN [s.pathSplits EXCEPT ![n] = Len(p)]
                                         ELSE s.pathSplits,
        nextEntry  |-> IF n < MaxEntries THEN n ELSE Len(p) % 256 ]

PopRc(s) == IF s.nextEntry = 0 THEN -1 ELSE 0

\* What a popDir that returns 0 stores through its two pointers ...
PoppedSearch(s) == s.entries[s.nextEntry - 1]
PoppedPath(s)   == SubSeq(s.pathName, 1, s.pathSplits[s.nextEntry - 1])

\* (mutants) The path is not truncated; the entry is given back twice.
PopDirKeepsPath(s) == [s EXCEPT !.nextEntry = @ - 1]
PopDirTwice(s)     == [s EXCEPT !.pathName = PoppedPath(s), !.nextEntry = @ - 2]

\* ... and the structure it leaves.
PopDir(s) ==
  [ entries    |-> s.entries,
    pathName   |-> PoppedPath(s),
    pathSplits |-> s.pathSplits,
    nextEntry  |-> s.nextEntry - 1 ]

\* At the root of the path (and below it) pushDir and popDir also clear the
\* character that follows the terminator in the caller's buffer.
ClearsTail(s) == s.nextEntry =< 1
=============================================================================
