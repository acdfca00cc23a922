---------------------------- MODULE DirStackApi ----------------------------
(***************************************************************************)
(* The directory stack under any sequence of calls: a caller pushes any    *)
(* search with any path and pops when it likes.  The functions return what *)
(* DirStack computes; a refused call changes nothing.                      *)
(***************************************************************************)
EXTENDS DirStack

CONSTANTS Elem, Search,
          Inputs,      \* the paths the caller pushes
          Limit        \* the caller stops pushing at this many entries

ASSUME ApiInputs == Inputs \subseteq Seq(Elem) /\ Search # {} /\ Limit \in Nat

VARIABLES s,           \* the dirStack_t
          rc,          \* what the last call returned
          popped       \* what the last successful popDir stored

vars == <<s, rc, popped>>

Init ==
  /\ \E junk \in Search :
       /\ s = InitDirStack(junk)
       /\ popped = <<junk, << >> >>
  /\ rc = 0

Push(d, p) ==
  /\ s.nextEntry < Limit
  /\ PushRc(s, p) = 0
  /\ s' = PushDir(s, d, p)
  /\ rc' = 0
  /\ UNCHANGED popped

PushRefused(p) ==
  /\ s.nextEntry < Limit
  /\ PushRc(s, p) # 0
  /\ rc' = PushRc(s, p)
  /\ UNCHANGED <<s, popped>>

Pop ==
  /\ PopRc(s) = 0
  /\ s' = PopDir(s)
  /\ popped' = <<PoppedSearch(s), PoppedPath(s)>>
  /\ rc' = 0

PopEmpty ==
  /\ PopRc(s) # 0
  /\ rc' = PopRc(s)
  /\ UNCHANGED <<s, popped>>

Next ==
  \/ \E d \in Search, p \in Inputs : Push(d, p)
  \/ \E p \in Inputs : PushRefused(p)
  \/ Pop
  \/ PopEmpty

Spec == Init /\ [][Next]_vars

-----------------------------------------------------------------------------
(* Properties *)

\* The type of the structure and of the returned values (DIR.H, dirStack_t).
TypeOK ==
  /\ s \in [ entries    : [0 .. MaxEntries - 1 -> Search],
             pathName   : Seq(Elem),
             pathSplits : [0 .. MaxEntries - 1 -> Nat],
             nextEntry  : 0 .. MaxEntries - 1 ]
  /\ rc \in {0, -1, -2, -3, -4}
  /\ popped \in Search \X Seq(Elem)

\* The lengths recorded for the open directories never shrink towards the
\* top, and the last is the length of the path kept: truncating to any of
\* them gives back the path of that depth (pushDir's check, DIR.C:54-62).
SplitsNested ==
  /\ s.pathSplits[0] = 0
  /\ s.pathSplits[s.nextEntry] = Len(s.pathName)
  /\ \A i \in 1 .. s.nextEntry : s.pathSplits[i - 1] =< s.pathSplits[i]

\* The stack of saved pairs that the structure stands for.
SavedPairs ==
  [i \in 1 .. s.nextEntry |->
     <<s.entries[i - 1], SubSeq(s.pathName, 1, s.pathSplits[i - 1])>>]

Abstract == INSTANCE PathStack
              WITH Paths <- Inputs, saved <- SavedPairs, current <- s.pathName

\* popDir gives back the search and the path that were current before the
\* matching pushDir (DIR.C:98-102), for every sequence of calls.
ImplementsPathStack == Abstract!Spec
=============================================================================
