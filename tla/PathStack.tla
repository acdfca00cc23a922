----------------------------- MODULE PathStack -----------------------------
(***************************************************************************)
(* What a directory stack promises its caller, without saying how: a push  *)
(* saves the suspended search together with the path that was current, and *)
(* makes a longer path current; a pop hands back exactly what the matching *)
(* push saved.  DirStackApi shows that dirStack_t, which keeps only one    *)
(* copy of the path and a table of lengths, keeps this promise.            *)
(***************************************************************************)
EXTENDS Integers, Sequences

CONSTANTS Paths,      \* the paths a caller may push
          Search,     \* the states of a directory search
          MaxPath     \* a longer path is refused

VARIABLES saved,      \* the saved <<search, path>> pairs, the oldest first
          current,    \* the path of the innermost directory
          rc,         \* the value the last call returned
          popped      \* the pair the last successful pop handed back

vars == <<saved, current, rc, popped>>

Extends(p, q) == Len(q) =< Len(p) /\ SubSeq(p, 1, Len(q)) = q

Init ==
  /\ saved = << >>
  /\ current = << >>
  /\ rc = 0
  /\ popped \in Search \X {<< >>}

Push(d, p) ==
  /\ saved # << >> => Extends(p, current)
  /\ Len(p) =< MaxPath
  /\ saved' = Append(saved, <<d, current>>)
  /\ current' = p
  /\ rc' = 0
  /\ UNCHANGED popped

\* Only a path that is too long or does not extend the current one is refused.
Refuse(p) ==
  /\ \/ Len(p) > MaxPath
     \/ saved # << >> /\ ~Extends(p, current)
  /\ rc' # 0
  /\ UNCHANGED <<saved, current, popped>>

Pop ==
  /\ saved # << >>
  /\ popped' = saved[Len(saved)]
  /\ current' = saved[Len(saved)][2]
  /\ saved' = SubSeq(saved, 1, Len(saved) - 1)
  /\ rc' = 0

PopEmpty ==
  /\ saved = << >>
  /\ rc' # 0
  /\ UNCHANGED <<saved, current, popped>>

Next ==
  \/ \E d \in Search, p \in Paths : Push(d, p)
  \/ \E p \in Paths : Refuse(p)
  \/ Pop
  \/ PopEmpty

Spec == Init /\ [][Next]_vars
=============================================================================
