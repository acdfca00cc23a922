--------------------------- MODULE DirStackProofs ---------------------------
(***************************************************************************)
(* Proofs about the directory stack, for every set of paths, every path    *)
(* length and every number of entries, as long as the caller leaves the    *)
(* last entry unused.  The invariant behind them is Nested: the recorded   *)
(* lengths are ordered, so each of them is the length of a prefix of the   *)
(* path, and a prefix of the path survives until it is popped.             *)
(***************************************************************************)
EXTENDS DirStackApi, SequenceLemmas

-----------------------------------------------------------------------------
(* The invariant *)

\* The lengths of the open directories, of any two of them, are ordered.
Nested ==
  \A i, j \in 0 .. s.nextEntry : i =< j => s.pathSplits[i] =< s.pathSplits[j]

Inv == TypeOK /\ SplitsNested /\ Nested /\ s.nextEntry =< Limit

LEMMA InitInv == Init => Inv
  <1> SUFFICES ASSUME Init PROVE Inv
    OBVIOUS
  <1> USE StackBounds, ApiInputs
  <1>1. PICK junk \in Search : s = InitDirStack(junk) /\ popped = <<junk, << >> >>
    BY DEF Init
  <1>2. /\ s.entries = [i \in 0 .. MaxEntries - 1 |-> junk]
        /\ s.pathName = << >>
        /\ s.pathSplits = [i \in 0 .. MaxEntries - 1 |-> 0]
        /\ s.nextEntry = 0
    BY <1>1 DEF InitDirStack
  <1>3. TypeOK
    <2>1. s \in [ entries    : [0 .. MaxEntries - 1 -> Search],
                 pathName   : Seq(Elem),
                 pathSplits : [0 .. MaxEntries - 1 -> Nat],
                 nextEntry  : 0 .. MaxEntries - 1 ]
      <3>1. /\ s.entries \in [0 .. MaxEntries - 1 -> Search]
            /\ s.pathName \in Seq(Elem)
            /\ s.pathSplits \in [0 .. MaxEntries - 1 -> Nat]
            /\ s.nextEntry \in 0 .. MaxEntries - 1
        BY <1>2
      <3> QED
        BY <1>1, <3>1 DEF InitDirStack
    <2>2. popped \in Search \X Seq(Elem)
      <3>1. << >> \in Seq(Elem)
        OBVIOUS
      <3> QED
        BY <1>1, <3>1
    <2>3. rc = 0
      BY DEF Init
    <2> QED
      BY <2>1, <2>2, <2>3 DEF TypeOK
  <1>4. SplitsNested /\ Nested
    BY <1>2 DEF SplitsNested, Nested
  <1> QED
    BY <1>2, <1>3, <1>4 DEF Inv

\* What a successful push makes of the structure, with room to spare.
LEMMA PushEffect ==
  ASSUME Limit < MaxEntries, Inv, NEW d \in Search, NEW p \in Inputs, Push(d, p)
  PROVE  /\ s' \in [ entries    : [0 .. MaxEntries - 1 -> Search],
                     pathName   : Seq(Elem),
                     pathSplits : [0 .. MaxEntries - 1 -> Nat],
                     nextEntry  : 0 .. MaxEntries - 1 ]
         /\ s.nextEntry < Limit
         /\ s'.nextEntry = s.nextEntry + 1
         /\ s'.entries = [s.entries EXCEPT ![s.nextEntry] = d]
         /\ s'.pathName = p
         /\ s'.pathSplits = [s.pathSplits EXCEPT ![s.nextEntry + 1] = Len(p)]
         /\ s.nextEntry # 0 => StartsWith(p, s.pathName)
         /\ Len(p) =< MaxPath
  <1> USE StackBounds, ApiInputs
  <1>1. p \in Seq(Elem) /\ Len(p) \in Nat
    OBVIOUS
  <1>2. s.nextEntry < Limit /\ PushRc(s, p) = 0 /\ s' = PushDir(s, d, p)
    BY DEF Push
  <1>3. s.nextEntry \in Nat /\ s.nextEntry + 1 < MaxEntries
    BY <1>2 DEF Inv, TypeOK
  <1>4. Len(p) =< MaxPath /\ (s.nextEntry # 0 => StartsWith(p, s.pathName))
    BY <1>1, <1>2, <1>3 DEF PushRc
  <1>5. s' = [ entries    |-> [s.entries EXCEPT ![s.nextEntry] = d],
               pathName   |-> p,
               pathSplits |-> [s.pathSplits EXCEPT ![s.nextEntry + 1] = Len(p)],
               nextEntry  |-> s.nextEntry + 1 ]
    BY <1>2, <1>3 DEF PushDir
  <1>6. /\ [s.entries EXCEPT ![s.nextEntry] = d] \in [0 .. MaxEntries - 1 -> Search]
        /\ [s.pathSplits EXCEPT ![s.nextEntry + 1] = Len(p)] \in [0 .. MaxEntries - 1 -> Nat]
        /\ s.nextEntry + 1 \in 0 .. MaxEntries - 1
    BY <1>1, <1>3 DEF Inv, TypeOK
  <1> QED
    BY <1>1, <1>2, <1>4, <1>5, <1>6

LEMMA PushInv ==
  ASSUME Limit < MaxEntries, Inv, NEW d \in Search, NEW p \in Inputs, Push(d, p)
  PROVE  Inv'
  <1> USE StackBounds, ApiInputs
  <1>e. /\ s.nextEntry < Limit
        /\ s'.nextEntry = s.nextEntry + 1
        /\ s'.pathName = p
        /\ s'.pathSplits = [s.pathSplits EXCEPT ![s.nextEntry + 1] = Len(p)]
        /\ s.nextEntry # 0 => StartsWith(p, s.pathName)
    BY PushEffect
  <1>n. /\ s.nextEntry \in 0 .. MaxEntries - 1
        /\ s.pathSplits \in [0 .. MaxEntries - 1 -> Nat]
        /\ s.pathName \in Seq(Elem) /\ p \in Seq(Elem)
        /\ Len(s.pathName) \in Nat /\ Len(p) \in Nat
    BY DEF Inv, TypeOK
  <1>1. TypeOK'
    BY PushEffect DEF Inv, TypeOK, Push
  <1>2. \A i \in 0 .. s.nextEntry :
          s'.pathSplits[i] = s.pathSplits[i] /\ s.pathSplits[i] =< Len(p)
    <2>1. s.nextEntry = 0 => s.pathSplits[0] = 0
      BY DEF Inv, SplitsNested
    <2>2. s.nextEntry # 0 => Len(s.pathName) =< Len(p)
      BY <1>e DEF StartsWith
    <2>3. \A i \in 0 .. s.nextEntry : s.pathSplits[i] =< Len(s.pathName)
      <3> SUFFICES ASSUME NEW i \in 0 .. s.nextEntry PROVE s.pathSplits[i] =< Len(s.pathName)
        OBVIOUS
      <3>1. s.nextEntry \in 0 .. s.nextEntry /\ i =< s.nextEntry
        BY <1>n
      <3>2. Nested
        BY DEF Inv
      <3>3. s.pathSplits[i] =< s.pathSplits[s.nextEntry]
        BY <3>1, <3>2 DEF Nested
      <3> QED
        BY <3>3 DEF Inv, SplitsNested
    <2>4. \A i \in 0 .. s.nextEntry : s'.pathSplits[i] = s.pathSplits[i]
      BY <1>e, <1>n
    <2>5. \A i \in 0 .. s.nextEntry : s.pathSplits[i] \in Nat
      BY <1>n
    <2> QED
      BY <1>n, <2>1, <2>2, <2>3, <2>4, <2>5
  <1>3. s'.pathSplits[s'.nextEntry] = Len(p)
    <2>1. s.nextEntry + 1 \in 0 .. MaxEntries - 1
      BY <1>e, <1>n
    <2> QED
      BY <1>e, <1>n, <2>1
  <1>4. Nested'
    <2> SUFFICES ASSUME NEW i \in 0 .. s.nextEntry + 1, NEW j \in 0 .. s.nextEntry + 1, i =< j
                 PROVE  s'.pathSplits[i] =< s'.pathSplits[j]
      BY <1>e DEF Nested
    <2>1. CASE j =< s.nextEntry
      <3>1. i \in 0 .. s.nextEntry /\ j \in 0 .. s.nextEntry
        BY <2>1, <1>n
      <3>2. s.pathSplits[i] =< s.pathSplits[j]
        BY <3>1 DEF Inv, Nested
      <3> QED
        BY <3>1, <3>2, <1>2
    <2>2. CASE j = s.nextEntry + 1 /\ i =< s.nextEntry
      <3>1. i \in 0 .. s.nextEntry
        BY <2>2, <1>n
      <3>2. s'.pathSplits[i] =< Len(p)
        BY <3>1, <1>2
      <3>3. s'.pathSplits[j] = Len(p)
        BY <2>2, <1>3, <1>e
      <3> QED
        BY <3>2, <3>3
    <2>3. CASE j = s.nextEntry + 1 /\ i = s.nextEntry + 1
      BY <2>3, <1>3, <1>e, <1>n
    <2> QED
      BY <1>n, <2>1, <2>2, <2>3
  <1>5. SplitsNested'
    <2>1. s'.pathSplits[0] = 0
      BY <1>2, <1>n DEF Inv, SplitsNested
    <2>2. \A i \in 1 .. s'.nextEntry : s'.pathSplits[i - 1] =< s'.pathSplits[i]
      <3> SUFFICES ASSUME NEW i \in 1 .. s'.nextEntry
                   PROVE  s'.pathSplits[i - 1] =< s'.pathSplits[i]
        OBVIOUS
      <3>1. i - 1 \in 0 .. s'.nextEntry /\ i \in 0 .. s'.nextEntry /\ i - 1 =< i
        BY <1>e, <1>n
      <3> QED
        BY <3>1, <1>4 DEF Nested
    <2> QED
      BY <1>3, <1>e, <2>1, <2>2 DEF SplitsNested
  <1>6. (s.nextEntry =< Limit)'
    BY <1>e, <1>n
  <1> QED
    BY <1>1, <1>4, <1>5, <1>6 DEF Inv

\* The length a pop truncates to is the length of a prefix of the path.
LEMMA PopLength ==
  ASSUME Inv, s.nextEntry # 0
  PROVE  /\ s.nextEntry - 1 \in 0 .. MaxEntries - 1
         /\ s.pathSplits[s.nextEntry - 1] \in 0 .. Len(s.pathName)
  BY StackBounds DEF Inv, TypeOK, SplitsNested, Nested

LEMMA PopEffect ==
  ASSUME Inv, Pop
  PROVE  /\ s.nextEntry # 0
         /\ s'.nextEntry = s.nextEntry - 1
         /\ s'.entries = s.entries /\ s'.pathSplits = s.pathSplits
         /\ s'.pathName = SubSeq(s.pathName, 1, s.pathSplits[s.nextEntry - 1])
         /\ s' \in [ entries    : [0 .. MaxEntries - 1 -> Search],
                     pathName   : Seq(Elem),
                     pathSplits : [0 .. MaxEntries - 1 -> Nat],
                     nextEntry  : 0 .. MaxEntries - 1 ]
         /\ popped' = <<s.entries[s.nextEntry - 1], s'.pathName>>
  <1> USE StackBounds
  <1>1. s.nextEntry # 0
    BY DEF Pop, PopRc
  <1>2. s' = [ entries    |-> s.entries,
               pathName   |-> SubSeq(s.pathName, 1, s.pathSplits[s.nextEntry - 1]),
               pathSplits |-> s.pathSplits,
               nextEntry  |-> s.nextEntry - 1 ]
    BY DEF Pop, PopDir, PoppedPath
  <1>3. SubSeq(s.pathName, 1, s.pathSplits[s.nextEntry - 1]) \in Seq(Elem)
    BY <1>1, PopLength, PrefixProperties DEF Inv, TypeOK
  <1> QED
    BY <1>1, <1>2, <1>3 DEF Inv, TypeOK, Pop, PoppedSearch, PoppedPath

LEMMA PopInv ==
  ASSUME Inv, Pop
  PROVE  Inv'
  <1> USE StackBounds
  <1>e. /\ s.nextEntry # 0
        /\ s'.nextEntry = s.nextEntry - 1
        /\ s'.pathSplits = s.pathSplits
        /\ s'.pathName = SubSeq(s.pathName, 1, s.pathSplits[s.nextEntry - 1])
    BY PopEffect
  <1>1. TypeOK'
    BY PopEffect DEF Inv, TypeOK, Pop
  <1>2. Len(s'.pathName) = s.pathSplits[s.nextEntry - 1]
    <2>1. s.pathName \in Seq(Elem) /\ s.pathSplits[s.nextEntry - 1] \in 0 .. Len(s.pathName)
      BY <1>e, PopLength DEF Inv, TypeOK
    <2> QED
      BY <1>e, <2>1, PrefixProperties
  <1>n. s.nextEntry \in Nat /\ s.pathSplits \in [0 .. MaxEntries - 1 -> Nat]
    BY DEF Inv, TypeOK
  <1>3. Nested'
    <2> SUFFICES ASSUME NEW i \in 0 .. s.nextEntry - 1, NEW j \in 0 .. s.nextEntry - 1, i =< j
                 PROVE  s.pathSplits[i] =< s.pathSplits[j]
      BY <1>e DEF Nested
    <2>1. i \in 0 .. s.nextEntry /\ j \in 0 .. s.nextEntry
      BY <1>n
    <2> QED
      BY <2>1 DEF Inv, Nested
  <1>4. SplitsNested'
    <2>1. \A i \in 1 .. s.nextEntry - 1 : s.pathSplits[i - 1] =< s.pathSplits[i]
      <3> SUFFICES ASSUME NEW i \in 1 .. s.nextEntry - 1
                   PROVE  s.pathSplits[i - 1] =< s.pathSplits[i]
        OBVIOUS
      <3>1. i \in 1 .. s.nextEntry
        BY <1>n
      <3> QED
        BY <3>1 DEF Inv, SplitsNested
    <2> QED
      BY <1>e, <1>2, <2>1 DEF Inv, SplitsNested
  <1>5. (s.nextEntry =< Limit)'
    BY <1>e, <1>n, ApiInputs DEF Inv
  <1> QED
    BY <1>1, <1>3, <1>4, <1>5 DEF Inv

LEMMA NextInv ==
  ASSUME Limit < MaxEntries, Inv, [Next]_vars
  PROVE  Inv'
  <1>1. ASSUME NEW d \in Search, NEW p \in Inputs, Push(d, p) PROVE Inv'
    BY <1>1, PushInv
  <1>2. ASSUME NEW p \in Inputs, PushRefused(p) PROVE Inv'
    BY <1>2 DEF PushRefused, PushRc, Inv, TypeOK, SplitsNested, Nested
  <1>3. CASE Pop
    BY <1>3, PopInv
  <1>4. CASE PopEmpty
    BY <1>4 DEF PopEmpty, PopRc, Inv, TypeOK, SplitsNested, Nested
  <1>5. CASE UNCHANGED vars
    BY <1>5 DEF vars, Inv, TypeOK, SplitsNested, Nested
  <1> QED
    BY <1>1, <1>2, <1>3, <1>4, <1>5 DEF Next

\* The invariant behind what follows (DIR.C:27-121).
THEOREM StackInvariant ==
  ASSUME Limit < MaxEntries
  PROVE  Spec => []Inv
  BY InitInv, NextInv, PTL DEF Spec

\* The structure and what the functions return have their types, however the two
\* are called (DIR.H, dirStack_t).
THEOREM StackTypes ==
  ASSUME Limit < MaxEntries
  PROVE  Spec => []TypeOK
  <1>1. Inv => TypeOK
    BY DEF Inv
  <1> QED
    BY <1>1, StackInvariant, PTL

\* The structure stays well typed and its lengths stay nested, however the two
\* functions are called, as long as the last entry is not used (DIR.C:27-121).
THEOREM StackSafe ==
  ASSUME Limit < MaxEntries
  PROVE  Spec => [](TypeOK /\ SplitsNested)
  <1>1. Inv => TypeOK /\ SplitsNested
    BY DEF Inv
  <1> QED
    BY <1>1, StackInvariant, PTL

-----------------------------------------------------------------------------
(* The structure implements the stack of pairs *)

LEMMA PairsAt ==
  ASSUME NEW i \in 1 .. s.nextEntry
  PROVE  SavedPairs[i] = <<s.entries[i - 1], SubSeq(s.pathName, 1, s.pathSplits[i - 1])>>
  BY DEF SavedPairs

LEMMA PairsLength ==
  ASSUME Inv
  PROVE  /\ SavedPairs \in Seq(Search \X Seq(Elem))
         /\ Len(SavedPairs) = s.nextEntry
         /\ SavedPairs = << >> <=> s.nextEntry = 0
  <1> USE StackBounds
  <1>1. s.nextEntry \in Nat
    BY DEF Inv, TypeOK
  <1>2. \A i \in 1 .. s.nextEntry :
          <<s.entries[i - 1], SubSeq(s.pathName, 1, s.pathSplits[i - 1])>>
            \in Search \X Seq(Elem)
    <2> SUFFICES ASSUME NEW i \in 1 .. s.nextEntry
                 PROVE  /\ s.entries[i - 1] \in Search
                        /\ SubSeq(s.pathName, 1, s.pathSplits[i - 1]) \in Seq(Elem)
      OBVIOUS
    <2>1. i - 1 \in 0 .. MaxEntries - 1 /\ i - 1 \in 0 .. s.nextEntry
          /\ s.nextEntry \in 0 .. s.nextEntry /\ i - 1 =< s.nextEntry
      BY DEF Inv, TypeOK
    <2>2. s.entries[i - 1] \in Search
      BY <2>1 DEF Inv, TypeOK
    <2>3. s.pathSplits[i - 1] =< s.pathSplits[s.nextEntry]
      BY <2>1 DEF Inv, Nested
    <2>4. s.pathSplits[i - 1] \in 0 .. Len(s.pathName) /\ s.pathName \in Seq(Elem)
      BY <2>1, <2>3 DEF Inv, TypeOK, SplitsNested
    <2> QED
      BY <2>2, <2>4, PrefixProperties
  <1>3. SavedPairs \in Seq(Search \X Seq(Elem)) /\ Len(SavedPairs) = s.nextEntry
    BY <1>1, <1>2 DEF SavedPairs
  <1> QED
    BY <1>1, <1>3

\* A push saves the search together with the path that was current.
LEMMA PushSaves ==
  ASSUME Limit < MaxEntries, Inv, NEW d \in Search, NEW p \in Inputs, Push(d, p)
  PROVE  SavedPairs' = Append(SavedPairs, <<d, s.pathName>>)
  <1> USE StackBounds, ApiInputs
  <1> DEFINE n == s.nextEntry
             new == Append(SavedPairs, <<d, s.pathName>>)
  <1>e. /\ n < Limit /\ s'.nextEntry = n + 1
        /\ s'.entries = [s.entries EXCEPT ![n] = d]
        /\ s'.pathName = p
        /\ s'.pathSplits = [s.pathSplits EXCEPT ![n + 1] = Len(p)]
        /\ n # 0 => StartsWith(p, s.pathName)
    BY PushEffect
  <1>t. /\ n \in 0 .. MaxEntries - 1
        /\ s.entries \in [0 .. MaxEntries - 1 -> Search]
        /\ s.pathSplits \in [0 .. MaxEntries - 1 -> Nat]
        /\ s.pathName \in Seq(Elem) /\ p \in Seq(Elem)
    BY DEF Inv, TypeOK
  <1>1. Inv'
    BY PushInv
  <1>2. SavedPairs' \in Seq(Search \X Seq(Elem)) /\ Len(SavedPairs') = n + 1
    <2>1. (SavedPairs \in Seq(Search \X Seq(Elem)) /\ Len(SavedPairs) = s.nextEntry)'
      BY <1>1, PairsLength, PTL
    <2> QED
      BY <1>e, <2>1
  <1>3. new \in Seq(Search \X Seq(Elem)) /\ Len(new) = n + 1
    BY <1>t, PairsLength
  <1>4. ASSUME NEW i \in 1 .. n + 1 PROVE SavedPairs'[i] = new[i]
    <2>1. SavedPairs'[i] = <<s'.entries[i - 1], SubSeq(p, 1, s'.pathSplits[i - 1])>>
      BY <1>e DEF SavedPairs
    <2>2. s'.pathSplits[i - 1] = s.pathSplits[i - 1]
      BY <1>e, <1>t
    <2>3. CASE i = n + 1
      <3>1. s'.entries[i - 1] = d
        BY <2>3, <1>e, <1>t
      <3>2. s.pathSplits[i - 1] = Len(s.pathName)
        BY <2>3, <1>t DEF Inv, SplitsNested
      <3>3. SubSeq(p, 1, Len(s.pathName)) = s.pathName
        <4>1. CASE n # 0
          BY <4>1, <1>e DEF StartsWith
        <4>2. CASE n = 0
          <5>1. Len(s.pathName) = 0
            BY <4>2 DEF Inv, SplitsNested
          <5> QED
            BY <5>1, <1>t
        <4> QED
          BY <4>1, <4>2
      <3>4. new[n + 1] = <<d, s.pathName>>
        BY PairsLength, <1>t
      <3> QED
        BY <2>1, <2>2, <2>3, <3>1, <3>2, <3>3, <3>4
    <2>4. CASE i \in 1 .. n
      <3>1. s'.entries[i - 1] = s.entries[i - 1]
        BY <2>4, <1>e, <1>t
      <3>2. s.pathSplits[i - 1] \in 0 .. Len(s.pathName)
        <4>1. i - 1 \in 0 .. n /\ n \in 0 .. n /\ i - 1 =< n
          BY <2>4, <1>t
        <4>2. s.pathSplits[i - 1] =< s.pathSplits[n]
          BY <4>1 DEF Inv, Nested
        <4> QED
          BY <4>1, <4>2, <1>t DEF Inv, SplitsNested
      <3>3. SubSeq(p, 1, s.pathSplits[i - 1]) = SubSeq(s.pathName, 1, s.pathSplits[i - 1])
        <4>1. StartsWith(p, s.pathName)
          BY <2>4, <1>e, <1>t
        <4>2. s.pathName \in Seq(Elem) /\ p \in Seq(Elem)
          BY <1>t
        <4> QED
          <5>1. Starts(p, s.pathName)
            BY <4>1, Zenon DEF StartsWith, Starts
          <5> QED
            BY <4>2, <3>2, <5>1, PrefixOfExtension
      <3>4. new[i] = SavedPairs[i]
        BY <2>4, PairsLength, <1>t
      <3>5. SavedPairs[i] = <<s.entries[i - 1], SubSeq(s.pathName, 1, s.pathSplits[i - 1])>>
        BY <2>4, PairsAt
      <3> QED
        BY <2>1, <2>2, <3>1, <3>3, <3>4, <3>5
    <2>5. i = n + 1 \/ i \in 1 .. n
      BY <1>t
    <2> QED
      BY <2>3, <2>4, <2>5
  <1> HIDE DEF new
  <1>5. \A i \in 1 .. n + 1 : SavedPairs'[i] = new[i]
    BY <1>4
  <1>6. SavedPairs' = new
    BY <1>2, <1>3, <1>5, SequencesEqual
  <1> QED
    BY <1>6 DEF new

\* A pop forgets the last pair, and it is what the caller gets.
LEMMA PopRestores ==
  ASSUME Inv, Pop
  PROVE  /\ SavedPairs # << >>
         /\ SavedPairs' = SubSeq(SavedPairs, 1, Len(SavedPairs) - 1)
         /\ popped' = SavedPairs[Len(SavedPairs)]
         /\ s'.pathName = SavedPairs[Len(SavedPairs)][2]
  <1> USE StackBounds
  <1> DEFINE n == s.nextEntry
             new == SubSeq(SavedPairs, 1, n - 1)
  <1>e. /\ n # 0 /\ s'.nextEntry = n - 1
        /\ s'.entries = s.entries /\ s'.pathSplits = s.pathSplits
        /\ s'.pathName = SubSeq(s.pathName, 1, s.pathSplits[n - 1])
        /\ popped' = <<s.entries[n - 1], s'.pathName>>
    BY PopEffect
  <1>t. n \in Nat /\ n \in 1 .. n /\ s.pathName \in Seq(Elem)
    BY <1>e DEF Inv, TypeOK
  <1>1. /\ SavedPairs # << >> /\ Len(SavedPairs) = n
        /\ SavedPairs \in Seq(Search \X Seq(Elem))
    BY <1>e, PairsLength
  <1>2. SavedPairs[n] = <<s.entries[n - 1], SubSeq(s.pathName, 1, s.pathSplits[n - 1])>>
    BY <1>t, PairsAt
  <1>3. SavedPairs' \in Seq(Search \X Seq(Elem)) /\ Len(SavedPairs') = n - 1
    <2>1. Inv'
      BY PopInv
    <2>2. (SavedPairs \in Seq(Search \X Seq(Elem)) /\ Len(SavedPairs) = s.nextEntry)'
      BY <2>1, PairsLength, PTL
    <2> QED
      BY <1>e, <2>2
  <1>4. new \in Seq(Search \X Seq(Elem)) /\ Len(new) = n - 1
    BY <1>1, <1>t
  <1>5. ASSUME NEW i \in 1 .. n - 1 PROVE SavedPairs'[i] = new[i]
    <2>1. SavedPairs'[i] = <<s.entries[i - 1], SubSeq(s'.pathName, 1, s.pathSplits[i - 1])>>
      BY <1>e DEF SavedPairs
    <2>2. s.pathSplits[i - 1] \in 0 .. s.pathSplits[n - 1]
      <3>1. i - 1 \in 0 .. n /\ n - 1 \in 0 .. n /\ i - 1 =< n - 1
        BY <1>t
      <3>2. s.pathSplits[i - 1] =< s.pathSplits[n - 1]
        BY <3>1 DEF Inv, Nested
      <3> QED
        BY <3>1, <3>2 DEF Inv, TypeOK
    <2>3. s.pathSplits[n - 1] \in 0 .. Len(s.pathName)
      BY <1>e, PopLength
    <2>4. SubSeq(s'.pathName, 1, s.pathSplits[i - 1]) = SubSeq(s.pathName, 1, s.pathSplits[i - 1])
      BY <1>e, <1>t, <2>2, <2>3, PrefixOfPrefix
    <2>5. new[i] = SavedPairs[i] /\ i \in 1 .. n
      BY <1>1, <1>t
    <2> QED
      BY <2>1, <2>4, <2>5, PairsAt
  <1> HIDE DEF new
  <1>6. \A i \in 1 .. n - 1 : SavedPairs'[i] = new[i]
    BY <1>5
  <1>7. SavedPairs' = new
    BY <1>3, <1>4, <1>6, SequencesEqual
  <1>8. SavedPairs' = SubSeq(SavedPairs, 1, Len(SavedPairs) - 1)
    BY <1>1, <1>7 DEF new
  <1>9. popped' = SavedPairs[Len(SavedPairs)] /\ s'.pathName = SavedPairs[Len(SavedPairs)][2]
    <2>1. SavedPairs[n] = <<s.entries[n - 1], s'.pathName>>
      BY <1>e, <1>2
    <2>2. popped' = SavedPairs[n]
      BY <1>e, <2>1
    <2>3. s'.pathName = SavedPairs[n][2]
      BY <2>1
    <2> QED
      BY <2>2, <2>3, <1>1
  <1> QED
    BY <1>1, <1>8, <1>9

\* A call that changes neither the structure nor the pair handed back.
LEMMA RefusedKeeps ==
  ASSUME s' = s
  PROVE  SavedPairs' = SavedPairs
  BY DEF SavedPairs

LEMMA InitAbstract ==
  ASSUME Init
  PROVE  Abstract!Init
  <1>1. Inv
    BY InitInv
  <1>2. PICK junk \in Search : s = InitDirStack(junk) /\ popped = <<junk, << >> >>
    BY DEF Init
  <1>3. s.nextEntry = 0 /\ s.pathName = << >>
    BY <1>2 DEF InitDirStack
  <1>4. SavedPairs = << >>
    BY <1>1, <1>3, PairsLength
  <1>5. popped \in Search \X {<< >>}
    BY <1>2
  <1>6. rc = 0
    BY DEF Init
  <1> QED
    BY <1>3, <1>4, <1>5, <1>6 DEF Abstract!Init

LEMMA NextAbstract ==
  ASSUME Limit < MaxEntries, Inv, [Next]_vars
  PROVE  [Abstract!Next]_(Abstract!vars)
  <1> USE StackBounds, ApiInputs
  <1>n. s.nextEntry \in 0 .. MaxEntries - 1
    BY DEF Inv, TypeOK
  <1>1. ASSUME NEW d \in Search, NEW p \in Inputs, Push(d, p)
        PROVE  Abstract!Next
    <2>1. SavedPairs # << >> => Abstract!Extends(p, s.pathName)
      BY <1>1, PushEffect, PairsLength DEF StartsWith, Abstract!Extends
    <2>2. Len(p) =< MaxPath /\ s'.pathName = p
      BY <1>1, PushEffect
    <2>3. SavedPairs' = Append(SavedPairs, <<d, s.pathName>>)
      BY <1>1, PushSaves
    <2>4. Abstract!Push(d, p)
      BY <1>1, <2>1, <2>2, <2>3 DEF Push, Abstract!Push
    <2> QED
      BY <2>4 DEF Abstract!Next
  <1>2. ASSUME NEW p \in Inputs, PushRefused(p)
        PROVE  Abstract!Next
    <2>1. PushRc(s, p) # 0 /\ rc' = PushRc(s, p) /\ s' = s /\ popped' = popped
          /\ s.nextEntry < Limit
      BY <1>2 DEF PushRefused
    <2>2. Len(p) \in Nat
      OBVIOUS
    <2>3. Len(p) > MaxPath \/ (s.nextEntry # 0 /\ ~StartsWith(p, s.pathName))
      BY <2>1, <2>2, <1>n DEF PushRc
    <2>4. Len(p) > MaxPath \/ (SavedPairs # << >> /\ ~Abstract!Extends(p, s.pathName))
      BY <2>3, PairsLength DEF StartsWith, Abstract!Extends
    <2>5. Abstract!Refuse(p)
      BY <2>1, <2>4, RefusedKeeps DEF Abstract!Refuse
    <2> QED
      BY <2>5 DEF Abstract!Next
  <1>3. ASSUME Pop
        PROVE  Abstract!Next
    <2>1. Abstract!Pop
      BY <1>3, PopRestores DEF Pop, Abstract!Pop
    <2> QED
      BY <2>1 DEF Abstract!Next
  <1>4. ASSUME PopEmpty
        PROVE  Abstract!Next
    <2>1. s.nextEntry = 0 /\ rc' # 0 /\ s' = s /\ popped' = popped
      BY <1>4 DEF PopEmpty, PopRc
    <2>2. Abstract!PopEmpty
      BY <2>1, PairsLength, RefusedKeeps DEF Abstract!PopEmpty
    <2> QED
      BY <2>2 DEF Abstract!Next
  <1>5. ASSUME UNCHANGED vars
        PROVE  UNCHANGED Abstract!vars
    BY <1>5, RefusedKeeps DEF vars, Abstract!vars
  <1> QED
    BY <1>1, <1>2, <1>3, <1>4, <1>5 DEF Next

\* One path string and a table of lengths behave as a stack of saved pairs: a
\* pop hands back the search and the path that were current before its push
\* (DIR.C:98-102), as long as the last entry is not used.
THEOREM StackImplementsPairs ==
  ASSUME Limit < MaxEntries
  PROVE  Spec => ImplementsPathStack
  <1>1. Init => Abstract!Init
    BY InitAbstract
  <1>2. Inv /\ [Next]_vars => [Abstract!Next]_(Abstract!vars)
    BY NextAbstract
  <1>3. Spec => []Inv
    BY StackInvariant
  <1> QED
    BY <1>1, <1>2, <1>3, PTL DEF Spec, ImplementsPathStack, Abstract!Spec
=============================================================================
