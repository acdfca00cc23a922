--------------------------- MODULE SequenceLemmas ---------------------------
(***************************************************************************)
(* Facts about sequences, and induction: prefixes and what is behind them, *)
(* names and lines put one behind the other.  The proofs about the         *)
(* directory stack, the walk, the reply reader and the command line share  *)
(* them.                                                                   *)
(***************************************************************************)
EXTENDS Integers, Sequences, SequencesExt, WellFoundedInduction, TLAPS

-----------------------------------------------------------------------------
(* Prefixes *)

\* A prefix of a sequence is a sequence of its length and its elements
\* (truncation of pathName, DIR.C:103).
LEMMA PrefixProperties ==
  ASSUME NEW T, NEW p \in Seq(T), NEW n \in 0 .. Len(p)
  PROVE  /\ SubSeq(p, 1, n) \in Seq(T)
         /\ Len(SubSeq(p, 1, n)) = n
         /\ \A i \in 1 .. n : SubSeq(p, 1, n)[i] = p[i]
  OBVIOUS

\* Truncating twice is truncating once, to the shorter length.
LEMMA PrefixOfPrefix ==
  ASSUME NEW T, NEW p \in Seq(T), NEW n \in 0 .. Len(p), NEW m \in 0 .. n
  PROVE  SubSeq(SubSeq(p, 1, n), 1, m) = SubSeq(p, 1, m)
  OBVIOUS

\* q is how p starts.
Starts(p, q) == Len(q) =< Len(p) /\ SubSeq(p, 1, Len(q)) = q

\* A prefix of a path is one of every path that starts with it
\* (the strstr check of pushDir, DIR.C:54-62).
LEMMA PrefixOfExtension ==
  ASSUME NEW T, NEW p \in Seq(T), NEW q \in Seq(T), Starts(p, q), NEW m \in 0 .. Len(q)
  PROVE  SubSeq(p, 1, m) = SubSeq(q, 1, m)
  <1>1. Len(q) \in 0 .. Len(p) /\ SubSeq(p, 1, Len(q)) = q
    BY DEF Starts
  <1>2. SubSeq(SubSeq(p, 1, Len(q)), 1, m) = SubSeq(p, 1, m)
    BY <1>1, PrefixOfPrefix
  <1> QED
    BY <1>1, <1>2

\* Sequences that agree on their length and their elements are equal.
LEMMA SequencesEqual ==
  ASSUME NEW T, NEW p \in Seq(T), NEW q \in Seq(T), NEW n, Len(p) = n, Len(q) = n,
         \A i \in 1 .. n : p[i] = q[i]
  PROVE  p = q
  OBVIOUS

\* The rest of a sequence behind its first n elements.
LEMMA RestProperties ==
  ASSUME NEW T, NEW p \in Seq(T), NEW n \in 0 .. Len(p)
  PROVE  /\ SubSeq(p, n + 1, Len(p)) \in Seq(T)
         /\ Len(SubSeq(p, n + 1, Len(p))) = Len(p) - n
         /\ \A i \in 1 .. Len(p) - n : SubSeq(p, n + 1, Len(p))[i] = p[n + i]
  OBVIOUS

\* What a string has behind one of its prefixes completes the prefix.
LEMMA PrefixAndRest ==
  ASSUME NEW T, NEW p \in Seq(T), NEW q \in Seq(T), Starts(p, q)
  PROVE  /\ SubSeq(p, Len(q) + 1, Len(p)) \in Seq(T)
         /\ q \o SubSeq(p, Len(q) + 1, Len(p)) = p
  <1> DEFINE r == SubSeq(p, Len(q) + 1, Len(p))
  <1>1. Len(q) \in Nat /\ Len(p) \in Nat /\ Len(q) =< Len(p) /\ SubSeq(p, 1, Len(q)) = q
    BY DEF Starts
  <1>2. /\ r \in Seq(T) /\ Len(r) = Len(p) - Len(q)
        /\ \A i \in 1 .. Len(p) - Len(q) : r[i] = p[Len(q) + i]
    BY <1>1, RestProperties
  <1>p. \A i \in 1 .. Len(q) : q[i] = p[i]
    <2>1. Len(q) \in 0 .. Len(p)
      BY <1>1
    <2> QED
      BY <1>1, <2>1, PrefixProperties
  <1> HIDE DEF r
  <1>3. q \o r \in Seq(T) /\ Len(q \o r) = Len(p)
    BY <1>1, <1>2
  <1>4. ASSUME NEW i \in 1 .. Len(p) PROVE (q \o r)[i] = p[i]
    <2>1. CASE i =< Len(q)
      BY <2>1, <1>1, <1>2, <1>p
    <2>2. CASE i > Len(q)
      <3>1. i - Len(q) \in 1 .. Len(p) - Len(q) /\ Len(q) + (i - Len(q)) = i
        BY <2>2, <1>1
      <3>2. (q \o r)[i] = r[i - Len(q)]
        BY <2>2, <1>1, <1>2
      <3> QED
        BY <3>1, <3>2, <1>2
    <2>3. i =< Len(q) \/ i > Len(q)
      BY <1>1
    <2> QED
      BY <2>1, <2>2, <2>3
  <1>a. \A i \in 1 .. Len(p) : (q \o r)[i] = p[i]
    BY <1>4
  <1> DEFINE qr == q \o r
  <1> HIDE DEF qr
  <1>b. qr \in Seq(T) /\ Len(qr) = Len(p)
    BY <1>3 DEF qr
  <1>c. \A i \in 1 .. Len(p) : qr[i] = p[i]
    BY <1>a, Zenon DEF qr
  <1>d. qr = p
    BY <1>b, <1>c, SequencesEqual
  <1>5. q \o r = p
    BY <1>d DEF qr
  <1> QED
    BY <1>2, <1>5 DEF r

\* Two sequences put one behind the other, element by element.
Concatenates(u, p, q) ==
  /\ Len(u) = Len(p) + Len(q)
  /\ \A i \in 1 .. Len(p) : u[i] = p[i]
  /\ \A i \in 1 .. Len(q) : u[Len(p) + i] = q[i]

LEMMA Concatenation ==
  ASSUME NEW T, NEW p \in Seq(T), NEW q \in Seq(T)
  PROVE  p \o q \in Seq(T) /\ Concatenates(p \o q, p, q)
  BY DEF Concatenates

\* Names put one behind the other (strcpy of unix_path and of curr_file.name).
LEMMA ConcatAssociates ==
  ASSUME NEW T, NEW p \in Seq(T), NEW q \in Seq(T), NEW r \in Seq(T)
  PROVE  p \o (q \o r) = (p \o q) \o r
  OBVIOUS

Rest(p, q) == SubSeq(p, Len(q) + 1, Len(p))

\* A name put behind a path starts with the path, and with what it starts with.
LEMMA AppendedName ==
  ASSUME NEW T, NEW p \in Seq(T), NEW q \in Seq(T), NEW m \in Seq(T), Starts(p, q)
  PROVE  /\ p \o m \in Seq(T) /\ Len(p \o m) = Len(p) + Len(m)
         /\ Starts(p \o m, p) /\ Starts(p \o m, q)
         /\ Rest(p \o m, q) = Rest(p, q) \o m
  <1>1. p \o m \in Seq(T) /\ Len(p \o m) = Len(p) + Len(m)
    OBVIOUS
  <1>2. /\ Len(q) \in Nat /\ Len(p) \in Nat /\ Len(m) \in Nat
        /\ Len(q) =< Len(p) /\ SubSeq(p, 1, Len(q)) = q
    BY DEF Starts
  <1>3. SubSeq(p \o m, 1, Len(p)) = p
    OBVIOUS
  <1>4. Len(p) =< Len(p \o m)
    BY <1>1, <1>2
  <1>5. SubSeq(p \o m, 1, Len(q)) = SubSeq(p, 1, Len(q))
    <2>1. Len(q) \in 0 .. Len(p)
      BY <1>2
    <2>2. Starts(p \o m, p)
      BY <1>3, <1>4 DEF Starts
    <2> QED
      BY <1>1, <2>1, <2>2, PrefixOfExtension
  <1>6. Starts(p \o m, p) /\ Starts(p \o m, q)
    BY <1>1, <1>2, <1>3, <1>5 DEF Starts
  <1>7. SubSeq(p \o m, Len(q) + 1, Len(p \o m)) = SubSeq(p, Len(q) + 1, Len(p)) \o m
    <2> DEFINE u == SubSeq(p \o m, Len(q) + 1, Len(p \o m))
               w == SubSeq(p, Len(q) + 1, Len(p))
               v == w \o m
               k == Len(p \o m) - Len(q)
    <2>1. u \in Seq(T) /\ Len(u) = k /\ \A i \in 1 .. k : u[i] = (p \o m)[Len(q) + i]
      <3>1. Len(q) \in 0 .. Len(p \o m)
        BY <1>1, <1>2
      <3> QED
        BY <1>1, <3>1, RestProperties
    <2>k. k = Len(p) + Len(m) - Len(q) /\ k \in Nat
      BY <1>1, <1>2
    <2> HIDE DEF u, k
    <2>2. w \in Seq(T) /\ Len(w) = Len(p) - Len(q)
          /\ \A i \in 1 .. Len(p) - Len(q) : w[i] = p[Len(q) + i]
      <3>1. Len(q) \in 0 .. Len(p)
        BY <1>2
      <3> QED
        BY <3>1, RestProperties
    <2> HIDE DEF w
    <2>3. v \in Seq(T) /\ Len(v) = k
      <3>0. w \in Seq(T) /\ m \in Seq(T)
        BY <2>2
      <3>1. v \in Seq(T) /\ Len(v) = Len(w) + Len(m)
        BY ONLY <3>0, SMT
      <3> QED
        BY <3>1, <1>2, <2>2, <2>k
    <2>4. ASSUME NEW i \in 1 .. k PROVE u[i] = v[i]
      <3>0. u[i] = (p \o m)[Len(q) + i]
        BY <2>1
      <3>1. CASE i =< Len(p) - Len(q)
        <4>1. i \in 1 .. Len(p) - Len(q) /\ Len(q) + i \in 1 .. Len(p)
          BY <3>1, <1>2, <2>k
        <4>2. v[i] = w[i] /\ (p \o m)[Len(q) + i] = p[Len(q) + i]
          BY <4>1, <2>2, <1>2
        <4> QED
          BY <3>0, <4>1, <4>2, <2>2
      <3>2. CASE i > Len(p) - Len(q)
        <4>1. v[i] = m[i - (Len(p) - Len(q))]
          BY <3>2, <2>2, <1>2, <2>k
        <4>2. (p \o m)[Len(q) + i] = m[Len(q) + i - Len(p)]
          BY <3>2, <1>2, <2>k
        <4>3. i - (Len(p) - Len(q)) = Len(q) + i - Len(p)
          BY <1>2, <2>k
        <4> QED
          BY <3>0, <4>1, <4>2, <4>3
      <3>3. i =< Len(p) - Len(q) \/ i > Len(p) - Len(q)
        BY <1>2, <2>k
      <3> QED
        BY <3>1, <3>2, <3>3
    <2> HIDE DEF v
    <2>5. \A i \in 1 .. k : u[i] = v[i]
      BY <2>4
    <2>6. u = v
      BY <2>1, <2>3, <2>5, SequencesEqual
    <2> QED
      BY <2>6 DEF u, v, w
  <1>8. Rest(p \o m, q) = Rest(p, q) \o m
    BY <1>7, Zenon DEF Rest
  <1> QED
    BY <1>1, <1>6, <1>8

-----------------------------------------------------------------------------
(* Induction *)

\* The natural numbers are well-founded, by a relation that is a set.
LEMMA Less == \E R : IsWellFoundedOn(R, Nat) /\ \A x, y \in Nat : x < y => <<x, y>> \in R
<1>1. IsWellFoundedOn({ss \in Nat \X Nat : ss[1] < ss[2]}, Nat)
  BY NatLessThanWellFounded DEF OpToRel
<1> QED BY <1>1

\* Induction, over a set instead of a predicate: what holds of each number is
\* stated by the set of the numbers it holds of.
LEMMA Inductive ==
  ASSUME NEW S, 0 \in S, \A n \in Nat : n \in S => n + 1 \in S
  PROVE  \A n \in Nat : n \in S
<1>1. PICK R : IsWellFoundedOn(R, Nat) /\ \A x, y \in Nat : x < y => <<x, y>> \in R
  BY Less
<1> DEFINE T == Nat \ S
<1>2. ASSUME T # {} PROVE FALSE
  <2>1. PICK x \in T : \A y \in T : <<y, x>> \notin R
    <3>1. T \subseteq Nat /\ T # {} BY <1>2
    <3> HIDE DEF T
    <3>2. IsWellFoundedOn(R, Nat) BY <1>1
    <3>3. \E x \in T : \A y \in T : ~ (<<y, x>> \in R)
      BY ONLY <3>1, <3>2, WFMin, Zenon
    <3> QED BY <3>3
  <2>2. x # 0 /\ x \in Nat
    OBVIOUS
  <2>3. x - 1 \in Nat /\ x - 1 < x /\ (x - 1) + 1 = x BY <2>2
  <2>4. x - 1 \in S BY <1>1, <2>1, <2>2, <2>3
  <2> QED BY <2>4, <2>3
<1> QED BY <1>2

-----------------------------------------------------------------------------
(* Names put one behind the other (FlattenSeq) *)

\* f[i] is what the first i names make.
Joins(f, s) ==
  f = [i \in 1 .. Len(s) |-> IF i = 1 THEN s[1] ELSE f[i - 1] \o s[i]]

\* The function that FlattenSeq chooses exists.
LEMMA JoinsExist ==
  ASSUME NEW T, NEW s \in Seq(Seq(T))
  PROVE  \E f : Joins(f, s)
<1> DEFINE G(f, n) == f = [i \in 1 .. n |-> IF i = 1 THEN s[1] ELSE f[i - 1] \o s[i]]
           S == {n \in Nat : \E f : G(f, n)}
<1>1. 0 \in S
  <2>1. G([i \in 1 .. 0 |-> IF i = 1 THEN s[1] ELSE 0], 0)
    OBVIOUS
  <2> QED BY <2>1
<1>2. ASSUME NEW n \in Nat, n \in S PROVE n + 1 \in S
  <2>1. PICK f : G(f, n) BY <1>2
  <2> DEFINE g == [i \in 1 .. n + 1 |-> IF i = n + 1 THEN (IF n = 0 THEN s[1] ELSE f[n] \o s[n + 1]) ELSE f[i]]
  <2>2. ASSUME NEW i \in 1 .. n + 1
        PROVE  g[i] = IF i = 1 THEN s[1] ELSE g[i - 1] \o s[i]
    <3>1. CASE i = n + 1
      <4>1. CASE n = 0 BY <3>1, <4>1
      <4>2. CASE n # 0
        <5>1. n \in 1 .. n + 1 /\ n # n + 1 /\ i # 1 /\ i - 1 = n BY <3>1, <4>2
        <5>2. g[n] = f[n] BY <5>1
        <5>3. g[i] = f[n] \o s[n + 1] BY <3>1, <4>2
        <5> QED BY <3>1, <5>1, <5>2, <5>3
      <4> QED BY <4>1, <4>2
    <3>2. CASE i # n + 1
      <4>1. i \in 1 .. n BY <3>2
      <4>2. g[i] = f[i] BY <3>2
      <4>3. f[i] = IF i = 1 THEN s[1] ELSE f[i - 1] \o s[i] BY <2>1, <4>1
      <4>4. i # 1 => i - 1 \in 1 .. n + 1 /\ i - 1 # n + 1 BY <4>1
      <4>5. i # 1 => g[i - 1] = f[i - 1] BY <4>4
      <4> QED BY <4>2, <4>3, <4>5
    <3> QED BY <3>1, <3>2
  <2>3. G(g, n + 1) BY <2>2
  <2> HIDE DEF g, G
  <2>4. \E h : G(h, n + 1) BY <2>3
  <2> QED BY <2>4
<1>3. \A n \in Nat : n \in S
  <2> HIDE DEF S
  <2> QED BY <1>1, <1>2, Inductive
<1>4. Len(s) \in Nat OBVIOUS
<1> QED BY <1>3, <1>4 DEF Joins

LEMMA FlattenJoins ==
  ASSUME NEW T, NEW s \in Seq(Seq(T)), Len(s) # 0
  PROVE  \E f : Joins(f, s) /\ FlattenSeq(s) = f[Len(s)]
<1> DEFINE fl == CHOOSE f : f = [i \in 1 .. Len(s) |-> IF i = 1 THEN s[i] ELSE f[i - 1] \o s[i]]
<1>1. FlattenSeq(s) = fl[Len(s)] BY DEF FlattenSeq
<1>2. \E f : f = [i \in 1 .. Len(s) |-> IF i = 1 THEN s[i] ELSE f[i - 1] \o s[i]]
  <2>1. PICK f : Joins(f, s) BY JoinsExist
  <2>2. f = [i \in 1 .. Len(s) |-> IF i = 1 THEN s[i] ELSE f[i - 1] \o s[i]]
     BY <2>1 DEF Joins
  <2> QED BY <2>2
<1>3. fl = [i \in 1 .. Len(s) |-> IF i = 1 THEN s[i] ELSE fl[i - 1] \o s[i]]
  BY <1>2
<1> HIDE DEF fl
<1>4. Joins(fl, s) BY <1>3 DEF Joins
<1> QED BY <1>1, <1>4

LEMMA JoinsTyped ==
  ASSUME NEW T, NEW s \in Seq(Seq(T)), NEW f, Joins(f, s)
  PROVE  \A i \in 1 .. Len(s) : f[i] \in Seq(T)
<1> DEFINE S == {n \in Nat : n \in 1 .. Len(s) => f[n] \in Seq(T)}
<1>1. 0 \in S OBVIOUS
<1>2. ASSUME NEW n \in Nat, n \in S PROVE n + 1 \in S
  <2>1. SUFFICES ASSUME n + 1 \in 1 .. Len(s) PROVE f[n + 1] \in Seq(T)
    OBVIOUS
  <2>2. s[n + 1] \in Seq(T) BY <2>1
  <2>3. f[n + 1] = IF n + 1 = 1 THEN s[1] ELSE f[(n + 1) - 1] \o s[n + 1]
    BY <2>1 DEF Joins
  <2>4. CASE n = 0 BY <2>2, <2>3, <2>4
  <2>5. CASE n # 0
    <3>1. n \in 1 .. Len(s) /\ (n + 1) - 1 = n /\ n + 1 # 1 BY <2>1, <2>5
    <3>2. f[n] \in Seq(T) BY <1>2, <3>1
    <3> QED BY <2>2, <2>3, <3>1, <3>2
  <2> QED BY <2>4, <2>5
<1>3. \A n \in Nat : n \in S
  <2> HIDE DEF S
  <2> QED BY <1>1, <1>2, Inductive
<1> QED BY <1>3

LEMMA JoinsPrefix ==
  ASSUME NEW T, NEW s \in Seq(Seq(T)), NEW e \in Seq(T), NEW f, NEW g,
         Joins(f, s), Joins(g, Append(s, e))
  PROVE  \A i \in 1 .. Len(s) : f[i] = g[i]
<1> DEFINE S == {n \in Nat : n \in 1 .. Len(s) => f[n] = g[n]}
<1>1. 0 \in S OBVIOUS
<1>2. ASSUME NEW n \in Nat, n \in S PROVE n + 1 \in S
  <2>1. SUFFICES ASSUME n + 1 \in 1 .. Len(s) PROVE f[n + 1] = g[n + 1]
    OBVIOUS
  <2>2. /\ n + 1 \in 1 .. Len(Append(s, e)) /\ Append(s, e)[n + 1] = s[n + 1]
        /\ Append(s, e)[1] = s[1]
    BY <2>1
  <2>3. f[n + 1] = IF n + 1 = 1 THEN s[1] ELSE f[(n + 1) - 1] \o s[n + 1]
    BY <2>1 DEF Joins
  <2>4. g[n + 1] = IF n + 1 = 1 THEN s[1] ELSE g[(n + 1) - 1] \o s[n + 1]
    BY <2>2 DEF Joins
  <2>5. n + 1 # 1 => f[n] = g[n] /\ (n + 1) - 1 = n
    BY <1>2, <2>1
  <2> QED BY <2>3, <2>4, <2>5
<1>3. \A n \in Nat : n \in S
  <2> HIDE DEF S
  <2> QED BY <1>1, <1>2, Inductive
<1> QED BY <1>3

LEMMA FlattenNothing == FlattenSeq(<< >>) = << >>
BY DEF FlattenSeq

LEMMA FlattenType ==
  ASSUME NEW T, NEW s \in Seq(Seq(T))
  PROVE  FlattenSeq(s) \in Seq(T)
<1>1. CASE Len(s) = 0
  <2>1. s = << >> BY <1>1
  <2>2. << >> \in Seq(T) OBVIOUS
  <2> QED BY <2>1, <2>2, FlattenNothing
<1>2. CASE Len(s) # 0
  <2>1. PICK f : Joins(f, s) /\ FlattenSeq(s) = f[Len(s)] BY <1>2, FlattenJoins
  <2>2. Len(s) \in 1 .. Len(s) BY <1>2
  <2>3. \A i \in 1 .. Len(s) : f[i] \in Seq(T) BY <2>1, JoinsTyped
  <2> QED BY <2>1, <2>2, <2>3
<1> QED BY <1>1, <1>2

\* One more name is put behind the others.
LEMMA FlattenAppend ==
  ASSUME NEW T, NEW s \in Seq(Seq(T)), NEW e \in Seq(T)
  PROVE  FlattenSeq(Append(s, e)) = FlattenSeq(s) \o e
<1> DEFINE t == Append(s, e)
<1>1. t \in Seq(Seq(T)) /\ Len(t) = Len(s) + 1 /\ t[Len(s) + 1] = e /\ Len(s) \in Nat
  OBVIOUS
<1>2. PICK g : Joins(g, t) /\ FlattenSeq(t) = g[Len(t)]
  <2> HIDE DEF t
  <2>1. Len(t) # 0 BY <1>1
  <2> QED BY <1>1, <2>1, FlattenJoins
<1> HIDE DEF t
<1>3. g[Len(t)] = IF Len(t) = 1 THEN t[1] ELSE g[Len(t) - 1] \o t[Len(t)]
  <2>1. Len(t) \in 1 .. Len(t) BY <1>1
  <2>2. \A i \in 1 .. Len(t) : g[i] = IF i = 1 THEN t[1] ELSE g[i - 1] \o t[i]
    BY <1>2 DEF Joins
  <2>3. g[Len(t)] = IF Len(t) = 1 THEN t[1] ELSE g[Len(t) - 1] \o t[Len(t)]
    BY <2>1, <2>2, Zenon
  <2> QED BY <2>3
<1>4. CASE Len(s) = 0
  <2>1. s = << >> BY <1>4
  <2>2. FlattenSeq(s) = << >> BY <2>1, FlattenNothing
  <2>3. << >> \o e = e OBVIOUS
  <2>4. g[Len(t)] = e BY <1>1, <1>3, <1>4
  <2> QED BY <1>2, <2>2, <2>3, <2>4 DEF t
<1>5. CASE Len(s) # 0
  <2>1. PICK f : Joins(f, s) /\ FlattenSeq(s) = f[Len(s)] BY <1>5, FlattenJoins
  <2>2. \A i \in 1 .. Len(s) : f[i] = g[i] BY <1>2, <2>1, JoinsPrefix DEF t
  <2>3. f[Len(s)] = g[Len(s)] BY <1>1, <1>5, <2>2
  <2>4. Len(t) # 1 /\ Len(t) - 1 = Len(s) /\ t[Len(t)] = e BY <1>1, <1>5
  <2>5. g[Len(t)] = g[Len(s)] \o e BY <1>3, <2>4
  <2> QED BY <1>2, <2>1, <2>3, <2>5 DEF t
<1> QED BY <1>4, <1>5
=============================================================================
