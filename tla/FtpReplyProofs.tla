--------------------------- MODULE FtpReplyProofs ---------------------------
(***************************************************************************)
(* Proofs about FtpReply, for every dialogue, every size of the buffer,    *)
(* every remainder in it and every way in which the stream is cut.         *)
(*                                                                         *)
(* WholeReply is not inductive: it is about the end of a poll.  The        *)
(* invariant, Whole, follows the poll through the reply.  It measures in   *)
(* the characters of the reply, in which line n ends at Ends(r, n): what   *)
(* has been received begins where a line begins (Gathering), and ends      *)
(* where one ends as soon as it is looked at (Parsing), which is so        *)
(* because CR LF stands nowhere else (BreakIsEnd).  The loop is at the     *)
(* beginning of a line, with two characters too many to go for each line   *)
(* behind it, or it has run out of what was received.  These two are what  *)
(* an empty line needs not to be too short, so that only one that has been *)
(* received by itself is (lone).                                           *)
(***************************************************************************)
EXTENDS FtpReply, SequenceLemmas

-----------------------------------------------------------------------------
(* The characters of a reply, line by line *)

Character == STRING \cup {CR, LF}
EOL == <<CR, LF>>

\* The first n lines, and where they end.
Lines(r, n) == FlattenSeq([k \in 1 .. n |-> r[k] \o EOL])
Ends(r, n)  == Len(Lines(r, n))

\* The replies are made of lines of characters.
Replies == Seq(Seq(STRING))

LEMMA LineType ==
  ASSUME NEW r \in Replies, NEW k \in 1 .. Len(r)
  PROVE  /\ r[k] \in Seq(STRING) /\ r[k] \in Seq(Character) /\ Len(r[k]) \in Nat
         /\ r[k] \o EOL \in Seq(Character) /\ Len(r[k] \o EOL) = Len(r[k]) + 2
         /\ \A i \in 1 .. Len(r[k]) : (r[k] \o EOL)[i] = r[k][i]
         /\ (r[k] \o EOL)[Len(r[k]) + 1] = CR
         /\ (r[k] \o EOL)[Len(r[k]) + 2] = LF
<1>1. r[k] \in Seq(STRING) BY DEF Replies
<1> DEFINE l == r[k]
<1> HIDE DEF l
<1>2. l \in Seq(STRING) BY <1>1 DEF l
<1>3. l \in Seq(Character) /\ Len(l) \in Nat BY <1>2 DEF Character
<1>4. EOL \in Seq(Character) /\ Len(EOL) = 2 /\ EOL[1] = CR /\ EOL[2] = LF
  <2>1. CR \in Character /\ LF \in Character BY DEF Character
  <2> HIDE DEF Character, CR, LF
  <2> QED BY <2>1 DEF EOL
<1> HIDE DEF EOL, Character, CR, LF
<1>a. l \o EOL \in Seq(Character) /\ Concatenates(l \o EOL, l, EOL)
  BY <1>3, <1>4, Concatenation
<1>5. /\ l \o EOL \in Seq(Character) /\ Len(l \o EOL) = Len(l) + Len(EOL)
      /\ \A i \in 1 .. Len(l) : (l \o EOL)[i] = l[i]
      /\ \A i \in 1 .. Len(EOL) : (l \o EOL)[Len(l) + i] = EOL[i]
  BY <1>a DEF Concatenates
<1>6. Len(l \o EOL) = Len(l) + 2 BY <1>4, <1>5
<1>7. (l \o EOL)[Len(l) + 1] = EOL[1] /\ (l \o EOL)[Len(l) + 2] = EOL[2]
  BY <1>4, <1>5
<1> QED BY <1>2, <1>3, <1>4, <1>5, <1>6, <1>7 DEF l

LEMMA NoLines == ASSUME NEW r PROVE Lines(r, 0) = << >> /\ Ends(r, 0) = 0
<1>1. [k \in 1 .. 0 |-> r[k] \o EOL] = << >>
  OBVIOUS
<1>2. Lines(r, 0) = << >> BY <1>1, FlattenNothing DEF Lines
<1> QED BY <1>2 DEF Ends

LEMMA OneMoreLine ==
  ASSUME NEW r \in Replies, NEW k \in 1 .. Len(r)
  PROVE  Lines(r, k) = Lines(r, k - 1) \o (r[k] \o EOL)
<1> DEFINE s == [i \in 1 .. k - 1 |-> r[i] \o EOL]
           t == [i \in 1 .. k |-> r[i] \o EOL]
           e == r[k] \o EOL
<1>1. \A i \in 1 .. Len(r) : r[i] \o EOL \in Seq(Character) BY LineType
<1>0. Len(r) \in Nat /\ k \in Nat /\ k =< Len(r) /\ k >= 1 BY DEF Replies
<1>2. s \in Seq(Seq(Character)) /\ Len(s) = k - 1
  <2>1. \A i \in 1 .. k - 1 : r[i] \o EOL \in Seq(Character) BY <1>0, <1>1
  <2> QED BY <1>0, <2>1
<1>3. t \in Seq(Seq(Character)) /\ Len(t) = k
  <2>1. \A i \in 1 .. k : r[i] \o EOL \in Seq(Character) BY <1>0, <1>1
  <2> QED BY <1>0, <2>1
<1>4. e \in Seq(Character) BY <1>1
<1>5. t = Append(s, e)
  <2> DEFINE a == Append(s, e)
  <2>1. a \in Seq(Seq(Character)) /\ Len(a) = k
    <3> HIDE DEF s, e
    <3> QED BY <1>0, <1>2, <1>4
  <2>2. ASSUME NEW i \in 1 .. k PROVE t[i] = a[i]
    <3>1. CASE i = k
      <4>1. a[k] = e
        <5> HIDE DEF s, e
        <5> QED BY <1>0, <1>2, <1>4
      <4> QED BY <3>1, <4>1, <1>0
    <3>2. CASE i # k
      <4>1. i \in 1 .. k - 1 BY <3>2, <1>0
      <4>2. a[i] = s[i]
        <5> HIDE DEF s, e
        <5> QED BY <4>1, <1>0, <1>2, <1>4
      <4>3. s[i] = r[i] \o EOL BY <4>1
      <4> QED BY <4>2, <4>3
    <3> QED BY <3>1, <3>2
  <2> HIDE DEF t, a
  <2>3. t = a BY <1>3, <2>1, <2>2, SequencesEqual
  <2> QED BY <2>3 DEF a
<1>6. FlattenSeq(Append(s, e)) = FlattenSeq(s) \o e
  <2> HIDE DEF s, e
  <2> QED BY <1>2, <1>4, FlattenAppend
<1>7. FlattenSeq(t) = FlattenSeq(s) \o e BY <1>5, <1>6
<1> QED BY <1>7 DEF Lines

LEMMA LinesType ==
  ASSUME NEW r \in Replies, NEW n \in 0 .. Len(r)
  PROVE  Lines(r, n) \in Seq(Character) /\ Ends(r, n) \in Nat
<1> DEFINE s == [i \in 1 .. n |-> r[i] \o EOL]
<1>1. \A i \in 1 .. Len(r) : r[i] \o EOL \in Seq(Character) BY LineType
<1>0. Len(r) \in Nat /\ n \in Nat /\ n =< Len(r) BY DEF Replies
<1>2. s \in Seq(Seq(Character))
  <2>1. \A i \in 1 .. n : r[i] \o EOL \in Seq(Character) BY <1>0, <1>1
  <2> QED BY <1>0, <2>1
<1> HIDE DEF Character
<1>3. FlattenSeq(s) \in Seq(Character)
  <2> HIDE DEF s
  <2> QED BY <1>2, FlattenType
<1>4. Lines(r, n) \in Seq(Character) BY <1>3 DEF Lines
<1> QED BY <1>4 DEF Ends

\* All lines are the reply.
LEMMA AllLines ==
  ASSUME NEW r \in Replies
  PROVE  /\ Chars(r) = Lines(r, Len(r)) /\ Len(Chars(r)) = Ends(r, Len(r))
         /\ Chars(r) \in Seq(Character)
<1>1. DOMAIN r = 1 .. Len(r) /\ Len(r) \in 0 .. Len(r) BY DEF Replies
<1>2. Chars(r) = Lines(r, Len(r)) BY <1>1 DEF Chars, Lines, EOL
<1> QED BY <1>1, <1>2, LinesType DEF Ends

\* Where a line ends, and what is in front of the end.
LEMMA LineEnds ==
  ASSUME NEW r \in Replies, NEW k \in 1 .. Len(r)
  PROVE  /\ k - 1 \in 0 .. Len(r) /\ Ends(r, k - 1) \in Nat /\ Ends(r, k) \in Nat
         /\ Ends(r, k) = Ends(r, k - 1) + Len(r[k]) + 2
         /\ \A i \in 1 .. Ends(r, k - 1) : Lines(r, k)[i] = Lines(r, k - 1)[i]
         /\ \A i \in 1 .. Len(r[k]) : Lines(r, k)[Ends(r, k - 1) + i] = r[k][i]
         /\ Lines(r, k)[Ends(r, k) - 1] = CR
         /\ Lines(r, k)[Ends(r, k)] = LF
<1> DEFINE s == Lines(r, k - 1)
           e == r[k] \o EOL
           m == Len(r[k])
<1>0. k - 1 \in 0 .. Len(r) /\ k \in 0 .. Len(r) BY DEF Replies
<1>1. s \in Seq(Character) /\ Len(s) = Ends(r, k - 1) /\ Ends(r, k - 1) \in Nat
  BY <1>0, LinesType DEF Ends
<1>2. /\ e \in Seq(Character) /\ m \in Nat /\ Len(e) = m + 2
      /\ \A i \in 1 .. m : e[i] = r[k][i]
      /\ e[m + 1] = CR /\ e[m + 2] = LF
  BY LineType
<1>3. Lines(r, k) = s \o e BY OneMoreLine
<1>4. Ends(r, k) = Len(s \o e) BY <1>3 DEF Ends
<1> HIDE DEF s, e, m, Character, CR, LF
<1>5. /\ Len(s \o e) = Len(s) + Len(e)
      /\ \A i \in 1 .. Len(s) : (s \o e)[i] = s[i]
      /\ \A i \in 1 .. Len(e) : (s \o e)[Len(s) + i] = e[i]
  <2>1. Concatenates(s \o e, s, e) BY <1>1, <1>2, Concatenation
  <2> QED BY <2>1 DEF Concatenates
<1>6. \A i \in 1 .. Ends(r, k - 1) : (s \o e)[i] = s[i] BY <1>1, <1>5
<1>7. \A i \in 1 .. m + 2 : (s \o e)[Len(s) + i] = e[i] BY <1>2, <1>5
<1>8. Ends(r, k) = Ends(r, k - 1) + m + 2 BY <1>1, <1>2, <1>4, <1>5
<1>9. \A i \in 1 .. m : (s \o e)[Ends(r, k - 1) + i] = r[k][i] BY <1>1, <1>2, <1>7
<1>10. (s \o e)[Ends(r, k) - 1] = CR
  <2>1. m + 1 \in 1 .. m + 2 /\ Ends(r, k) - 1 = Len(s) + (m + 1) BY <1>1, <1>2, <1>8
  <2> QED BY <1>2, <1>7, <2>1
<1>11. (s \o e)[Ends(r, k)] = LF
  <2>1. m + 2 \in 1 .. m + 2 /\ Ends(r, k) = Len(s) + (m + 2) BY <1>1, <1>2, <1>8
  <2> QED BY <1>2, <1>7, <2>1
<1>12. Ends(r, k) \in Nat BY <1>1, <1>2, <1>8
<1>13. /\ \A i \in 1 .. Ends(r, k - 1) : Lines(r, k)[i] = s[i]
       /\ \A i \in 1 .. m : Lines(r, k)[Ends(r, k - 1) + i] = r[k][i]
       /\ Lines(r, k)[Ends(r, k) - 1] = CR
       /\ Lines(r, k)[Ends(r, k)] = LF
  BY <1>3, <1>6, <1>9, <1>10, <1>11
<1> QED BY <1>0, <1>1, <1>8, <1>12, <1>13 DEF s, m

\* The lines that have been sent stay where they are.
LEMMA LinesKeep ==
  ASSUME NEW r \in Replies, NEW k \in 0 .. Len(r), NEW j \in 0 .. k
  PROVE  /\ Ends(r, j) \in Nat /\ Ends(r, k) \in Nat
         /\ j < k => Ends(r, j) + 2 =< Ends(r, k)
         /\ Ends(r, j) =< Ends(r, k)
         /\ \A i \in 1 .. Ends(r, j) : Lines(r, k)[i] = Lines(r, j)[i]
<1> DEFINE Keep(n) ==
             \A m \in 0 .. n :
               /\ m < n => Ends(r, m) + 2 =< Ends(r, n)
               /\ \A i \in 1 .. Ends(r, m) : Lines(r, n)[i] = Lines(r, m)[i]
           S == {n \in Nat : n =< Len(r) => Keep(n)}
<1>0. Len(r) \in Nat /\ k \in Nat /\ k =< Len(r) /\ j \in Nat /\ j =< k BY DEF Replies
<1>e. \A n \in 0 .. Len(r) : Ends(r, n) \in Nat BY LinesType
<1>1. 0 \in S
  <2>1. ASSUME NEW m \in 0 .. 0 PROVE m = 0 OBVIOUS
  <2>2. Keep(0) BY <2>1
  <2> QED BY <2>2
<1>2. ASSUME NEW n \in Nat, n \in S PROVE n + 1 \in S
  <2>1. SUFFICES ASSUME n + 1 =< Len(r) PROVE Keep(n + 1) OBVIOUS
  <2>2. Keep(n) BY <1>0, <1>2, <2>1
  <2>3. n + 1 \in 1 .. Len(r) /\ (n + 1) - 1 = n BY <1>0, <2>1
  <2>4. /\ Ends(r, n + 1) = Ends(r, n) + Len(r[n + 1]) + 2
        /\ \A i \in 1 .. Ends(r, n) : Lines(r, n + 1)[i] = Lines(r, n)[i]
    <3>1. /\ Ends(r, n + 1) = Ends(r, (n + 1) - 1) + Len(r[n + 1]) + 2
          /\ \A i \in 1 .. Ends(r, (n + 1) - 1) : Lines(r, n + 1)[i] = Lines(r, (n + 1) - 1)[i]
      BY <2>3, LineEnds
    <3> QED BY <2>3, <3>1
  <2>5. Len(r[n + 1]) \in Nat BY <2>3, LineType
  <2>6. ASSUME NEW m \in 0 .. n + 1
        PROVE  /\ m < n + 1 => Ends(r, m) + 2 =< Ends(r, n + 1)
               /\ \A i \in 1 .. Ends(r, m) : Lines(r, n + 1)[i] = Lines(r, m)[i]
    <3>1. CASE m = n + 1 BY <3>1
    <3>2. CASE m # n + 1
      <4>1. m \in 0 .. n /\ n \in 0 .. Len(r) /\ m \in 0 .. Len(r) BY <1>0, <2>1, <3>2
      <4>2. /\ m < n => Ends(r, m) + 2 =< Ends(r, n)
            /\ \A i \in 1 .. Ends(r, m) : Lines(r, n)[i] = Lines(r, m)[i]
        BY <2>2, <4>1
      <4>3. Ends(r, m) \in Nat /\ Ends(r, n) \in Nat BY <1>e, <4>1
      <4>4. Ends(r, m) =< Ends(r, n)
        <5>1. CASE m = n BY <5>1, <4>3
        <5>2. CASE m # n BY <5>2, <4>1, <4>2, <4>3
        <5> QED BY <5>1, <5>2
      <4>5. Ends(r, m) + 2 =< Ends(r, n + 1) BY <2>4, <2>5, <4>3, <4>4
      <4>6. ASSUME NEW i \in 1 .. Ends(r, m) PROVE Lines(r, n + 1)[i] = Lines(r, m)[i]
        <5>1. i \in 1 .. Ends(r, n) BY <4>3, <4>4
        <5> QED BY <2>4, <4>2, <5>1
      <4> QED BY <4>5, <4>6
    <3> QED BY <3>1, <3>2
  <2> QED BY <2>6
<1>3. \A n \in Nat : n \in S
  <2> HIDE DEF S
  <2> QED BY <1>1, <1>2, Inductive
<1>4. Keep(k) BY <1>0, <1>3
<1>5. /\ j < k => Ends(r, j) + 2 =< Ends(r, k)
      /\ \A i \in 1 .. Ends(r, j) : Lines(r, k)[i] = Lines(r, j)[i]
  BY <1>0, <1>4
<1>6. Ends(r, j) \in Nat /\ Ends(r, k) \in Nat
  <2>1. j \in 0 .. Len(r) BY <1>0
  <2> QED BY <1>e, <2>1
<1>7. Ends(r, j) =< Ends(r, k)
  <2>1. CASE j = k BY <2>1, <1>6
  <2>2. CASE j # k BY <2>2, <1>0, <1>5, <1>6
  <2> QED BY <2>1, <2>2
<1> QED BY <1>5, <1>6, <1>7

\* Where a line and its end are in the reply.
LEMMA Layout ==
  ASSUME NEW r \in Replies, NEW k \in 1 .. Len(r)
  PROVE  /\ k - 1 \in 0 .. Len(r) /\ k \in 0 .. Len(r)
         /\ Ends(r, k - 1) \in Nat /\ Ends(r, k) \in Nat /\ Len(r[k]) \in Nat
         /\ Ends(r, k) = Ends(r, k - 1) + Len(r[k]) + 2
         /\ Ends(r, k) =< Len(Chars(r)) /\ Len(Chars(r)) \in Nat
         /\ \A i \in 1 .. Len(r[k]) : Chars(r)[Ends(r, k - 1) + i] = r[k][i]
         /\ Chars(r)[Ends(r, k) - 1] = CR
         /\ Chars(r)[Ends(r, k)] = LF
<1> DEFINE N == Len(r)
           C == Chars(r)
<1>0. N \in Nat /\ k \in 0 .. N /\ N \in 0 .. N /\ k \in 0 .. N BY DEF Replies
<1>1. /\ k - 1 \in 0 .. N /\ Ends(r, k - 1) \in Nat /\ Ends(r, k) \in Nat
      /\ Ends(r, k) = Ends(r, k - 1) + Len(r[k]) + 2
      /\ \A i \in 1 .. Len(r[k]) : Lines(r, k)[Ends(r, k - 1) + i] = r[k][i]
      /\ Lines(r, k)[Ends(r, k) - 1] = CR
      /\ Lines(r, k)[Ends(r, k)] = LF
  BY LineEnds
<1>2. Len(r[k]) \in Nat BY LineType
<1>3. C = Lines(r, N) /\ Len(C) = Ends(r, N) BY AllLines
<1>4. /\ Ends(r, N) \in Nat /\ Ends(r, k) =< Ends(r, N)
      /\ \A i \in 1 .. Ends(r, k) : Lines(r, N)[i] = Lines(r, k)[i]
  BY <1>0, LinesKeep
<1> HIDE DEF C, N
<1>5. \A i \in 1 .. Ends(r, k) : C[i] = Lines(r, k)[i] BY <1>3, <1>4
<1>6. ASSUME NEW i \in 1 .. Len(r[k]) PROVE C[Ends(r, k - 1) + i] = r[k][i]
  <2>1. Ends(r, k - 1) + i \in 1 .. Ends(r, k) BY <1>1, <1>2
  <2> QED BY <1>1, <1>5, <2>1
<1>7. Ends(r, k) - 1 \in 1 .. Ends(r, k) /\ Ends(r, k) \in 1 .. Ends(r, k)
  BY <1>1, <1>2
<1>8. C[Ends(r, k) - 1] = CR /\ C[Ends(r, k)] = LF BY <1>1, <1>5, <1>7
<1>9. Ends(r, k) =< Len(C) /\ Len(C) \in Nat BY <1>3, <1>4
<1> QED BY <1>0, <1>1, <1>2, <1>6, <1>8, <1>9 DEF C, N

\* Every character belongs to a line or to its end.
LEMMA InALine ==
  ASSUME NEW r \in Replies, NEW p \in 1 .. Len(Chars(r))
  PROVE  \E k \in 1 .. Len(r) : Ends(r, k - 1) < p /\ p =< Ends(r, k)
<1> DEFINE In(n) == \A q \in 1 .. Ends(r, n) :
                      \E k \in 1 .. Len(r) : Ends(r, k - 1) < q /\ q =< Ends(r, k)
           S == {n \in Nat : n =< Len(r) => In(n)}
<1>0. Len(r) \in Nat BY DEF Replies
<1>1. 0 \in S
  <2>1. 1 .. Ends(r, 0) = {} BY NoLines
  <2>2. In(0) BY <2>1
  <2> QED BY <2>2
<1>2. ASSUME NEW n \in Nat, n \in S PROVE n + 1 \in S
  <2>1. SUFFICES ASSUME n + 1 =< Len(r) PROVE In(n + 1) OBVIOUS
  <2>2. In(n) BY <1>0, <1>2, <2>1
  <2>3. n + 1 \in 1 .. Len(r) /\ (n + 1) - 1 = n BY <1>0, <2>1
  <2>4. Ends(r, n + 1) \in Nat /\ Ends(r, n) \in Nat
    <3>1. Ends(r, n + 1) \in Nat /\ Ends(r, (n + 1) - 1) \in Nat BY <2>3, LineEnds
    <3> QED BY <2>3, <3>1
  <2>5. ASSUME NEW q \in 1 .. Ends(r, n + 1)
        PROVE  \E k \in 1 .. Len(r) : Ends(r, k - 1) < q /\ q =< Ends(r, k)
    <3>1. CASE q =< Ends(r, n)
      <4>1. q \in 1 .. Ends(r, n) BY <3>1, <2>4
      <4> QED BY <2>2, <4>1
    <3>2. CASE ~(q =< Ends(r, n))
      <4>1. Ends(r, n) < q /\ q =< Ends(r, n + 1) BY <3>2, <2>4
      <4>2. Ends(r, (n + 1) - 1) < q BY <2>3, <4>1
      <4> QED BY <2>3, <4>1, <4>2
    <3> QED BY <3>1, <3>2
  <2> QED BY <2>5
<1>3. \A n \in Nat : n \in S
  <2> HIDE DEF S
  <2> QED BY <1>1, <1>2, Inductive
<1>4. In(Len(r))
  <2>1. Len(r) \in S BY <1>0, <1>3
  <2> QED BY <2>1, <1>0
<1>5. Len(Chars(r)) = Ends(r, Len(r)) BY AllLines
<1> QED BY <1>4, <1>5

\* CR LF stands at the ends of the lines only.
Unbroken(r) ==
  \A n \in 1 .. Len(r) : \A i \in 1 .. Len(r[n]) - 1 : ~(r[n][i] = CR /\ r[n][i + 1] = LF)

LEMMA CRLF == CR # LF
BY DEF CR, LF

LEMMA BreakIsEnd ==
  ASSUME NEW r \in Replies, Unbroken(r), NEW p \in Nat, p >= 1, p + 1 =< Len(Chars(r)),
         Chars(r)[p] = CR, Chars(r)[p + 1] = LF
  PROVE  \E k \in 1 .. Len(r) : p + 1 = Ends(r, k)
<1> DEFINE C == Chars(r)
<1> HIDE DEF C, CR, LF
<1>0. Len(C) \in Nat /\ p \in 1 .. Len(C) /\ C[p] = CR /\ C[p + 1] = LF
  <2>1. Len(C) \in Nat BY AllLines, LinesType DEF C, Replies
  <2> QED BY <2>1 DEF C
<1>1. PICK k \in 1 .. Len(r) : Ends(r, k - 1) < p /\ p =< Ends(r, k)
  BY <1>0, InALine DEF C
<1>2. /\ Ends(r, k - 1) \in Nat /\ Ends(r, k) \in Nat /\ Len(r[k]) \in Nat
      /\ Ends(r, k) = Ends(r, k - 1) + Len(r[k]) + 2
      /\ \A i \in 1 .. Len(r[k]) : C[Ends(r, k - 1) + i] = r[k][i]
      /\ C[Ends(r, k) - 1] = CR /\ C[Ends(r, k)] = LF
  BY Layout DEF C
<1> DEFINE i == p - Ends(r, k - 1)
           a == Ends(r, k - 1)
           b == Ends(r, k)
           m == Len(r[k])
<1>a. a \in Nat /\ b \in Nat /\ m \in Nat /\ b = a + m + 2 /\ p \in Nat /\ a < p /\ p =< b
  BY <1>1, <1>2
<1>b. i = p - a OBVIOUS
<1>c. /\ \A h \in 1 .. m : C[a + h] = r[k][h]
      /\ C[b - 1] = CR /\ C[b] = LF /\ C[p] = CR /\ C[p + 1] = LF
  BY <1>0, <1>2
<1> HIDE DEF i, a, b, m
<1>3. i \in Int /\ i >= 1 /\ i =< m + 2 /\ p = a + i BY <1>a, <1>b
<1>4. CASE i < m
  <2>1. i \in 1 .. m /\ i + 1 \in 1 .. m /\ i \in 1 .. m - 1 BY <1>a, <1>3, <1>4
  <2>2. a + (i + 1) = p + 1 BY <1>a, <1>3
  <2>3. r[k][i] = CR BY <1>c, <1>3, <2>1
  <2>4. r[k][i + 1] = LF
    <3>1. C[a + (i + 1)] = r[k][i + 1] BY <1>c, <2>1
    <3> QED BY <1>c, <2>2, <3>1
  <2> QED BY <2>1, <2>3, <2>4 DEF Unbroken, m
<1>5. CASE i = m
  <2>1. p + 1 = b - 1 BY <1>a, <1>3, <1>5
  <2> QED BY <1>c, <2>1, CRLF
<1>6. CASE i = m + 1
  <2>1. p + 1 = b BY <1>a, <1>3, <1>6
  <2> QED BY <2>1 DEF b
<1>7. CASE i = m + 2
  <2>1. p = b BY <1>a, <1>3, <1>7
  <2> QED BY <1>c, <2>1, CRLF
<1>8. i < m \/ i = m \/ i = m + 1 \/ i = m + 2 BY <1>a, <1>3
<1> QED BY <1>4, <1>5, <1>6, <1>7, <1>8

-----------------------------------------------------------------------------
(* The codes in a reply *)

\* Line k begins with the code of the reply.
Coded(r, k) == Len(r[k]) >= 3 /\ \A i \in 1 .. 3 : r[k][i] = r[1][i] /\ r[k][i] \in Digit

Hyphenated(r, k) == Len(r[k]) > 3 /\ r[k][4] = "-"

LEMMA CodeType ==
  ASSUME NEW r \in Replies, IsReply(r)
  PROVE  /\ Len(r) \in Nat /\ Len(r) >= 1 /\ Coded(r, 1)
         /\ CodeOf(r) = <<r[1][1], r[1][2], r[1][3]>>
         /\ CodeOf(r) \in Seq(STRING) /\ Len(CodeOf(r)) = 3
<1>1. Len(r) \in Nat /\ Len(r) >= 1 BY DEF Replies, IsReply
<1>2. r[1] \in Seq(STRING) BY <1>1, LineType
<1>3. Len(r[1]) >= 3 /\ \A i \in 1 .. 3 : r[1][i] \in Digit BY Zenon DEF IsReply, Numbered
<1> DEFINE l == r[1]
<1>4. SubSeq(l, 1, 3) \in Seq(STRING) /\ Len(SubSeq(l, 1, 3)) = 3
      /\ \A i \in 1 .. 3 : SubSeq(l, 1, 3)[i] = l[i]
  <2>1. 3 \in 0 .. Len(l) BY <1>2, <1>3
  <2> QED BY <1>2, <2>1, PrefixProperties
<1>5. SubSeq(l, 1, 3) = <<l[1], l[2], l[3]>>
  <2> DEFINE p == SubSeq(l, 1, 3)
             q == <<l[1], l[2], l[3]>>
  <2> HIDE DEF p, l
  <2>1. l \in Seq(STRING) /\ Len(l) >= 3 BY <1>2, <1>3 DEF l
  <2>2. p \in Seq(STRING) /\ Len(p) = 3 /\ \A i \in 1 .. 3 : p[i] = l[i] BY <1>4 DEF p
  <2>3. q \in Seq(STRING) /\ Len(q) = 3 /\ q[1] = l[1] /\ q[2] = l[2] /\ q[3] = l[3]
    <3>1. l[1] \in STRING /\ l[2] \in STRING /\ l[3] \in STRING BY <2>1
    <3> QED BY <3>1
  <2>4. \A i \in 1 .. 3 : p[i] = q[i]
    <3>1. \A i \in 1 .. 3 : i = 1 \/ i = 2 \/ i = 3 OBVIOUS
    <3> HIDE DEF q
    <3> QED BY <2>2, <2>3, <3>1
  <2> HIDE DEF q
  <2>5. p = q BY <2>2, <2>3, <2>4, SequencesEqual
  <2> QED BY <2>5 DEF p, q
<1> QED BY <1>1, <1>3, <1>4, <1>5 DEF Coded, CodeOf

\* A line with the code, or with the code and a hyphen, as its prefix.
LEMMA CodePrefix ==
  ASSUME NEW r \in Replies, IsReply(r), NEW k \in 1 .. Len(r)
  PROVE  /\ IsPrefix(CodeOf(r), r[k]) => Coded(r, k)
         /\ IsPrefix(CodeOf(r) \o <<"-">>, r[k]) => Coded(r, k) /\ Hyphenated(r, k)
<1> DEFINE c == CodeOf(r)
           l == r[k]
           h == <<"-">>
<1>1. /\ c \in Seq(STRING) /\ Len(c) = 3 /\ Coded(r, 1)
      /\ c = <<r[1][1], r[1][2], r[1][3]>>
  BY CodeType
<1>2. c[1] = r[1][1] /\ c[2] = r[1][2] /\ c[3] = r[1][3]
  BY <1>1
<1>3. l \in Seq(STRING) /\ Len(l) \in Nat BY LineType
<1>4. \A i \in 1 .. 3 : i = 1 \/ i = 2 \/ i = 3 OBVIOUS
<1>5. \A i \in 1 .. 3 : c[i] = r[1][i] /\ r[1][i] \in Digit
  <2>1. \A i \in 1 .. 3 : r[1][i] \in Digit BY <1>1 DEF Coded
  <2> HIDE DEF c
  <2> QED BY <1>2, <1>4, <2>1
<1> HIDE DEF c, l
<1>6. ASSUME IsPrefix(c, l) PROVE Coded(r, k)
  <2>1. 3 =< Len(l) /\ SubSeq(c, 1, 3) = SubSeq(l, 1, 3) BY <1>1, <1>6 DEF IsPrefix
  <2>2. /\ \A i \in 1 .. 3 : SubSeq(c, 1, 3)[i] = c[i]
        /\ \A i \in 1 .. 3 : SubSeq(l, 1, 3)[i] = l[i]
    <3>1. 3 \in 0 .. Len(c) /\ 3 \in 0 .. Len(l) BY <1>1, <1>3, <2>1
    <3> QED BY <1>1, <1>3, <3>1, PrefixProperties
  <2>3. \A i \in 1 .. 3 : l[i] = c[i] BY <2>1, <2>2
  <2> QED BY <1>5, <2>1, <2>3 DEF Coded, l
<1>7. ASSUME IsPrefix(c \o h, l) PROVE Coded(r, k) /\ Hyphenated(r, k)
  <2> DEFINE T == STRING \cup {"-"}
             p == c \o h
  <2>1. h \in Seq(T) /\ Len(h) = 1 /\ h[1] = "-" OBVIOUS
  <2>2. c \in Seq(T) /\ l \in Seq(T) BY <1>1, <1>3
  <2> HIDE DEF T, h, p
  <2>3. c \o h \in Seq(T) /\ Concatenates(c \o h, c, h) BY <2>1, <2>2, Concatenation
  <2>4. /\ p \in Seq(T) /\ Len(p) = 4
        /\ \A i \in 1 .. 3 : p[i] = c[i]
        /\ p[4] = "-"
    <3>1. /\ Len(p) = Len(c) + Len(h)
          /\ \A i \in 1 .. Len(c) : p[i] = c[i]
          /\ \A i \in 1 .. Len(h) : p[Len(c) + i] = h[i]
      BY <2>3 DEF Concatenates, p
    <3>2. p \in Seq(T) BY <2>3 DEF p
    <3>3. p[3 + 1] = h[1] BY <1>1, <2>1, <3>1
    <3> QED BY <1>1, <2>1, <3>1, <3>2, <3>3
  <2>5. 4 =< Len(l) /\ SubSeq(p, 1, 4) = SubSeq(l, 1, 4) BY <2>4, <1>7 DEF IsPrefix, p
  <2>6. /\ \A i \in 1 .. 4 : SubSeq(p, 1, 4)[i] = p[i]
        /\ \A i \in 1 .. 4 : SubSeq(l, 1, 4)[i] = l[i]
    <3>1. 4 \in 0 .. Len(p) /\ 4 \in 0 .. Len(l) BY <1>3, <2>4, <2>5
    <3> QED BY <2>2, <2>4, <3>1, PrefixProperties
  <2>7. \A i \in 1 .. 4 : l[i] = p[i] BY <2>5, <2>6
  <2>8. l[4] = "-" BY <2>4, <2>7
  <2>9. \A i \in 1 .. 3 : l[i] = c[i] BY <2>4, <2>7
  <2> QED BY <1>3, <1>5, <2>5, <2>8, <2>9 DEF Coded, Hyphenated, l
<1> QED BY <1>6, <1>7 DEF c, l, h

\* What the lines of a reply look like: the code with a hyphen, the code without
\* one at the end of the reply, or a line between that does not begin like a code.
LEMMA LineKinds ==
  ASSUME NEW r \in Replies, IsReply(r), NEW k \in 1 .. Len(r)
  PROVE  \/ Coded(r, k) /\ Hyphenated(r, k)
         \/ Coded(r, k) /\ ~Hyphenated(r, k) /\ k = Len(r)
         \/ ~Numbered(r[k]) /\ k > 1 /\ k < Len(r)
<1>1. Len(r) \in Nat /\ Len(r) >= 1 /\ Coded(r, 1) BY CodeType
<1>2. Len(r) > 1 <=> Hyphenated(r, 1) BY Zenon DEF IsReply, Hyphenated
<1>3. CASE k = 1
  <2>1. CASE Len(r) > 1 BY <1>1, <1>2, <1>3, <2>1
  <2>2. CASE ~(Len(r) > 1)
    <3> DEFINE N == Len(r)
    <3>1. N \in Nat /\ N >= 1 /\ ~(N > 1) BY <1>1, <2>2
    <3>2. N = 1
      <4> HIDE DEF N
      <4> QED BY <3>1
    <3>3. k = Len(r) BY <1>3, <3>2
    <3> QED BY <1>1, <1>2, <1>3, <2>2, <3>3
  <2> QED BY <2>1, <2>2
<1>4. CASE k # 1 /\ k = Len(r)
  <2>1. IsPrefix(CodeOf(r), r[k]) BY <1>4, Zenon DEF IsReply, Last
  <2>2. Coded(r, k) BY <2>1, CodePrefix
  <2> QED BY <1>4, <2>2
<1>5. CASE k # 1 /\ k # Len(r)
  <2>1. k \in 2 .. Len(r) - 1 /\ k > 1 /\ k < Len(r) BY <1>1, <1>5
  <2>2. ~Numbered(r[k]) \/ IsPrefix(CodeOf(r) \o <<"-">>, r[k])
    BY <2>1, Zenon DEF IsReply
  <2>3. CASE ~Numbered(r[k]) BY <2>1, <2>3
  <2>4. CASE IsPrefix(CodeOf(r) \o <<"-">>, r[k])
    BY <2>4, CodePrefix
  <2> QED BY <2>2, <2>3, <2>4
<1> QED BY <1>3, <1>4, <1>5

LEMMA ReplyUnbroken == ASSUME NEW r, IsReply(r) PROVE Unbroken(r)
BY Zenon DEF IsReply, Unbroken

-----------------------------------------------------------------------------
(* The invariant *)

\* The rest of the reply, from behind p, is on its way.
NetFrom(r, p) ==
  /\ p + Len(net) = Len(Chars(r))
  /\ \A i \in 1 .. Len(net) : net[i] = Chars(r)[p + i]

\* What was received begins behind p.
BufFrom(r, p) == \A i \in 0 .. got - 1 : buf[i] = Chars(r)[p + i + 1]

\* Line n is the next to be looked at.
CodeSeen(r, n) == (multi <=> n > 1) /\ (multi => retVal = CodeOf(r))

\* getLineFromSocket takes from line n on.
Gathering(r) ==
  \E n \in 1 .. Len(r) + 1 :
    /\ NetFrom(r, Ends(r, n - 1) + got)
    /\ BufFrom(r, Ends(r, n - 1))
    /\ CodeSeen(r, n)

\* The lines n to m are in the buffer, and the loop is at line j, or behind all.
AtLine(r, n, m, j) ==
  /\ j \in n .. m
  /\ off = Ends(r, j - 1) - Ends(r, n - 1)
  /\ left = got - off + 2 * (j - n)
  /\ CodeSeen(r, j)

Behind(r) == off >= got /\ left > 2 /\ multi /\ retVal = CodeOf(r)

Received(r, n, m) ==
  /\ n \in 1 .. Len(r) /\ m \in n .. Len(r)
  /\ got = Ends(r, m) - Ends(r, n - 1)
  /\ NetFrom(r, Ends(r, m))
  /\ BufFrom(r, Ends(r, n - 1))

Parsing(r) ==
  \E n, m \in 1 .. Len(r) :
    Received(r, n, m) /\ ((\E j \in 1 .. Len(r) : AtLine(r, n, m, j)) \/ Behind(r))

Answered(r) ==
  /\ result = 0 \/ (result = -1 /\ closed)
  /\ retVal = CodeOf(r) /\ sent = calls /\ net = << >>

Whole ==
  calls > 0 /\ inStep /\ ~full /\ ~lone /\ ~misread =>
    /\ got < BufSize
    /\ pc = "idle" => result = -2 \/ Answered(replies[calls])
    /\ pc # "idle" /\ sent # calls =>
         sent = calls - 1 /\ net = << >> /\ pc = "recv" /\ got = 0 /\ ~multi
    /\ pc = "recv" /\ sent = calls => Gathering(replies[calls])
    /\ pc = "parse" => sent = calls /\ got # 2 /\ Parsing(replies[calls])

Typed == TypeOK /\ replies \in Dialogues /\ net \in Seq(Character)

RInv == Typed /\ Whole

LEMMA Bounds == BufSize \in Nat /\ BufSize > 4
BY FtpReplies

LEMMA DialogueType ==
  ASSUME replies \in Dialogues, NEW k \in 1 .. Len(replies)
  PROVE  replies[k] \in Replies /\ IsReply(replies[k])
<1>1. replies \in Seq(Seq(Seq(STRING))) BY FtpReplies
<1>2. IsReply(replies[k]) BY FtpReplies
<1>3. replies[k] \in Seq(Seq(STRING)) BY <1>1
<1> QED BY <1>2, <1>3 DEF Replies

LEMMA ReplyBegins == Init => RInv
<1> SUFFICES ASSUME Init PROVE RInv OBVIOUS
<1>1. /\ replies \in Dialogues /\ calls = 0 /\ sent = 0 /\ net = << >>
      /\ pc = "idle" /\ result = 0 /\ got = 0 /\ off = 0 /\ left = 0
      /\ retVal = << >>
  BY DEF Init
<1>2. DOMAIN buf = 0 .. BufSize - 1 BY DEF Init
<1>3. Len(replies) \in Nat BY <1>1, FtpReplies
<1>4. TypeOK BY <1>1, <1>2, <1>3, Bounds DEF TypeOK
<1>5. net \in Seq(Character) BY <1>1
<1>6. Whole BY <1>1 DEF Whole
<1> QED BY <1>1, <1>4, <1>5, <1>6 DEF RInv, Typed

-----------------------------------------------------------------------------
(* The types *)

\* A set of numbers has a least one.
LEMMA Least ==
  ASSUME NEW S \in SUBSET Nat, S # {}
  PROVE  Min(S) \in S /\ \A y \in S : Min(S) =< y
<1>1. PICK R : IsWellFoundedOn(R, Nat) /\ \A x, y \in Nat : x < y => <<x, y>> \in R
  BY Less
<1>2. \E x \in S : \A y \in S : ~ (<<y, x>> \in R)
  <2>1. S \subseteq Nat /\ S # {} OBVIOUS
  <2>2. IsWellFoundedOn(R, Nat) BY <1>1
  <2> QED BY ONLY <2>1, <2>2, WFMin, Zenon
<1>3. \E x \in S : \A y \in S : x =< y
  <2>1. PICK x \in S : \A y \in S : ~ (<<y, x>> \in R) BY <1>2
  <2>2. ASSUME NEW y \in S PROVE x =< y
    <3>1. x \in Nat /\ y \in Nat OBVIOUS
    <3>2. ~(y < x) BY <1>1, <2>1, <3>1
    <3> QED BY <3>1, <3>2
  <2> QED BY <2>2
<1> QED BY <1>3 DEF Min

\* The line break is found, or the search ends.
Breaks == {i \in 0 .. left : left - i =< 2 \/ (At(off + i) = CR /\ At(off + i + 1) = LF)}

LEMMA BreakFound ==
  ASSUME left \in Nat
  PROVE  LineBreak \in 0 .. left /\ LineBreak \in Breaks /\ \A i \in Breaks : LineBreak =< i
<1>1. left \in Breaks BY DEF Breaks
<1>2. Breaks \in SUBSET Nat /\ Breaks # {} /\ Breaks \subseteq 0 .. left
  <2>1. Breaks \subseteq 0 .. left BY DEF Breaks
  <2> HIDE DEF Breaks
  <2> QED BY <1>1, <2>1
<1>3. LineBreak = Min(Breaks) BY Zenon DEF LineBreak, Breaks
<1> HIDE DEF Breaks
<1>4. Min(Breaks) \in Breaks /\ \A y \in Breaks : Min(Breaks) =< y BY <1>2, Least
<1> QED BY <1>2, <1>3, <1>4

\* checkforFTPResponse: the code it leaves, and what each answer means.
LEMMA CheckAnswers ==
  ASSUME NEW o, NEW n
  PROVE  /\ Check(o, n).code = retVal \/ Check(o, n).code \in Digit \X Digit \X Digit
         /\ Check(o, n).rc = 2 => Check(o, n).multi = multi /\ Check(o, n).code = retVal
<1>1. CASE n =< 2
  <2>1. Check(o, n) = [rc |-> -2, multi |-> multi, code |-> retVal] BY <1>1 DEF Check
  <2> QED BY <2>1
<1>2. CASE ~(n =< 2) /\ \E i \in 1 .. 3 : Three(o)[i] \notin Digit
  <2>1. Check(o, n) = [rc |-> IF multi THEN 2 ELSE -1, multi |-> multi, code |-> retVal]
    BY <1>2, Zenon DEF Check
  <2> QED BY <2>1
<1>3. CASE ~(n =< 2) /\ ~\E i \in 1 .. 3 : Three(o)[i] \notin Digit
  <2>1. Three(o) \in Digit \X Digit \X Digit
    <3>1. At(o) \in Digit /\ At(o + 1) \in Digit /\ At(o + 2) \in Digit
      <4>1. Three(o)[1] = At(o) /\ Three(o)[2] = At(o + 1) /\ Three(o)[3] = At(o + 2)
        BY DEF Three
      <4>2. 1 \in 1 .. 3 /\ 2 \in 1 .. 3 /\ 3 \in 1 .. 3 OBVIOUS
      <4> QED BY <1>3, <4>1, <4>2, Zenon
    <3> QED BY <3>1 DEF Three
  <2>2. \/ Check(o, n) = [rc |-> 1, multi |-> TRUE, code |-> Three(o)]
        \/ Check(o, n) = [rc |-> IF multi /\ retVal # Three(o) THEN -3 ELSE 0,
                          multi |-> FALSE, code |-> Three(o)]
    BY <1>3, Zenon DEF Check
  <2>3. Check(o, n).code = Three(o) /\ Check(o, n).rc # 2 BY <2>2
  <2> QED BY <2>1, <2>3
<1> QED BY <1>1, <1>2, <1>3

\* The lines of the dialogue are characters, so that what is sent is.
LEMMA SentType ==
  ASSUME Typed, SendReply
  PROVE  /\ sent + 1 \in 1 .. Len(replies) /\ sent < calls
         /\ net' \in Seq(Character) /\ net' = net \o Chars(replies[sent + 1])
<1>1. sent \in 0 .. calls /\ calls \in 0 .. Len(replies) /\ replies \in Dialogues
      /\ net \in Seq(Character)
  BY DEF Typed, TypeOK
<1>2. sent < calls /\ net' = net \o Chars(replies[sent + 1]) BY DEF SendReply
<1>3. Len(replies) \in Nat BY <1>1, FtpReplies
<1>4. sent + 1 \in 1 .. Len(replies) BY <1>1, <1>2, <1>3
<1>5. Chars(replies[sent + 1]) \in Seq(Character) BY <1>1, <1>4, DialogueType, AllLines
<1> DEFINE c == Chars(replies[sent + 1])
<1> HIDE DEF c, Character
<1>6. net \o c \in Seq(Character) BY <1>1, <1>5 DEF c
<1> QED BY <1>2, <1>4, <1>6 DEF c

LEMMA ReceivedType ==
  ASSUME Typed, NEW n \in 1 .. BufSize, Recv(n)
  PROVE  /\ n \in Nat /\ n >= 1 /\ n =< Len(net) /\ got + n =< BufSize
         /\ net' \in Seq(Character) /\ Len(net') = Len(net) - n
         /\ \A i \in 1 .. Len(net) - n : net'[i] = net[n + i]
<1>1. n \in Nat /\ n >= 1 /\ net \in Seq(Character) BY Bounds DEF Typed
<1>2. n =< Len(net) /\ got + n =< BufSize /\ net' = SubSeq(net, n + 1, Len(net))
  BY DEF Recv
<1> HIDE DEF Character
<1>3. n \in 0 .. Len(net) BY <1>1, <1>2
<1>4. /\ SubSeq(net, n + 1, Len(net)) \in Seq(Character)
      /\ Len(SubSeq(net, n + 1, Len(net))) = Len(net) - n
      /\ \A i \in 1 .. Len(net) - n : SubSeq(net, n + 1, Len(net))[i] = net[n + i]
  BY <1>1, <1>3, RestProperties
<1> QED BY <1>1, <1>2, <1>4

LEMMA TypesKept == Typed /\ [Next]_vars => Typed'
<1> SUFFICES ASSUME Typed, [Next]_vars PROVE Typed' OBVIOUS
<1>0. /\ calls \in 0 .. Len(replies) /\ sent \in 0 .. calls
      /\ pc \in {"idle", "recv", "parse"}
      /\ got \in 0 .. BufSize /\ off \in Nat /\ left \in 0 .. BufSize
      /\ DOMAIN buf = 0 .. BufSize - 1
      /\ result \in {0, -1, -2, -3}
      /\ (retVal = << >> \/ retVal \in Digit \X Digit \X Digit)
      /\ replies \in Dialogues /\ net \in Seq(Character) /\ BufSize \in Nat
      /\ Len(replies) \in Nat
  <2>1. Len(replies) \in Nat BY FtpReplies DEF Typed
  <2> QED BY <2>1, Bounds DEF Typed, TypeOK
<1>1. CASE Poll
  <2>1. /\ calls < Len(replies) /\ calls' = calls + 1 /\ pc' = "recv" /\ got' = 0
        /\ retVal' = << >>
        /\ UNCHANGED <<replies, sent, net, buf, off, left, result>>
    BY <1>1 DEF Poll
  <2>2. calls' \in 0 .. Len(replies') /\ sent' \in 0 .. calls' BY <1>0, <2>1
  <2>3. TypeOK' BY <1>0, <2>1, <2>2 DEF TypeOK
  <2> QED BY <1>0, <2>1, <2>3 DEF Typed
<1>2. CASE SendReply
  <2>1. /\ sent < calls /\ sent' = sent + 1
        /\ UNCHANGED <<replies, calls, pc, buf, got, off, left, retVal, result>>
    BY <1>2 DEF SendReply
  <2>2. sent' \in 0 .. calls' BY <1>0, <2>1
  <2>3. TypeOK' BY <1>0, <2>1, <2>2 DEF TypeOK
  <2>4. net' \in Seq(Character) BY <1>2, SentType
  <2> QED BY <1>0, <2>1, <2>3, <2>4 DEF Typed
<1>3. ASSUME NEW n \in 1 .. BufSize, Recv(n) PROVE Typed'
  <2>1. /\ got' = got + n /\ got + n =< BufSize
        /\ buf' = [i \in DOMAIN buf |-> IF i \in got .. got + n - 1 THEN net[i - got + 1] ELSE buf[i]]
        /\ \/ pc' = "parse" /\ off' = 0 /\ left' = got'
           \/ UNCHANGED <<pc, off, left>>
        /\ UNCHANGED <<replies, calls, sent, retVal, result>>
    BY <1>3 DEF Recv
  <2>2. net' \in Seq(Character) BY <1>3, ReceivedType
  <2>3. DOMAIN buf' = 0 .. BufSize - 1 BY <1>0, <2>1
  <2>4. got' \in 0 .. BufSize BY <1>0, <2>1
  <2>5. pc' \in {"idle", "recv", "parse"} /\ off' \in Nat /\ left' \in 0 .. BufSize
    BY <1>0, <2>1, <2>4
  <2>6. TypeOK' BY <1>0, <2>1, <2>3, <2>4, <2>5 DEF TypeOK
  <2> QED BY <1>0, <2>1, <2>2, <2>6 DEF Typed
<1>4. CASE TimeOut
  <2>1. /\ pc' = "idle" /\ result' = -2
        /\ UNCHANGED <<replies, calls, sent, net, buf, got, off, left, retVal>>
    BY <1>4 DEF TimeOut
  <2>2. TypeOK' BY <1>0, <2>1 DEF TypeOK
  <2> QED BY <1>0, <2>1, <2>2 DEF Typed
<1>5. CASE ParseLine
  <2> DEFINE c == Check(off, left)
  <2>1. /\ retVal' = c.code
        /\ \/ off' = NextOff /\ left' = NextLeft /\ UNCHANGED <<pc, got, result>>
           \/ /\ UNCHANGED <<off, left>>
              /\ \/ pc' = "recv" /\ got' = 0 /\ UNCHANGED result
                 \/ /\ pc' = "idle" /\ UNCHANGED got
                    /\ result' = IF closed THEN -1 ELSE IF c.rc = 0 THEN 0 ELSE -3
        /\ UNCHANGED <<replies, calls, sent, net, buf>>
    BY <1>5, Zenon DEF ParseLine
  <2>2. retVal' = << >> \/ retVal' \in Digit \X Digit \X Digit
    <3>1. c.code = retVal \/ c.code \in Digit \X Digit \X Digit BY CheckAnswers
    <3> HIDE DEF c
    <3> QED BY <1>0, <2>1, <3>1
  <2>3. NextOff \in Nat /\ NextLeft \in 0 .. BufSize
    <3>1. LineBreak \in 0 .. left BY <1>0, BreakFound
    <3> HIDE DEF LineBreak
    <3>2. LineBreak \in Nat /\ LineBreak =< left /\ left \in Nat /\ left =< BufSize /\ off \in Nat
      BY <1>0, <3>1
    <3> QED BY <1>0, <3>2 DEF NextOff, NextLeft
  <2> HIDE DEF c, NextOff, NextLeft
  <2>4. off' \in Nat /\ left' \in 0 .. BufSize BY <1>0, <2>1, <2>3
  <2>5. pc' \in {"idle", "recv", "parse"} /\ got' \in 0 .. BufSize
    BY <1>0, <2>1
  <2>6. result' \in {0, -1, -2, -3} BY <1>0, <2>1
  <2>7. TypeOK' BY <1>0, <2>1, <2>2, <2>4, <2>5, <2>6 DEF TypeOK
  <2> QED BY <1>0, <2>1, <2>7 DEF Typed
<1>6. CASE Terminated \/ UNCHANGED vars
  <2>1. UNCHANGED vars BY <1>6 DEF Terminated
  <2>2. UNCHANGED <<replies, calls, sent, net, pc, buf, got, off, left, retVal, result>>
    BY <2>1 DEF vars
  <2>3. TypeOK' BY <1>0, <2>2 DEF TypeOK
  <2> QED BY <1>0, <2>2, <2>3 DEF Typed
<1>7. CASE HangUp
  <2>1. UNCHANGED <<replies, calls, sent, net, pc, buf, got, off, left, retVal, result>>
    BY <1>7 DEF HangUp
  <2>2. TypeOK' BY <1>0, <2>1 DEF TypeOK
  <2> QED BY <1>0, <2>1, <2>2 DEF Typed
<1> QED BY <1>1, <1>2, <1>3, <1>4, <1>5, <1>6, <1>7 DEF Next

-----------------------------------------------------------------------------
(* getLineFromSocket, and one turn of the loop behind it *)

\* Line numbers that are in order by where the lines end.
LEMMA EndsOrder ==
  ASSUME NEW r \in Replies, NEW j \in 0 .. Len(r), NEW k \in 0 .. Len(r)
  PROVE  /\ Ends(r, j) \in Nat /\ Ends(r, k) \in Nat
         /\ j =< k => Ends(r, j) =< Ends(r, k)
         /\ j < k => Ends(r, j) + 2 =< Ends(r, k)
<1>1. Ends(r, j) \in Nat /\ Ends(r, k) \in Nat BY LinesType
<1>2. ASSUME j =< k PROVE Ends(r, j) =< Ends(r, k) /\ (j < k => Ends(r, j) + 2 =< Ends(r, k))
  <2>1. j \in 0 .. k
    <3> DEFINE N == Len(r)
    <3>1. j \in 0 .. N /\ k \in 0 .. N OBVIOUS
    <3> HIDE DEF N
    <3> QED BY <1>2, <3>1
  <2> QED BY <2>1, LinesKeep
<1>3. j < k => j =< k
  <2> DEFINE N == Len(r)
  <2>1. j \in 0 .. N /\ k \in 0 .. N OBVIOUS
  <2> HIDE DEF N
  <2> QED BY <2>1
<1> QED BY <1>1, <1>2, <1>3

LEMMA RecvKeeps ==
  ASSUME Typed, NEW r \in Replies, IsReply(r), NEW x \in 1 .. BufSize, Recv(x),
         Gathering(r), ~full', ~lone'
  PROVE  /\ got' < BufSize
         /\ (pc' = "recv" /\ Gathering(r)') \/ (pc' = "parse" /\ got' # 2 /\ Parsing(r)')
<1> DEFINE c == Chars(r)
           N == Len(r)
<1>1. PICK n \in 1 .. N + 1 :
        /\ NetFrom(r, Ends(r, n - 1) + got)
        /\ BufFrom(r, Ends(r, n - 1))
        /\ CodeSeen(r, n)
  BY DEF Gathering
<1> DEFINE a == Ends(r, n - 1)
<1>N. N \in Nat /\ n - 1 \in 0 .. N /\ n \in Nat /\ n >= 1
  <2>1. N \in Nat BY CodeType
  <2> HIDE DEF N
  <2> QED BY <2>1
<1>a. a \in Nat BY <1>N, LinesType
<1>c. Len(c) \in Nat
  <2>1. Len(c) = Ends(r, N) /\ N \in 0 .. N BY <1>N, AllLines
  <2> QED BY <2>1, LinesType
<1>2. /\ a + got + Len(net) = Len(c)
      /\ \A i \in 1 .. Len(net) : net[i] = c[a + got + i]
      /\ \A i \in 0 .. got - 1 : buf[i] = c[a + i + 1]
  BY <1>1 DEF NetFrom, BufFrom
<1>3. /\ got \in Nat /\ BufSize \in Nat /\ Len(net) \in Nat /\ DOMAIN buf = 0 .. BufSize - 1
  BY Bounds DEF Typed, TypeOK
<1>4. /\ x \in Nat /\ x >= 1 /\ x =< Len(net) /\ got + x =< BufSize
      /\ Len(net') = Len(net) - x
      /\ \A i \in 1 .. Len(net) - x : net'[i] = net[x + i]
  BY ReceivedType
<1>5. /\ pc = "recv" /\ got' = got + x /\ multi' = multi /\ retVal' = retVal
      /\ buf' = [i \in DOMAIN buf |-> IF i \in got .. got + x - 1 THEN net[i - got + 1] ELSE buf[i]]
      /\ full' = (full \/ got' = BufSize)
      /\ IF got' = BufSize \/ EndsLine(buf', got')
           THEN pc' = "parse" /\ off' = 0 /\ left' = got'
           ELSE UNCHANGED <<pc, off, left>>
  BY DEF Recv
<1>l. EndsLine(buf', got') => got' # 2 BY Zenon DEF Recv
<1> HIDE DEF c, N, a
<1>g. got' = got + x /\ got' # BufSize BY <1>5, Zenon
<1>6. got' \in Nat /\ got' >= 1 /\ got' < BufSize BY <1>3, <1>4, <1>g
<1>7. \A i \in 0 .. got' - 1 : buf'[i] = c[a + i + 1]
  <2>1. ASSUME NEW i \in 0 .. got' - 1 PROVE buf'[i] = c[a + i + 1]
    <3>1. i \in DOMAIN buf /\ i \in Nat BY <1>3, <1>6
    <3>2. CASE i < got
      <4>1. i \notin got .. got + x - 1 /\ i \in 0 .. got - 1 BY <1>3, <3>1, <3>2
      <4>2. buf'[i] = buf[i] BY <1>5, <3>1, <4>1
      <4> QED BY <1>2, <4>1, <4>2
    <3>3. CASE ~(i < got)
      <4>1. /\ i \in got .. got + x - 1 /\ i - got + 1 \in 1 .. Len(net)
            /\ a + got + (i - got + 1) = a + i + 1
        BY <1>a, <1>3, <1>4, <1>5, <3>1, <3>3
      <4>2. buf'[i] = net[i - got + 1] BY <1>5, <3>1, <4>1
      <4>3. net[i - got + 1] = c[a + got + (i - got + 1)] BY <1>2, <4>1
      <4> QED BY <4>1, <4>2, <4>3
    <3> QED BY <3>2, <3>3
  <2> QED BY <2>1
<1>8. /\ a + got' + Len(net') = Len(c) /\ Len(net') \in Nat
      /\ \A i \in 1 .. Len(net') : net'[i] = c[a + got' + i]
  <2>1. a + got' + Len(net') = Len(c) /\ Len(net') \in Nat
    <3> DEFINE l == Len(net')
               m == Len(net)
               g == got'
               d == Len(c)
    <3>1. /\ l = m - x /\ m \in Nat /\ x \in Nat /\ x =< m /\ g = got + x /\ got \in Nat
          /\ a + got + m = d /\ a \in Nat
      BY <1>a, <1>2, <1>3, <1>4, <1>g
    <3> HIDE DEF l, m, g, d
    <3>2. a + g + l = d /\ l \in Nat BY <3>1
    <3> QED BY <3>2 DEF g, l, d
  <2>2. ASSUME NEW i \in 1 .. Len(net') PROVE net'[i] = c[a + got' + i]
    <3> DEFINE l == Len(net')
               m == Len(net)
    <3>1. i \in 1 .. l /\ l = m - x /\ m \in Nat BY <1>3, <1>4
    <3> HIDE DEF l, m
    <3>2. i \in 1 .. m - x /\ x + i \in 1 .. m /\ a + got + (x + i) = a + got' + i
      BY <1>a, <1>3, <1>4, <1>5, <3>1
    <3>3. net'[i] = net[x + i] BY <1>4, <3>2 DEF m
    <3>4. net[x + i] = c[a + got + (x + i)] BY <1>2, <3>2 DEF m
    <3> QED BY <3>2, <3>3, <3>4
  <2> QED BY <2>1, <2>2
<1>9. BufFrom(r, a)' /\ CodeSeen(r, n)'
  <2>1. BufFrom(r, a)'
    <3>1. \A i \in 0 .. got' - 1 : buf'[i] = Chars(r)[Ends(r, n - 1) + i + 1]
      BY <1>7 DEF c, a
    <3> QED BY <3>1 DEF BufFrom, a
  <2>2. CodeSeen(r, n)' BY <1>1, <1>5 DEF CodeSeen
  <2> QED BY <2>1, <2>2
<1>10. CASE EndsLine(buf', got')
  <2>1. pc' = "parse" /\ off' = 0 /\ left' = got' BY <1>5, <1>10
  <2>2. got' >= 2 /\ buf'[got' - 2] = CR /\ buf'[got' - 1] = LF BY <1>10 DEF EndsLine
  <2> DEFINE p == a + got' - 1
  <2>3. /\ p \in Nat /\ p >= 1 /\ p + 1 = a + got' /\ p + 1 =< Len(c)
        /\ got' - 2 \in 0 .. got' - 1 /\ got' - 1 \in 0 .. got' - 1
        /\ a + (got' - 2) + 1 = p /\ a + (got' - 1) + 1 = p + 1
    <3> DEFINE g == got'
               d == Len(c)
               l == Len(net')
    <3>1. a \in Nat /\ g \in Nat /\ g >= 2 /\ l \in Nat /\ d \in Nat /\ a + g + l = d
      BY <1>a, <1>6, <1>8, <1>c, <2>2
    <3>2. p = a + g - 1 OBVIOUS
    <3> HIDE DEF g, d, l, p
    <3>3. /\ p \in Nat /\ p >= 1 /\ p + 1 = a + g /\ p + 1 =< d
          /\ g - 2 \in 0 .. g - 1 /\ g - 1 \in 0 .. g - 1
          /\ a + (g - 2) + 1 = p /\ a + (g - 1) + 1 = p + 1
      BY <3>1, <3>2
    <3> QED BY <3>3 DEF g, d
  <2> HIDE DEF p
  <2>4. c[p] = CR /\ c[p + 1] = LF BY <1>7, <2>2, <2>3
  <2>5. PICK k \in 1 .. N : p + 1 = Ends(r, k)
    BY <2>3, <2>4, ReplyUnbroken, BreakIsEnd DEF c, N
  <2>6. k \in Nat /\ k \in 0 .. N /\ k >= 1 BY <1>N
  <2>7. n =< k
    <3>1. CASE k =< n - 1
      <4>1. Ends(r, k) =< a BY <1>N, <2>6, <3>1, EndsOrder DEF a, N
      <4>2. Ends(r, k) = a + got' BY <2>3, <2>5
      <4>3. a + got' =< a BY <4>1, <4>2
      <4> DEFINE g == got'
      <4>4. g \in Nat /\ g >= 1 /\ a + g =< a BY <1>6, <4>3
      <4> HIDE DEF g
      <4>5. FALSE BY <1>a, <4>4
      <4> QED BY <4>5
    <3>2. CASE ~(k =< n - 1) BY <1>N, <2>6, <3>2
    <3> QED BY <3>1, <3>2
  <2>8. n \in 1 .. N /\ k \in n .. N BY <1>N, <2>6, <2>7
  <2>9. Ends(r, k) = a + got' BY <2>3, <2>5
  <2>10. NetFrom(r, Ends(r, k))'
    <3>1. /\ Ends(r, k) + Len(net') = Len(Chars(r))
          /\ \A i \in 1 .. Len(net') : net'[i] = Chars(r)[Ends(r, k) + i]
      BY <1>8, <2>9 DEF c
    <3> QED BY <3>1 DEF NetFrom
  <2>11. got' = Ends(r, k) - Ends(r, n - 1)
    <3> DEFINE g == got'
               e == Ends(r, k)
    <3>1. g \in Nat /\ e = a + g BY <1>6, <2>9
    <3> HIDE DEF g, e
    <3>2. g = e - a BY <1>a, <3>1
    <3> QED BY <3>2 DEF a, g, e
  <2>12. Received(r, n, k)'
    BY <1>9, <2>8, <2>10, <2>11 DEF Received, N, a
  <2>13. AtLine(r, n, k, n)'
    <3>1. n \in n .. k BY <1>N, <2>6, <2>7
    <3>2. off' = Ends(r, n - 1) - Ends(r, n - 1) BY <1>a, <2>1 DEF a
    <3>3. left' = got' - off' + 2 * (n - n)
      <4> DEFINE g == got'
      <4>1. g \in Nat /\ n - n = 0 /\ left' = g /\ off' = 0 BY <1>N, <1>6, <2>1
      <4> HIDE DEF g
      <4>2. g - 0 + 2 * 0 = g BY <4>1
      <4>3. left' = g - off' + 2 * (n - n) BY <4>1, <4>2
      <4> QED BY <4>3 DEF g
    <3> QED BY <1>9, <3>1, <3>2, <3>3 DEF AtLine
  <2>14. Parsing(r)'
    <3>1. n \in 1 .. Len(r) /\ k \in 1 .. Len(r) BY <2>5, <2>8 DEF N
    <3> QED BY <2>12, <2>13, <3>1 DEF Parsing
  <2> QED BY <1>6, <1>l, <1>10, <2>1, <2>14
<1>11. CASE ~EndsLine(buf', got')
  <2>1. pc' = "recv" BY <1>5, <1>6, <1>11
  <2>2. NetFrom(r, a + got)'
    <3>1. /\ Ends(r, n - 1) + got' + Len(net') = Len(Chars(r))
          /\ \A i \in 1 .. Len(net') : net'[i] = Chars(r)[Ends(r, n - 1) + got' + i]
      BY <1>8 DEF c, a
    <3> QED BY <3>1 DEF NetFrom, a
  <2>3. Gathering(r)'
    <3>1. n \in 1 .. Len(r) + 1 BY DEF N
    <3> QED BY <1>9, <2>2, <3>1 DEF Gathering, a
  <2> QED BY <1>6, <2>1, <2>3
<1> QED BY <1>10, <1>11

\* Where the loop is in the buffer when it is at line j.
Place(r, n, m, j) ==
  /\ j \in 1 .. Len(r) /\ n \in Nat /\ m \in Nat /\ j \in Nat /\ n >= 1
  /\ n =< j /\ j =< m /\ m =< Len(r) /\ Len(r) \in Nat
  /\ Len(r[j]) \in Nat /\ off \in Nat /\ left \in Nat /\ got \in Nat
  /\ off = Ends(r, j - 1) - Ends(r, n - 1)
  /\ off + Len(r[j]) + 2 = Ends(r, j) - Ends(r, n - 1)
  /\ Ends(r, n - 1) \in Nat /\ Ends(r, j - 1) \in Nat /\ Ends(r, j) \in Nat
  /\ off + Len(r[j]) + 2 =< got
  /\ j < m => off + Len(r[j]) + 4 =< got
  /\ j = m => off + Len(r[j]) + 2 = got
  /\ left = got - off + 2 * (j - n) /\ left >= Len(r[j]) + 2

LEMMA LinePlace ==
  ASSUME Typed, NEW r \in Replies, IsReply(r), NEW n, NEW m, NEW j,
         Received(r, n, m), AtLine(r, n, m, j)
  PROVE  Place(r, n, m, j)
<1> DEFINE N == Len(r)
           L == Len(r[j])
           a == Ends(r, n - 1)
           b == Ends(r, j - 1)
           e == Ends(r, j)
           f == Ends(r, m)
<1>1. n \in 1 .. N /\ m \in n .. N /\ j \in n .. m /\ got = f - a
      /\ off = b - a /\ left = got - off + 2 * (j - n)
  BY DEF Received, AtLine
<1>2. N \in Nat BY CodeType
<1>3. off \in Nat /\ left \in Nat /\ got \in Nat BY Bounds DEF Typed, TypeOK
<1> HIDE DEF N
<1>4. /\ n \in Nat /\ m \in Nat /\ j \in Nat /\ n >= 1 /\ n =< j /\ j =< m /\ m =< N
      /\ j \in 1 .. N
      /\ n - 1 \in 0 .. N /\ j - 1 \in 0 .. N /\ j \in 0 .. N /\ m \in 0 .. N
  BY <1>1, <1>2
<1>5. L \in Nat /\ e = b + L + 2 BY <1>4, Layout DEF N
<1>6. /\ a \in Nat /\ b \in Nat /\ e \in Nat /\ f \in Nat
      /\ e =< f /\ (j < m => e + 2 =< f)
  <2>1. a \in Nat /\ b \in Nat BY <1>4, LinesType DEF N
  <2>2. e \in Nat /\ f \in Nat /\ e =< f /\ (j < m => e + 2 =< f)
    BY <1>4, EndsOrder DEF N
  <2> QED BY <2>1, <2>2
<1>7. j = m => e = f OBVIOUS
<1> HIDE DEF L, a, b, e, f
<1>8. off + L + 2 = e - a BY <1>1, <1>5, <1>6
<1>9. off + L + 2 =< got /\ (j < m => off + L + 4 =< got) /\ (j = m => off + L + 2 = got)
  BY <1>1, <1>5, <1>6, <1>7
<1>10. left >= L + 2
  <2> DEFINE d == 2 * (j - n)
  <2>1. d \in Nat BY <1>4
  <2>2. left = got - off + d BY <1>1
  <2> HIDE DEF d
  <2> QED BY <1>3, <1>5, <1>9, <2>1, <2>2
<1> QED BY <1>1, <1>2, <1>3, <1>4, <1>5, <1>6, <1>8, <1>9, <1>10 DEF N, L, a, b, e, Place

\* What is there: the line, and its end.
LEMMA LineThere ==
  ASSUME Typed, got < BufSize, NEW r \in Replies, IsReply(r), NEW n, NEW m, NEW j,
         Received(r, n, m), AtLine(r, n, m, j)
  PROVE  /\ \A i \in 1 .. Len(r[j]) : At(off + (i - 1)) = r[j][i]
         /\ At(off + Len(r[j])) = CR /\ At(off + Len(r[j]) + 1) = LF
<1> DEFINE L == Len(r[j])
           a == Ends(r, n - 1)
           b == Ends(r, j - 1)
           e == Ends(r, j)
           c == Chars(r)
<1>1. /\ j \in 1 .. Len(r)
      /\ L \in Nat /\ off \in Nat /\ got \in Nat /\ a \in Nat /\ b \in Nat /\ e \in Nat
      /\ off = b - a /\ off + L + 2 = e - a /\ off + L + 2 =< got
  <2>1. Place(r, n, m, j) BY LinePlace
  <2> QED BY <2>1 DEF Place
<1>2. /\ e = b + L + 2
      /\ \A i \in 1 .. L : c[b + i] = r[j][i]
      /\ c[e - 1] = CR /\ c[e] = LF
  BY <1>1, Layout
<1>3. \A i \in 0 .. got - 1 : buf[i] = c[a + i + 1] BY DEF Received, BufFrom
<1>4. BufSize \in Nat BY Bounds
<1> HIDE DEF L, a, b, e, c, CR, LF
<1>5. ASSUME NEW h \in 1 .. L + 2 PROVE At(off + (h - 1)) = c[b + h]
  <2>1. /\ off + (h - 1) \in 0 .. got - 1 /\ off + (h - 1) < BufSize
        /\ a + (off + (h - 1)) + 1 = b + h
    BY <1>1, <1>4
  <2>2. At(off + (h - 1)) = buf[off + (h - 1)] BY <2>1 DEF At
  <2>3. buf[off + (h - 1)] = c[a + (off + (h - 1)) + 1] BY <1>3, <2>1
  <2> QED BY <2>1, <2>2, <2>3
<1>6. ASSUME NEW i \in 1 .. L PROVE At(off + (i - 1)) = r[j][i]
  <2>1. i \in 1 .. L + 2 BY <1>1
  <2> QED BY <1>2, <1>5, <2>1
<1>7. At(off + L) = CR
  <2>1. L + 1 \in 1 .. L + 2 /\ off + ((L + 1) - 1) = off + L /\ b + (L + 1) = e - 1
    BY <1>1, <1>2
  <2> QED BY <1>2, <1>5, <2>1
<1>8. At(off + L + 1) = LF
  <2>1. L + 2 \in 1 .. L + 2 /\ off + ((L + 2) - 1) = off + L + 1 /\ b + (L + 2) = e
    BY <1>1, <1>2
  <2> QED BY <1>2, <1>5, <2>1
<1> QED BY <1>6, <1>7, <1>8 DEF L

\* findNextLineBreak stops at the end of the line.
LEMMA BreakThere ==
  ASSUME Typed, got < BufSize, NEW r \in Replies, IsReply(r), NEW n, NEW m, NEW j,
         Received(r, n, m), AtLine(r, n, m, j)
  PROVE  LineBreak = Len(r[j])
<1> DEFINE L == Len(r[j])
<1>1. /\ j \in 1 .. Len(r) /\ L \in Nat /\ off \in Nat /\ left \in Nat /\ left >= L + 2
  <2>1. Place(r, n, m, j) BY LinePlace
  <2> QED BY <2>1 DEF Place
<1>2. /\ \A i \in 1 .. L : At(off + (i - 1)) = r[j][i]
      /\ At(off + L) = CR /\ At(off + L + 1) = LF
  BY LineThere
<1>u. \A i \in 1 .. L - 1 : ~(r[j][i] = CR /\ r[j][i + 1] = LF)
  BY <1>1, ReplyUnbroken DEF Unbroken
<1>3. LineBreak \in 0 .. left /\ LineBreak \in Breaks /\ \A i \in Breaks : LineBreak =< i
  BY <1>1, BreakFound
<1> HIDE DEF L, LineBreak, CR, LF
<1>4. L \in Breaks BY <1>1, <1>2 DEF Breaks
<1>5. ASSUME NEW i \in Breaks, i < L PROVE FALSE
  <2>1. i \in 0 .. left /\ (left - i =< 2 \/ (At(off + i) = CR /\ At(off + i + 1) = LF))
    BY DEF Breaks
  <2>2. i \in Nat /\ ~(left - i =< 2) BY <1>1, <1>5, <2>1
  <2>3. At(off + i) = CR /\ At(off + i + 1) = LF BY <2>1, <2>2
  <2>4. i + 1 \in 1 .. L /\ off + ((i + 1) - 1) = off + i BY <1>1, <1>5, <2>2
  <2>5. r[j][i + 1] = CR BY <1>2, <2>3, <2>4
  <2>6. CASE i + 1 < L
    <3>1. i + 2 \in 1 .. L /\ off + ((i + 2) - 1) = off + i + 1 /\ i + 1 \in 1 .. L - 1
          /\ (i + 1) + 1 = i + 2
      BY <1>1, <2>2, <2>6
    <3>2. At(off + ((i + 2) - 1)) = r[j][i + 2] BY <1>2, <3>1
    <3>3. r[j][(i + 1) + 1] = LF BY <2>3, <3>1, <3>2
    <3> QED BY <1>u, <2>5, <3>1, <3>3
  <2>7. CASE i + 1 = L
    <3>1. off + i + 1 = off + L BY <1>1, <2>2, <2>7
    <3> QED BY <1>2, <2>3, <3>1, CRLF
  <2> QED BY <1>1, <2>2, <1>5, <2>6, <2>7
<1>6. LineBreak =< L /\ ~(LineBreak < L) BY <1>3, <1>4, <1>5
<1>7. LineBreak = L BY <1>1, <1>3, <1>6
<1> QED BY <1>7 DEF L

\* What checkforFTPResponse makes of a line of the reply: the code, and the end of
\* the reply if and only if it is the last line.
LEMMA CheckLine ==
  ASSUME Typed, got < BufSize, got # 2, NEW r \in Replies, IsReply(r), NEW n, NEW m, NEW j,
         Received(r, n, m), AtLine(r, n, m, j)
  PROVE  /\ Check(off, left).code = CodeOf(r)
         /\ \/ Check(off, left).rc = 0 /\ ~Check(off, left).multi /\ j = Len(r)
            \/ Check(off, left).rc \in {1, 2} /\ Check(off, left).multi
<1> DEFINE L == Len(r[j])
           Coda == CodeOf(r)
           ck == Check(off, left)
<1>1. /\ j \in 1 .. Len(r) /\ j \in Nat /\ L \in Nat /\ off \in Nat /\ left \in Nat
      /\ left >= L + 2
  <2>1. Place(r, n, m, j) BY LinePlace
  <2> QED BY <2>1 DEF Place
<1>p. left > 2
  <2> DEFINE b == Ends(r, n - 1)
             d == Ends(r, j - 1)
  <2>1. /\ n \in Nat /\ m \in Nat /\ n =< j /\ j =< m /\ got \in Nat
        /\ off = d - b /\ b \in Nat /\ d \in Nat
        /\ off + L + 2 =< got
        /\ (j < m => off + L + 4 =< got) /\ (j = m => off + L + 2 = got)
        /\ left = got - off + 2 * (j - n)
    <3>1. Place(r, n, m, j) BY LinePlace
    <3> QED BY <3>1 DEF Place
  <2>2. n = j => d = b OBVIOUS
  <2> HIDE DEF L, b, d
  <2> DEFINE f == j - n
  <2>3. f \in Nat /\ left = got - off + 2 * f BY <1>1, <2>1
  <2>4. CASE n = j
    <3>1. off = 0 /\ f = 0 BY <1>1, <2>1, <2>2, <2>4
    <3>2. left = got BY <2>1, <2>3, <3>1
    <3> QED BY <1>1, <2>1, <3>1, <3>2
  <2>5. CASE n # j
    <3>1. f >= 1 BY <1>1, <2>1, <2>5
    <3> HIDE DEF f
    <3> QED BY <1>1, <2>1, <2>3, <3>1
  <2> QED BY <2>4, <2>5
<1>2. /\ \A i \in 1 .. L : At(off + (i - 1)) = r[j][i]
      /\ At(off + L) = CR /\ At(off + L + 1) = LF
  BY LineThere
<1>3. (multi <=> j > 1) /\ (multi => retVal = Coda) BY DEF AtLine, CodeSeen
<1>4. /\ Coda = <<r[1][1], r[1][2], r[1][3]>> BY CodeType
<1>5. \/ Coded(r, j) /\ Hyphenated(r, j)
      \/ Coded(r, j) /\ ~Hyphenated(r, j) /\ j = Len(r)
      \/ ~Numbered(r[j]) /\ j > 1 /\ j < Len(r)
  BY <1>1, LineKinds
<1> HIDE DEF Coda
<1>6. ASSUME Coded(r, j)
      PROVE  /\ Three(off) = Coda /\ ~(left =< 2)
             /\ ~\E i \in 1 .. 3 : Three(off)[i] \notin Digit
             /\ left > 3 /\ (At(off + 3) = "-" <=> Hyphenated(r, j))
  <2>1. L >= 3 /\ \A i \in 1 .. 3 : r[j][i] = r[1][i] /\ r[j][i] \in Digit
    BY <1>6 DEF Coded
  <2>h. Hyphenated(r, j) <=> L > 3 /\ r[j][4] = "-" BY DEF Hyphenated
  <2> HIDE DEF L
  <2>2. 1 \in 1 .. L /\ 2 \in 1 .. L /\ 3 \in 1 .. L
        /\ off + (1 - 1) = off /\ off + (2 - 1) = off + 1 /\ off + (3 - 1) = off + 2
    BY <1>1, <2>1
  <2>3. At(off) = r[j][1] /\ At(off + 1) = r[j][2] /\ At(off + 2) = r[j][3]
    <3>1. /\ At(off + (1 - 1)) = r[j][1] /\ At(off + (2 - 1)) = r[j][2]
          /\ At(off + (3 - 1)) = r[j][3]
      BY <1>2, <2>2
    <3> QED BY <2>2, <3>1
  <2>4. 1 \in 1 .. 3 /\ 2 \in 1 .. 3 /\ 3 \in 1 .. 3 OBVIOUS
  <2>5. At(off) = r[1][1] /\ At(off + 1) = r[1][2] /\ At(off + 2) = r[1][3]
    BY <2>1, <2>3, <2>4
  <2>6. Three(off) = Coda BY <1>4, <2>5, Zenon DEF Three
  <2>7. ASSUME NEW i \in 1 .. 3 PROVE Three(off)[i] \in Digit
    <3>1. At(off) \in Digit /\ At(off + 1) \in Digit /\ At(off + 2) \in Digit
      BY <2>1, <2>3, <2>4
    <3>2. i = 1 \/ i = 2 \/ i = 3 OBVIOUS
    <3>3. /\ Three(off)[1] = At(off) /\ Three(off)[2] = At(off + 1)
          /\ Three(off)[3] = At(off + 2)
      BY DEF Three
    <3> HIDE DEF Three
    <3> QED BY <3>1, <3>2, <3>3
  <2>8. left > 3 /\ ~(left =< 2) BY <1>1, <2>1
  <2>9. CASE L > 3
    <3>1. 4 \in 1 .. L /\ off + (4 - 1) = off + 3 BY <1>1, <2>9
    <3>2. At(off + (4 - 1)) = r[j][4] BY <1>2, <3>1
    <3>3. At(off + 3) = r[j][4] BY <3>1, <3>2
    <3> QED BY <2>6, <2>7, <2>8, <2>9, <2>h, <3>3
  <2>10. CASE ~(L > 3)
    <3>1. L = 3 BY <1>1, <2>1, <2>10
    <3>2. At(off + 3) = CR BY <1>2, <3>1
    <3>3. CR # "-" BY DEF CR
    <3> QED BY <2>6, <2>7, <2>8, <2>10, <2>h, <3>2, <3>3
  <2> QED BY <2>9, <2>10
<1>7. CASE Coded(r, j) /\ Hyphenated(r, j)
  <2>1. ck = [rc |-> 1, multi |-> TRUE, code |-> Three(off)]
    BY <1>6, <1>7, Zenon DEF Check
  <2>2. ck.rc = 1 /\ ck.multi = TRUE /\ ck.code = Coda BY <1>6, <1>7, <2>1
  <2> HIDE DEF ck
  <2>3. ck.code = Coda /\ ck.rc \in {1, 2} /\ ck.multi BY <2>2
  <2> QED BY <2>3 DEF ck, Coda
<1>8. CASE Coded(r, j) /\ ~Hyphenated(r, j) /\ j = Len(r)
  <2>1. ck = [rc |-> IF multi /\ retVal # Three(off) THEN -3 ELSE 0,
              multi |-> FALSE, code |-> Three(off)]
    BY <1>6, <1>8, Zenon DEF Check
  <2>2. ~(multi /\ retVal # Three(off)) BY <1>3, <1>6, <1>8
  <2>3. ck.rc = 0 /\ ck.multi = FALSE /\ ck.code = Coda BY <1>6, <1>8, <2>1, <2>2
  <2> HIDE DEF ck
  <2>4. ck.code = Coda /\ ck.rc = 0 /\ ~ck.multi BY <2>3
  <2> QED BY <1>8, <2>4 DEF ck, Coda
<1>9. CASE ~Numbered(r[j]) /\ j > 1 /\ j < Len(r)
  <2>1. ~(left =< 2) BY <1>1, <1>p
  <2>2. 1 \in 1 .. 3 /\ 2 \in 1 .. 3 /\ 3 \in 1 .. 3 OBVIOUS
  <2>t. /\ Three(off)[1] = At(off) /\ Three(off)[2] = At(off + 1)
        /\ Three(off)[3] = At(off + 2)
    BY DEF Three
  <2>c. CR \notin Digit BY FtpReplies
  <2>3. \E i \in 1 .. 3 : Three(off)[i] \notin Digit
    <3> HIDE DEF L, Three, CR
    <3>1. CASE L = 0
      <4>1. At(off) = CR BY <1>1, <1>2, <3>1
      <4> QED BY <2>2, <2>t, <2>c, <4>1
    <3>2. CASE L = 1
      <4>1. At(off + 1) = CR BY <1>2, <3>2
      <4> QED BY <2>2, <2>t, <2>c, <4>1
    <3>3. CASE L = 2
      <4>1. At(off + 2) = CR BY <1>2, <3>3
      <4> QED BY <2>2, <2>t, <2>c, <4>1
    <3>4. CASE L >= 3
      <4>1. PICK i \in 1 .. 3 : r[j][i] \notin Digit BY <1>9, <3>4 DEF Numbered, L
      <4>2. i \in 1 .. L BY <1>1, <3>4
      <4>3. At(off + (i - 1)) = r[j][i] BY <1>2, <4>2
      <4>4. i = 1 \/ i = 2 \/ i = 3 OBVIOUS
      <4>5. off + (1 - 1) = off /\ off + (2 - 1) = off + 1 /\ off + (3 - 1) = off + 2
        BY <1>1
      <4>6. Three(off)[i] = r[j][i] BY <2>t, <4>3, <4>4, <4>5
      <4> QED BY <4>1, <4>6
    <3>5. L = 0 \/ L = 1 \/ L = 2 \/ L >= 3 BY <1>1
    <3> QED BY <3>1, <3>2, <3>3, <3>4, <3>5
  <2>4. ck = [rc |-> IF multi THEN 2 ELSE -1, multi |-> multi, code |-> retVal]
    BY <2>1, <2>3, Zenon DEF Check
  <2>5. ck.rc = 2 /\ ck.multi = multi /\ ck.code = Coda BY <1>3, <1>9, <2>4
  <2> HIDE DEF ck
  <2>6. ck.code = Coda /\ ck.rc \in {1, 2} /\ ck.multi BY <1>3, <1>9, <2>5
  <2> QED BY <2>6 DEF ck, Coda
<1> QED BY <1>5, <1>7, <1>8, <1>9

\* After line m getLineFromSocket goes on with line m + 1.
LEMMA GatherNext ==
  ASSUME NEW r \in Replies, IsReply(r), NEW n, NEW m, Received(r, n, m),
         net' = net, got' = 0, multi' = TRUE, retVal' = CodeOf(r)
  PROVE  Gathering(r)'
<1> DEFINE N == Len(r)
<1>1. n \in 1 .. N /\ m \in n .. N /\ NetFrom(r, Ends(r, m)) BY DEF Received
<1>2. N \in Nat BY CodeType
<1> HIDE DEF N
<1>3. m + 1 \in 1 .. N + 1 /\ (m + 1) - 1 = m /\ m + 1 > 1 /\ m \in 0 .. N BY <1>1, <1>2
<1>4. Ends(r, m) \in Nat /\ Ends(r, m) + 0 = Ends(r, m)
  <2>1. Ends(r, m) \in Nat BY <1>3, LinesType DEF N
  <2> QED BY <2>1
<1>5. NetFrom(r, Ends(r, (m + 1) - 1) + got)'
  <2>1. /\ Ends(r, m) + Len(net') = Len(Chars(r))
        /\ \A i \in 1 .. Len(net') : net'[i] = Chars(r)[Ends(r, m) + i]
    BY <1>1 DEF NetFrom
  <2>2. Ends(r, (m + 1) - 1) + got' = Ends(r, m) BY <1>3, <1>4
  <2> QED BY <2>1, <2>2 DEF NetFrom
<1>6. BufFrom(r, Ends(r, (m + 1) - 1))'
  <2>1. 0 .. got' - 1 = {} OBVIOUS
  <2> QED BY <2>1 DEF BufFrom
<1>7. CodeSeen(r, m + 1)' BY <1>3 DEF CodeSeen
<1>8. m + 1 \in 1 .. Len(r) + 1 BY <1>3 DEF N
<1> QED BY <1>5, <1>6, <1>7, <1>8 DEF Gathering

LEMMA ReceivedKept ==
  ASSUME NEW r, NEW n, NEW m, Received(r, n, m), net' = net, got' = got, buf' = buf
  PROVE  Received(r, n, m)'
<1>1. NetFrom(r, Ends(r, m))'
  <2>1. NetFrom(r, Ends(r, m)) BY DEF Received
  <2> QED BY <2>1 DEF NetFrom
<1>2. BufFrom(r, Ends(r, n - 1))'
  <2>1. BufFrom(r, Ends(r, n - 1)) BY DEF Received
  <2> QED BY <2>1 DEF BufFrom
<1> QED BY <1>1, <1>2 DEF Received

\* One turn of the loop, as far as the invariant is concerned.
Turned(r) ==
  \/ pc' = "parse" /\ got' = got /\ Parsing(r)'
  \/ pc' = "recv" /\ got' = 0 /\ Gathering(r)'
  \/ /\ pc' = "idle" /\ got' = got /\ (result' = 0 \/ (result' = -1 /\ closed))
     /\ retVal' = CodeOf(r) /\ net' = << >>

LEMMA TurnEffect ==
  ASSUME ParseLine
  PROVE  /\ pc = "parse"
         /\ multi' = Check(off, left).multi /\ retVal' = Check(off, left).code
         /\ misread' = (misread \/ (off >= got /\ Check(off, left).rc # 2))
         /\ net' = net /\ buf' = buf
         /\ Check(off, left).multi /\ NextLeft > 2 =>
              off' = NextOff /\ left' = NextLeft /\ pc' = pc /\ got' = got
         /\ ~(Check(off, left).multi /\ NextLeft > 2) =>
              /\ Check(off, left).rc \in {1, 2} => pc' = "recv" /\ got' = 0
              /\ Check(off, left).rc = 0 =>
                   pc' = "idle" /\ got' = got /\ result' = IF closed THEN -1 ELSE 0
<1> DEFINE c == Check(off, left)
           g == c.multi /\ NextLeft > 2
<1>1. /\ pc = "parse"
      /\ multi' = c.multi /\ retVal' = c.code
      /\ misread' = (misread \/ (off >= got /\ c.rc # 2))
      /\ UNCHANGED <<replies, calls, sent, net, closed, buf, inStep, full, lone>>
      /\ IF g THEN off' = NextOff /\ left' = NextLeft /\ UNCHANGED <<pc, got, result>>
              ELSE /\ UNCHANGED <<off, left>>
                   /\ IF c.rc \in {1, 2}
                        THEN pc' = "recv" /\ got' = 0 /\ UNCHANGED result
                        ELSE /\ pc' = "idle" /\ UNCHANGED got
                             /\ result' = IF closed THEN -1
                                          ELSE IF c.rc = 0 THEN 0 ELSE -3
  BY Zenon DEF ParseLine
<1> HIDE DEF c, g, NextOff, NextLeft
<1>2. g => off' = NextOff /\ left' = NextLeft /\ pc' = pc /\ got' = got BY <1>1
<1>3. ~g => /\ c.rc \in {1, 2} => pc' = "recv" /\ got' = 0
            /\ c.rc = 0 => pc' = "idle" /\ got' = got /\ result' = IF closed THEN -1 ELSE 0
  BY <1>1
<1>4. net' = net /\ buf' = buf BY <1>1
<1> QED BY <1>1, <1>2, <1>3, <1>4, Zenon DEF c, g

LEMMA TurnAtLine ==
  ASSUME Typed, got < BufSize, got # 2, NEW r \in Replies, IsReply(r), NEW n, NEW m, NEW j,
         Received(r, n, m), AtLine(r, n, m, j), ParseLine
  PROVE  Turned(r)
<1> DEFINE c == Check(off, left)
           L == Len(r[j])
           N == Len(r)
           a == Ends(r, n - 1)
           e == Ends(r, j)
<1>1. /\ pc = "parse"
      /\ multi' = c.multi /\ retVal' = c.code
      /\ net' = net /\ buf' = buf
      /\ c.multi /\ NextLeft > 2 =>
           off' = NextOff /\ left' = NextLeft /\ pc' = pc /\ got' = got
      /\ ~(c.multi /\ NextLeft > 2) =>
           /\ c.rc \in {1, 2} => pc' = "recv" /\ got' = 0
           /\ c.rc = 0 => pc' = "idle" /\ got' = got /\ result' = IF closed THEN -1 ELSE 0
  BY TurnEffect, Zenon
<1>2. /\ c.code = CodeOf(r)
      /\ \/ c.rc = 0 /\ ~c.multi /\ j = N
         \/ c.rc \in {1, 2} /\ c.multi
  BY CheckLine
<1>3. /\ j \in 1 .. N /\ n \in Nat /\ m \in Nat /\ j \in Nat /\ n >= 1
      /\ n =< j /\ j =< m /\ m =< N /\ N \in Nat
      /\ L \in Nat /\ off \in Nat /\ left \in Nat /\ got \in Nat
      /\ off + L + 2 = e - a /\ a \in Nat /\ e \in Nat
      /\ off + L + 2 =< got
      /\ (j < m => off + L + 4 =< got)
      /\ (j = m => off + L + 2 = got)
      /\ left = got - off + 2 * (j - n)
  <2>1. Place(r, n, m, j) BY LinePlace
  <2> QED BY <2>1 DEF Place
<1>4. NextOff = off + L + 2 /\ NextLeft = left - L BY BreakThere DEF NextOff, NextLeft
<1>5. retVal' = CodeOf(r) BY <1>1, <1>2
<1> HIDE DEF c, L, N, a, e, NextOff, NextLeft
<1>6. /\ NextOff \in Nat /\ NextOff = e - a
      /\ NextLeft = got - NextOff + 2 * ((j + 1) - n)
      /\ 2 * ((j + 1) - n) \in Nat /\ 2 * ((j + 1) - n) >= 2
      /\ (j < m => NextLeft > 2)
      /\ (j = m => NextOff = got)
  <2> DEFINE d == j - n
             f == got - off
  <2>1. d \in Nat /\ (j + 1) - n = d + 1 BY <1>3
  <2>2. f \in Nat /\ f >= L + 2 /\ (j < m => f >= L + 4) BY <1>3
  <2>3. left = f + 2 * d BY <1>3
  <2>4. NextOff \in Nat /\ NextOff = e - a /\ got - NextOff = f - (L + 2) BY <1>3, <1>4
  <2>5. j = m => NextOff = got BY <1>3, <1>4
  <2> HIDE DEF d, f
  <2>6. 2 * (d + 1) \in Nat /\ 2 * (d + 1) >= 2 /\ 2 * (d + 1) = 2 * d + 2 /\ 2 * d \in Nat
    BY <2>1
  <2>7. NextLeft = (f - (L + 2)) + 2 * (d + 1) BY <1>3, <1>4, <2>2, <2>3, <2>6
  <2>8. j < m => NextLeft > 2 BY <1>3, <2>2, <2>6, <2>7
  <2> QED BY <2>1, <2>4, <2>5, <2>6, <2>7, <2>8
<1>7. CASE c.multi /\ NextLeft > 2
  <2>1. /\ off' = NextOff /\ left' = NextLeft /\ pc' = "parse" /\ got' = got /\ multi' = TRUE
    <3>1. off' = NextOff /\ left' = NextLeft /\ pc' = "parse" /\ got' = got BY <1>1, <1>7
    <3>2. c.multi = TRUE BY <1>7
    <3> QED BY <1>1, <3>1, <3>2
  <2>2. Received(r, n, m)' BY <1>1, <2>1, ReceivedKept
  <2>3. n \in 1 .. Len(r) /\ m \in 1 .. Len(r)
    <3>1. n \in 1 .. N /\ m \in 1 .. N BY <1>3
    <3> QED BY <3>1 DEF N
  <2>4. CASE j < m
    <3>1. j + 1 \in n .. m /\ (j + 1) - 1 = j /\ j + 1 > 1 /\ j + 1 \in 1 .. N
      BY <1>3, <2>4
    <3>2. off' = Ends(r, (j + 1) - 1) - Ends(r, n - 1)
      BY <1>6, <2>1, <3>1 DEF e, a
    <3>3. left' = got' - off' + 2 * ((j + 1) - n) BY <1>6, <2>1
    <3>4. CodeSeen(r, j + 1)' BY <1>5, <2>1, <3>1 DEF CodeSeen
    <3>5. AtLine(r, n, m, j + 1)' BY <3>1, <3>2, <3>3, <3>4 DEF AtLine
    <3>6. j + 1 \in 1 .. Len(r) BY <3>1 DEF N
    <3>7. Parsing(r)' BY <2>2, <2>3, <3>5, <3>6 DEF Parsing
    <3> QED BY <2>1, <3>7 DEF Turned
  <2>5. CASE ~(j < m)
    <3>1. j = m BY <1>3, <2>5
    <3>2. off' >= got' BY <1>3, <1>6, <2>1, <3>1
    <3>3. left' > 2 BY <1>7, <2>1
    <3>4. Behind(r)' BY <1>5, <2>1, <3>2, <3>3 DEF Behind
    <3>5. Parsing(r)' BY <2>2, <2>3, <3>4 DEF Parsing
    <3> QED BY <2>1, <3>5 DEF Turned
  <2> QED BY <2>4, <2>5
<1>8. CASE ~(c.multi /\ NextLeft > 2) /\ c.rc \in {1, 2} /\ c.multi
  <2>1. pc' = "recv" /\ got' = 0 BY <1>1, <1>8
  <2>2. j = m BY <1>3, <1>6, <1>8
  <2>3. multi' = TRUE BY <1>1, <1>8
  <2>4. Gathering(r)' BY <1>1, <1>5, <2>1, <2>3, GatherNext
  <2> QED BY <2>1, <2>4 DEF Turned
<1>9. CASE c.rc = 0 /\ ~c.multi /\ j = N
  <2>1. pc' = "idle" /\ got' = got /\ (result' = 0 \/ (result' = -1 /\ closed))
    BY <1>1, <1>9
  <2>2. m = N BY <1>3, <1>9
  <2>3. net = << >>
    <3>1. Ends(r, m) + Len(net) = Len(Chars(r)) BY DEF Received, NetFrom
    <3>2. Len(Chars(r)) = Ends(r, m) BY <2>2, AllLines DEF N
    <3>3. Ends(r, m) \in Nat
      <4>1. m \in 0 .. N BY <1>3
      <4> QED BY <4>1, LinesType DEF N
    <3>4. net \in Seq(Character) BY DEF Typed
    <3> DEFINE f == Ends(r, m)
    <3>5. f \in Nat /\ f + Len(net) = f BY <3>1, <3>2, <3>3
    <3> HIDE DEF f, Character
    <3>6. Len(net) = 0 BY <3>4, <3>5
    <3> QED BY <3>4, <3>6
  <2> QED BY <1>1, <1>5, <2>1, <2>3 DEF Turned
<1> QED BY <1>2, <1>7, <1>8, <1>9

\* Behind what was received only characters that are no code keep the loop going.
LEMMA TurnBehind ==
  ASSUME Typed, NEW r \in Replies, IsReply(r), NEW n, NEW m,
         Received(r, n, m), Behind(r), ParseLine, ~misread'
  PROVE  Turned(r)
<1> DEFINE c == Check(off, left)
<1>1. /\ pc = "parse"
      /\ multi' = c.multi /\ retVal' = c.code
      /\ net' = net /\ buf' = buf
      /\ c.multi /\ NextLeft > 2 =>
           off' = NextOff /\ left' = NextLeft /\ pc' = pc /\ got' = got
      /\ ~(c.multi /\ NextLeft > 2) /\ c.rc \in {1, 2} => pc' = "recv" /\ got' = 0
  BY TurnEffect, Zenon
<1>m. misread' = (misread \/ (off >= got /\ c.rc # 2)) BY TurnEffect, Zenon
<1>2. off >= got /\ multi /\ retVal = CodeOf(r) BY DEF Behind
<1>3. c.rc = 2 BY <1>m, <1>2, Zenon
<1>4. c.multi = multi /\ c.code = retVal BY <1>3, CheckAnswers
<1>5. off \in Nat /\ got \in Nat /\ left \in Nat BY Bounds DEF Typed, TypeOK
<1>6. NextOff \in Nat /\ NextOff >= off
  <2>1. LineBreak \in 0 .. left BY <1>5, BreakFound
  <2> HIDE DEF LineBreak
  <2> QED BY <1>5, <2>1 DEF NextOff
<1>7. Len(r) \in Nat /\ n \in 1 .. Len(r) /\ m \in 1 .. Len(r)
  <2> DEFINE N == Len(r)
  <2>1. N \in Nat /\ n \in 1 .. N /\ m \in n .. N BY CodeType DEF Received
  <2> HIDE DEF N
  <2>2. N \in Nat /\ n \in 1 .. N /\ m \in 1 .. N BY <2>1
  <2> QED BY <2>2 DEF N
<1> HIDE DEF c, NextOff, NextLeft
<1>8. CASE NextLeft > 2
  <2>1. /\ off' = NextOff /\ left' = NextLeft /\ pc' = "parse" /\ got' = got
        /\ multi' = multi /\ retVal' = CodeOf(r)
    BY <1>1, <1>2, <1>4, <1>8
  <2>2. Received(r, n, m)' BY <1>1, <2>1, ReceivedKept
  <2>3. Behind(r)'
    <3>1. off' >= got' BY <1>2, <1>5, <1>6, <2>1
    <3>2. left' > 2 BY <1>8, <2>1
    <3> QED BY <1>2, <2>1, <3>1, <3>2 DEF Behind
  <2>4. Parsing(r)' BY <1>7, <2>2, <2>3 DEF Parsing
  <2> QED BY <2>1, <2>4 DEF Turned
<1>9. CASE ~(NextLeft > 2)
  <2>1. pc' = "recv" /\ got' = 0 BY <1>1, <1>3, <1>9
  <2>2. multi' = TRUE /\ retVal' = CodeOf(r) BY <1>1, <1>2, <1>4
  <2>3. Gathering(r)' BY <1>1, <2>1, <2>2, GatherNext
  <2> QED BY <2>1, <2>3 DEF Turned
<1> QED BY <1>8, <1>9

LEMMA ParseKeeps ==
  ASSUME Typed, got < BufSize, got # 2, NEW r \in Replies, IsReply(r), Parsing(r),
         ParseLine, ~misread'
  PROVE  Turned(r)
<1>1. PICK n, m \in 1 .. Len(r) :
        Received(r, n, m) /\ ((\E j \in 1 .. Len(r) : AtLine(r, n, m, j)) \/ Behind(r))
  BY DEF Parsing
<1>2. ASSUME NEW j \in 1 .. Len(r), AtLine(r, n, m, j) PROVE Turned(r)
  BY <1>1, <1>2, TurnAtLine
<1>3. CASE Behind(r) BY <1>1, <1>3, TurnBehind
<1> QED BY <1>1, <1>2, <1>3

-----------------------------------------------------------------------------
(* Every step keeps the invariant *)

\* What the poll has of its reply when the reply has just been sent.
LEMMA SendKeeps ==
  ASSUME Typed, Whole, SendReply, calls > 0, inStep, ~full, ~lone, ~misread
  PROVE  /\ got < BufSize
         /\ pc = "idle" => result = -2
         /\ pc # "idle" => sent' = calls /\ pc = "recv" /\ Gathering(replies[calls])'
<1>1. /\ sent < calls /\ sent' = sent + 1 /\ net' = net \o Chars(replies[sent + 1])
      /\ UNCHANGED <<replies, calls, pc, buf, got, off, left, multi, retVal, result,
                     inStep, full, lone, misread>>
  BY DEF SendReply, ghosts
<1>2. sent \in Nat /\ calls \in Nat
  <2>1. replies \in Seq(Seq(Seq(STRING))) BY FtpReplies DEF Typed
  <2>2. Len(replies) \in Nat BY <2>1
  <2>3. calls \in 0 .. Len(replies) /\ sent \in 0 .. calls BY DEF Typed, TypeOK
  <2>4. calls \in Nat BY <2>2, <2>3
  <2> QED BY <2>3, <2>4
<1>3. sent # calls BY <1>1, <1>2
<1>4. /\ got < BufSize
      /\ (pc = "idle" => result = -2)
      /\ (pc # "idle" => sent = calls - 1 /\ net = << >> /\ pc = "recv" /\ got = 0 /\ ~multi)
  BY <1>3 DEF Whole, Answered
<1>5. pc \in {"idle", "recv", "parse"} BY DEF Typed, TypeOK
<1>6. ASSUME pc # "idle" PROVE sent' = calls /\ pc = "recv" /\ Gathering(replies[calls])'
  <2>1. sent = calls - 1 /\ net = << >> /\ pc = "recv" /\ got = 0 /\ ~multi BY <1>4, <1>6
  <2>2. sent + 1 = calls BY <1>2, <2>1
  <2>3. calls \in 1 .. Len(replies) BY <2>2, SentType
  <2> DEFINE r == replies[calls]
             C == Chars(r)
  <2>4. r \in Replies /\ IsReply(r) BY <2>3, DialogueType DEF Typed
  <2>5. C \in Seq(Character) /\ Len(C) \in Nat
    <3>1. C \in Seq(Character) BY <2>4, AllLines
    <3> HIDE DEF C, Character
    <3> QED BY <3>1
  <2>6. net' = C
    <3>1. net' = << >> \o C BY <1>1, <2>1, <2>2
    <3> HIDE DEF C, Character
    <3>2. << >> \o C = C BY <2>5
    <3> QED BY <3>1, <3>2
  <2>7. r' = r BY <1>1
  <2>8. Len(r) \in Nat BY <2>4, CodeType
  <2>9. Gathering(r)'
    <3> HIDE DEF r
    <3>0. C = Chars(r) /\ r' = r BY <2>7 DEF C
    <3>1. 1 \in 1 .. Len(r) + 1 BY <2>8
    <3>2. Ends(r, 1 - 1) = 0 BY NoLines
    <3>3. got' = 0 /\ ~multi' BY <1>1, <2>1
    <3>4. 0 + 0 + Len(C) = Len(C) /\ \A i \in 1 .. Len(C) : C[i] = C[0 + 0 + i]
      <4> HIDE DEF C
      <4> QED BY <2>5
    <3>5. NetFrom(r, Ends(r, 1 - 1) + got)'
      BY <2>6, <3>0, <3>2, <3>3, <3>4 DEF NetFrom
    <3>6. BufFrom(r, Ends(r, 1 - 1))'
      <4>1. 0 .. got' - 1 = {} BY <3>3
      <4> QED BY <4>1 DEF BufFrom
    <3>7. CodeSeen(r, 1)' BY <3>3 DEF CodeSeen
    <3> QED BY <3>0, <3>1, <3>5, <3>6, <3>7 DEF Gathering
  <2> QED BY <1>1, <2>1, <2>2, <2>9
<1> QED BY <1>4, <1>6

LEMMA WholeKept == RInv /\ [Next]_vars => Whole'
<1> SUFFICES ASSUME RInv, [Next]_vars PROVE Whole' OBVIOUS
<1>0. Typed /\ Whole /\ TypeOK BY DEF RInv, Typed
<1>t. /\ calls \in 0 .. Len(replies) /\ sent \in 0 .. calls /\ calls \in Nat
      /\ Len(replies) \in Nat /\ replies \in Dialogues
  <2>1. Len(replies) \in Nat BY <1>0, FtpReplies DEF Typed
  <2> QED BY <1>0, <2>1 DEF Typed, TypeOK
<1>r. ASSUME calls > 0 PROVE replies[calls] \in Replies /\ IsReply(replies[calls])
  <2>1. calls \in 1 .. Len(replies) BY <1>t, <1>r
  <2> QED BY <1>t, <2>1, DialogueType
<1> DEFINE r == replies[calls]
<1>1. CASE Poll
  <2>1. /\ calls' = calls + 1 /\ inStep' = (net = << >> /\ sent = calls)
        /\ pc' = "recv" /\ got' = 0 /\ multi' = FALSE
        /\ sent' = sent /\ net' = net
    BY <1>1 DEF Poll
  <2>2. got' < BufSize BY <2>1, Bounds
  <2>3. ASSUME inStep' PROVE sent' = calls' - 1 /\ net' = << >> /\ sent' # calls'
    <3>1. net = << >> /\ sent = calls BY <2>1, <2>3, Zenon
    <3>2. sent' = calls /\ calls' = calls + 1 /\ calls \in Nat BY <1>t, <2>1, <3>1
    <3>3. calls = (calls + 1) - 1 /\ calls # calls + 1 BY <3>2
    <3> QED BY <2>1, <3>1, <3>2, <3>3
  <2> QED BY <2>1, <2>2, <2>3 DEF Whole
<1>2. CASE SendReply
  <2>1. UNCHANGED <<replies, calls, pc, buf, got, off, left, multi, retVal, result,
                    inStep, full, lone, misread>>
    BY <1>2 DEF SendReply, ghosts
  <2>2. SUFFICES ASSUME calls > 0, inStep, ~full, ~lone, ~misread
        PROVE  /\ got < BufSize
               /\ pc = "idle" => result = -2
               /\ pc # "idle" => sent' = calls /\ pc = "recv" /\ Gathering(r)'
    BY <2>1 DEF Whole
  <2> QED BY <1>0, <1>2, <2>2, SendKeeps
<1>3. ASSUME NEW x \in 1 .. BufSize, Recv(x) PROVE Whole'
  <2>1. /\ UNCHANGED <<replies, calls, sent, multi, retVal, result, inStep, misread>>
        /\ pc = "recv" /\ full' = (full \/ got' = BufSize) /\ (lone => lone')
        /\ x =< Len(net)
    BY <1>3 DEF Recv
  <2>2. SUFFICES ASSUME calls > 0, inStep, ~full', ~lone', ~misread
        PROVE  /\ got' < BufSize /\ sent = calls
               /\ \/ pc' = "recv" /\ Gathering(r)'
                  \/ pc' = "parse" /\ got' # 2 /\ Parsing(r)'
    BY <2>1 DEF Whole
  <2>3. ~full /\ ~lone BY <2>1, <2>2
  <2>4. sent = calls
    <3>1. ASSUME sent # calls PROVE FALSE
      <4>1. net = << >> BY <1>0, <2>1, <2>2, <2>3, <3>1 DEF Whole
      <4>2. Len(net) = 0 BY <4>1
      <4>3. x >= 1 /\ x \in Nat BY Bounds
      <4> QED BY <2>1, <4>2, <4>3
    <3> QED BY <3>1
  <2>5. Gathering(r) BY <1>0, <2>1, <2>2, <2>3, <2>4 DEF Whole
  <2>6. r \in Replies /\ IsReply(r) /\ r' = r BY <1>r, <2>1, <2>2
  <2> HIDE DEF r
  <2>7. /\ got' < BufSize
        /\ \/ pc' = "recv" /\ Gathering(r)'
           \/ pc' = "parse" /\ got' # 2 /\ Parsing(r)'
    <3>1. PICK s \in Replies : s = r /\ IsReply(s) BY <2>6
    <3>2. Gathering(s) BY <2>5, <3>1
    <3>3. /\ got' < BufSize
          /\ \/ pc' = "recv" /\ Gathering(s)'
             \/ pc' = "parse" /\ got' # 2 /\ Parsing(s)'
      BY <1>0, <1>3, <2>2, <3>1, <3>2, RecvKeeps
    <3>4. r' = s BY <2>6, <3>1
    <3>5. Gathering(s)' = Gathering(r)' /\ Parsing(s)' = Parsing(r)'
      BY <3>4 DEF Gathering, Parsing, NetFrom, BufFrom, CodeSeen, Received, AtLine, Behind
    <3> QED BY <3>3, <3>5
  <2> QED BY <2>4, <2>7
<1>4. CASE TimeOut
  <2>1. /\ pc' = "idle" /\ result' = -2
        /\ UNCHANGED <<calls, got, inStep, full, lone, misread>>
    BY <1>4 DEF TimeOut, ghosts
  <2> QED BY <1>0, <2>1 DEF Whole
<1>5. CASE ParseLine
  <2>1. /\ UNCHANGED <<replies, calls, sent, net, closed, buf, inStep, full, lone>>
        /\ pc = "parse" /\ (misread => misread')
    BY <1>5, Zenon DEF ParseLine
  <2>2. SUFFICES ASSUME calls > 0, inStep, ~full, ~lone, ~misread'
        PROVE  /\ got' < BufSize /\ sent = calls
               /\ \/ pc' = "parse" /\ got' # 2 /\ Parsing(r)'
                  \/ pc' = "recv" /\ Gathering(r)'
                  \/ pc' = "idle" /\ Answered(r)'
    BY <2>1 DEF Whole
  <2>3. ~misread BY <2>1, <2>2
  <2>4. got < BufSize /\ got # 2 /\ sent = calls /\ Parsing(r)
    BY <1>0, <2>1, <2>2, <2>3 DEF Whole
  <2>5. r \in Replies /\ IsReply(r) /\ r' = r BY <1>r, <2>1, <2>2
  <2> HIDE DEF r
  <2>6. PICK s \in Replies : s = r /\ IsReply(s) BY <2>5
  <2>7. Turned(s)
    <3>1. Parsing(s) BY <2>4, <2>6
    <3> QED BY <1>0, <1>5, <2>2, <2>4, <2>6, <3>1, ParseKeeps
  <2>8. Gathering(s)' = Gathering(r)' /\ Parsing(s)' = Parsing(r)'
    <3>1. r' = s BY <2>5, <2>6
    <3> QED BY <3>1 DEF Gathering, Parsing, NetFrom, BufFrom, CodeSeen, Received, AtLine, Behind
  <2>9. got' < BufSize
    <3>1. got' = got \/ got' = 0 BY <2>7 DEF Turned
    <3> QED BY <2>4, <3>1, Bounds
  <2>10. CASE /\ pc' = "idle" /\ (result' = 0 \/ (result' = -1 /\ closed))
              /\ retVal' = CodeOf(s) /\ net' = << >>
    <3>1. sent' = calls' /\ CodeOf(s) = CodeOf(r') BY <2>1, <2>4, <2>5, <2>6
    <3>c. result' = 0 \/ (result' = -1 /\ closed') BY <2>1, <2>10
    <3>r. retVal' = CodeOf(r') /\ net' = << >> BY <2>10, <3>1
    <3>2. Answered(r)' BY <3>1, <3>c, <3>r, Zenon DEF Answered
    <3> QED BY <2>4, <2>9, <2>10, <3>2
  <2>11. CASE pc' = "parse" /\ got' = got /\ Parsing(s)' BY <2>4, <2>8, <2>9, <2>11
  <2>12. CASE pc' = "recv" /\ Gathering(s)' BY <2>4, <2>8, <2>9, <2>12
  <2> QED BY <2>7, <2>10, <2>11, <2>12 DEF Turned
<1>6. CASE Terminated \/ UNCHANGED vars
  <2>1. UNCHANGED vars BY <1>6 DEF Terminated
  <2>2. UNCHANGED <<replies, calls, sent, net, pc, buf, got, off, left, multi, retVal,
                    closed, result, inStep, full, lone, misread>>
    BY <2>1 DEF vars, ghosts
  <2>3. Gathering(r)' = Gathering(r) /\ Parsing(r)' = Parsing(r) /\ Answered(r)' = Answered(r)
    BY <2>2 DEF Gathering, Parsing, NetFrom, BufFrom, CodeSeen, Received, AtLine, Behind,
                Answered
  <2> QED BY <1>0, <2>2, <2>3 DEF Whole
<1>7. CASE HangUp
  <2>1. /\ UNCHANGED <<replies, calls, sent, net, pc, buf, got, off, left, multi, retVal,
                       result, inStep, full, lone, misread>>
        /\ ~closed /\ closed'
    BY <1>7 DEF HangUp, ghosts
  <2>2. Gathering(r)' = Gathering(r) /\ Parsing(r)' = Parsing(r) /\ (Answered(r) => Answered(r)')
    BY <2>1 DEF Gathering, Parsing, NetFrom, BufFrom, CodeSeen, Received, AtLine, Behind,
                Answered
  <2> QED BY <1>0, <2>1, <2>2 DEF Whole
<1> QED BY <1>1, <1>2, <1>3, <1>4, <1>5, <1>6, <1>7 DEF Next

\* The reader of replies keeps its types: its counts stay within the buffer, and
\* what it takes for a code is three digits.
THEOREM ReplyTypes == Spec => []TypeOK
<1>1. Init => RInv BY ReplyBegins
<1>2. RInv /\ [Next]_vars => RInv' BY TypesKept, WholeKept DEF RInv
<1>3. RInv => TypeOK BY DEF RInv, Typed
<1> QED BY <1>1, <1>2, <1>3, PTL DEF Spec

LEMMA WholeIsWhole == RInv => WholeReply
<1> SUFFICES ASSUME RInv, pc = "idle", calls > 0, inStep, result # -2, ~full, ~lone,
                    ~misread
             PROVE  /\ result = 0 \/ (result = -1 /\ closed)
                    /\ retVal = CodeOf(replies[calls])
                    /\ sent = calls /\ net = << >>
  BY DEF WholeReply
<1>1. Answered(replies[calls]) BY DEF RInv, Whole
<1> QED BY <1>1 DEF Answered

\* Whatever lines the reply has, empty ones among them, the buffer, what was in it
\* before, and wherever the stream is cut: a poll that begins in step with the
\* server, and gets its reply, gives that reply's code, or says that the connection
\* was closed, and takes all of it (MTCPFTP.CPP:732-804, 876-962).  It may go wrong
\* when the reply fills the buffer, when an empty line is received by itself, and
\* when a code is found in old bytes.
THEOREM ReplyIsWhole == Spec => []WholeReply
<1>1. Init => RInv BY ReplyBegins
<1>2. RInv /\ [Next]_vars => RInv' BY TypesKept, WholeKept DEF RInv
<1>3. RInv => WholeReply BY WholeIsWhole
<1> QED BY <1>1, <1>2, <1>3, PTL DEF Spec
=============================================================================
