------------------------- MODULE CommandLineProofs --------------------------
(***************************************************************************)
(* Proofs about CommandLine, for any arguments: the program runs what was  *)
(* asked for, and refuses its arguments only with a reason.                *)
(*                                                                         *)
(* main looks at each argument once, from the left; Kind says what an      *)
(* argument is from all that stand before it.  The invariant, LInv, puts   *)
(* the two side by side: before count nothing but options and their values *)
(* is behind (Scanned), the letters of this option up to i are spelled as  *)
(* they may be (Spelled), no option behind is bad (Good), and mode and log *)
(* are those of the last option that gave one (Asked).                     *)
(***************************************************************************)
EXTENDS CommandLine, FiniteSetTheorems, SequenceLemmas

L == Len(args)
Chosen == {"r", "f", "d"}

\* The options and their values before count are behind, and what stands there
\* is not a value.  Behind the end of argv only a last -l has got.
Scanned ==
  /\ count \in 1 .. L + 2
  /\ \A n \in 1 .. L : n < count => Kind[n] # "operand"
  /\ count =< L => Kind[count] = IF Hyphen(args[count]) THEN "option" ELSE "operand"
  /\ count = L + 2 <=> WantsMore /\ count > L

\* The letters of this argument that have been looked at.
Seen == {args[count][m] : m \in 2 .. i + 1}
Before(m) == {args[count][k] : k \in 2 .. m - 1}

Spelled ==
  pc = "letters" =>
    /\ count =< L /\ Hyphen(args[count])
    /\ i \in 0 .. Len(args[count]) - 1
    /\ Seen \subseteq Chosen
    /\ \A m \in 2 .. i + 1 : IF args[count][m] = "r" THEN Before(m) \cap {"f", "d"} = {}
                                                     ELSE Before(m) = {}
    /\ backup <=> Seen \cap {"f", "d"} # {}
    /\ restore <=> "r" \in Seen

\* The mode is the one of the last option before c with a mode, the log file the
\* last value before c.
ModeOf(c) ==
  \/ mode = "f" /\ \A n \in Modes : n >= c
  \/ \E n \in Modes : n < c /\ mode \in Letters(n) /\ \A m \in Modes : m < c => m =< n
LogOf(c) ==
  \/ log = 0 /\ \A n \in Are("value") : n >= c
  \/ log \in Are("value") /\ log < c /\ \A m \in Are("value") : m < c => m =< log

Asked ==
  /\ IF pc = "letters" /\ Seen # {} THEN mode \in Seen ELSE ModeOf(count)
  /\ ~(WantsMore /\ count > L) => LogOf(count)

Good == \A n \in Are("option") : n < count => ~Bad(n)

Scan == Scanned /\ Spelled /\ Asked /\ Good

Begun ==
  /\ pc \notin {"start", "refused"} => L >= 2
  /\ pc # "refused" => Scan

Working ==
  pc \in {"run", "exit"} =>
    /\ ~Option /\ (argc - count) % Word >= 2
    /\ name = count /\ dir = count + 1

Refused ==
  pc = "refused" => Unusable

LInv == TypeOK /\ args \in Seq(Arguments) /\ L =< MaxArgs /\ Begun /\ Working /\ Refused

-----------------------------------------------------------------------------
(* What an argument is *)

\* The next argument after one of kind k.
Follows(k, n) ==
  IF k = "operand" THEN "operand"
  ELSE IF k = "option" /\ TakesNext(args[n - 1]) THEN "value"
  ELSE IF Hyphen(args[n]) THEN "option" ELSE "operand"

\* The function that Kind chooses exists.
LEMMA KindExists ==
  ASSUME L \in Nat
  PROVE  \E f : f = [n \in 0 .. L |-> IF n = 0 THEN "value" ELSE Follows(f[n - 1], n)]
<1> DEFINE G(f, m) == f = [n \in 0 .. m |-> IF n = 0 THEN "value" ELSE Follows(f[n - 1], n)]
           S == {m \in Nat : \E f : G(f, m)}
<1>1. 0 \in S
  <2>1. G([n \in 0 .. 0 |-> "value"], 0) OBVIOUS
  <2> HIDE DEF G
  <2> QED BY <2>1
<1>2. ASSUME NEW m \in Nat, m \in S PROVE m + 1 \in S
  <2>1. PICK f : G(f, m) BY <1>2
  <2> DEFINE g == [n \in 0 .. m + 1 |-> IF n = m + 1 THEN Follows(f[m], n) ELSE f[n]]
  <2>2. ASSUME NEW n \in 0 .. m + 1
        PROVE  g[n] = IF n = 0 THEN "value" ELSE Follows(g[n - 1], n)
    <3>1. CASE n = m + 1
      <4>1. n # 0 /\ n - 1 = m /\ m \in 0 .. m + 1 /\ m # m + 1 BY <3>1
      <4>2. g[m] = f[m] BY <4>1
      <4>3. g[n] = Follows(f[m], n) BY <3>1
      <4> QED BY <4>1, <4>2, <4>3
    <3>2. CASE n # m + 1
      <4>1. n \in 0 .. m BY <3>2
      <4>2. g[n] = f[n] BY <3>2
      <4>3. f[n] = IF n = 0 THEN "value" ELSE Follows(f[n - 1], n) BY <2>1, <4>1
      <4>4. n # 0 => n - 1 \in 0 .. m + 1 /\ n - 1 # m + 1 BY <4>1
      <4>5. n # 0 => g[n - 1] = f[n - 1] BY <4>4
      <4> QED BY <4>2, <4>3, <4>5
    <3> QED BY <3>1, <3>2
  <2>3. G(g, m + 1)
    <3> HIDE DEF g
    <3>1. g = [n \in 0 .. m + 1 |-> g[n]] BY DEF g
    <3> QED BY <2>2, <3>1
  <2> HIDE DEF g, G
  <2> QED BY <2>3
<1>3. \A m \in Nat : m \in S
  <2> HIDE DEF S
  <2> QED BY <1>1, <1>2, Inductive
<1> QED BY <1>3

\* Kind, argument by argument.
LEMMA KindSteps ==
  ASSUME L \in Nat
  PROVE  Kind[0] = "value" /\ \A n \in 1 .. L : Kind[n] = Follows(Kind[n - 1], n)
<1>1. Kind = CHOOSE f : f = [n \in 0 .. L |-> IF n = 0 THEN "value" ELSE Follows(f[n - 1], n)]
  BY DEF Kind, Follows, L
<1>2. Kind = [n \in 0 .. L |-> IF n = 0 THEN "value" ELSE Follows(Kind[n - 1], n)]
  BY <1>1, KindExists
<1> HIDE DEF Kind
<1>3. 0 \in 0 .. L /\ \A n \in 1 .. L : n \in 0 .. L /\ n # 0 OBVIOUS
<1> QED BY <1>2, <1>3

\* Behind an operand stand operands (the options block of NWBACKUP.C:33 is left
\* for good).
LEMMA OperandsLast ==
  ASSUME L \in Nat, NEW c \in 1 .. L, Kind[c] = "operand"
  PROVE  \A n \in c .. L : Kind[n] = "operand"
<1> DEFINE S == {n \in Nat : c + n \in c .. L => Kind[c + n] = "operand"}
<1> HIDE DEF Kind
<1>1. 0 \in S OBVIOUS
<1>2. ASSUME NEW n \in Nat, n \in S PROVE n + 1 \in S
  <2>1. ASSUME c + (n + 1) \in c .. L PROVE Kind[c + (n + 1)] = "operand"
    <3>1. c + n \in c .. L /\ c + (n + 1) \in 1 .. L /\ (c + (n + 1)) - 1 = c + n BY <2>1
    <3>2. Kind[c + n] = "operand" BY <1>2, <3>1
    <3>3. Kind[c + (n + 1)] = Follows(Kind[c + n], c + (n + 1)) BY <3>1, KindSteps
    <3> QED BY <3>2, <3>3 DEF Follows
  <2> QED BY <2>1
<1>3. \A n \in Nat : n \in S
  <2> HIDE DEF S
  <2> QED BY <1>1, <1>2, Inductive
<1>4. ASSUME NEW n \in c .. L PROVE Kind[n] = "operand"
  <2>1. n - c \in Nat /\ c + (n - c) = n OBVIOUS
  <2>2. n - c \in S BY <1>3, <2>1
  <2> QED BY <2>1, <2>2
<1> QED BY <1>4

\* The operands are the arguments from the first that is one.
LEMMA OperandsFrom ==
  ASSUME L \in Nat, NEW c \in 1 .. L, Kind[c] = "operand",
         \A n \in 1 .. L : n < c => Kind[n] # "operand"
  PROVE  Are("operand") = c .. L /\ Cardinality(Are("operand")) = L - c + 1
<1> HIDE DEF Kind
<1>1. \A n \in c .. L : Kind[n] = "operand" BY OperandsLast
<1>2. Are("operand") = c .. L BY <1>1 DEF Are, L
<1>3. Cardinality(c .. L) = IF c > L THEN 0 ELSE L - c + 1 BY FS_Interval
<1> QED BY <1>2, <1>3

\* The difference is a small number, unless it is negative.
LEMMA Unsigned ==
  ASSUME NEW k \in Nat, k < Word
  PROVE  k % Word = k
  BY Z3 DEF Word

\* The greatest number of a set is the one that Latest chooses.
LEMMA LatestIs ==
  ASSUME NEW S \in SUBSET Int, NEW n \in S, \A m \in S : m =< n
  PROVE  Latest(S) = n
<1>1. \A k \in S : (\A m \in S : m =< k) => k = n OBVIOUS
<1>2. \E k \in S : \A m \in S : m =< k OBVIOUS
<1>3. Latest(S) \in S /\ \A m \in S : m =< Latest(S) BY <1>2 DEF Latest
<1> QED BY <1>1, <1>3

-----------------------------------------------------------------------------
(* The invariant *)

ArgumentsStay ==
  /\ L' = L /\ argc' = argc /\ Kind' = Kind /\ Modes' = Modes
  /\ Are("option")' = Are("option") /\ Are("value")' = Are("value")
  /\ Are("operand")' = Are("operand")
  /\ (WantsMore' <=> WantsMore)
  /\ \A n : Letters(n)' = Letters(n)
  /\ \A n : Bad(n)' <=> Bad(n)

\* The arguments stay as they are, and so does all that is said of them alone.
LEMMA SameArguments ==
  ASSUME args' = args
  PROVE  ArgumentsStay
<1>1. Kind' = Kind BY DEF Kind, TakesNext, Hyphen
<1>2. L' = L /\ argc' = argc BY DEF L, argc
<1> HIDE DEF Kind
<1>3. /\ Are("option")' = Are("option") /\ Are("value")' = Are("value")
      /\ Are("operand")' = Are("operand")
  BY <1>1 DEF Are
<1>4. \A n : Letters(n)' = Letters(n) BY DEF Letters
<1>5. Modes' = Modes BY <1>3 DEF Modes, Letters
<1>6. WantsMore' <=> WantsMore BY <1>3 DEF WantsMore, TakesNext
<1>7. \A n : Bad(n)' <=> Bad(n) BY DEF Bad
<1> QED BY <1>1, <1>2, <1>3, <1>4, <1>5, <1>6, <1>7 DEF ArgumentsStay

\* The lengths are numbers, and the arguments sequences.
LEMMA Lengths ==
  ASSUME args \in Seq(Arguments), L =< MaxArgs
  PROVE  /\ L \in Nat /\ L < 32767 /\ argc = L + 1
         /\ \A n \in 1 .. L : args[n] \in Seq(STRING) /\ Len(args[n]) \in Nat
<1>1. L \in Nat /\ argc = L + 1 /\ \A n \in 1 .. L : args[n] \in Arguments BY DEF L, argc
<1>2. L < 32767 BY <1>1, CommandLineBounds
<1>3. \A n \in 1 .. L : args[n] \in Seq(STRING) BY <1>1, CommandLineBounds
<1> QED BY <1>1, <1>2, <1>3

\* An argument of an options block is an option.
LEMMA AtAnOption ==
  ASSUME LInv, pc = "letters"
  PROVE  /\ count \in 1 .. L /\ count \in Are("option") /\ Kind[count] = "option"
         /\ args[count] \in Seq(STRING) /\ Len(args[count]) \in Nat \ {0}
         /\ i \in 0 .. Len(args[count]) - 1
<1>1. L \in Nat /\ \A n \in 1 .. L : args[n] \in Seq(STRING) /\ Len(args[n]) \in Nat
  BY Lengths DEF LInv
<1>2. Scanned /\ Spelled BY DEF LInv, Begun, Scan
<1>3. count \in 1 .. L /\ Hyphen(args[count]) BY <1>1, <1>2 DEF Scanned, Spelled
<1>4. Kind[count] = "option" BY <1>2, <1>3 DEF Scanned
<1>5. count \in Are("option") BY <1>3, <1>4 DEF Are, L
<1>6. args[count] # << >> BY <1>3 DEF Hyphen
<1>7. i \in 0 .. Len(args[count]) - 1 BY <1>2 DEF Spelled
<1> QED BY <1>1, <1>3, <1>4, <1>5, <1>6, <1>7

LEMMA Begins == Init => LInv
<1> SUFFICES ASSUME Init PROVE LInv OBVIOUS
<1>1. PICK n \in 0 .. MaxArgs : args \in [1 .. n -> Arguments] BY DEF Init
<1>2. args \in Seq(Arguments) /\ L = n BY <1>1, CommandLineBounds DEF L
<1>3. L \in Nat /\ L =< MaxArgs /\ argc = L + 1 BY <1>2, CommandLineBounds, Lengths
<1> HIDE DEF Kind
<1>4. TypeOK
  <2>1. count = 1 /\ i = 0 /\ log = 0 /\ name = 0 /\ dir = 0 BY DEF Init
  <2>2. /\ count \in 1 .. argc + 1 /\ i \in Nat
        /\ log \in 0 .. argc /\ name \in 0 .. argc + 1 /\ dir \in 0 .. argc + 2
    BY <1>3, <2>1
  <2> QED BY <2>2 DEF Init, TypeOK
<1>5. Scanned
  <2>1. count =< L => Kind[count] = IF Hyphen(args[count]) THEN "option" ELSE "operand"
    <3>1. ASSUME 1 =< L PROVE Kind[1] = Follows("value", 1) BY <1>3, <3>1, KindSteps
    <3> QED BY <3>1, <1>3 DEF Init, Follows
  <2>2. ~(WantsMore /\ count > L)
    <3>1. ASSUME WantsMore PROVE L \in 1 .. L BY <3>1 DEF WantsMore, Are, L
    <3> QED BY <3>1, <1>3 DEF Init
  <2> QED BY <2>1, <2>2, <1>3 DEF Scanned, Init
<1>6. Asked BY DEF Asked, Init, ModeOf, LogOf, Modes, Are
<1>7. Good BY DEF Good, Init, Are
<1>8. Spelled BY DEF Spelled, Init
<1> QED BY <1>2, <1>3, <1>4, <1>5, <1>6, <1>7, <1>8 DEF LInv, Begun, Scan, Working, Refused, Init

\* Start, and what begins with the first argument.
LEMMA StartKeeps == LInv /\ Start => LInv'
<1> SUFFICES ASSUME LInv, Start PROVE LInv' OBVIOUS
<1> HIDE DEF Kind
<1>1. ArgumentsStay BY SameArguments DEF Start
<1> USE DEF ArgumentsStay
<1>2. L \in Nat /\ argc = L + 1 BY Lengths DEF LInv
<1>3. TypeOK' BY <1>1 DEF LInv, TypeOK, Start
<1>4. args' \in Seq(Arguments) /\ L' =< MaxArgs BY <1>1 DEF LInv, Start
<1>5. CASE argc < 3
  <2>1. pc' = "refused" /\ L' < 2 BY <1>1, <1>2, <1>5 DEF Start
  <2> QED BY <1>3, <1>4, <2>1 DEF LInv, Begun, Working, Refused, Unusable, L
<1>6. CASE ~(argc < 3)
  <2>1. pc' = "args" /\ L' >= 2 BY <1>1, <1>2, <1>6 DEF Start
  <2>2. Scanned /\ Spelled /\ Asked /\ Good /\ pc = "start"
    BY DEF LInv, Begun, Scan, Start
  <2>3. Scanned' BY <1>1, <2>2 DEF Scanned, Start, Hyphen
  <2>4. Spelled' BY <2>1 DEF Spelled
  <2>5. Asked' BY <1>1, <2>1, <2>2 DEF Asked, ModeOf, LogOf, Start
  <2>6. Good' BY <1>1, <2>2 DEF Good, Start
  <2> QED BY <1>3, <1>4, <2>1, <2>3, <2>4, <2>5, <2>6 DEF LInv, Begun, Scan, Working, Refused
<1> QED BY <1>5, <1>6

\* Nothing of a new option has been looked at.
LEMMA NextArgumentKeeps == LInv /\ NextArgument => LInv'
<1> SUFFICES ASSUME LInv, NextArgument PROVE LInv' OBVIOUS
<1> HIDE DEF Kind
<1>1. ArgumentsStay BY SameArguments DEF NextArgument
<1> USE DEF ArgumentsStay
<1>2. L \in Nat /\ argc = L + 1 /\ \A n \in 1 .. L : Len(args[n]) \in Nat /\ args[n] \in Seq(STRING)
  BY Lengths DEF LInv
<1>3. /\ pc = "args" /\ pc' = "letters" /\ i' = 0 /\ backup' = FALSE /\ restore' = FALSE
      /\ args' = args /\ count' = count /\ mode' = mode /\ log' = log /\ name' = name /\ dir' = dir
  BY DEF NextArgument
<1>4. TypeOK' BY <1>1, <1>3 DEF LInv, TypeOK
<1>5. args' \in Seq(Arguments) /\ L' =< MaxArgs BY <1>1, <1>3 DEF LInv
<1>6. Scanned /\ Asked /\ Good /\ L >= 2 BY <1>3 DEF LInv, Begun, Scan
<1>7. count \in 1 .. L /\ Hyphen(args[count])
  BY <1>2, <1>6 DEF NextArgument, Option, Scanned
<1>8. Len(args[count]) > 0 BY <1>2, <1>7 DEF Hyphen
<1>9. Scanned' BY <1>1, <1>3, <1>6 DEF Scanned, Hyphen
<1>10. Seen' = {} BY <1>3 DEF Seen
<1>11. Spelled'
  <2>1. count' =< L' /\ Hyphen(args[count])' BY <1>1, <1>3, <1>7 DEF Hyphen
  <2>2. i' \in 0 .. Len(args[count])' - 1 BY <1>3, <1>8, <1>2, <1>7
  <2>3. \A m \in 2 .. i' + 1 : FALSE BY <1>3
  <2> QED BY <1>3, <1>10, <2>1, <2>2, <2>3 DEF Spelled
<1>12. Asked' BY <1>1, <1>3, <1>6, <1>10 DEF Asked, ModeOf, LogOf
<1>13. Good' BY <1>1, <1>3, <1>6 DEF Good
<1> QED BY <1>1, <1>3, <1>4, <1>5, <1>6, <1>9, <1>11, <1>12, <1>13
        DEF LInv, Begun, Scan, Working, Refused

\* The letter that is chosen joins the letters seen: an r behind no f and no d,
\* an f or a d behind no mode at all.
LEMMA ChooseKeeps == LInv /\ Choose => LInv'
<1> SUFFICES ASSUME LInv, Choose PROVE LInv' OBVIOUS
<1> HIDE DEF Kind
<1>1. ArgumentsStay BY SameArguments DEF Choose
<1> USE DEF ArgumentsStay
<1>2. L \in Nat /\ argc = L + 1 BY Lengths DEF LInv
<1>3. /\ pc = "letters" /\ pc' = "letters" /\ i' = i + 1 /\ i < Len(args[count]) - 1
      /\ Letter \in Chosen /\ ~Conflicts /\ mode' = Letter
      /\ args' = args /\ count' = count /\ log' = log /\ name' = name /\ dir' = dir
  BY DEF Choose, More, Chosen
<1>4. /\ count \in 1 .. L /\ args[count] \in Seq(STRING) /\ Len(args[count]) \in Nat \ {0}
      /\ i \in 0 .. Len(args[count]) - 1
  BY <1>3, AtAnOption
<1>5. Scanned /\ Spelled /\ Asked /\ Good /\ L >= 2 BY <1>3 DEF LInv, Begun, Scan
<1>6. IF Letter = "r" THEN restore' = TRUE /\ backup' = backup
                      ELSE backup' = TRUE /\ restore' = restore
  BY DEF Choose
<1>7. TypeOK'
  <2>1. backup' \in BOOLEAN /\ restore' \in BOOLEAN BY <1>6 DEF LInv, TypeOK
  <2>2. i' \in Nat BY <1>3, <1>4
  <2> QED BY <2>1, <2>2, <1>1, <1>3 DEF LInv, TypeOK, Chosen
<1>8. args' \in Seq(Arguments) /\ L' =< MaxArgs BY <1>1, <1>3 DEF LInv
<1>9. Scanned' BY <1>1, <1>3, <1>5 DEF Scanned, Hyphen
<1>10. Seen' = Seen \cup {Letter}
  <2>1. Seen' = {args[count][m] : m \in 2 .. (i + 1) + 1} BY <1>3 DEF Seen
  <2>2. 2 .. (i + 1) + 1 = 2 .. i + 1 \cup {i + 2} BY <1>4
  <2> QED BY <2>1, <2>2 DEF Seen, Letter
<1>11. Before(i + 2) = Seen
  <2>1. 2 .. (i + 2) - 1 = 2 .. i + 1 BY <1>4
  <2> QED BY <2>1 DEF Before, Seen
<1>12. /\ Seen \subseteq Chosen
       /\ backup <=> Seen \cap {"f", "d"} # {}
       /\ restore <=> "r" \in Seen
  BY <1>3, <1>5 DEF Spelled
<1>13. IF Letter = "r" THEN Before(i + 2) \cap {"f", "d"} = {} ELSE Before(i + 2) = {}
  <2>1. CASE Letter = "r" BY <1>3, <1>11, <1>12, <2>1 DEF Conflicts
  <2>2. CASE Letter # "r" BY <1>3, <1>11, <1>12, <2>2 DEF Conflicts, Chosen
  <2> QED BY <2>1, <2>2
<1>14. Spelled'
  <2>1. count' =< L' /\ Hyphen(args[count])' BY <1>1, <1>3, <1>5 DEF Hyphen, Spelled
  <2>2. i' \in 0 .. Len(args[count])' - 1 BY <1>3, <1>4
  <2>3. Seen' \subseteq Chosen BY <1>3, <1>10, <1>12
  <2>4. ASSUME NEW m \in 2 .. i' + 1
        PROVE  IF args'[count'][m] = "r" THEN Before(m)' \cap {"f", "d"} = {} ELSE Before(m)' = {}
    <3>1. Before(m)' = Before(m) BY <1>3 DEF Before
    <3>2. m \in 2 .. i + 1 \/ m = i + 2 BY <1>3, <1>4
    <3>3. ASSUME m \in 2 .. i + 1
          PROVE  IF args[count][m] = "r" THEN Before(m) \cap {"f", "d"} = {} ELSE Before(m) = {}
      BY <1>3, <1>5, <3>3 DEF Spelled
    <3>4. ASSUME m = i + 2
          PROVE  IF args[count][m] = "r" THEN Before(m) \cap {"f", "d"} = {} ELSE Before(m) = {}
      BY <1>13, <3>4 DEF Letter
    <3> QED BY <1>3, <3>1, <3>2, <3>3, <3>4
  <2>5. (backup <=> Seen \cap {"f", "d"} # {})'
    <3>1. CASE Letter = "r"
      <4>1. Seen' \cap {"f", "d"} = Seen \cap {"f", "d"} BY <1>10, <3>1
      <4>2. backup' = backup BY <1>6, <3>1
      <4> QED BY <4>1, <4>2, <1>12
    <3>2. CASE Letter # "r"
      <4>1. Letter \in Seen' \cap {"f", "d"} BY <1>3, <1>10, <3>2 DEF Chosen
      <4>2. backup' = TRUE BY <1>6, <3>2
      <4> QED BY <4>1, <4>2
    <3> QED BY <3>1, <3>2
  <2>6. (restore <=> "r" \in Seen)'
    <3>1. CASE Letter = "r"
      <4>1. "r" \in Seen' BY <1>10, <3>1
      <4>2. restore' = TRUE BY <1>6, <3>1
      <4> QED BY <4>1, <4>2
    <3>2. CASE Letter # "r"
      <4>1. "r" \in Seen' <=> "r" \in Seen BY <1>10, <3>2
      <4>2. restore' = restore BY <1>6, <3>2
      <4> QED BY <4>1, <4>2, <1>12
    <3> QED BY <3>1, <3>2
  <2> QED BY <2>1, <2>2, <2>3, <2>4, <2>5, <2>6 DEF Spelled, Chosen
<1>15. Asked'
  <2>1. mode' \in Seen' BY <1>3, <1>10
  <2>2. ~(WantsMore /\ count > L) => LogOf(count) BY <1>5 DEF Asked
  <2>3. (~(WantsMore /\ count > L) => LogOf(count))' BY <1>1, <1>3, <2>2 DEF LogOf
  <2> QED BY <1>3, <2>1, <2>3 DEF Asked
<1>16. Good' BY <1>1, <1>3, <1>5 DEF Good
<1> QED BY <1>1, <1>3, <1>5, <1>7, <1>8, <1>9, <1>14, <1>15, <1>16
        DEF LInv, Begun, Scan, Working, Refused

\* A letter that is refused is what makes the option a bad one.
LEMMA RefuseKeeps == LInv /\ Refuse => LInv'
<1> SUFFICES ASSUME LInv, Refuse PROVE LInv' OBVIOUS
<1> HIDE DEF Kind
<1>1. ArgumentsStay BY SameArguments DEF Refuse
<1> USE DEF ArgumentsStay
<1>2. /\ pc = "letters" /\ pc' = "refused" /\ i < Len(args[count]) - 1
      /\ args' = args /\ count' = count /\ i' = i /\ mode' = mode /\ log' = log
      /\ backup' = backup /\ restore' = restore /\ name' = name /\ dir' = dir
  BY DEF Refuse, More
<1>3. TypeOK' BY <1>1, <1>2 DEF LInv, TypeOK
<1>4. args' \in Seq(Arguments) /\ L' =< MaxArgs BY <1>1, <1>2 DEF LInv
<1>5. /\ count \in Are("option") /\ Len(args[count]) \in Nat \ {0}
      /\ i \in 0 .. Len(args[count]) - 1
  BY <1>2, AtAnOption
<1>6. /\ Seen \subseteq Chosen
      /\ backup <=> Seen \cap {"f", "d"} # {}
      /\ restore <=> "r" \in Seen
  BY <1>2 DEF LInv, Begun, Scan, Spelled
<1>7. i + 2 \in 2 .. Len(args[count]) BY <1>2, <1>5
<1>8. Before(i + 2) = Seen
  <2>1. 2 .. (i + 2) - 1 = 2 .. i + 1 BY <1>5
  <2> QED BY <2>1 DEF Before, Seen
<1>9. (CASE Letter \in Chosen -> Conflicts
         [] Letter = "l"      -> i # Len(args[count]) - 2
         [] OTHER             -> TRUE)
  BY DEF Refuse, Chosen
<1>10. (CASE Letter = "r"          -> Before(i + 2) \cap {"f", "d"} # {}
          [] Letter \in {"f", "d"} -> Before(i + 2) \cap {"r", "f", "d"} # {}
          [] Letter = "l"          -> i + 2 # Len(args[count])
          [] OTHER                 -> TRUE)
  <2>1. CASE Letter = "r" BY <2>1, <1>6, <1>8, <1>9 DEF Chosen, Conflicts
  <2>2. CASE Letter \in {"f", "d"}
    <3>1. restore \/ backup BY <2>2, <1>9 DEF Chosen, Conflicts
    <3>2. Seen \cap {"r", "f", "d"} # {} BY <3>1, <1>6
    <3> QED BY <2>2, <3>2, <1>8
  <2>3. CASE Letter = "l" BY <2>3, <1>5, <1>9 DEF Chosen
  <2>4. CASE Letter \notin {"r", "f", "d", "l"} BY <2>4
  <2> QED BY <2>1, <2>2, <2>3, <2>4
<1>11. Bad(count) BY <1>7, <1>10 DEF Bad, Letter, Before
<1> QED BY <1>1, <1>2, <1>3, <1>4, <1>5, <1>11 DEF LInv, Begun, Working, Refused, Unusable

\* Behind the letters of an option without -l stands no value of its own.
LEMMA EndOfArgumentKeeps == LInv /\ EndOfArgument => LInv'
<1> SUFFICES ASSUME LInv, EndOfArgument PROVE LInv' OBVIOUS
<1> HIDE DEF Kind
<1>1. ArgumentsStay BY SameArguments DEF EndOfArgument
<1> USE DEF ArgumentsStay
<1>2. L \in Nat /\ argc = L + 1 BY Lengths DEF LInv
<1>3. /\ pc = "letters" /\ pc' = "args" /\ ~(i < Len(args[count]) - 1)
      /\ args' = args /\ count' = count + 1 /\ i' = i /\ mode' = mode /\ log' = log
      /\ backup' = backup /\ restore' = restore /\ name' = name /\ dir' = dir
  BY DEF EndOfArgument, More
<1>4. /\ count \in 1 .. L /\ count \in Are("option") /\ Kind[count] = "option"
      /\ args[count] \in Seq(STRING) /\ Len(args[count]) \in Nat \ {0}
      /\ i = Len(args[count]) - 1
  BY <1>3, AtAnOption
<1>5. Scanned /\ Spelled /\ Asked /\ Good /\ L >= 2 BY <1>3 DEF LInv, Begun, Scan
<1>6. TypeOK' BY <1>1, <1>2, <1>3, <1>4 DEF LInv, TypeOK
<1>7. args' \in Seq(Arguments) /\ L' =< MaxArgs BY <1>1, <1>3 DEF LInv
<1>8. Letters(count) = Seen /\ Seen \subseteq Chosen BY <1>3, <1>4, <1>5 DEF Letters, Seen, Spelled
<1>9. ~TakesNext(args[count])
  <2>1. ASSUME Len(args[count]) > 1 PROVE args[count][Len(args[count])] \in Letters(count)
    BY <1>4, <2>1 DEF Letters
  <2> QED BY <2>1, <1>8 DEF TakesNext, Chosen
<1>10. Scanned'
  <2>1. ASSUME count + 1 =< L
        PROVE  Kind[count + 1] = IF Hyphen(args[count + 1]) THEN "option" ELSE "operand"
    <3>1. count + 1 \in 1 .. L /\ (count + 1) - 1 = count BY <1>2, <1>4, <2>1
    <3>2. Kind[count + 1] = Follows(Kind[count], count + 1) BY <1>2, <3>1, KindSteps
    <3> QED BY <1>4, <1>9, <3>1, <3>2 DEF Follows
  <2>2. ASSUME count + 1 > L PROVE ~WantsMore
    <3>1. count = L BY <1>2, <1>4, <2>2
    <3> QED BY <1>9, <3>1 DEF WantsMore, L
  <2>3. \A n \in 1 .. L : n < count + 1 => Kind[n] # "operand"
    BY <1>2, <1>4, <1>5 DEF Scanned
  <2>4. count + 1 \in 1 .. L + 2 /\ count + 1 # L + 2 BY <1>2, <1>4
  <2> QED BY <1>1, <1>3, <2>1, <2>2, <2>3, <2>4 DEF Scanned, Hyphen
<1>11. ModeOf(count + 1)
  <2>0. \A n \in Modes : n \in 1 .. L BY DEF Modes, Are, L
  <2>1. CASE Seen # {}
    <3>1. count \in Modes BY <1>4, <1>8, <2>1 DEF Modes, Chosen
    <3>2. mode \in Letters(count) BY <1>3, <1>5, <1>8, <2>1 DEF Asked
    <3> QED BY <2>0, <1>4, <3>1, <3>2 DEF ModeOf
  <2>2. CASE Seen = {}
    <3>1. count \notin Modes BY <1>8, <2>2 DEF Modes
    <3>2. ModeOf(count) BY <1>5, <2>2 DEF Asked
    <3>3. \A n \in Modes : (n < count <=> n < count + 1) /\ (n >= count <=> n >= count + 1)
      BY <2>0, <1>4, <3>1
    <3> QED BY <3>2, <3>3 DEF ModeOf
  <2> QED BY <2>1, <2>2
<1>12. LogOf(count + 1)
  <2>0. \A n \in Are("value") : n \in 1 .. L /\ n # count BY <1>4 DEF Are, L
  <2>1. LogOf(count) BY <1>2, <1>4, <1>5 DEF Asked
  <2>2. \A n \in Are("value") : (n < count <=> n < count + 1) /\ (n >= count <=> n >= count + 1)
    BY <2>0, <1>4
  <2> QED BY <2>1, <2>2 DEF LogOf
<1>13. Asked' BY <1>1, <1>3, <1>11, <1>12 DEF Asked, ModeOf, LogOf
<1>14. Good'
  <2>1. ~Bad(count)
    <3>1. ASSUME NEW m \in 2 .. Len(args[count])
          PROVE  ~ CASE args[count][m] = "r" -> Before(m) \cap {"f", "d"} # {}
                     [] args[count][m] \in {"f", "d"} -> Before(m) \cap {"r", "f", "d"} # {}
                     [] args[count][m] = "l" -> m # Len(args[count])
                     [] OTHER -> TRUE
      <4>1. m \in 2 .. i + 1 BY <1>4
      <4>2. args[count][m] \in Chosen BY <4>1, <1>8 DEF Seen
      <4>3. IF args[count][m] = "r" THEN Before(m) \cap {"f", "d"} = {} ELSE Before(m) = {}
        BY <4>1, <1>3, <1>5 DEF Spelled
      <4>4. CASE args[count][m] = "r" BY <4>3, <4>4
      <4>5. CASE args[count][m] \in {"f", "d"} BY <4>3, <4>5
      <4> QED BY <4>2, <4>4, <4>5 DEF Chosen
    <3> QED BY <3>1 DEF Bad, Before
  <2>2. \A n \in Are("option") : n < count + 1 => n < count \/ n = count BY <1>4 DEF Are
  <2> QED BY <1>1, <1>3, <1>5, <2>1, <2>2 DEF Good
<1> QED BY <1>1, <1>3, <1>5, <1>6, <1>7, <1>10, <1>13, <1>14
        DEF LInv, Begun, Scan, Spelled, Working, Refused

\* The argument behind a last l is stepped over: it is the value, or there is none.
LEMMA LogFileKeeps == LInv /\ LogFile => LInv'
<1> SUFFICES ASSUME LInv, LogFile PROVE LInv' OBVIOUS
<1> HIDE DEF Kind
<1>1. ArgumentsStay BY SameArguments DEF LogFile
<1> USE DEF ArgumentsStay
<1>2. L \in Nat /\ argc = L + 1 BY Lengths DEF LInv
<1>3. /\ pc = "letters" /\ pc' = "args" /\ Letter = "l" /\ i = Len(args[count]) - 2
      /\ args' = args /\ count' = count + 2 /\ i' = i /\ mode' = mode /\ log' = count + 1
      /\ backup' = backup /\ restore' = restore /\ name' = name /\ dir' = dir
  BY DEF LogFile, More
<1>4. /\ count \in 1 .. L /\ count \in Are("option") /\ Kind[count] = "option"
      /\ args[count] \in Seq(STRING) /\ Len(args[count]) \in Nat \ {0} /\ i >= 0
  BY <1>3, AtAnOption
<1>5. Scanned /\ Spelled /\ Asked /\ Good /\ L >= 2 BY <1>3 DEF LInv, Begun, Scan
<1>6. TypeOK' BY <1>1, <1>2, <1>3, <1>4 DEF LInv, TypeOK
<1>7. args' \in Seq(Arguments) /\ L' =< MaxArgs BY <1>1, <1>3 DEF LInv
<1>8. TakesNext(args[count]) BY <1>3, <1>4 DEF TakesNext, Letter
<1>9. count + 1 =< L => Kind[count + 1] = "value"
  <2>1. ASSUME count + 1 =< L PROVE Kind[count + 1] = "value"
    <3>1. count + 1 \in 1 .. L /\ (count + 1) - 1 = count BY <1>2, <1>4, <2>1
    <3>2. Kind[count + 1] = Follows(Kind[count], count + 1) BY <1>2, <3>1, KindSteps
    <3> QED BY <1>4, <1>8, <3>1, <3>2 DEF Follows
  <2> QED BY <2>1
<1>10. count = L <=> WantsMore /\ count + 2 > L
  <2>1. ASSUME count = L PROVE WantsMore BY <1>4, <1>8, <2>1 DEF WantsMore, L
  <2>2. ASSUME WantsMore, count + 2 > L PROVE count = L
    <3>1. ASSUME count + 1 = L PROVE FALSE
      <4>1. Kind[L] = "value" BY <1>2, <1>9, <3>1
      <4> QED BY <2>2, <4>1 DEF WantsMore, Are, L
    <3> QED BY <1>2, <1>4, <2>2, <3>1
  <2> QED BY <1>2, <2>1, <2>2
<1>11. Scanned'
  <2>1. ASSUME count + 2 =< L
        PROVE  Kind[count + 2] = IF Hyphen(args[count + 2]) THEN "option" ELSE "operand"
    <3>1. count + 2 \in 1 .. L /\ (count + 2) - 1 = count + 1 /\ count + 1 =< L
      BY <1>2, <1>4, <2>1
    <3>2. Kind[count + 2] = Follows(Kind[count + 1], count + 2) BY <1>2, <3>1, KindSteps
    <3> QED BY <1>9, <3>1, <3>2 DEF Follows
  <2>2. ASSUME NEW n \in 1 .. L, n < count + 2 PROVE Kind[n] # "operand"
    <3>1. n < count \/ n = count \/ n = count + 1 BY <1>4, <2>2
    <3> QED BY <1>4, <1>5, <1>9, <3>1 DEF Scanned
  <2>3. count + 2 \in 1 .. L + 2 /\ (count + 2 = L + 2 <=> count = L) BY <1>2, <1>4
  <2> QED BY <1>1, <1>3, <1>10, <2>1, <2>2, <2>3 DEF Scanned, Hyphen
<1>12. Letters(count) = Seen \cup {"l"}
  <2>1. 2 .. Len(args[count]) = 2 .. i + 1 \cup {i + 2} BY <1>3, <1>4
  <2> QED BY <2>1, <1>3 DEF Letters, Seen, Letter
<1>13. \A n \in Modes : n \in 1 .. L /\ n # count + 1
  BY <1>9 DEF Modes, Are, L
<1>14. ModeOf(count + 2)
  <2>1. CASE Seen # {}
    <3>0. Seen \subseteq Chosen BY <1>3, <1>5 DEF Spelled
    <3>1. count \in Modes BY <1>4, <1>12, <2>1, <3>0 DEF Modes, Chosen
    <3>2. mode \in Letters(count) BY <1>3, <1>5, <1>12, <2>1 DEF Asked
    <3>3. \A n \in Modes : n < count + 2 => n =< count BY <1>4, <1>13
    <3> QED BY <1>4, <3>1, <3>2, <3>3 DEF ModeOf
  <2>2. CASE Seen = {}
    <3>1. count \notin Modes BY <1>12, <2>2 DEF Modes
    <3>2. ModeOf(count) BY <1>5, <2>2 DEF Asked
    <3>3. \A n \in Modes : (n < count <=> n < count + 2) /\ (n >= count <=> n >= count + 2)
      BY <1>13, <1>4, <3>1
    <3> QED BY <3>2, <3>3 DEF ModeOf
  <2> QED BY <2>1, <2>2
<1>15. count # L => count + 1 \in Are("value") BY <1>2, <1>4, <1>9 DEF Are, L
<1>16. \A n \in Are("value") : n < count + 2 => n =< count + 1 BY <1>4 DEF Are
<1>17. Asked'
  <2>1. ModeOf(count + 2) /\ mode' = mode BY <1>3, <1>14
  <2>2. ~(WantsMore /\ count + 2 > L) =>
          /\ count + 1 \in Are("value") /\ count + 1 < count + 2
          /\ \A m \in Are("value") : m < count + 2 => m =< count + 1
    BY <1>4, <1>10, <1>15, <1>16
  <2> QED BY <1>1, <1>3, <2>1, <2>2 DEF Asked, ModeOf, LogOf
<1>18. Good'
  <2>1. ~Bad(count)
    <3>1. ASSUME NEW m \in 2 .. Len(args[count])
          PROVE  ~ CASE args[count][m] = "r" -> Before(m) \cap {"f", "d"} # {}
                     [] args[count][m] \in {"f", "d"} -> Before(m) \cap {"r", "f", "d"} # {}
                     [] args[count][m] = "l" -> m # Len(args[count])
                     [] OTHER -> TRUE
      <4>1. CASE m \in 2 .. i + 1
        <5>1. args[count][m] \in Seen BY <4>1 DEF Seen
        <5>2. args[count][m] \in Chosen BY <5>1, <1>3, <1>5 DEF Spelled
        <5>3. IF args[count][m] = "r" THEN Before(m) \cap {"f", "d"} = {} ELSE Before(m) = {}
          BY <4>1, <1>3, <1>5 DEF Spelled
        <5>4. CASE args[count][m] = "r" BY <5>3, <5>4
        <5>5. CASE args[count][m] \in {"f", "d"} BY <5>3, <5>5
        <5> QED BY <5>2, <5>4, <5>5 DEF Chosen
      <4>2. CASE m = Len(args[count])
        <5>1. args[count][m] = "l" BY <1>3, <1>4, <4>2 DEF Letter
        <5> QED BY <4>2, <5>1
      <4> QED BY <4>1, <4>2, <1>3, <1>4
    <3> QED BY <3>1 DEF Bad, Before
  <2>2. count + 1 \notin Are("option") BY <1>9 DEF Are, L
  <2>3. \A n \in Are("option") : n < count + 2 => n < count \/ n = count BY <1>4, <2>2 DEF Are
  <2> QED BY <1>1, <1>3, <1>5, <2>1, <2>3 DEF Good
<1> QED BY <1>1, <1>3, <1>5, <1>6, <1>7, <1>11, <1>17, <1>18
        DEF LInv, Begun, Scan, Spelled, Working, Refused, Unusable

\* Behind the options: either two operands are left, or the last -l has got past
\* the end of argv, or the operands are too few.
LEMMA OperandsKeeps == LInv /\ Operands => LInv'
<1> SUFFICES ASSUME LInv, Operands PROVE LInv' OBVIOUS
<1> HIDE DEF Kind
<1>1. ArgumentsStay BY SameArguments DEF Operands
<1> USE DEF ArgumentsStay
<1>2. L \in Nat /\ L < 32767 /\ argc = L + 1 BY Lengths DEF LInv
<1>3. /\ pc = "args" /\ ~Option /\ args' = args /\ count' = count /\ i' = i /\ mode' = mode
      /\ backup' = backup /\ restore' = restore
  BY DEF Operands
<1>4. Scanned /\ Asked /\ Good /\ L >= 2 BY <1>3 DEF LInv, Begun, Scan
<1>5. count \in 1 .. L + 2 /\ (count = L + 2 <=> WantsMore /\ count > L) BY <1>4 DEF Scanned
<1>6. args' \in Seq(Arguments) /\ L' =< MaxArgs BY <1>1, <1>3 DEF LInv
<1>7. CASE (argc - count) % Word < 2
  <2>1. pc' = "refused" /\ log' = log /\ name' = name /\ dir' = dir BY <1>7 DEF Operands
  <2>2. count = L \/ count = L + 1
    <3>1. count # L + 2 BY <1>2, <1>7 DEF Word
    <3>2. argc - count \in Nat /\ argc - count < Word BY <1>2, <1>5, <3>1 DEF Word
    <3>3. (argc - count) % Word = argc - count BY <3>2, Unsigned
    <3> QED BY <1>2, <1>5, <1>7, <3>1, <3>3
  <2>3. Cardinality(Are("operand")) < 2 /\ ~WantsMore
    <3>1. CASE count = L
      <4>1. Kind[L] = "operand" BY <1>2, <1>3, <1>4, <3>1 DEF Scanned, Option
      <4>2. \A n \in 1 .. L : n < L => Kind[n] # "operand" BY <1>4, <3>1 DEF Scanned
      <4>3. L \in 1 .. L BY <1>2, <1>4
      <4>4. Cardinality(Are("operand")) = L - L + 1 BY <1>2, <4>1, <4>2, <4>3, OperandsFrom
      <4>5. ~WantsMore BY <4>1 DEF WantsMore, Are, L
      <4> QED BY <1>2, <4>4, <4>5
    <3>2. CASE count = L + 1
      <4>1. \A n \in 1 .. L : Kind[n] # "operand" BY <1>2, <1>4, <3>2 DEF Scanned
      <4>2. Are("operand") = {} BY <4>1 DEF Are, L
      <4>3. Cardinality(Are("operand")) = 0 BY <4>2, FS_EmptySet
      <4>4. ~WantsMore BY <1>2, <1>5, <3>2
      <4> QED BY <4>3, <4>4
    <3> QED BY <2>2, <3>1, <3>2
  <2>4. TypeOK' BY <1>1, <1>3, <2>1 DEF LInv, TypeOK
  <2> QED BY <1>1, <1>6, <2>1, <2>3, <2>4 DEF LInv, Begun, Working, Refused, Unusable
<1>8. CASE ~((argc - count) % Word < 2)
  <2>1. /\ pc' = "run" /\ name' = count /\ dir' = count + 1
        /\ log' = IF log = argc THEN 0 ELSE log
    BY <1>8 DEF Operands
  <2>2. (argc - count) % Word >= 2
    <3>1. argc - count \in Int BY <1>2, <1>5
    <3>2. (argc - count) % Word \in Int BY <3>1 DEF Word
    <3> QED BY <1>8, <3>2
  <2>3. TypeOK'
    <3>1. log \in 0 .. argc /\ 0 \in 0 .. argc BY <1>2 DEF LInv, TypeOK
    <3>2. log' \in 0 .. argc BY <2>1, <3>1
    <3>3. name' \in 0 .. argc + 1 /\ dir' \in 0 .. argc + 2 BY <1>2, <1>5, <2>1
    <3> QED BY <1>1, <1>3, <2>1, <3>2, <3>3 DEF LInv, TypeOK
  <2>4. Scanned' BY <1>1, <1>3, <1>4 DEF Scanned, Hyphen
  <2>5. Asked'
    <3>1. ModeOf(count) BY <1>3, <1>4 DEF Asked
    <3>2. ASSUME ~(WantsMore /\ count > L) PROVE LogOf(count) /\ log' = log
      <4>1. LogOf(count) BY <1>4, <3>2 DEF Asked
      <4>2. log =< L BY <1>2, <4>1 DEF LogOf, Are, L
      <4> QED BY <1>2, <2>1, <4>1, <4>2
    <3> QED BY <1>1, <1>3, <2>1, <3>1, <3>2 DEF Asked, ModeOf, LogOf
  <2>6. Good' BY <1>1, <1>3, <1>4 DEF Good
  <2>7. ~Option' BY <1>1, <1>3 DEF Option, Hyphen
  <2>8. ((argc - count) % Word >= 2)' BY <1>1, <1>3, <2>2 DEF Word
  <2> QED BY <1>1, <1>4, <1>6, <2>1, <1>3, <2>3, <2>4, <2>5, <2>6, <2>7, <2>8
          DEF LInv, Begun, Scan, Spelled, Working, Refused, Unusable
<1> QED BY <1>7, <1>8

\* Nothing else of main changes when the part is called, or behind its end.
LEMMA RunKeeps == LInv /\ Run => LInv'
<1> SUFFICES ASSUME LInv, Run PROVE LInv' OBVIOUS
<1> HIDE DEF Kind
<1>1. ArgumentsStay BY SameArguments DEF Run
<1> USE DEF ArgumentsStay
<1>2. /\ pc = "run" /\ pc' = "exit" /\ args' = args /\ count' = count /\ i' = i /\ mode' = mode
      /\ log' = log /\ backup' = backup /\ restore' = restore /\ name' = name /\ dir' = dir
  BY DEF Run
<1>3. Scanned /\ Asked /\ Good /\ L >= 2 /\ Working BY <1>2 DEF LInv, Begun, Scan
<1>4. TypeOK' BY <1>1, <1>2 DEF LInv, TypeOK
<1>5. Scanned' BY <1>1, <1>2, <1>3 DEF Scanned, Hyphen
<1>6. Asked' BY <1>1, <1>2, <1>3 DEF Asked, ModeOf, LogOf
<1>7. Good' BY <1>1, <1>2, <1>3 DEF Good
<1>8. Working' BY <1>1, <1>2, <1>3 DEF Working, Option, Hyphen
<1> QED BY <1>1, <1>2, <1>3, <1>4, <1>5, <1>6, <1>7, <1>8
        DEF LInv, Begun, Scan, Spelled, Refused

LEMMA StutterKeeps == LInv /\ UNCHANGED vars => LInv'
<1> SUFFICES ASSUME LInv, UNCHANGED vars PROVE LInv' OBVIOUS
<1> HIDE DEF Kind
<1>1. ArgumentsStay BY SameArguments DEF vars
<1> USE DEF ArgumentsStay
<1>2. TypeOK' BY <1>1 DEF LInv, TypeOK, vars
<1>3. Scanned' = Scanned BY <1>1 DEF Scanned, Hyphen, vars
<1>4. Seen' = Seen /\ \A m : Before(m)' = Before(m) BY DEF Seen, Before, vars
<1>5. Spelled' = Spelled BY <1>1, <1>4 DEF Spelled, Hyphen, vars
<1>6. Asked' = Asked BY <1>1, <1>4 DEF Asked, ModeOf, LogOf, vars
<1>7. Good' = Good BY <1>1 DEF Good, vars
<1>8. Working' = Working BY <1>1 DEF Working, Option, Hyphen, vars
<1> QED BY <1>1, <1>2, <1>3, <1>5, <1>6, <1>7, <1>8 DEF LInv, Begun, Scan, Refused, Unusable, vars

\* LInv is an invariant of main.
THEOREM CommandLineInvariant == Spec => []LInv
<1>1. Init => LInv BY Begins
<1>2. LInv /\ [Next]_vars => LInv'
  BY StartKeeps, NextArgumentKeeps, ChooseKeeps, LogFileKeeps, RefuseKeeps,
     EndOfArgumentKeeps, OperandsKeeps, RunKeeps, StutterKeeps DEF Next, Terminated
<1> QED BY <1>1, <1>2, PTL DEF Spec

\* The types of main's variables; the argument of a last -l is all that is looked
\* for behind the end of argv (NWBACKUP.C:100-103).
THEOREM CommandLineTypes == Spec => []TypeOK
<1>1. LInv => TypeOK BY DEF LInv
<1> QED BY <1>1, CommandLineInvariant, PTL

\* The part that is run is that of the mode given, on the first two operands and
\* with the log file of the last -l (NWBACKUP.C:33-135).  Exclusive modes in two
\* options and a last -l without a value are left out.
THEOREM RunsAsked == Spec => []RunsWhatWasAsked
<1>1. ASSUME LInv, pc \in {"run", "exit"}, ~WantsMore, ~Exclusive
      PROVE  /\ IF Modes = {} THEN mode = "f" ELSE \A n \in Modes : mode \in Letters(n)
             /\ log = IF Are("value") = {} THEN 0 ELSE Latest(Are("value"))
             /\ name \in Are("operand") /\ name - 1 \notin Are("operand")
             /\ dir \in Are("operand") /\ dir = name + 1
  <2> HIDE DEF Kind
  <2>1. L \in Nat /\ L < 32767 /\ argc = L + 1 BY <1>1, Lengths DEF LInv
  <2>2. Scanned /\ Asked /\ Working BY <1>1 DEF LInv, Begun, Scan
  <2>3. count \in 1 .. L + 1 BY <1>1, <2>1, <2>2 DEF Scanned
  <2>4. (argc - count) % Word = argc - count
    <3>1. argc - count \in Nat /\ argc - count < Word BY <2>1, <2>3 DEF Word
    <3> QED BY <3>1, Unsigned
  <2>5. count + 1 =< L BY <1>1, <2>1, <2>2, <2>3, <2>4 DEF Working
  <2>6. Kind[count] = "operand" BY <1>1, <2>1, <2>2, <2>3, <2>5 DEF Working, Scanned, Option
  <2>7. count \in 1 .. L BY <2>1, <2>3, <2>5
  <2>8. \A n \in 1 .. L : n < count => Kind[n] # "operand" BY <2>2 DEF Scanned
  <2>9. Are("operand") = count .. L BY <2>1, <2>6, <2>7, <2>8, OperandsFrom
  <2>10. name = count /\ dir = count + 1 BY <1>1, <2>2 DEF Working
  <2>11. \A n \in 1 .. L : n < count \/ Kind[n] = "operand"
    BY <2>1, <2>6, <2>7, OperandsLast
  <2>12. \A n \in Modes \cup Are("value") : n \in Int /\ n < count
    BY <2>7, <2>11 DEF Modes, Are, L
  <2>13. IF Modes = {} THEN mode = "f" ELSE \A n \in Modes : mode \in Letters(n)
    <3>1. ModeOf(count) BY <1>1, <2>2 DEF Asked
    <3>2. CASE Modes = {} BY <3>1, <3>2 DEF ModeOf
    <3>3. CASE Modes # {}
      <4>1. PICK n \in Modes : mode \in Letters(n) /\ \A m \in Modes : m < count => m =< n
        BY <2>7, <2>12, <3>1, <3>3 DEF ModeOf
      <4>2. mode \in Chosen BY <1>1 DEF LInv, TypeOK, Chosen
      <4>3. ASSUME NEW m \in Modes, m # n PROVE mode \in Letters(m)
        <5>1. m < n BY <2>12, <4>1, <4>3
        <5>2. (Letters(m) \cup Letters(n)) \cap Chosen = {"r"}
          BY <1>1, <5>1 DEF Exclusive, Chosen
        <5>3. Letters(m) \cap Chosen # {} BY DEF Modes, Chosen
        <5>4. mode = "r" /\ "r" \in Letters(m) BY <4>1, <4>2, <5>2, <5>3, Zenon
        <5> QED BY <5>4
      <4> QED BY <3>3, <4>1, <4>3
    <3> QED BY <3>2, <3>3
  <2>14. log = IF Are("value") = {} THEN 0 ELSE Latest(Are("value"))
    <3>1. LogOf(count) BY <1>1, <2>2 DEF Asked
    <3>2. CASE Are("value") = {} BY <3>1, <3>2 DEF LogOf
    <3>3. CASE Are("value") # {}
      <4>1. log \in Are("value") /\ \A m \in Are("value") : m < count => m =< log
        BY <2>7, <2>12, <3>1, <3>3 DEF LogOf
      <4>2. Latest(Are("value")) = log BY <2>12, <4>1, LatestIs
      <4> QED BY <3>3, <4>2
    <3> QED BY <3>2, <3>3
  <2>15. /\ count \in count .. L /\ count - 1 \notin count .. L /\ count + 1 \in count .. L
    BY <2>1, <2>5, <2>7
  <2> QED BY <2>9, <2>10, <2>13, <2>14, <2>15
<1>2. LInv => RunsWhatWasAsked BY <1>1, Zenon DEF RunsWhatWasAsked
<1> QED BY <1>2, CommandLineInvariant, PTL

\* Unusable arguments are refused, and no others are unless they hold exclusive
\* modes in two options (NWBACKUP.C:26, 47-108).
THEOREM RefusesBad == Spec => []RefusesOnlyBad
<1>1. ASSUME LInv, pc = "refused" PROVE Unusable BY <1>1 DEF LInv, Refused
<1>2. ASSUME LInv, pc = "exit" PROVE ~Unusable
  <2> HIDE DEF Kind
  <2>1. L \in Nat /\ L < 32767 /\ argc = L + 1 BY <1>2, Lengths DEF LInv
  <2>2. Scanned /\ Good /\ Working /\ L >= 2 BY <1>2 DEF LInv, Begun, Scan
  <2>3. count \in 1 .. L + 2 BY <2>2 DEF Scanned
  <2>4. \A n \in 1 .. L : n < count \/ Kind[n] = "operand"
    <3>1. CASE count > L BY <2>1, <2>3, <3>1
    <3>2. CASE count \in 1 .. L
      <4>1. Kind[count] = "operand" BY <1>2, <2>1, <2>2, <3>2 DEF Working, Scanned, Option
      <4> QED BY <2>1, <3>2, <4>1, OperandsLast
    <3> QED BY <2>1, <2>3, <3>1, <3>2
  <2>5. \A n \in Are("option") : ~Bad(n) BY <2>2, <2>4 DEF Good, Are, L
  <2>6. ASSUME ~WantsMore PROVE ~(Cardinality(Are("operand")) < 2)
    <3>1. count \in 1 .. L + 1 BY <2>1, <2>2, <2>3, <2>6 DEF Scanned
    <3>2. (argc - count) % Word = argc - count
      <4>1. argc - count \in Nat /\ argc - count < Word BY <2>1, <3>1 DEF Word
      <4> QED BY <4>1, Unsigned
    <3>3. count + 1 =< L BY <1>2, <2>1, <2>2, <3>1, <3>2 DEF Working
    <3>4. count \in 1 .. L BY <2>1, <3>1, <3>3
    <3>5. Kind[count] = "operand" BY <1>2, <2>1, <2>2, <3>4 DEF Working, Scanned, Option
    <3>6. \A n \in 1 .. L : n < count => Kind[n] # "operand" BY <2>2 DEF Scanned
    <3>7. Cardinality(Are("operand")) = L - count + 1 BY <2>1, <3>4, <3>5, <3>6, OperandsFrom
    <3> QED BY <2>1, <3>3, <3>4, <3>7
  <2>7. ~(Len(args) < 2) BY <2>1, <2>2 DEF L
  <2> QED BY <2>5, <2>6, <2>7 DEF Unusable
<1>3. LInv => RefusesOnlyBad BY <1>1, <1>2, Zenon DEF RefusesOnlyBad
<1> QED BY <1>3, CommandLineInvariant, PTL
=============================================================================
