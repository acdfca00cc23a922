------------------------- MODULE ReceiveFileProofs --------------------------
(***************************************************************************)
(* Proofs about one file on its way back, for files, buffers and windows   *)
(* of every size.                                                          *)
(*                                                                         *)
(* KeepsWhatArrived looks at the file on the disk when all is over.  To be *)
(* inductive it has to follow the bytes on their way there: what the       *)
(* server has sent is, in this order, on the disk, in the buffer of the    *)
(* stream and in the receive buffer of the socket, and each of the last    *)
(* two is empty before its end is cut off.                                 *)
(*                                                                         *)
(* To do_restore all of this is FileTransfer, one step for each attempt:   *)
(* the step is Fclose, or what ends the program on the way.                *)
(***************************************************************************)
EXTENDS ReceiveFile, TLAPS

Held == disk \o cache

Kept ==
  /\ pc = "open" => Held = << >>
  /\ pc = "recv" => Held \o queue = First(given)
  /\ pc \in {"close", "fclose"} /\ result = 0 /\ ~diskFull => Held = First(given)
  /\ pc = "done" /\ ~diskFull /\ ~undefined => disk = First(given)

\* Attempts are counted.
Counted == ~Ended => retry =< MaxRetries

Inv == TypeOK /\ Counted /\ Kept

-----------------------------------------------------------------------------
(* Sequences *)

LEMMA ConcatAssociates ==
  ASSUME NEW T, NEW a \in Seq(T), NEW b \in Seq(T), NEW c \in Seq(T)
  PROVE  a \o (b \o c) = (a \o b) \o c
  OBVIOUS

LEMMA ConcatEmpty ==
  ASSUME NEW T, NEW a \in Seq(T)
  PROVE  a \o << >> = a /\ << >> \o a = a
  OBVIOUS

LEMMA ConcatType ==
  ASSUME NEW T, NEW a \in Seq(T), NEW b \in Seq(T)
  PROVE  a \o b \in Seq(T) /\ Len(a \o b) = Len(a) + Len(b)
  OBVIOUS

LEMMA ConcatElements ==
  ASSUME NEW T, NEW a \in Seq(T), NEW b \in Seq(T)
  PROVE  /\ \A i \in 1 .. Len(a) : (a \o b)[i] = a[i]
         /\ \A i \in 1 .. Len(b) : (a \o b)[Len(a) + i] = b[i]
  OBVIOUS

LEMMA SequencesEqual ==
  ASSUME NEW T, NEW a \in Seq(T), NEW b \in Seq(T), NEW n, Len(a) = n, Len(b) = n,
         \A i \in 1 .. n : a[i] = b[i]
  PROVE  a = b
  OBVIOUS

\* The two parts that recv makes of what is waiting in the socket.
LEMMA Split ==
  ASSUME NEW T, NEW q \in Seq(T), NEW n \in 0 .. Len(q)
  PROVE  /\ SubSeq(q, 1, n) \in Seq(T) /\ SubSeq(q, n + 1, Len(q)) \in Seq(T)
         /\ Len(SubSeq(q, n + 1, Len(q))) = Len(q) - n
         /\ SubSeq(q, 1, n) \o SubSeq(q, n + 1, Len(q)) = q
  <1> DEFINE a == SubSeq(q, 1, n)
             b == SubSeq(q, n + 1, Len(q))
             c == a \o b
  <1>1. a \in Seq(T) /\ Len(a) = n /\ \A i \in 1 .. n : a[i] = q[i]
    OBVIOUS
  <1>2. /\ b \in Seq(T) /\ Len(b) = Len(q) - n
        /\ \A i \in 1 .. Len(q) - n : b[i] = q[n + i]
    OBVIOUS
  <1> HIDE DEF a, b
  <1>3. /\ c \in Seq(T) /\ Len(c) = Len(a) + Len(b)
        /\ \A i \in 1 .. Len(a) : c[i] = a[i]
        /\ \A i \in 1 .. Len(b) : c[Len(a) + i] = b[i]
    BY <1>1, <1>2, ConcatType, ConcatElements
  <1> HIDE DEF c
  <1>4. Len(c) = Len(q)
    BY <1>1, <1>2, <1>3
  <1>5. ASSUME NEW i \in 1 .. Len(q) PROVE c[i] = q[i]
    <2>1. CASE i =< n
      BY <2>1, <1>1, <1>3
    <2>2. CASE i > n
      <3> DEFINE k == i - n
      <3>1. k \in 1 .. Len(q) - n /\ n + k = i
        BY <2>2
      <3> HIDE DEF k
      <3>2. c[i] = b[k]
        BY <3>1, <1>1, <1>2, <1>3
      <3>3. b[k] = q[i]
        BY <3>1, <1>2
      <3> QED
        BY <3>2, <3>3
    <2> QED
      BY <2>1, <2>2
  <1>6. c = q
    BY <1>3, <1>4, <1>5, SequencesEqual
  <1> QED
    BY <1>1, <1>2, <1>6 DEF a, b, c

\* The bytes of the file come one after the other.
LEMMA FirstGrows ==
  ASSUME NEW n \in Nat
  PROVE  /\ First(n) \in Seq(Nat) /\ Len(First(n)) = n
         /\ First(n) \o <<n + 1>> = First(n + 1)
  <1> DEFINE a == First(n)
             b == First(n + 1)
             c == a \o <<n + 1>>
  <1>1. a \in Seq(Nat) /\ Len(a) = n /\ \A i \in 1 .. n : a[i] = i
    BY DEF First
  <1>2. b \in Seq(Nat) /\ Len(b) = n + 1 /\ \A i \in 1 .. n + 1 : b[i] = i
    BY DEF First
  <1> HIDE DEF a, b
  <1>3. c \in Seq(Nat) /\ Len(c) = n + 1 /\ \A i \in 1 .. n + 1 : c[i] = i
    BY <1>1
  <1> HIDE DEF c
  <1>4. c = b
    <2>1. n + 1 \in Nat /\ \A i \in 1 .. n + 1 : c[i] = b[i]
      BY <1>2, <1>3
    <2> QED
      BY <1>2, <1>3, <2>1, SequencesEqual
  <1> QED
    BY <1>1, <1>4 DEF a, b, c

LEMMA FirstZero == First(0) = << >>
  BY DEF First

\* The conjuncts of TypeOK that the steps need.
Bytes1 == 1 .. MaxLen

LEMMA Types ==
  ASSUME TypeOK
  PROVE  /\ MaxLen \in Nat /\ Payload \in Nat /\ Payload > 0 /\ Window \in Nat /\ Window > 0
         /\ len \in Nat /\ len =< MaxLen /\ given \in Nat /\ given =< len
         /\ queue \in Seq(Bytes1) /\ cache \in Seq(Bytes1) /\ disk \in Seq(Bytes1)
         /\ Len(queue) \in Nat /\ Len(queue) =< Window /\ retry \in Nat
         /\ Held \in Seq(Bytes1)
  BY ReceiveBounds, ConcatType DEF TypeOK, Held, Bytes1

LEMMA EmptyOk ==
  /\ << >> \in Seq(1 .. MaxLen) /\ Len(<< >>) =< Window
  /\ 0 \in 0 .. MaxRetries + 1
  BY ReceiveBounds DEF MaxRetries

-----------------------------------------------------------------------------
(* The steps *)

LEMMA InitInv == Init => Inv
  <1> SUFFICES ASSUME Init PROVE Inv
    OBVIOUS
  <1>1. TypeOK
    <2>1. /\ len \in 0 .. MaxLen /\ given \in 0 .. len
      BY ReceiveBounds DEF Init
    <2>2. /\ queue \in Seq(1 .. MaxLen) /\ Len(queue) =< Window
          /\ cache \in Seq(1 .. MaxLen) /\ disk \in Seq(1 .. MaxLen)
          /\ retry \in 0 .. MaxRetries + 1
      BY EmptyOk DEF Init
    <2> QED
      BY <2>1, <2>2 DEF Init, TypeOK
  <1>2. Counted /\ Kept
    BY DEF Init, Counted, Kept, MaxRetries
  <1> QED
    BY <1>1, <1>2 DEF Inv

LEMMA FopenInv ==
  ASSUME Inv, Fopen \/ FopenFails
  PROVE  Inv'
  <1>1. CASE Fopen
    <2>1. TypeOK'
      BY <1>1, EmptyOk DEF Fopen, Inv, TypeOK, remote
    <2>2. Counted'
      BY <1>1 DEF Fopen, Inv, Counted, Ended
    <2>3. Kept'
      BY <1>1 DEF Fopen, Kept, Held
    <2> QED
      BY <2>1, <2>2, <2>3 DEF Inv
  <1>2. CASE FopenFails
    <2>1. TypeOK'
      BY <1>2 DEF FopenFails, Inv, TypeOK, remote, file
    <2>2. Counted' /\ Kept'
      BY <1>2 DEF FopenFails, Counted, Kept, Ended
    <2> QED
      BY <2>1, <2>2 DEF Inv
  <1> QED
    BY <1>1, <1>2

LEMMA FcloseInv ==
  ASSUME Inv, Fclose
  PROVE  Inv'
  <1>1. /\ pc = "fclose" /\ retry \in 0 .. MaxRetries
        /\ retry' = retry + 1
        /\ UNCHANGED <<len, result, sock, given, ended, queue, undefined>>
    BY DEF Inv, TypeOK, Counted, Ended, Fclose, remote, MaxRetries
  <1>2. /\ pc' \in {"localerror", "gaveup", "done", "fopen"}
        /\ pc' = "fopen" => retry' =< MaxRetries
        /\ pc' = "done" => result = 0
    BY <1>1 DEF Fclose, MaxRetries
  <1>3. /\ cache' = << >> /\ diskFull' \in BOOLEAN /\ disk' \in Seq(Bytes1)
        /\ ~diskFull' => disk' = Held /\ ~diskFull
    <2>1. CASE disk' = disk \o cache /\ cache' = << >> /\ UNCHANGED diskFull
      BY <2>1, Types DEF Inv, Held, TypeOK
    <2>2. CASE cache' = << >> /\ diskFull' = TRUE /\ UNCHANGED disk
      BY <2>2, Types DEF Inv
    <2> QED
      BY <2>1, <2>2 DEF Fclose, Flush
  <1>4. TypeOK'
    BY <1>1, <1>2, <1>3 DEF Inv, TypeOK, MaxRetries, Bytes1
  <1>5. Counted'
    BY <1>2 DEF Counted, Ended
  <1>6. Kept'
    BY <1>1, <1>2, <1>3 DEF Inv, Kept, First
  <1> QED
    BY <1>4, <1>5, <1>6 DEF Inv

LEMMA OpenInv ==
  ASSUME Inv, OpenOk \/ OpenFails \/ OpenAsserts
  PROVE  Inv'
  <1>1. CASE OpenOk
    <2>1. TypeOK'
      <3>1. /\ queue' \in Seq(1 .. MaxLen) /\ Len(queue') =< Window
            /\ given' \in 0 .. len
        BY <1>1, Types, EmptyOk DEF OpenOk, Inv
      <3> QED
        BY <1>1, <3>1 DEF OpenOk, Inv, TypeOK, file
    <2>2. Counted'
      BY <1>1 DEF OpenOk, Inv, Counted, Ended
    <2>3. Kept'
      <3>1. Held' = << >> /\ queue' = << >> /\ given' = 0 /\ pc' = "recv"
        BY <1>1 DEF OpenOk, Inv, Kept, Held, file
      <3>2. Held' \o queue' = First(given')
        BY <3>1, FirstZero, ConcatEmpty
      <3> QED
        BY <3>1, <3>2 DEF Kept, First
    <2> QED
      BY <2>1, <2>2, <2>3 DEF Inv
  <1>2. CASE OpenFails \/ OpenAsserts
    <2>1. TypeOK'
      BY <1>2 DEF OpenFails, OpenAsserts, Inv, TypeOK, file, remote
    <2>2. Counted' /\ Kept'
      BY <1>2 DEF OpenFails, OpenAsserts, Inv, Counted, Ended, Kept
    <2> QED
      BY <2>1, <2>2 DEF Inv
  <1> QED
    BY <1>1, <1>2

LEMMA ServerInv ==
  ASSUME Inv, Give \/ End
  PROVE  Inv'
  <1>1. CASE Give
    <2> DEFINE b == given + 1
    <2>1. /\ pc = "recv" /\ given < len /\ Len(queue) < Window
          /\ given' = b /\ queue' = Append(queue, b)
          /\ UNCHANGED <<len, pc, retry, result, sock, ended, cache, disk, diskFull, undefined>>
      BY <1>1 DEF Give, file
    <2>2. b \in Bytes1 /\ b =< len
      BY <2>1, Types DEF Inv, Bytes1
    <2>3. queue' \in Seq(Bytes1) /\ Len(queue') =< Window
      BY <2>1, <2>2, Types DEF Inv
    <2>4. queue' = queue \o <<b>>
      BY <2>1, <2>2, Types DEF Inv
    <2>5. TypeOK'
      BY <2>1, <2>2, <2>3, Types DEF Inv, TypeOK, Bytes1
    <2>6. Held' \o queue' = First(given')
      <3>1. Held' = Held /\ <<b>> \in Seq(Bytes1)
        BY <2>1, <2>2 DEF Held
      <3>2. Held \o (queue \o <<b>>) = (Held \o queue) \o <<b>>
        <4>1. Held \in Seq(Bytes1) /\ queue \in Seq(Bytes1)
          BY Types DEF Inv
        <4> QED
          BY <3>1, <4>1, ConcatAssociates
      <3>3. Held \o queue = First(given)
        BY <2>1 DEF Inv, Kept
      <3>4. First(given) \o <<b>> = First(b)
        BY Types, FirstGrows DEF Inv
      <3> QED
        BY <2>1, <2>4, <3>1, <3>2, <3>3, <3>4
    <2>7. Kept'
      BY <2>1, <2>6 DEF Kept, First
    <2>8. Counted'
      BY <2>1 DEF Inv, Counted, Ended
    <2> QED
      BY <2>5, <2>7, <2>8 DEF Inv
  <1>2. CASE End
    <2>1. TypeOK' /\ Counted'
      BY <1>2 DEF End, Inv, TypeOK, Counted, Ended, file
    <2>2. Kept'
      BY <1>2 DEF End, Inv, Kept, Held, First, file
    <2> QED
      BY <2>1, <2>2 DEF Inv
  <1> QED
    BY <1>1, <1>2

LEMMA ReceiveInv ==
  ASSUME Inv, Receive
  PROVE  Inv'
  <1> DEFINE rest == SubSeq(queue, Count + 1, Len(queue))
  <1>1. /\ pc = "recv" /\ queue' = rest
        /\ \/ cache' = cache \o Bytes /\ UNCHANGED disk
           \/ cache' = << >> /\ disk' = disk \o cache \o Bytes
        /\ IF ended /\ Count < Payload THEN pc' = "close" /\ result' = 0
                                       ELSE UNCHANGED <<pc, result>>
        /\ UNCHANGED <<len, retry, sock, given, ended, diskFull, undefined>>
    BY DEF Receive
  <1>2. Count \in 0 .. Len(queue) /\ (Count < Payload => Count = Len(queue))
    BY Types DEF Inv, Count, Smaller
  <1>3. /\ Bytes \in Seq(Bytes1) /\ rest \in Seq(Bytes1)
        /\ Len(rest) = Len(queue) - Count /\ Bytes \o rest = queue
    BY <1>2, Types, Split DEF Inv, Bytes
  <1> HIDE DEF rest
  <1>4. /\ cache' \in Seq(Bytes1) /\ disk' \in Seq(Bytes1)
        /\ Held' = Held \o Bytes
    <2>1. CASE cache' = cache \o Bytes /\ UNCHANGED disk
      <3>1. disk \o (cache \o Bytes) = (disk \o cache) \o Bytes
        <4>1. disk \in Seq(Bytes1) /\ cache \in Seq(Bytes1)
          BY Types DEF Inv
        <4>2. Bytes \in Seq(Bytes1)
          BY <1>3
        <4> QED
          BY <4>1, <4>2, ConcatAssociates
      <3> QED
        BY <2>1, <3>1, <1>3, Types, ConcatType DEF Inv, Held
    <2>2. CASE cache' = << >> /\ disk' = disk \o cache \o Bytes
      <3>1. Held \o Bytes \in Seq(Bytes1)
        BY <1>3, Types, ConcatType DEF Inv
      <3>2. disk' = Held \o Bytes
        BY <2>2 DEF Held
      <3>3. Held' = disk'
        BY <2>2, <3>1, <3>2, ConcatEmpty DEF Held
      <3> QED
        BY <2>2, <3>1, <3>2, <3>3
    <2> QED
      BY <1>1, <2>1, <2>2
  <1>5. Len(queue') \in Nat /\ Len(queue') =< Window
    BY <1>1, <1>2, <1>3, Types DEF Inv
  <1>6. TypeOK'
    BY <1>1, <1>3, <1>4, <1>5 DEF Inv, TypeOK, Bytes1
  <1>7. Counted'
    BY <1>1 DEF Inv, Counted, Ended
  <1>8. Held' \o queue' = First(given)
    <2>1. (Held \o Bytes) \o rest = Held \o (Bytes \o rest)
      <3>1. Held \in Seq(Bytes1)
        BY Types DEF Inv
      <3>2. Bytes \in Seq(Bytes1) /\ rest \in Seq(Bytes1)
        BY <1>3
      <3> QED
        BY <3>1, <3>2, ConcatAssociates
    <2>2. Held \o queue = First(given)
      BY <1>1 DEF Inv, Kept
    <2> QED
      BY <1>1, <1>3, <1>4, <2>1, <2>2
  <1>9. Kept'
    <2>1. CASE pc' = "recv"
      BY <2>1, <1>1, <1>8 DEF Kept, First
    <2>2. CASE ended /\ Count < Payload
      <3>1. queue' = << >>
        BY <2>2, <1>1, <1>2, <1>3
      <3>2. Held' \in Seq(Bytes1)
        BY <1>3, <1>4, Types, ConcatType DEF Inv
      <3>3. Held' \o << >> = Held'
        BY <3>2, ConcatEmpty
      <3>4. Held' = First(given)
        BY <3>1, <3>3, <1>8
      <3> QED
        BY <2>2, <1>1, <3>4 DEF Kept, First
    <2> QED
      BY <1>1, <2>1, <2>2
  <1> QED
    BY <1>6, <1>7, <1>9 DEF Inv

LEMMA EndOfReceiveInv ==
  ASSUME Inv, ReceiveNoRoom \/ Close
  PROVE  Inv'
  <1>1. CASE ReceiveNoRoom
    <2>1. Count \in 0 .. Len(queue)
      BY Types DEF Inv, Count, Smaller
    <2>2. queue' \in Seq(Bytes1) /\ Len(queue') \in Nat /\ Len(queue') =< Window
      BY <1>1, <2>1, Types, Split DEF Inv, ReceiveNoRoom
    <2>3. TypeOK'
      BY <1>1, <2>2 DEF ReceiveNoRoom, Inv, TypeOK, Bytes1
    <2>4. Counted' /\ Kept'
      BY <1>1 DEF ReceiveNoRoom, Inv, Counted, Ended, Kept
    <2> QED
      BY <2>3, <2>4 DEF Inv
  <1>2. CASE Close
    <2>1. TypeOK' /\ Counted'
      BY <1>2 DEF Close, Inv, TypeOK, Counted, Ended, file, remote
    <2>2. Kept'
      BY <1>2 DEF Close, Inv, Kept, Held, First, file, remote
    <2> QED
      BY <2>1, <2>2 DEF Inv
  <1> QED
    BY <1>1, <1>2

-----------------------------------------------------------------------------
(* The theorems *)

LEMMA NextInv ==
  ASSUME Inv, [Next]_vars
  PROVE  Inv'
  <1>1. CASE Fopen \/ FopenFails
    BY <1>1, FopenInv
  <1>2. CASE Fclose
    BY <1>2, FcloseInv
  <1>3. CASE OpenOk \/ OpenFails \/ OpenAsserts
    BY <1>3, OpenInv
  <1>4. CASE Give \/ End
    BY <1>4, ServerInv
  <1>5. CASE Receive
    BY <1>5, ReceiveInv
  <1>6. CASE ReceiveNoRoom \/ Close
    BY <1>6, EndOfReceiveInv
  <1>7. CASE Terminated \/ UNCHANGED vars
    <2>1. UNCHANGED vars
      BY <1>7 DEF Terminated
    <2> QED
      BY <2>1 DEF vars, remote, file, Inv, TypeOK, Counted, Ended, Kept, Held, First
  <1> QED
    BY <1>1, <1>2, <1>3, <1>4, <1>5, <1>6, <1>7 DEF Next, Loop

LEMMA Invariant == Spec => []Inv
  <1>1. Init => Inv
    BY InitInv
  <1>2. Inv /\ [Next]_vars => Inv'
    BY NextInv
  <1> QED
    BY <1>1, <1>2, PTL DEF Spec

\* The variables of the loop, restore_file and the connection keep their types,
\* and no more than four attempts are made.
THEOREM ReceiveTypes == Spec => []TypeOK
  <1>1. Inv => TypeOK
    BY DEF Inv
  <1> QED
    BY <1>1, Invariant, PTL

\* For a file, a buffer and a window of any size, every byte that the server has
\* sent before the connection was closed is in the file that counts as restored,
\* once and in order (MTCPFTP.CPP:634-647, RESTORE.C:214-240, 336-353).
THEOREM ReceivedIsKept == Spec => []KeepsWhatArrived
  <1>1. Inv => KeepsWhatArrived
    BY DEF Inv, Kept, KeepsWhatArrived
  <1> QED
    BY <1>1, Invariant, PTL

-----------------------------------------------------------------------------
(* The transfer that do_restore sees *)

LEMMA InitAbstract ==
  ASSUME Init
  PROVE  Abstract!Init
  <1>1. pc = "fopen" /\ retry = 0 /\ undefined = FALSE /\ len \in 0 .. MaxLen
    BY DEF Init
  <1>2. ~Ended /\ pc # "done"
    BY <1>1 DEF Ended
  <1>3. First(len) \in {First(n) : n \in 0 .. MaxLen}
    BY <1>1
  <1>4. (undefined \/ (pc = "done" /\ diskFull)) = FALSE
    BY <1>1, <1>2, Zenon
  <1> QED
    BY <1>1, <1>2, <1>3, <1>4, Zenon DEF Abstract!Init

\* The beginning of the file is a piece of it.
LEMMA BeginningOfFile ==
  ASSUME NEW n \in Nat, NEW g \in 0 .. n
  PROVE  First(g) = SubSeq(First(n), 1, g)
  <1> DEFINE a == First(g)
             f == First(n)
             b == SubSeq(f, 1, g)
  <1>0. g \in Nat /\ g - 1 + 1 = g
    OBVIOUS
  <1>1. a \in Seq(Nat) /\ Len(a) = g /\ \A i \in 1 .. g : a[i] = i
    BY <1>0 DEF First
  <1>2. f \in Seq(Nat) /\ Len(f) = n /\ \A i \in 1 .. n : f[i] = i
    BY DEF First
  <1> HIDE DEF a, f
  <1>3. b \in Seq(Nat) /\ Len(b) = g /\ \A i \in 1 .. g : b[i] = f[i]
    BY <1>0, <1>2
  <1> HIDE DEF b
  <1>4. \A i \in 1 .. g : b[i] = a[i]
    BY <1>1, <1>2, <1>3
  <1>5. b = a
    BY <1>1, <1>3, <1>4, SequencesEqual
  <1> QED
    BY <1>5 DEF a, b, f

\* The end of an attempt: restored, given up for the local file, too late, or to
\* be repeated.
LEMMA FcloseAbstract ==
  ASSUME Inv, Inv', Fclose
  PROVE  \E r \in {0, -1, -2} : Abstract!Attempt(r)
  <1>1. /\ pc = "fclose" /\ retry \in 0 .. 3 /\ retry' = retry + 1
        /\ result \in {0, -1, -2}
        /\ len' = len /\ len \in Nat /\ given' = given /\ given \in 0 .. len
        /\ undefined' = undefined /\ undefined \in BOOLEAN
    BY Types, ReceiveBounds DEF Inv, TypeOK, Counted, Ended, Fclose, remote, MaxRetries
  <1>2. pc' = IF result = -2 THEN "localerror" ELSE IF retry + 1 > 3 THEN "gaveup"
              ELSE IF result = 0 THEN "done" ELSE "fopen"
    BY <1>1 DEF Fclose, MaxRetries
  <1>3. ~Ended /\ pc # "done"
    BY <1>1 DEF Ended
  <1>4. (IF Ended THEN pc ELSE "trying")' =
           IF result = -2 THEN "localerror" ELSE IF retry + 1 > 3 THEN "gaveup"
           ELSE IF result = 0 THEN "done" ELSE "trying"
    BY <1>2 DEF Ended
  <1>5. (IF Ended THEN pc ELSE "trying")' = Abstract!Verdict(result)
    BY <1>4 DEF Abstract!Verdict, Abstract!MaxRetries
  <1>6. CASE pc' # "done"
    <2>1. (IF Ended THEN pc ELSE "trying")' # "done"
      BY <1>2, <1>4, <1>6
    <2>2. (undefined' \/ (pc' = "done" /\ diskFull')) = (undefined \/ (pc = "done" /\ diskFull))
      BY <1>1, <1>3, <1>6, Zenon
    <2>3. Abstract!Attempt(result)
      BY <1>1, <1>3, <1>5, <1>6, <2>1, <2>2, Zenon DEF Abstract!Attempt, First
    <2> QED
      BY <1>1, <2>3
  <1>7. CASE pc' = "done"
    <2>1. (IF Ended THEN pc ELSE "trying")' = "done"
      BY <1>2, <1>4, <1>7
    <2>2. CASE diskFull' \/ undefined'
      <3>1. (undefined' \/ (pc' = "done" /\ diskFull')) = TRUE
        BY <1>7, <2>2, Zenon
      <3>2. Abstract!Attempt(result)
        BY <1>1, <1>3, <1>5, <2>1, <2>2, <3>1, Zenon DEF Abstract!Attempt, First
      <3> QED
        BY <1>1, <3>2
    <2>3. CASE ~diskFull' /\ ~undefined'
      <3>1. (undefined' \/ (pc' = "done" /\ diskFull')) = FALSE
        BY <2>3, Zenon
      <3>2. disk' = First(given)
        BY <1>1, <1>7, <2>3 DEF Inv, Kept, First
      <3>3. disk' = SubSeq(First(len), 1, given)
        BY <1>1, <3>2, BeginningOfFile
      <3>4. Len(First(len)) = len
        BY <1>1 DEF First
      <3>5. disk' = SubSeq(First(len), 0 + 1, given)
        BY <3>3
      <3>6. disk' \in Abstract!Parts
        BY <1>1, <3>4, <3>5 DEF Abstract!Parts
      <3>7. Abstract!Attempt(result)
        BY <1>1, <1>3, <1>5, <1>7, <2>1, <2>3, <3>1, <3>6, Zenon DEF Abstract!Attempt, First
      <3> QED
        BY <1>1, <3>7
    <2> QED
      BY <2>2, <2>3
  <1> QED
    BY <1>6, <1>7

\* Every other step is one of the inside of an attempt, or its end by an
\* assertion or a null stream.
LEMMA NextAbstract ==
  ASSUME Inv, Inv', [Next]_vars
  PROVE  [Abstract!Next]_(Abstract!vars)
  <1>1. CASE Fclose
    BY <1>1, FcloseAbstract DEF Abstract!Next
  <1>2. CASE OpenAsserts
    <2>1. /\ pc = "open" /\ pc' = "aborted" /\ len' = len /\ retry' = retry
          /\ undefined' = undefined
      BY <1>2 DEF OpenAsserts
    <2>2. /\ (IF Ended THEN pc ELSE "trying") = "trying"
          /\ (IF Ended THEN pc ELSE "trying")' = "aborted"
      BY <2>1 DEF Ended
    <2>3. (undefined' \/ (pc' = "done" /\ diskFull')) = (undefined \/ (pc = "done" /\ diskFull))
      BY <2>1, Zenon
    <2>4. Abstract!Abort
      BY <2>1, <2>2, <2>3, Zenon DEF Abstract!Abort, First
    <2> QED
      BY <2>4 DEF Abstract!Next
  <1>3. CASE FopenFails
    <2>1. /\ pc = "fopen" /\ pc' \in {"done", "gaveup", "localerror", "aborted"}
          /\ len' = len /\ retry' = retry /\ undefined' = TRUE
      BY <1>3 DEF FopenFails
    <2>2. /\ (IF Ended THEN pc ELSE "trying") = "trying"
          /\ (IF Ended THEN pc ELSE "trying")' = pc'
      BY <2>1 DEF Ended
    <2>3. (undefined' \/ (pc' = "done" /\ diskFull')) = TRUE
      BY <2>1, Zenon
    <2>4. Abstract!Derail
      BY <2>1, <2>2, <2>3, Zenon DEF Abstract!Derail, First
    <2> QED
      BY <2>4 DEF Abstract!Next
  <1>4. CASE Fopen \/ OpenOk \/ OpenFails \/ Receive \/ ReceiveNoRoom \/ Close \/ Give \/ End
    <2>1. /\ pc \in {"fopen", "open", "recv", "close"}
          /\ pc' \in {"open", "recv", "close", "fclose"}
          /\ len' = len /\ retry' = retry /\ undefined' = undefined
      BY <1>4 DEF Fopen, OpenOk, OpenFails, Receive, ReceiveNoRoom, Close, Give, End
    <2>2. ~Ended /\ ~Ended' /\ pc # "done" /\ pc' # "done"
      BY <2>1 DEF Ended
    <2>3. (undefined' \/ (pc' = "done" /\ diskFull')) = (undefined \/ (pc = "done" /\ diskFull))
      BY <2>1, <2>2, Zenon
    <2>4. UNCHANGED Abstract!vars
      BY <2>1, <2>2, <2>3, Zenon DEF Abstract!vars, First
    <2> QED
      BY <2>4
  <1>5. CASE Terminated \/ UNCHANGED vars
    <2>1. UNCHANGED <<len, pc, retry, disk, diskFull, undefined>>
      BY <1>5 DEF Terminated, vars, file
    <2>2. UNCHANGED Abstract!vars
      BY <2>1, Zenon DEF Abstract!vars, First, Ended
    <2> QED
      BY <2>2
  <1> QED
    BY <1>1, <1>2, <1>3, <1>4, <1>5 DEF Next, Loop

\* restore_file and the loop around it are, for files, buffers and windows of
\* every size, the transfer of at most four attempts that do_restore takes them
\* for (RESTORE.C:214-246), of which the end of the file may be missing.
THEOREM ReceiveImplementsTransfer == Spec => ImplementsFileTransfer
  <1>1. Init => Abstract!Init
    BY InitAbstract
  <1>2. Inv /\ Inv' /\ [Next]_vars => [Abstract!Next]_(Abstract!vars)
    BY NextAbstract
  <1>3. Spec => []Inv
    BY Invariant
  <1> QED
    BY <1>1, <1>2, <1>3, PTL DEF Spec, ImplementsFileTransfer, Abstract!Spec
=============================================================================
