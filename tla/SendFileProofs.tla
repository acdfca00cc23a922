--------------------------- MODULE SendFileProofs ---------------------------
(***************************************************************************)
(* Proofs about one file on its way to the server, for files, buffers and  *)
(* words of every size, and whatever the server and the network do.        *)
(*                                                                         *)
(* NoGap looks at the queued bytes between two reads.  To be inductive it  *)
(* has to say where the buffer and the last part are meanwhile: in "full"  *)
(* the buffer begins right behind the queued bytes, in "tail" its part     *)
(* behind chars_read_since_eof does, and the counters add up to the        *)
(* buffer, so that none of them wraps.                                     *)
(*                                                                         *)
(* To do_backup all of this is FileTransfer, one step for each attempt:    *)
(* the step is the one that looks at the attempt's result.                 *)
(***************************************************************************)
EXTENDS SendFile, TLAPS

\* The buffer holds bytes of the file, and the position is behind a full one.
Buffer ==
  /\ bufPos + charsRead =< len
  /\ pc = "full" => fpos = bufPos + charsRead /\ charsRead = Payload

\* Attempts are counted, and the first begins at the beginning of the file.
Attempts ==
  /\ ~Ended => retry =< MaxRetries
  /\ retry = 0 => start = 0 /\ (pc = "open" => fpos = 0)
  /\ pc = "done" /\ retry = 1 => start = 0

Transfer ==
  pc \in {"read", "full", "tail", "close"} /\ ~unset =>
    /\ wire = Slice(start, Len(wire))
    /\ pc = "read" => fpos = start + Len(wire)
    /\ pc = "full" => bufPos = start + Len(wire)
    /\ pc = "tail" => /\ bufPos + since = start + Len(wire)
                      /\ since + left = charsRead
                      /\ bufPos + charsRead = len /\ fpos = len
    /\ pc = "close" /\ sendRc = "SUCCESS" => start + Len(wire) = len

Stored ==
  pc = "done" /\ ~unset /\ ~lost => remote = Slice(start, len - start)

Inv == TypeOK /\ Buffer /\ Attempts /\ Transfer /\ Stored

-----------------------------------------------------------------------------
(* Words and pieces of the file *)

LEMMA ModRange ==
  ASSUME NEW w \in Nat \ {0}, NEW a \in Int
  PROVE  a % w \in 0 .. w - 1
  OBVIOUS

LEMMA ModSmall ==
  ASSUME NEW w \in Nat \ {0}, NEW a \in 0 .. w - 1
  PROVE  a % w = a
  OBVIOUS

\* A count that is not over what is left wraps neither of the two counters.
LEMMA WithinWord ==
  ASSUME NEW w \in Nat, NEW a \in Nat, NEW b \in Nat, NEW k \in 0 .. b, a + b < w
  PROVE  a + k \in 0 .. w - 1 /\ b - k \in 0 .. w - 1
  OBVIOUS

LEMMA UpTo ==
  ASSUME NEW b \in Nat, NEW k \in 0 .. b
  PROVE  k \in Nat /\ 0 + k =< b
  OBVIOUS

LEMMA TupleIsSequence ==
  ASSUME NEW T, NEW n \in Nat, NEW f \in [1 .. n -> T]
  PROVE  f \in Seq(T) /\ Len(f) = n
  OBVIOUS

LEMMA SliceType ==
  ASSUME NEW p \in Nat, NEW n \in Nat
  PROVE  /\ Slice(p, n) \in Seq(Nat) /\ Len(Slice(p, n)) = n
         /\ \A i \in 1 .. n : Slice(p, n)[i] = p + i
  BY DEF Slice

\* Two neighbouring pieces of the file are one.
LEMMA SliceGrows ==
  ASSUME NEW p \in Nat, NEW m \in Nat, NEW n \in Nat
  PROVE  Slice(p, m) \o Slice(p + m, n) = Slice(p, m + n)
  <1> DEFINE a == Slice(p, m)
             b == Slice(p + m, n)
             c == Slice(p, m + n)
  <1>0. p + m \in Nat /\ m + n \in Nat
    OBVIOUS
  <1>1. a \in Seq(Nat) /\ Len(a) = m /\ \A i \in 1 .. m : a[i] = p + i
    BY SliceType
  <1>2. b \in Seq(Nat) /\ Len(b) = n /\ \A i \in 1 .. n : b[i] = p + m + i
    BY <1>0, SliceType
  <1>3. c \in Seq(Nat) /\ Len(c) = m + n /\ \A i \in 1 .. m + n : c[i] = p + i
    BY <1>0, SliceType
  <1> HIDE DEF a, b, c
  <1>4. a \o b \in Seq(Nat) /\ Len(a \o b) = m + n
    BY <1>1, <1>2
  <1>5. ASSUME NEW i \in 1 .. m + n PROVE (a \o b)[i] = c[i]
    <2>1. CASE i =< m
      <3>1. i \in 1 .. m
        BY <2>1
      <3>2. (a \o b)[i] = a[i]
        BY <3>1, <1>1, <1>2
      <3> QED
        BY <3>1, <3>2, <1>1, <1>3
    <2>2. CASE i > m
      <3>1. i - m \in 1 .. n /\ (a \o b)[i] = b[i - m]
        BY <2>2, <1>1, <1>2
      <3>2. b[i - m] = p + m + (i - m)
        BY <3>1, <1>2
      <3>3. p + m + (i - m) = p + i
        OBVIOUS
      <3> QED
        BY <3>1, <3>2, <3>3, <1>3
    <2>3. i =< m \/ i > m
      OBVIOUS
    <2> QED
      BY <2>1, <2>2, <2>3
  <1> DEFINE d == a \o b
  <1>6. d \in Seq(Nat) /\ Len(d) = m + n /\ \A i \in 1 .. m + n : d[i] = c[i]
    BY <1>4, <1>5
  <1> HIDE DEF d
  <1>7. d = c
    BY <1>3, <1>6
  <1> QED
    BY <1>7 DEF a, b, c, d

\* The conjuncts of TypeOK by themselves.
LEMMA Types ==
  ASSUME TypeOK
  PROVE  /\ len \in Nat /\ fpos \in Nat /\ start \in Nat /\ bufPos \in Nat
         /\ charsRead \in Nat /\ retry \in Nat
         /\ len =< MaxLen /\ fpos =< len /\ start =< len /\ charsRead =< Payload
         /\ left \in 0 .. Word - 1 /\ since \in 0 .. Word - 1 /\ charsSent \in 0 .. Word - 1
         /\ wire \in Seq(0 .. MaxLen) /\ Len(wire) \in Nat
         /\ MaxLen \in Nat /\ Payload \in Nat /\ Payload >= 1 /\ Word \in Nat /\ Payload < Word
         /\ MaxEnqueue \in Nat /\ MaxEnqueue >= 1
  BY SendBounds DEF TypeOK

\* What a send queues: a piece of the buffer that lies within what was read is
\* a piece of the file; in every case it holds file bytes and zeros only.
LEMMA MemoryType ==
  ASSUME TypeOK, Buffer, NEW from \in Nat, NEW n \in Nat
  PROVE  /\ Memory(from, n) \in Seq(0 .. MaxLen) /\ Len(Memory(from, n)) = n
         /\ from + n =< charsRead => Memory(from, n) = Slice(bufPos + from, n)
  <1>1. /\ bufPos \in Nat /\ charsRead \in Nat /\ len \in Nat /\ MaxLen \in Nat
        /\ len =< MaxLen /\ bufPos + charsRead =< len
    BY SendBounds DEF TypeOK, Buffer
  <1>2. \A i \in 1 .. n :
          (IF from + i =< charsRead THEN bufPos + from + i ELSE 0) \in 0 .. MaxLen
    BY <1>1
  <1>3. Memory(from, n) \in [1 .. n -> 0 .. MaxLen]
    BY <1>2, Zenon DEF Memory
  <1>4. Memory(from, n) \in Seq(0 .. MaxLen) /\ Len(Memory(from, n)) = n
    BY <1>3, TupleIsSequence
  <1>5. ASSUME from + n =< charsRead PROVE Memory(from, n) = Slice(bufPos + from, n)
    BY <1>1, <1>5 DEF Memory, Slice
  <1> QED
    BY <1>4, <1>5

-----------------------------------------------------------------------------
(* Opening *)

LEMMA InitInv == Init => Inv
  <1> SUFFICES ASSUME Init PROVE Inv
    OBVIOUS
  <1>1. TypeOK
    <2>1. /\ len \in 0 .. MaxLen /\ fpos \in 0 .. len /\ start \in 0 .. len
          /\ bufPos \in 0 .. len /\ charsRead \in 0 .. Payload
          /\ retry \in 0 .. MaxRetries + 1
          /\ left \in 0 .. Word - 1 /\ since \in 0 .. Word - 1 /\ charsSent \in 0 .. Word - 1
      BY SendBounds DEF Init, MaxRetries
    <2>2. wire \in Seq(0 .. MaxLen) /\ remote \in Seq(0 .. MaxLen)
      BY DEF Init
    <2>3. /\ unset \in BOOLEAN /\ lost \in BOOLEAN
          /\ sock \in {"null", "open", "freed"} /\ sendRc \in {"SUCCESS", "TARGET_BUSY", "failed"}
      BY Zenon DEF Init
    <2>4. pc = "open"
      BY DEF Init
    <2> QED
      BY <2>1, <2>2, <2>3, <2>4 DEF TypeOK
  <1>2. Buffer /\ Attempts /\ Transfer /\ Stored
    BY SendBounds DEF Init, Buffer, Attempts, Transfer, Stored, Ended, MaxRetries
  <1> QED
    BY <1>1, <1>2 DEF Inv

\* An open that failed leads to another attempt or to none.
LEMMA TryAgainInv ==
  ASSUME Inv, ~Ended, TryAgain, UNCHANGED <<local, counts, start>>,
         sock' \in {"null", "open", "freed"}, sendRc' \in {"SUCCESS", "TARGET_BUSY", "failed"},
         wire' \in Seq(0 .. MaxLen), remote' \in Seq(0 .. MaxLen),
         unset' \in BOOLEAN, lost' \in BOOLEAN
  PROVE  Inv'
  <1>1. /\ TypeOK /\ Buffer /\ retry \in 0 .. 3 /\ retry' = retry + 1
        /\ pc' = IF retry' =< 3 THEN "open" ELSE "gaveup"
    BY DEF Inv, TypeOK, Attempts, TryAgain, MaxRetries
  <1>2. pc' \in {"open", "gaveup"} /\ retry' \in 1 .. 4
    BY <1>1
  <1>3. TypeOK'
    BY <1>1, <1>2 DEF TypeOK, local, counts, MaxRetries
  <1>4. Buffer' /\ Transfer' /\ Stored'
    BY <1>1, <1>2 DEF Buffer, Transfer, Stored, local
  <1>5. Attempts'
    BY <1>1, <1>2 DEF Attempts, Ended, MaxRetries
  <1> QED
    BY <1>3, <1>4, <1>5 DEF Inv

LEMMA OpenInv ==
  ASSUME Inv,
         OpenOk \/ OpenFailsEarly \/ OpenRefused \/ OpenUnanswered \/ OpenAsserts
  PROVE  Inv'
  <1>0. /\ TypeOK /\ Buffer /\ Attempts /\ Transfer /\ Stored /\ pc = "open" /\ ~Ended
        /\ wire \in Seq(0 .. MaxLen) /\ remote \in Seq(0 .. MaxLen)
    BY DEF Inv, TypeOK, OpenOk, OpenFailsEarly, OpenRefused, OpenUnanswered, OpenAsserts, Ended
  <1>1. CASE OpenOk
    <2>1. /\ sock' = "open" /\ sendRc' = "SUCCESS" /\ wire' = << >> /\ remote' = << >>
          /\ start' = fpos /\ unset' = FALSE /\ lost' = FALSE /\ pc' = "read"
          /\ UNCHANGED <<local, counts, retry>>
      BY <1>1 DEF OpenOk
    <2>2. wire' \in Seq(0 .. MaxLen) /\ remote' \in Seq(0 .. MaxLen)
      BY <2>1
    <2>3. TypeOK'
      BY <1>0, <2>1, <2>2 DEF TypeOK, local, counts
    <2>4. Buffer' /\ Stored'
      BY <1>0, <2>1 DEF Buffer, Stored, local
    <2>5. Attempts'
      BY <1>0, <2>1 DEF Attempts, Ended, local
    <2>6. Transfer'
      <3>1. Slice(fpos, 0) = << >> /\ Len(<< >>) = 0 /\ fpos = fpos + 0
        BY <1>0, Types DEF Slice
      <3>2. fpos' = fpos
        BY <2>1 DEF local
      <3>3. wire' = Slice(start', Len(wire')) /\ fpos' = start' + Len(wire')
        BY <2>1, <3>1, <3>2
      <3> QED
        BY <2>1, <3>3 DEF Transfer, Slice
    <2> QED
      BY <2>3, <2>4, <2>5, <2>6 DEF Inv
  <1>2. CASE OpenFailsEarly
    <2>1. TryAgain /\ UNCHANGED <<local, counts, ghosts, sock, sendRc, wire, remote, start>>
      BY <1>2 DEF OpenFailsEarly
    <2> QED
      BY <1>0, <2>1, TryAgainInv DEF ghosts, TypeOK
  <1>3. CASE OpenRefused
    <2>1. /\ TryAgain /\ sock' = "freed" /\ remote' \in {remote, << >>}
          /\ UNCHANGED <<local, counts, unset, lost, sendRc, wire, start>>
      BY <1>3 DEF OpenRefused
    <2>2. remote' \in Seq(0 .. MaxLen)
      <3>1. << >> \in Seq(0 .. MaxLen)
        OBVIOUS
      <3> QED
        BY <1>0, <2>1, <3>1, Zenon
    <2> QED
      BY <1>0, <2>1, <2>2, TryAgainInv DEF TypeOK
  <1>4. CASE OpenUnanswered
    <2>1. /\ TryAgain /\ sock' = "open" /\ remote' \in {remote, << >>}
          /\ UNCHANGED <<local, counts, unset, lost, sendRc, wire, start>>
      BY <1>4 DEF OpenUnanswered
    <2>2. remote' \in Seq(0 .. MaxLen)
      <3>1. << >> \in Seq(0 .. MaxLen)
        OBVIOUS
      <3> QED
        BY <1>0, <2>1, <3>1, Zenon
    <2> QED
      BY <1>0, <2>1, <2>2, TryAgainInv DEF TypeOK
  <1>5. CASE OpenAsserts
    <2>1. /\ pc' = "aborted"
          /\ UNCHANGED <<local, loop, counts, ghosts, sock, sendRc, wire, remote>>
      BY <1>5 DEF OpenAsserts
    <2>2. TypeOK'
      BY <1>0, <2>1 DEF TypeOK, local, loop, counts, ghosts
    <2> QED
      BY <1>0, <2>1, <2>2 DEF Inv, Buffer, Attempts, Transfer, Stored, Ended, local, loop
  <1> QED
    BY <1>1, <1>2, <1>3, <1>4, <1>5

-----------------------------------------------------------------------------
(* Reading *)

LEMMA ReadInv ==
  ASSUME Inv, ReadFull \/ ReadTail \/ ReadError
  PROVE  Inv'
  <1>0. /\ TypeOK /\ Buffer /\ Attempts /\ Transfer /\ Stored /\ pc = "read"
        /\ UNCHANGED <<loop, ghosts, sock, sendRc, wire, remote>>
    BY DEF Inv, ReadFull, ReadTail, ReadError
  <1>t. /\ len \in Nat /\ fpos \in Nat /\ fpos =< len /\ Payload \in Nat /\ Payload >= 1
        /\ Word \in Nat /\ Payload < Word
    BY <1>0, Types
  <1>1. CASE ReadFull
    <2>1. /\ len - fpos >= Payload /\ bufPos' = fpos /\ charsRead' = Payload
          /\ fpos' = fpos + Payload /\ pc' = "full" /\ UNCHANGED <<len, counts>>
      BY <1>1 DEF ReadFull
    <2>2. fpos' \in 0 .. len /\ bufPos' \in 0 .. len /\ charsRead' \in 0 .. Payload
      BY <1>t, <2>1
    <2>3. TypeOK'
      BY <1>0, <2>1, <2>2 DEF TypeOK, loop, counts, ghosts
    <2>4. Buffer'
      BY <1>t, <2>1 DEF Buffer
    <2>5. Attempts' /\ Stored'
      BY <1>0, <2>1 DEF Attempts, Stored, Ended, loop
    <2>6. Transfer'
      BY <1>0, <2>1 DEF Transfer, loop, ghosts, Slice
    <2> QED
      BY <2>3, <2>4, <2>5, <2>6 DEF Inv
  <1>2. CASE ReadTail
    <2>1. /\ len - fpos < Payload /\ bufPos' = fpos /\ charsRead' = len - fpos
          /\ fpos' = len /\ left' = len - fpos /\ since' = 0 /\ pc' = "tail"
          /\ UNCHANGED <<len, charsSent>>
      BY <1>2 DEF ReadTail
    <2>2. /\ fpos' \in 0 .. len /\ bufPos' \in 0 .. len /\ charsRead' \in 0 .. Payload
          /\ left' \in 0 .. Word - 1 /\ since' \in 0 .. Word - 1
      BY <1>t, <2>1
    <2>3. TypeOK'
      BY <1>0, <2>1, <2>2 DEF TypeOK, loop, ghosts
    <2>4. Buffer'
      BY <1>t, <2>1 DEF Buffer
    <2>5. Attempts' /\ Stored'
      BY <1>0, <2>1 DEF Attempts, Stored, Ended, loop
    <2>6. Transfer'
      <3>1. bufPos' + since' = fpos /\ since' + left' = charsRead' /\ bufPos' + charsRead' = len
        BY <1>t, <2>1
      <3> QED
        BY <1>0, <2>1, <3>1 DEF Transfer, loop, ghosts, Slice
    <2> QED
      BY <2>3, <2>4, <2>5, <2>6 DEF Inv
  <1>3. CASE ReadError
    <2>1. pc' = "closelocal" /\ UNCHANGED <<local, counts>>
      BY <1>3 DEF ReadError
    <2>2. TypeOK'
      BY <1>0, <2>1 DEF TypeOK, local, loop, counts, ghosts
    <2> QED
      BY <1>0, <2>1, <2>2 DEF Inv, Buffer, Attempts, Transfer, Stored, Ended, local, loop
  <1> QED
    BY <1>1, <1>2, <1>3

-----------------------------------------------------------------------------
(* Sending *)

\* A send that sets its results queues as many bytes of the buffer as it says.
LEMMA SendParts ==
  ASSUME TypeOK, Buffer, NEW from \in Nat, NEW n \in 0 .. Word - 1, SendDataRemote(from, n)
  PROVE  /\ charsSent' \in 0 .. Word - 1 /\ wire' \in Seq(0 .. MaxLen)
         /\ sendRc' \in {"SUCCESS", "TARGET_BUSY", "failed"} /\ unset' \in BOOLEAN
         /\ ~unset' =>
              /\ ~unset
              /\ \/ sendRc' = "failed" /\ wire' = wire
                 \/ /\ sendRc' # "failed" /\ charsSent' \in 0 .. n
                    /\ wire' = wire \o Memory(from, charsSent')
  <1>1. /\ wire \in Seq(0 .. MaxLen) /\ charsSent \in 0 .. Word - 1 /\ unset \in BOOLEAN
        /\ Word \in Nat /\ MaxEnqueue \in Nat
    BY Types DEF TypeOK
  <1>2. CASE Queued(from, n)
    <2> DEFINE k == Smaller(n, MaxEnqueue)
    <2>1. charsSent' = k /\ wire' = wire \o Memory(from, k) /\ sendRc' = "SUCCESS" /\ unset' = unset
      BY <1>2 DEF Queued
    <2>2. k \in 0 .. n /\ k \in Nat
      BY <1>1 DEF Smaller
    <2> HIDE DEF k
    <2>3. Memory(from, k) \in Seq(0 .. MaxLen)
      BY <2>2, MemoryType
    <2> DEFINE T == 0 .. MaxLen
               m == Memory(from, k)
    <2>4. wire \in Seq(T) /\ m \in Seq(T)
      BY <1>1, <2>3
    <2> HIDE DEF T, m
    <2>5. wire \o m \in Seq(T)
      BY <2>4
    <2>6. wire' \in Seq(0 .. MaxLen)
      BY <2>1, <2>5, Zenon DEF T, m
    <2>7. charsSent' \in 0 .. Word - 1 /\ charsSent' \in 0 .. n
      BY <1>1, <2>1, <2>2
    <2>8. wire' = wire \o Memory(from, charsSent')
      BY <2>1
    <2> QED
      BY <1>1, <2>1, <2>6, <2>7, <2>8
  <1>3. CASE NoBuffer
    <2>1. charsSent' = 0 /\ wire' = wire /\ sendRc' = "TARGET_BUSY" /\ unset' = unset
      BY <1>3 DEF NoBuffer
    <2>2. Memory(from, 0) = << >>
      BY DEF Memory
    <2>3. wire \o << >> = wire
      BY <1>1
    <2>4. wire' = wire \o Memory(from, charsSent')
      BY <2>1, <2>2, <2>3
    <2>5. charsSent' \in 0 .. Word - 1 /\ charsSent' \in 0 .. n
      BY <1>1, <2>1
    <2> QED
      BY <1>1, <2>1, <2>4, <2>5
  <1>4. CASE SendFails
    BY <1>1, <1>4 DEF SendFails
  <1>5. CASE NoRoom
    BY <1>1, <1>5 DEF NoRoom
  <1> QED
    BY <1>2, <1>3, <1>4, <1>5 DEF SendDataRemote

\* The queued bytes grow by a piece of the buffer that lies right behind them.
LEMMA WireGrows ==
  ASSUME TypeOK, Buffer, NEW from \in Nat, NEW k \in Nat, from + k =< charsRead,
         wire = Slice(start, Len(wire)), bufPos + from = start + Len(wire),
         NEW w, w = wire \o Memory(from, k)
  PROVE  w = Slice(start, Len(w)) /\ Len(w) = Len(wire) + k
  <1>1. start \in Nat /\ Len(wire) \in Nat /\ bufPos \in Nat
    BY Types
  <1>2. Memory(from, k) = Slice(start + Len(wire), k)
    BY MemoryType
  <1> DEFINE n == Len(wire)
  <1>3. w = Slice(start, n) \o Slice(start + n, k)
    BY <1>2
  <1>4. n \in Nat
    BY <1>1
  <1> HIDE DEF n
  <1>a. n + k \in Nat
    BY <1>4
  <1>b. Slice(start, n) \o Slice(start + n, k) = Slice(start, n + k)
    BY <1>1, <1>4, SliceGrows
  <1>5. w = Slice(start, n + k) /\ n + k \in Nat
    BY <1>3, <1>a, <1>b
  <1>6. Len(w) = n + k
    BY <1>1, <1>5, SliceType
  <1> QED
    BY <1>5, <1>6 DEF n

LEMMA SendFullInv ==
  ASSUME Inv, SendFull
  PROVE  Inv'
  <1>1. /\ TypeOK /\ Buffer /\ Attempts /\ Transfer /\ Stored /\ pc = "full"
        /\ SendDataRemote(0, charsRead)
        /\ fpos' = IF charsSent' < charsRead THEN fpos + charsSent' - charsRead ELSE fpos
        /\ pc' = IF sendRc' = "failed" THEN "close" ELSE "read"
        /\ UNCHANGED <<len, bufPos, charsRead, left, since, loop, lost, sock, remote>>
    BY DEF Inv, SendFull
  <1>2. /\ len \in Nat /\ fpos \in Nat /\ fpos =< len /\ bufPos \in Nat
        /\ charsRead = Payload /\ fpos = bufPos + charsRead
        /\ Payload \in Nat /\ Payload >= 1 /\ Word \in Nat /\ Payload < Word
        /\ start \in Nat /\ Len(wire) \in Nat
    BY <1>1, Types DEF Buffer
  <1>3. /\ charsSent' \in 0 .. Word - 1 /\ wire' \in Seq(0 .. MaxLen)
        /\ sendRc' \in {"SUCCESS", "TARGET_BUSY", "failed"} /\ unset' \in BOOLEAN
        /\ ~unset' =>
              /\ ~unset
              /\ \/ sendRc' = "failed" /\ wire' = wire
                 \/ /\ sendRc' # "failed" /\ charsSent' \in 0 .. charsRead
                    /\ wire' = wire \o Memory(0, charsSent')
    <2>1. charsRead \in 0 .. Word - 1
      BY <1>2
    <2> QED
      BY <1>1, <2>1, SendParts
  <1>4. fpos' \in 0 .. len
    <2>1. charsSent' \in Nat /\ charsRead \in Nat
      BY <1>2, <1>3
    <2>2. fpos' = fpos \/ (charsSent' < charsRead /\ fpos' = fpos + charsSent' - charsRead)
      BY <1>1
    <2> QED
      BY <1>2, <2>1, <2>2
  <1>5. TypeOK'
    BY <1>1, <1>3, <1>4 DEF TypeOK, loop
  <1>6. Buffer' /\ Attempts' /\ Stored'
    BY <1>1 DEF Buffer, Attempts, Stored, Ended, loop
  <1>7. Transfer'
    <2>1. SUFFICES ASSUME ~unset' PROVE Transfer'
      BY DEF Transfer
    <2>2. wire = Slice(start, Len(wire)) /\ bufPos = start + Len(wire) /\ start' = start
      BY <1>1, <1>3, <2>1 DEF Transfer, loop
    <2>3. CASE sendRc' = "failed" /\ wire' = wire
      <3>1. pc' = "close"
        BY <1>1, <2>3
      <3> QED
        BY <2>2, <2>3, <3>1 DEF Transfer, Slice
    <2>4. CASE /\ sendRc' # "failed" /\ charsSent' \in 0 .. charsRead
               /\ wire' = wire \o Memory(0, charsSent')
      <3>0. charsSent' \in 0 .. charsRead /\ charsRead \in Nat
        BY <1>2, <2>4
      <3>1. charsSent' \in Nat /\ 0 + charsSent' =< charsRead /\ bufPos + 0 = start + Len(wire)
        <4>1. bufPos + 0 = bufPos
          BY <1>2
        <4>2. charsSent' \in Nat /\ 0 + charsSent' =< charsRead
          BY <3>0, UpTo
        <4>3. bufPos + 0 = start + Len(wire)
          BY <2>2, <4>1, Zenon
        <4> QED
          BY <4>2, <4>3
      <3>2. wire' = Slice(start, Len(wire')) /\ Len(wire') = Len(wire) + charsSent'
        BY <1>1, <2>2, <2>4, <3>1, WireGrows
      <3>3. pc' = "read"
        BY <1>1, <2>4
      <3>4. fpos' = bufPos + charsSent'
        <4>1. /\ fpos = bufPos + charsRead
              /\ fpos' = IF charsSent' < charsRead THEN fpos + charsSent' - charsRead ELSE fpos
              /\ bufPos \in Nat
          BY <1>1, <1>2
        <4>2. CASE charsSent' < charsRead
          BY <4>1, <4>2, <3>0
        <4>3. CASE charsSent' = charsRead
          BY <4>1, <4>3, <3>0
        <4>4. charsSent' < charsRead \/ charsSent' = charsRead
          BY <3>0
        <4> QED
          BY <4>2, <4>3, <4>4
      <3>5. fpos' = start + Len(wire')
        BY <1>2, <2>2, <3>1, <3>2, <3>4
      <3>6. wire' = Slice(start', Len(wire')) /\ fpos' = start' + Len(wire')
        BY <2>2, <3>2, <3>5
      <3> QED
        BY <3>3, <3>6 DEF Transfer, Slice
    <2> QED
      BY <1>3, <2>1, <2>3, <2>4
  <1> QED
    BY <1>5, <1>6, <1>7 DEF Inv

LEMMA SendTailInv ==
  ASSUME Inv, SendTail
  PROVE  Inv'
  <1>1. /\ TypeOK /\ Buffer /\ Attempts /\ Transfer /\ Stored /\ pc = "tail"
        /\ SendDataRemote(since, left)
        /\ since' = (since + charsSent') % Word
        /\ left' = (left - charsSent') % Word
        /\ pc' = IF sendRc' = "failed" THEN "close" ELSE "tail"
        /\ UNCHANGED <<local, loop, lost, sock, remote>>
    BY DEF Inv, SendTail
  <1>2. /\ since \in 0 .. Word - 1 /\ left \in 0 .. Word - 1 /\ charsRead \in Nat
        /\ charsRead =< Payload /\ Payload \in Nat /\ Word \in Nat \ {0} /\ Payload < Word
        /\ start \in Nat /\ Len(wire) \in Nat /\ bufPos \in Nat
    BY <1>1, Types
  <1>3. /\ charsSent' \in 0 .. Word - 1 /\ wire' \in Seq(0 .. MaxLen)
        /\ sendRc' \in {"SUCCESS", "TARGET_BUSY", "failed"} /\ unset' \in BOOLEAN
        /\ ~unset' =>
              /\ ~unset
              /\ \/ sendRc' = "failed" /\ wire' = wire
                 \/ /\ sendRc' # "failed" /\ charsSent' \in 0 .. left
                    /\ wire' = wire \o Memory(since, charsSent')
    <2>1. since \in Nat
      BY <1>2
    <2> QED
      BY <1>1, <1>2, <2>1, SendParts
  <1>4. since' \in 0 .. Word - 1 /\ left' \in 0 .. Word - 1
    <2>1. since + charsSent' \in Int /\ left - charsSent' \in Int
      BY <1>2, <1>3
    <2> QED
      BY <1>1, <1>2, <2>1, ModRange
  <1>5. TypeOK'
    BY <1>1, <1>3, <1>4 DEF TypeOK, local, loop
  <1>6. Buffer' /\ Attempts' /\ Stored'
    BY <1>1 DEF Buffer, Attempts, Stored, Ended, local, loop
  <1>7. Transfer'
    <2>1. SUFFICES ASSUME ~unset' PROVE Transfer'
      BY DEF Transfer
    <2>2. /\ wire = Slice(start, Len(wire)) /\ bufPos + since = start + Len(wire)
          /\ since + left = charsRead /\ bufPos + charsRead = len /\ fpos = len
          /\ UNCHANGED <<start, len, fpos, bufPos, charsRead>>
      BY <1>1, <1>3, <2>1 DEF Transfer, loop, local
    <2>3. CASE sendRc' = "failed" /\ wire' = wire
      <3>1. pc' = "close"
        BY <1>1, <2>3
      <3> QED
        BY <2>2, <2>3, <3>1 DEF Transfer, Slice
    <2>4. CASE /\ sendRc' # "failed" /\ charsSent' \in 0 .. left
               /\ wire' = wire \o Memory(since, charsSent')
      <3>0. charsSent' \in 0 .. left /\ left \in Nat /\ since \in Nat /\ since + left = charsRead
            /\ charsRead < Word /\ Word \in Nat /\ left =< Word - 1
        <4>1. charsSent' \in 0 .. left /\ since + left = charsRead
          BY <2>2, <2>4
        <4> QED
          BY <1>2, <4>1
      <3>1. charsSent' \in Nat /\ since \in Nat /\ since + charsSent' =< charsRead
        BY <3>0
      <3>2. wire' = Slice(start, Len(wire')) /\ Len(wire') = Len(wire) + charsSent'
        BY <1>1, <2>2, <2>4, <3>1, WireGrows
      <3>3. pc' = "tail"
        BY <1>1, <2>4
      <3>4. since' = since + charsSent'
        <4>1. since + charsSent' \in 0 .. Word - 1
          BY <3>0, WithinWord
        <4> QED
          BY <1>1, <1>2, <4>1, ModSmall
      <3>5. left' = left - charsSent'
        <4>1. left - charsSent' \in 0 .. Word - 1
          BY <3>0, WithinWord
        <4> QED
          BY <1>1, <1>2, <4>1, ModSmall
      <3>6. bufPos + since' = start + Len(wire') /\ since' + left' = charsRead
        <4> DEFINE n == charsSent'
                   w == Len(wire)
        <4>1. bufPos \in Nat /\ since \in Nat /\ left \in Nat /\ start \in Nat /\ w \in Nat
              /\ n \in Nat
          BY <1>2, <2>2, <3>0, <3>1
        <4>2. bufPos + since = start + w /\ since + left = charsRead
          BY <2>2
        <4>3. since' = since + n /\ left' = left - n /\ Len(wire') = w + n
          BY <3>2, <3>4, <3>5
        <4> HIDE DEF n, w
        <4>4. bufPos + (since + n) = start + (w + n) /\ (since + n) + (left - n) = charsRead
          BY <4>1, <4>2
        <4> QED
          BY <4>3, <4>4
      <3> QED
        BY <2>2, <3>2, <3>3, <3>6 DEF Transfer, Slice
    <2> QED
      BY <1>3, <2>1, <2>3, <2>4
  <1> QED
    BY <1>5, <1>6, <1>7 DEF Inv

LEMMA TailDoneInv ==
  ASSUME Inv, TailDone
  PROVE  Inv'
  <1>1. /\ TypeOK /\ Buffer /\ Attempts /\ Transfer /\ Stored /\ pc = "tail" /\ left = 0
        /\ pc' = IF sendRc = "SUCCESS" THEN "close" ELSE "read"
        /\ UNCHANGED <<local, loop, counts, ghosts, sock, sendRc, wire, remote>>
    BY DEF Inv, TailDone
  <1>2. /\ since \in Nat /\ charsRead \in Nat /\ start \in Nat /\ Len(wire) \in Nat
        /\ bufPos \in Nat
    BY <1>1, Types
  <1>3. TypeOK'
    BY <1>1 DEF TypeOK, local, loop, counts, ghosts
  <1>4. Buffer' /\ Attempts' /\ Stored'
    BY <1>1 DEF Buffer, Attempts, Stored, Ended, local, loop
  <1>5. Transfer'
    <2>1. SUFFICES ASSUME ~unset PROVE Transfer'
      BY <1>1 DEF Transfer, ghosts
    <2>2. /\ wire = Slice(start, Len(wire)) /\ bufPos + since = start + Len(wire)
          /\ since + left = charsRead /\ bufPos + charsRead = len /\ fpos = len
      BY <1>1, <2>1 DEF Transfer
    <2>3. fpos = start + Len(wire) /\ start + Len(wire) = len
      BY <1>1, <1>2, <2>2
    <2> QED
      BY <1>1, <2>2, <2>3 DEF Transfer, Slice, local, loop
  <1> QED
    BY <1>3, <1>4, <1>5 DEF Inv

-----------------------------------------------------------------------------
(* Closing *)

LEMMA DeliverType ==
  ASSUME TypeOK, Deliver
  PROVE  /\ remote' \in Seq(0 .. MaxLen) /\ lost' \in BOOLEAN
         /\ ~lost' => remote' = wire
  <1>1. wire \in Seq(0 .. MaxLen) /\ Len(wire) \in Nat
    BY Types
  <1>2. remote' \in Prefixes(wire) \/ remote' = wire
    BY DEF Deliver
  <1>3. CASE remote' \in Prefixes(wire)
    <2>1. PICK n \in 0 .. Len(wire) : remote' = SubSeq(wire, 1, n)
      BY <1>3 DEF Prefixes
    <2> DEFINE T == 0 .. MaxLen
    <2>2. wire \in Seq(T)
      BY <1>1
    <2> HIDE DEF T
    <2>3. SubSeq(wire, 1, n) \in Seq(T)
      BY <2>2
    <2> QED
      BY <2>1, <2>3, Zenon DEF Deliver, T
  <1>4. CASE remote' = wire
    BY <1>1, <1>4, Zenon DEF Deliver
  <1> QED
    BY <1>2, <1>3, <1>4

LEMMA CloseInv ==
  ASSUME Inv, Close \/ CloseLocal
  PROVE  Inv'
  <1>1. /\ TypeOK /\ Buffer /\ Attempts /\ Transfer /\ Deliver
        /\ pc \in {"close", "closelocal"} /\ sock' = "null"
        /\ UNCHANGED <<local, counts, unset, sendRc, wire, start>>
    BY DEF Inv, Close, CloseLocal
  <1>2. remote' \in Seq(0 .. MaxLen) /\ lost' \in BOOLEAN /\ (~lost' => remote' = wire)
    BY <1>1, DeliverType
  <1>3. retry \in 0 .. 3
    BY <1>1 DEF TypeOK, Attempts, Ended, MaxRetries
  <1>4. /\ retry' = retry + 1 /\ pc' \in {"open", "gaveup", "done", "localerror"}
        /\ pc' = "open" => retry' =< MaxRetries
        /\ pc' = "done" => pc = "close" /\ sendRc = "SUCCESS"
    BY DEF Close, CloseLocal, TryAgain
  <1>5. retry' \in 1 .. MaxRetries + 1
    BY <1>3, <1>4 DEF MaxRetries
  <1>6. TypeOK'
    BY <1>1, <1>2, <1>4, <1>5 DEF TypeOK, local, counts
  <1>7. Buffer' /\ Transfer'
    BY <1>1, <1>4 DEF Buffer, Transfer, local
  <1>8. Attempts'
    <2>1. pc' = "done" /\ retry' = 1 => start' = 0
      BY <1>1, <1>3, <1>4 DEF Attempts
    <2>2. retry' # 0
      BY <1>5
    <2> QED
      BY <1>4, <2>1, <2>2 DEF Attempts, Ended
  <1>9. Stored'
    <2>1. SUFFICES ASSUME pc' = "done", ~unset', ~lost' PROVE Stored'
      BY DEF Stored
    <2>2. /\ wire = Slice(start, Len(wire)) /\ start + Len(wire) = len /\ remote' = wire
          /\ len' = len /\ start' = start
      BY <1>1, <1>2, <1>4, <2>1 DEF Transfer, local
    <2>3. Len(wire) = len - start
      BY <1>1, <2>2, Types
    <2>4. remote' = Slice(start', len' - start')
      BY <2>2, <2>3, Zenon
    <2> QED
      BY <2>4 DEF Stored, Slice
  <1> QED
    BY <1>6, <1>7, <1>8, <1>9 DEF Inv

-----------------------------------------------------------------------------
(* The theorems *)

LEMMA NextInv ==
  ASSUME Inv, [Next]_vars
  PROVE  Inv'
  <1>1. CASE OpenOk \/ OpenFailsEarly \/ OpenRefused \/ OpenUnanswered \/ OpenAsserts
    BY <1>1, OpenInv
  <1>2. CASE ReadFull \/ ReadTail \/ ReadError
    BY <1>2, ReadInv
  <1>3. CASE SendFull
    BY <1>3, SendFullInv
  <1>4. CASE SendTail
    BY <1>4, SendTailInv
  <1>5. CASE TailDone
    BY <1>5, TailDoneInv
  <1>6. CASE Close \/ CloseLocal
    BY <1>6, CloseInv
  <1>7. CASE Terminated \/ UNCHANGED vars
    <2>1. UNCHANGED <<local, loop, counts, ghosts, pc, sock, sendRc, wire, remote>>
      BY <1>7 DEF Terminated, vars
    <2> QED
      BY <2>1 DEF Inv, TypeOK, Buffer, Attempts, Transfer, Stored, Ended, Slice,
                  local, loop, counts, ghosts
  <1> QED
    BY <1>1, <1>2, <1>3, <1>4, <1>5, <1>6, <1>7 DEF Next

LEMMA Invariant == Spec => []Inv
  <1>1. Init => Inv
    BY InitInv
  <1>2. Inv /\ [Next]_vars => Inv'
    BY NextInv
  <1> QED
    BY <1>1, <1>2, PTL DEF Spec

\* For a file and a buffer of any size, partial sends, the seek back and the
\* piecewise last part leave no gap and repeat nothing, and no counter of
\* send_file wraps on the way (BACKUP.C:330-388).
THEOREM SendLeavesNoGap == Spec => []NoGap
  <1>1. Inv => NoGap
    BY DEF Inv, Transfer, NoGap, Contiguous
  <1> QED
    BY <1>1, Invariant, PTL

\* A file that is counted as sent is on the server from where the last attempt
\* began to its end (BACKUP.C:391-405, 222-242).
THEOREM SentFileIsStored == Spec => []StoresTheRest
  <1>1. Inv => StoresTheRest
    BY DEF Inv, Stored, Attempts, StoresTheRest
  <1> QED
    BY <1>1, Invariant, PTL

\* The variables of the loop and of send_file keep their types.
THEOREM SendTypes == Spec => []TypeOK
  <1>1. Inv => TypeOK
    BY DEF Inv
  <1> QED
    BY <1>1, Invariant, PTL

-----------------------------------------------------------------------------
(* The transfer that do_backup sees *)

LEMMA InitAbstract ==
  ASSUME Init
  PROVE  Abstract!Init
  <1>1. pc = "open" /\ retry = 0 /\ len \in 0 .. MaxLen
    BY DEF Init
  <1>2. ~Ended
    BY <1>1 DEF Ended
  <1>3. Slice(0, len) \in {Slice(0, n) : n \in 0 .. MaxLen}
    BY <1>1
  <1> QED
    BY <1>1, <1>2, <1>3 DEF Abstract!Init

\* The end of the file is a piece of it.
LEMMA EndOfFile ==
  ASSUME NEW n \in Nat, NEW p \in 0 .. n
  PROVE  Slice(p, n - p) = SubSeq(Slice(0, n), p + 1, n)
  <1> DEFINE a == Slice(p, n - p)
             f == Slice(0, n)
             b == SubSeq(f, p + 1, n)
  <1>0. p \in Nat /\ n - p \in Nat /\ n - p = n - (p + 1) + 1 /\ p + 1 \in 1 .. n + 1
    OBVIOUS
  <1>1. a \in Seq(Nat) /\ Len(a) = n - p /\ \A i \in 1 .. n - p : a[i] = p + i
    BY <1>0, SliceType
  <1>2. f \in Seq(Nat) /\ Len(f) = n /\ \A i \in 1 .. n : f[i] = 0 + i
    BY SliceType
  <1> HIDE DEF a, f
  <1>3. b \in Seq(Nat) /\ Len(b) = n - p
    BY <1>0, <1>2
  <1>4. ASSUME NEW i \in 1 .. n - p PROVE b[i] = a[i]
    <2>1. p + i \in 1 .. n /\ i \in 1 .. n - (p + 1) + 1
      BY <1>0
    <2>2. b[i] = f[p + 1 + i - 1]
      BY <1>2, <2>1, <1>0
    <2>3. p + 1 + i - 1 = p + i /\ 0 + (p + i) = p + i
      BY <1>0
    <2> QED
      BY <1>1, <1>2, <2>1, <2>2, <2>3
  <1> HIDE DEF b
  <1>5. b = a
    BY <1>1, <1>3, <1>4
  <1> QED
    BY <1>5 DEF a, b, f

\* An attempt that is to be repeated.
LEMMA TryAgainAbstract ==
  ASSUME Inv, ~Ended, TryAgain, len' = len
  PROVE  Abstract!Attempt(-1)
  <1>1. retry \in 0 .. 3 /\ retry' = retry + 1 /\ pc' = IF retry' =< 3 THEN "open" ELSE "gaveup"
    BY DEF Inv, TypeOK, Attempts, TryAgain, MaxRetries
  <1>2. pc # "done" /\ pc' # "done"
    BY <1>1 DEF Ended
  <1>3. (IF Ended THEN pc ELSE "trying")' = IF retry + 1 > 3 THEN "gaveup" ELSE "trying"
    BY <1>1 DEF Ended
  <1>4. Abstract!Verdict(-1) = IF retry + 1 > 3 THEN "gaveup" ELSE "trying"
    BY DEF Abstract!Verdict, Abstract!MaxRetries
  <1>5. (IF Ended THEN pc ELSE "trying")' # "done"
    BY <1>3
  <1> QED
    BY <1>1, <1>2, <1>3, <1>4, <1>5, Zenon DEF Abstract!Attempt, Slice

\* The last attempt: sent, sent too late, or given up for the local file.
LEMMA CloseAbstract ==
  ASSUME Inv, Inv', Close \/ CloseLocal
  PROVE  \E r \in {0, -1, -2} : Abstract!Attempt(r)
  <1>1. /\ pc \in {"close", "closelocal"} /\ retry \in 0 .. 3
        /\ len' = len /\ start' = start /\ len \in Nat /\ start \in 0 .. len
    BY Types, SendBounds DEF Inv, TypeOK, Attempts, Close, CloseLocal, local, Ended, MaxRetries
  <1>2. ~Ended /\ pc # "done"
    BY <1>1 DEF Ended
  <1>3. CASE Close /\ sendRc # "SUCCESS"
    <2>1. TryAgain
      BY <1>3 DEF Close
    <2> QED
      BY <2>1, <1>1, <1>2, TryAgainAbstract
  <1>4. CASE CloseLocal
    <2>1. pc' = "localerror" /\ retry' = retry + 1
      BY <1>4 DEF CloseLocal
    <2>2. (IF Ended THEN pc ELSE "trying")' = "localerror" /\ pc' # "done"
      BY <2>1 DEF Ended
    <2>3. Abstract!Verdict(-2) = "localerror"
      BY DEF Abstract!Verdict
    <2>4. Abstract!Attempt(-2)
      BY <1>1, <1>2, <2>1, <2>2, <2>3, Zenon DEF Abstract!Attempt, Slice
    <2> QED
      BY <2>4
  <1>5. CASE Close /\ sendRc = "SUCCESS"
    <2>1. retry' = retry + 1 /\ pc' = IF retry' > 3 THEN "gaveup" ELSE "done"
      BY <1>5 DEF Close, MaxRetries
    <2>2. (IF Ended THEN pc ELSE "trying")' = pc'
      BY <2>1 DEF Ended
    <2>3. Abstract!Verdict(0) = pc'
      BY <2>1, <1>1 DEF Abstract!Verdict, Abstract!MaxRetries
    <2>4. CASE pc' # "done"
      <3>1. Abstract!Attempt(0)
        BY <1>1, <1>2, <2>1, <2>2, <2>3, <2>4, Zenon DEF Abstract!Attempt, Slice
      <3> QED
        BY <3>1
    <2>5. CASE pc' = "done" /\ (unset' \/ lost')
      <3>1. Abstract!Attempt(0)
        BY <1>1, <1>2, <2>1, <2>2, <2>3, <2>5, Zenon DEF Abstract!Attempt, Slice
      <3> QED
        BY <3>1
    <2>6. CASE pc' = "done" /\ ~unset' /\ ~lost'
      <3>1. remote' = Slice(start, len - start)
        BY <2>6, <1>1 DEF Inv, Stored, Slice
      <3>2. retry = 0 => start = 0
        BY DEF Inv, Attempts
      <3>3. remote' = SubSeq(Slice(0, len), start + 1, len)
        BY <3>1, <1>1, EndOfFile
      <3>4. Len(Slice(0, len)) = len
        BY <1>1, SliceType
      <3>5. start \in (IF TRUE /\ retry > 0 THEN 0 .. len ELSE {0})
        BY <3>2, <1>1
      <3>6. remote' \in Abstract!Parts
        BY <3>3, <3>4, <3>5 DEF Abstract!Parts
      <3>7. Abstract!Attempt(0)
        BY <1>1, <1>2, <2>1, <2>2, <2>3, <2>6, <3>6, Zenon DEF Abstract!Attempt, Slice
      <3> QED
        BY <3>7
    <2> QED
      BY <2>4, <2>5, <2>6
  <1> QED
    BY <1>3, <1>4, <1>5 DEF Close

\* Every other step is one of the inside of an attempt.
LEMMA NextAbstract ==
  ASSUME Inv, Inv', [Next]_vars
  PROVE  [Abstract!Next]_(Abstract!vars)
  <1>1. CASE OpenFailsEarly \/ OpenRefused \/ OpenUnanswered
    <2>1. ~Ended /\ TryAgain /\ len' = len
      BY <1>1 DEF OpenFailsEarly, OpenRefused, OpenUnanswered, Ended, local
    <2>2. Abstract!Attempt(-1)
      BY <2>1, TryAgainAbstract
    <2> QED
      BY <2>2 DEF Abstract!Next
  <1>2. CASE OpenAsserts
    <2>1. /\ pc = "open" /\ pc' = "aborted" /\ len' = len /\ retry' = retry
      BY <1>2 DEF OpenAsserts, local, loop
    <2>2. /\ (IF Ended THEN pc ELSE "trying") = "trying"
          /\ (IF Ended THEN pc ELSE "trying")' = "aborted"
      BY <2>1 DEF Ended
    <2>3. Abstract!Abort
      BY <2>1, <2>2, Zenon DEF Abstract!Abort, Slice
    <2> QED
      BY <2>3 DEF Abstract!Next
  <1>3. CASE Close \/ CloseLocal
    BY <1>3, CloseAbstract DEF Abstract!Next
  <1>4. CASE OpenOk \/ ReadFull \/ ReadTail \/ ReadError \/ SendFull \/ SendTail \/ TailDone
    <2>1. /\ pc \in {"open", "read", "full", "tail"}
          /\ pc' \in {"read", "full", "tail", "close", "closelocal"}
          /\ len' = len /\ retry' = retry
      BY <1>4 DEF OpenOk, ReadFull, ReadTail, ReadError, SendFull, SendTail, TailDone,
                  local, loop
    <2>2. ~Ended /\ ~Ended' /\ pc # "done" /\ pc' # "done"
      BY <2>1 DEF Ended
    <2>3. UNCHANGED Abstract!vars
      BY <2>1, <2>2, Zenon DEF Abstract!vars, Slice
    <2> QED
      BY <2>3
  <1>5. CASE Terminated \/ UNCHANGED vars
    <2>1. UNCHANGED <<len, pc, retry, remote, unset, lost>>
      BY <1>5 DEF Terminated, vars, local, loop, ghosts
    <2>2. UNCHANGED Abstract!vars
      BY <2>1, Zenon DEF Abstract!vars, Slice, Ended
    <2> QED
      BY <2>2
  <1> QED
    BY <1>1, <1>2, <1>3, <1>4, <1>5 DEF Next

\* send_file and the loop around it are, for files, buffers, packets and words of
\* every size, the transfer of at most four attempts that do_backup takes them for
\* (BACKUP.C:222-255), in which a repeated attempt may leave out the beginning.
THEOREM SendImplementsTransfer == Spec => ImplementsFileTransfer
  <1>1. Init => Abstract!Init
    BY InitAbstract
  <1>2. Inv /\ Inv' /\ [Next]_vars => [Abstract!Next]_(Abstract!vars)
    BY NextAbstract
  <1>3. Spec => []Inv
    BY Invariant
  <1> QED
    BY <1>1, <1>2, <1>3, PTL DEF Spec, ImplementsFileTransfer, Abstract!Spec
=============================================================================
