------------------------------ MODULE FtpReply ------------------------------
(***************************************************************************)
(* pollSocketAndGetFTPRc with getLineFromSocket, checkforFTPResponse and   *)
(* findNextLineBreak: how a reply is read from a stream of characters that *)
(* arrives in pieces of any size.                                          *)
(*                                                                         *)
(* The buffer keeps what earlier replies left in it.  A reply is sent once *)
(* the client has begun to poll for it; the client may have given up by    *)
(* then and be polling for the next.                                       *)
(***************************************************************************)
EXTENDS Integers, Sequences, FiniteSetsExt, SequencesExt

CONSTANTS
  BufSize,   \* CTRL_RECV_BUFFER_SIZE, the size of cmdResponseBuffer too
  Digit,     \* the characters isdigit accepts
  Dialogues, \* sequences of replies; a reply is a sequence of lines of characters
  Leftover   \* what a buffer fresh from malloc may be filled with

CR == "\r"
LF == "\n"
Chars(reply) == FlattenSeq([i \in DOMAIN reply |-> reply[i] \o <<CR, LF>>])
CodeOf(reply) == SubSeq(reply[1], 1, 3)

Numbered(line) == Len(line) >= 3 /\ \A i \in 1 .. 3 : line[i] \in Digit

\* A reply begins and ends with its code, with a hyphen behind the first one if
\* it has several lines.  A line between them may be anything, empty too, but if
\* it begins like a code it has that of the reply and a hyphen behind it.
IsReply(r) ==
  /\ r # << >>
  /\ Numbered(r[1])
  /\ Len(r) > 1 <=> Len(r[1]) > 3 /\ r[1][4] = "-"
  /\ IsPrefix(CodeOf(r), Last(r))
  /\ \A n \in 2 .. Len(r) - 1 :
       Numbered(r[n]) => IsPrefix(CodeOf(r) \o <<"-">>, r[n])
  /\ \A n \in 1 .. Len(r) : \A i \in 1 .. Len(r[n]) - 1 : ~(r[n][i] = CR /\ r[n][i + 1] = LF)

ASSUME FtpReplies ==
  /\ BufSize \in Nat /\ BufSize > 4
  /\ CR \notin Digit
  /\ Dialogues \subseteq Seq(Seq(Seq(STRING)))
  /\ \A d \in Dialogues : \A k \in 1 .. Len(d) : IsReply(d[k])

VARIABLES
  replies,   \* the dialogue
  calls,     \* polls begun so far, each after a command
  sent,      \* replies sent so far
  net,       \* characters sent and not received
  closed,    \* isRemoteClosed
  pc,        \* "idle", "recv" in getLineFromSocket, "parse" in the loop behind it
  buf,       \* cmdResponseBuffer
  got,       \* recvRc, charsRcvd
  off, left, \* bufOffset, charsLeft
  multi,     \* multiLineResponse
  retVal,    \* the code, as its three characters
  result,    \* getFTPRc
  inStep,    \* history: when the poll began nothing was outstanding
  full,      \* history: in this poll the buffer was filled
  lone,      \* history: in this poll an empty line was received by itself
  misread    \* history: in this poll old bytes were taken for a code

ghosts == <<inStep, full, lone, misread>>
vars   == <<replies, calls, sent, net, closed, pc, buf, got, off, left, multi,
            retVal, result, ghosts>>

Init ==
  /\ replies \in Dialogues
  /\ calls = 0 /\ sent = 0 /\ net = << >> /\ closed = FALSE
  /\ pc = "idle" /\ result = 0
  /\ \E c \in Leftover : buf = [i \in 0 .. BufSize - 1 |-> c]
  /\ got = 0 /\ off = 0 /\ left = 0 /\ multi = FALSE /\ retVal = << >>
  /\ inStep = TRUE /\ full = FALSE /\ lone = FALSE /\ misread = FALSE

\* The next command has been sent, and its reply is polled for.
Poll ==
  /\ pc = "idle" /\ calls < Len(replies)
  /\ calls' = calls + 1
  /\ inStep' = (net = << >> /\ sent = calls)
  /\ pc' = "recv" /\ got' = 0 /\ multi' = FALSE /\ retVal' = << >>
  /\ full' = FALSE /\ lone' = FALSE /\ misread' = FALSE
  /\ UNCHANGED <<replies, sent, net, closed, buf, off, left, result>>

SendReply ==
  /\ sent < calls /\ ~closed
  /\ sent' = sent + 1
  /\ net' = net \o Chars(replies[sent + 1])
  /\ UNCHANGED <<replies, calls, closed, pc, buf, got, off, left, multi, retVal,
                 result, ghosts>>

\* The server closes the connection.  What it has sent can still be received.
HangUp ==
  /\ ~closed
  /\ closed' = TRUE
  /\ UNCHANGED <<replies, calls, sent, net, pc, buf, got, off, left, multi, retVal,
                 result, ghosts>>

-----------------------------------------------------------------------------
(* getLineFromSocket *)

\* The characters before the buffer, which are looked at until two have come,
\* belong to the heap and are no line end (the high byte of a block's size).
EndsLine(b, n) == n >= 2 /\ b[n - 2] = CR /\ b[n - 1] = LF

\* (mutant) recv may always fill the whole buffer.
RecvTooMuch(n) ==
  /\ pc = "recv"
  /\ n =< Len(net)
  /\ buf' = [i \in DOMAIN buf |-> IF i \in got .. got + n - 1 THEN net[i - got + 1] ELSE buf[i]]
  /\ net' = SubSeq(net, n + 1, Len(net))
  /\ got' = got + n
  /\ full' = (full \/ got' = BufSize)
  /\ lone' = (lone \/ (got' = 2 /\ EndsLine(buf', 2)))
  /\ IF got' >= BufSize \/ EndsLine(buf', got')
       THEN pc' = "parse" /\ off' = 0 /\ left' = got'
       ELSE UNCHANGED <<pc, off, left>>
  /\ UNCHANGED <<replies, calls, sent, closed, multi, retVal, result, inStep, misread>>

\* recv gives n characters.  Only a line end that comes last is seen.
Recv(n) ==
  /\ pc = "recv"
  /\ n =< Len(net) /\ got + n =< BufSize
  /\ buf' = [i \in DOMAIN buf |-> IF i \in got .. got + n - 1 THEN net[i - got + 1] ELSE buf[i]]
  /\ net' = SubSeq(net, n + 1, Len(net))
  /\ got' = got + n
  /\ full' = (full \/ got' = BufSize)
  /\ lone' = (lone \/ (got' = 2 /\ EndsLine(buf', 2)))
  /\ IF got' = BufSize \/ EndsLine(buf', got')
       THEN pc' = "parse" /\ off' = 0 /\ left' = got'
       ELSE UNCHANGED <<pc, off, left>>
  /\ UNCHANGED <<replies, calls, sent, closed, multi, retVal, result, inStep, misread>>

\* What has come of the reply is lost.
TimeOut ==
  /\ pc = "recv"
  /\ pc' = "idle" /\ result' = -2
  /\ UNCHANGED <<replies, calls, sent, net, closed, buf, got, off, left, multi,
                 retVal, ghosts>>

-----------------------------------------------------------------------------
(* One turn of the loop over the lines of what was received *)

\* Behind the buffer begins the next block of the heap: no digit, hyphen or line end.
At(i) == IF i < BufSize THEN buf[i] ELSE "?"
Three(o) == <<At(o), At(o + 1), At(o + 2)>>

\* (mutant) A hyphen behind the code is only looked for in the first line.
CheckNoHyphen(o, n) ==
  IF n =< 2 THEN [rc |-> -2, multi |-> multi, code |-> retVal]
  ELSE IF \E i \in 1 .. 3 : Three(o)[i] \notin Digit
    THEN [rc |-> IF multi THEN 2 ELSE -1, multi |-> multi, code |-> retVal]
    ELSE IF n > 3 /\ At(o + 3) = "-" /\ ~multi
      THEN [rc |-> 1, multi |-> TRUE, code |-> Three(o)]
      ELSE [rc |-> IF multi /\ retVal # Three(o) THEN -3 ELSE 0,
            multi |-> FALSE, code |-> Three(o)]

\* checkforFTPResponse on n characters at o.
Check(o, n) ==
  IF n =< 2 THEN [rc |-> -2, multi |-> multi, code |-> retVal]
  ELSE IF \E i \in 1 .. 3 : Three(o)[i] \notin Digit
    THEN [rc |-> IF multi THEN 2 ELSE -1, multi |-> multi, code |-> retVal]
    ELSE IF n > 3 /\ At(o + 3) = "-"
      THEN [rc |-> 1, multi |-> TRUE, code |-> Three(o)]
      ELSE [rc |-> IF multi /\ retVal # Three(o) THEN -3 ELSE 0,
            multi |-> FALSE, code |-> Three(o)]

\* findNextLineBreak: how far it goes, and the count it goes on with, which
\* still has the two characters of the line end in it.
LineBreak == Min({i \in 0 .. left : left - i =< 2 \/ (At(off + i) = CR /\ At(off + i + 1) = LF)})
NextOff   == off + LineBreak + 2
NextLeft  == left - LineBreak

\* When the reply is at its end, or was none, isRemoteClosed has the last word.
ParseLine ==
  /\ pc = "parse"
  /\ LET c == Check(off, left)
     IN  /\ multi' = c.multi /\ retVal' = c.code
         /\ misread' = (misread \/ (off >= got /\ c.rc # 2))
         /\ IF c.multi /\ NextLeft > 2
              THEN off' = NextOff /\ left' = NextLeft /\ UNCHANGED <<pc, got, result>>
              ELSE /\ UNCHANGED <<off, left>>
                   /\ IF c.rc \in {1, 2}
                        THEN pc' = "recv" /\ got' = 0 /\ UNCHANGED result
                        ELSE /\ pc' = "idle" /\ UNCHANGED got
                             /\ result' = IF closed THEN -1
                                          ELSE IF c.rc = 0 THEN 0 ELSE -3
  /\ UNCHANGED <<replies, calls, sent, net, closed, buf, inStep, full, lone>>

-----------------------------------------------------------------------------

Terminated ==
  /\ pc = "idle" /\ calls = Len(replies)
  /\ sent = calls \/ closed
  /\ UNCHANGED vars

Next ==
  \/ Poll \/ SendReply \/ HangUp
  \/ \E n \in 1 .. BufSize : Recv(n)
  \/ TimeOut \/ ParseLine
  \/ Terminated

Spec == Init /\ [][Next]_vars

-----------------------------------------------------------------------------
(* Properties *)

\* The types of the variables of the poll.
TypeOK ==
  /\ calls \in 0 .. Len(replies) /\ sent \in 0 .. calls
  /\ pc \in {"idle", "recv", "parse"}
  /\ got \in 0 .. BufSize /\ off \in Nat /\ left \in 0 .. BufSize
  /\ DOMAIN buf = 0 .. BufSize - 1
  /\ result \in {0, -1, -2, -3}
  /\ retVal = << >> \/ retVal \in Digit \X Digit \X Digit

\* A poll that began with nothing outstanding, and got its reply, gives the code
\* of that reply, or says that the server has closed the connection, and has taken
\* all of it, however many lines it has and wherever the stream was cut
\* (MTCPFTP.CPP:732-804, 876-942).  Three kinds of polls are exempt, in which the
\* code does go wrong: the reply did not fit the buffer; a line of it that is empty
\* was received by itself, which is "too short" (929-931); or the search for the
\* next line went on in old bytes and found a code there.
WholeReply ==
  pc = "idle" /\ calls > 0 /\ inStep /\ result # -2 /\ ~full /\ ~lone /\ ~misread =>
    /\ result = 0 \/ (result = -1 /\ closed)
    /\ retVal = CodeOf(replies[calls])
    /\ sent = calls /\ net = << >>
=============================================================================
