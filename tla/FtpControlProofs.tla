-------------------------- MODULE FtpControlProofs --------------------------
(***************************************************************************)
(* Proofs about the control connection, for every walk, every directory    *)
(* tree on the server, and replies that come whenever they like.           *)
(*                                                                         *)
(* What the client has to know of the server is never in its variables: it *)
(* is in the commands and replies under way.  The inductive invariant says *)
(* what these can be.                                                      *)
(*   Calls      where the client is, and with what                         *)
(*   Prelude    until the walk begins, and as long as nothing has failed,  *)
(*              there is one command or one reply under way and no more    *)
(*   Place      once it has begun the server is in the backup's directory, *)
(*              and no CWD will ever come                                  *)
(*   DataLine   at most one STOR is ever unanswered, and none at all while *)
(*              the client has no data socket                              *)
(*   Ledger     a 257 is about the job the client is at                    *)
(* and, as long as no poll has timed out,                                  *)
(*   TurnOver   it is either the client's turn or the server's             *)
(* The second part: a server in good health is never taken for a bad one.  *)
(* While it refuses nothing and answers in time, client and server go      *)
(* through a backup in lock-step, every command has the one answer the     *)
(* client waits for, and the backup ends with everything on the server.    *)
(***************************************************************************)
EXTENDS FtpControl, TLAPS

Preparing == DOMAIN Stages \cup
               {"cwdroot", "mkroot", "mkrootpoll", "chdir", "chdirpoll", "pwdpoll"}
Walks     == {"d", "mkdpoll", "f", "c", "pasvpoll", "storpoll", "send", "closepoll"}
Begun     == pc \notin Preparing /\ rc \notin {-7, -8, -9}

Commands  == [verb : Verbs, arg : Seq(Names)]
Replies   == [code : Nat, port : Nat]
Transfers == [path : Seq(Names), data : {"open", "part", "whole"}]

Under(q, v)  == \E c \in Range(q) : c.verb = v
Waiting(c)   == \E r \in Range(inbox) : r.code = c

Calls ==
  /\ pc \in Preparing => k = 1 /\ retry = 0 /\ sock = "null" /\ rc \in {0, -7, -8}
  /\ rc \in {-7, -8, -9} => k = 1
  /\ pc \in Walks => rc = 0 /\ k =< Len(Work) /\ retry =< MaxRetries
  /\ pc \in {"d", "mkdpoll"} => Job.op = "d"
  /\ pc = "f" => Job.op = "f"
  /\ pc = "c" => Job.op = "c"
  /\ pc \in {"pasvpoll", "storpoll", "send", "closepoll"} => Job.op # "d"
  /\ sock # "null" => k =< Len(Work) /\ Job.op # "d"
  /\ pc = "closepoll" => sock = "null"
  /\ pc \in {"storpoll", "send"} => sock = "open"

Asked == [ greet      |-> [verb |-> "connect", arg |-> << >>],
           user       |-> [verb |-> "USER", arg |-> << >>],
           pass       |-> [verb |-> "PASS", arg |-> << >>],
           cwdroot    |-> [verb |-> "CWD", arg |-> <<RootDir>>],
           mkrootpoll |-> [verb |-> "MKD", arg |-> <<BackupDir>>],
           chdirpoll  |-> [verb |-> "CWD", arg |-> <<BackupDir>>],
           pwdpoll    |-> [verb |-> "PWD", arg |-> << >>] ]

Prelude ==
  pc \in Preparing /\ rc = 0 =>
    /\ pc \in {"mkroot", "chdir"} => cmds = << >> /\ inbox = << >>
    /\ pc \notin {"mkroot", "chdir"} =>
         \/ cmds = <<Asked[pc]>> /\ inbox = << >>
         \/ cmds = << >> /\ Len(inbox) =< 1
    /\ pc \in {"greet", "user", "pass"} => cwd = << >>
    /\ pc = "cwdroot" => /\ cmds # << >> => cwd = << >>
                         /\ inbox # << >> /\ Code = 250 => cwd = <<RootDir>>
    /\ pc \in {"mkroot", "mkrootpoll", "chdir"} => cwd = <<RootDir>>
    /\ pc = "chdirpoll" => /\ cmds # << >> => cwd = <<RootDir>>
                           /\ inbox # << >> /\ Code = 250 => cwd = Backup
    /\ pc = "pwdpoll" => cwd = Backup

Place ==
  Begun =>
    /\ cwd = Backup
    /\ \A c \in Range(cmds) : c.verb \in {"MKD", "PASV", "STOR", "QUIT", "PWD"}

Unasked ==
  sock = "null" =>
    /\ ~Under(cmds, "STOR") /\ ~Waiting(150)
    /\ xfer # << >> => ~Waiting(227)

OwnStor == \A c \in Range(cmds) : c.verb = "STOR" => c.arg = Job.name

AtStor ==
  pc = "storpoll" /\ ~closed =>
    \/ /\ cmds # << >> /\ cmds[Len(cmds)].verb = "STOR"
       /\ \A i \in 1 .. Len(cmds) - 1 : cmds[i].verb # "STOR"
       /\ xfer = << >> /\ ~Waiting(150)
       /\ ~Waiting(227) => conn = port
    \/ /\ cmds = << >> /\ inbox # << >>
       /\ Code = 150 => conn = port
       /\ \A i \in DOMAIN xfer : xfer[i].path = Path(Job)

AtSend ==
  pc = "send" =>
    /\ conn = port /\ cmds = << >> /\ ~Waiting(150) /\ ~Waiting(227)
    /\ \A i \in DOMAIN xfer : xfer[i].path = Path(Job)

DataLine ==
  /\ pc \in Preparing => xfer = << >>
  /\ Unasked /\ OwnStor /\ AtStor /\ AtSend

Ledger ==
  /\ Begun /\ ~slowPwd =>
       /\ ~Under(cmds, "PWD")
       /\ \A c \in Range(cmds) : c.verb = "MKD" =>
            \/ k =< Len(Work) /\ Job.op = "d" /\ c.arg = Job.name
            \/ Backup \o c.arg \in dirs
       /\ Waiting(257) => k =< Len(Work) /\ Job.op = "d" /\ Path(Job) \in dirs
  /\ pc = "closepoll" /\ sent => cut \/ Done(k)

IInv == TypeOK /\ Calls /\ Prelude /\ Place /\ DataLine /\ Ledger /\ DoneIsDone

TurnOver ==
  rc = 0 /\ pc \in Walks /\ ~slow /\ ~closed =>
    /\ pc \in {"d", "f", "c"} => cmds = << >> /\ inbox = << >> /\ xfer = << >>
    /\ pc \in {"mkdpoll", "pasvpoll"} =>
         /\ xfer = << >>
         /\ cmds = << >> \/ (Len(cmds) = 1 /\ inbox = << >>)
         /\ \A c \in Range(cmds) : c.verb = IF pc = "mkdpoll" THEN "MKD" ELSE "PASV"
    /\ pc = "storpoll" =>
         \/ Len(cmds) = 1 /\ inbox = << >> /\ xfer = << >>
         \/ cmds = << >> /\ inbox # << >> /\ (xfer # << >> => Len(inbox) = 1 /\ Code = 150)
    /\ pc \in {"send", "closepoll"} => cmds = << >> /\ (xfer # << >> => inbox = << >>)

-----------------------------------------------------------------------------
(* Queues *)

LEMMA InQueue ==
  ASSUME NEW T, NEW q \in Seq(T)
  PROVE  /\ Range(q) \subseteq T
         /\ \A i \in 1 .. Len(q) : q[i] \in Range(q)
         /\ q # << >> => Head(q) \in Range(q) /\ Head(q) = q[1] /\ Len(q) \in Nat \ {0}
  BY DEF Range

LEMMA Wider ==
  ASSUME NEW T, NEW U, T \subseteq U, NEW q \in Seq(T)
  PROVE  q \in Seq(U)
  OBVIOUS

LEMMA QueueEmpty == Range(<< >>) = {} /\ Len(<< >>) = 0
  BY DEF Range

LEMMA QueueAppend ==
  ASSUME NEW T, NEW q \in Seq(T), NEW x \in T
  PROVE  /\ Append(q, x) \in Seq(T)
         /\ Range(Append(q, x)) = Range(q) \cup {x}
         /\ Append(q, x) # << >> /\ Len(Append(q, x)) = Len(q) + 1
         /\ Append(q, x)[Len(q) + 1] = x
         /\ \A i \in 1 .. Len(q) : Append(q, x)[i] = q[i]
         /\ Head(Append(q, x)) = IF q = << >> THEN x ELSE Head(q)
<1>1. Append(q, x) \in Seq(T) /\ Len(Append(q, x)) = Len(q) + 1
  OBVIOUS
<1>2. Append(q, x)[Len(q) + 1] = x /\ \A i \in 1 .. Len(q) : Append(q, x)[i] = q[i]
  OBVIOUS
<1>3. Range(Append(q, x)) = Range(q) \cup {x}
  <2>1. DOMAIN q = 1 .. Len(q) /\ DOMAIN Append(q, x) = 1 .. Len(q) + 1
    OBVIOUS
  <2>2. Len(q) \in Nat
    OBVIOUS
  <2> QED BY <1>2, <2>1, <2>2 DEF Range
<1>4. Head(Append(q, x)) = IF q = << >> THEN x ELSE Head(q)
  OBVIOUS
<1> QED BY <1>1, <1>2, <1>3, <1>4

LEMMA QueueTail ==
  ASSUME NEW T, NEW q \in Seq(T), q # << >>
  PROVE  /\ Tail(q) \in Seq(T)
         /\ Range(Tail(q)) \subseteq Range(q)
         /\ Len(Tail(q)) = Len(q) - 1
         /\ \A i \in 1 .. Len(q) - 1 : Tail(q)[i] = q[i + 1]
<1>1. Tail(q) \in Seq(T) /\ Len(Tail(q)) = Len(q) - 1 /\ Len(q) \in Nat \ {0}
  OBVIOUS
<1>2. \A i \in 1 .. Len(q) - 1 : Tail(q)[i] = q[i + 1]
  OBVIOUS
<1>3. DOMAIN q = 1 .. Len(q) /\ DOMAIN Tail(q) = 1 .. Len(q) - 1
  BY <1>1
<1>4. Range(Tail(q)) \subseteq Range(q)
  BY <1>1, <1>2, <1>3 DEF Range
<1> QED BY <1>1, <1>2, <1>4

LEMMA QueueOne ==
  ASSUME NEW T, NEW q \in Seq(T), NEW x \in T
  PROVE  /\ Append(<< >>, x) = <<x>> /\ <<x>> \in Seq(T) /\ Tail(<<x>>) = << >>
         /\ Head(<<x>>) = x /\ Len(<<x>>) = 1 /\ <<x>> # << >>
         /\ << >> \in Seq(T)
         /\ Len(q) = 0 <=> q = << >>
  OBVIOUS

LEMMA NoMoreThanOne ==
  ASSUME NEW n \in Nat \ {0}, n =< 1
  PROVE  n = 1
  OBVIOUS

LEMMA Joined ==
  ASSUME NEW T, NEW a \in Seq(T), NEW b \in Seq(T)
  PROVE  a \o b \in Seq(T)
  OBVIOUS

LEMMA PairsEqual ==
  ASSUME NEW T, NEW a \in Seq(T), NEW b \in Seq(T), Len(a) = 2, Len(b) = 2,
         a[1] = b[1], a[2] = b[2]
  PROVE  a = b
  OBVIOUS

LEMMA SmallSequences ==
  ASSUME NEW T, NEW x \in T, NEW y \in T
  PROVE  /\ << >> \in Seq(T) /\ <<x>> \in Seq(T) /\ <<x, y>> \in Seq(T)
         /\ << >> \o <<x>> = <<x>> /\ <<x>> \o <<y>> = <<x, y>>
<1>1. << >> \in Seq(T) /\ <<x>> \in Seq(T)
  OBVIOUS
<1>2. <<x, y>> \in Seq(T)
  OBVIOUS
<1>3. << >> \o <<x>> = <<x>>
  OBVIOUS
<1>4. <<x>> \o <<y>> = <<x, y>>
  <2>1. <<x>> \o <<y>> \in Seq(T) /\ Len(<<x>> \o <<y>>) = 2
    BY <1>1
  <2>2. (<<x>> \o <<y>>)[1] = x /\ (<<x>> \o <<y>>)[2] = y
    OBVIOUS
  <2>3. Len(<<x, y>>) = 2 /\ <<x, y>>[1] = x /\ <<x, y>>[2] = y
    OBVIOUS
  <2> QED BY <1>2, <2>1, <2>2, <2>3, PairsEqual
<1> QED BY <1>1, <1>2, <1>3, <1>4

-----------------------------------------------------------------------------
(* The walk and the commands *)

LEMMA WorkType ==
  /\ Work \in Seq([op : {"d", "f", "c"}, name : Seq(Names)])
  /\ Len(Work) \in Nat \ {0}
  /\ \A i \in 1 .. Len(Work) :
       /\ Work[i].op \in {"d", "f", "c"} /\ Work[i].name \in Seq(Names)
       /\ Work[i] = Control \/ Work[i].op \in {"d", "f"}
  /\ Control.op = "c"
<1> DEFINE W == [op : {"d", "f", "c"}, name : Seq(Names)]
<1>1. Control \in W /\ Control.op = "c"
  <2>1. <<"CONTROL.NFO">> \in Seq(Names)
    BY FtpWork, SmallSequences
  <2> QED BY <2>1 DEF Control
<1>2. Jobs \in Seq([op : {"d", "f"}, name : Seq(Names) \ {<< >>}])
  BY FtpWork
<1>3. Jobs \in Seq(W)
  <2>1. [op : {"d", "f"}, name : Seq(Names) \ {<< >>}] \subseteq W
    OBVIOUS
  <2> HIDE DEF W
  <2> QED BY <1>2, <2>1, Wider
<1>4. \A i \in 1 .. Len(Jobs) : Jobs[i].op \in {"d", "f"}
  <2>1. \A i \in 1 .. Len(Jobs) : Jobs[i] \in [op : {"d", "f"}, name : Seq(Names) \ {<< >>}]
    BY <1>2, InQueue
  <2> QED BY <2>1
<1>5. Work = Append(Jobs, Control)
  BY DEF Work
<1> HIDE DEF W
<1>6. Work \in Seq(W) /\ Len(Work) = Len(Jobs) + 1
  BY <1>1, <1>3, <1>5, QueueAppend
<1>7. \A i \in 1 .. Len(Work) : Work[i] = Control \/ Work[i].op \in {"d", "f"}
  BY <1>1, <1>3, <1>4, <1>5, QueueAppend
<1>8. \A i \in 1 .. Len(Work) : Work[i] \in W
  BY <1>6
<1> USE DEF W
<1>9. Len(Jobs) \in Nat
  BY <1>3
<1> QED BY <1>1, <1>6, <1>7, <1>8, <1>9

LEMMA StageType ==
  /\ DOMAIN Stages = {"greet", "user", "pass"}
  /\ Stages["greet"].verb = "USER" /\ Stages["greet"].arg = << >>
  /\ Stages["greet"].code = 220 /\ Stages["greet"].next = "user"
  /\ Stages["user"].verb = "PASS" /\ Stages["user"].arg = << >>
  /\ Stages["user"].code = 331 /\ Stages["user"].next = "pass"
  /\ Stages["pass"].verb = "CWD" /\ Stages["pass"].arg = <<RootDir>>
  /\ Stages["pass"].code = 230 /\ Stages["pass"].next = "cwdroot"
<1>1. DOMAIN Stages = {"greet", "user", "pass"}
  BY DEF Stages
<1>2. Stages["greet"] = [code |-> 220, verb |-> "USER", arg |-> << >>, next |-> "user"]
  BY DEF Stages
<1>3. Stages["user"] = [code |-> 331, verb |-> "PASS", arg |-> << >>, next |-> "pass"]
  BY DEF Stages
<1>4. Stages["pass"] = [code |-> 230, verb |-> "CWD",  arg |-> <<RootDir>>, next |-> "cwdroot"]
  BY DEF Stages
<1> QED BY <1>1, <1>2, <1>3, <1>4

\* What InitStage does in each of its three stages.
LEMMA StageMoves ==
  ASSUME InitStage
  PROVE  /\ Answered
         /\ UNCHANGED <<k, retry, sock, conn, sent, closed, server, ghosts>>
         /\ \/ pc' = "mkroot" /\ rc' = -7
            \/ rc' = rc /\ pc = "greet" /\ pc' = "user" /\ Code = 220
            \/ rc' = rc /\ pc = "user" /\ pc' = "pass" /\ Code = 331
            \/ rc' = rc /\ pc = "pass" /\ pc' = "cwdroot" /\ Code = 230
         /\ \/ pc = "greet" /\ Send("USER", << >>)
            \/ pc = "user" /\ Send("PASS", << >>)
            \/ pc = "pass" /\ Send("CWD", <<RootDir>>)
<1>1. pc \in {"greet", "user", "pass"} /\ Answered
      /\ UNCHANGED <<k, retry, sock, conn, sent, closed, server, ghosts>>
  BY StageType DEF InitStage
<1>2. /\ Send(Stages[pc].verb, Stages[pc].arg)
      /\ IF Code = Stages[pc].code THEN pc' = Stages[pc].next /\ UNCHANGED rc
                                   ELSE pc' = "mkroot" /\ rc' = -7
  BY DEF InitStage
<1>3. CASE pc = "greet"
  BY <1>1, <1>2, <1>3, StageType
<1>4. CASE pc = "user"
  BY <1>1, <1>2, <1>4, StageType
<1>5. CASE pc = "pass"
  BY <1>1, <1>2, <1>5, StageType
<1> QED BY <1>1, <1>3, <1>4, <1>5


Retries ==
  /\ k' = k /\ retry' \in 0 .. MaxRetries + 1
  /\ \/ pc' = "quit" /\ rc' \in {0, -14, -17}
     \/ pc' = Job.op /\ Job.op \in {"d", "f"} /\ rc' = 0 /\ retry' =< MaxRetries

GoesOn ==
  /\ k' = k + 1 /\ retry' = 0 /\ rc' = 0
  /\ \/ k' =< Len(Work) /\ pc' = Work[k'].op
     \/ k' = Len(Work) + 1 /\ pc' = "quit"

LEMMA FailsMoves ==
  ASSUME TypeOK, k =< Len(Work), retry =< MaxRetries, rc = 0, AttemptFails
  PROVE  Retries
<1>1. k \in 1 .. Len(Work) /\ retry \in 0 .. MaxRetries /\ MaxRetries = 3
  BY WorkType DEF TypeOK, ClientTypes, MaxRetries
<1>2. Job = Control \/ Job.op \in {"d", "f"}
  BY <1>1, WorkType DEF Job
<1> QED BY <1>1, <1>2 DEF AttemptFails, Retries

LEMMA SucceedsMoves ==
  ASSUME TypeOK, k =< Len(Work), retry =< MaxRetries, rc = 0, AttemptSucceeds
  PROVE  Retries \/ GoesOn
<1>1. CASE retry + 1 > MaxRetries
  BY <1>1, FailsMoves DEF AttemptSucceeds
<1>2. CASE ~(retry + 1 > MaxRetries)
  <2>1. k' = k + 1 /\ retry' = 0 /\ rc' = rc
        /\ pc' = IF k' =< Len(Work) THEN Work[k'].op ELSE "quit"
    BY <1>2 DEF AttemptSucceeds
  <2>2. k \in 1 .. Len(Work) /\ Len(Work) \in Nat
    BY WorkType DEF TypeOK, ClientTypes
  <2> QED BY <2>1, <2>2 DEF GoesOn
<1> QED BY <1>1, <1>2

-----------------------------------------------------------------------------
(* Types, and where the client is *)

LEMMA InitTyped == Init => TypeOK /\ Calls
<1> SUFFICES ASSUME Init
             PROVE  TypeOK /\ Calls
  OBVIOUS
<1> DEFINE hello == [verb |-> "connect", arg |-> << >>]
<1>1. hello \in Commands /\ cmds = <<hello>> /\ inbox = << >> /\ xfer = << >> /\ cwd = << >>
  BY SmallSequences, QueueOne, FtpWork DEF Init, Commands, Verbs
<1> HIDE DEF hello
<1>2. cmds \in Seq(Commands)
  BY <1>1, SmallSequences
<1>3. /\ << >> \in Seq(Replies) /\ << >> \in Seq(Transfers) /\ << >> \in Seq(Names)
      /\ Len(<< >>) = 0
  OBVIOUS
<1>4. dirs \subseteq Seq(Names) /\ stored \subseteq Seq(Names)
  BY FtpWork DEF Init
<1>5. DOMAIN Stages = {"greet", "user", "pass"} /\ Len(Work) \in Nat \ {0}
  BY StageType, WorkType
<1>6. ClientTypes
  <2>1. pc \in DOMAIN Stages
    BY <1>5 DEF Init
  <2>2. k \in 1 .. Len(Work) + 1 /\ retry \in 0 .. MaxRetries + 1
    BY <1>5 DEF Init, MaxRetries
  <2>3. rc = 0 /\ sock = "null"
    BY DEF Init
  <2>4. sent \in BOOLEAN
    BY DEF Init
  <2> QED BY <2>1, <2>2, <2>3, <2>4 DEF ClientTypes
<1>7. LineTypes
  BY <1>1, <1>2, <1>3 DEF Init, LineTypes, Commands, Replies
<1>8. ServerTypes
  BY <1>1, <1>3, <1>4 DEF Init, ServerTypes, Transfers
<1>9. Calls
  BY <1>5, WorkType DEF Calls, Init, Preparing, Walks
<1> QED BY <1>6, <1>7, <1>8, <1>9 DEF TypeOK, Init

\* An attempt that has ended, in a failure or not, leaves the client where it can
\* begin another one, or quit.
LEMMA AfterAttempt ==
  ASSUME TypeOK, Calls, pc \in Walks, Retries \/ GoesOn,
         UNCHANGED sent, sock' \in {"null", "open", "freed"},
         sock' # "null" => Retries /\ Job.op # "d"
  PROVE  ClientTypes' /\ Calls'
<1>1. /\ k \in 1 .. Len(Work) /\ Len(Work) \in Nat /\ MaxRetries = 3
      /\ Job \in {Work[i] : i \in 1 .. Len(Work)} /\ Job.op \in {"d", "f", "c"}
      /\ sent \in BOOLEAN /\ rc = 0
  BY WorkType DEF TypeOK, ClientTypes, Calls, MaxRetries, Job
<1>2. CASE Retries
  <2>1. k' = k /\ Job' = Job /\ retry' \in 0 .. MaxRetries + 1
    BY <1>2 DEF Retries, Job
  <2>2. \/ pc' = "quit" /\ rc' \in {0, -14, -17}
        \/ pc' = Job.op /\ Job.op \in {"d", "f"} /\ rc' = 0 /\ retry' =< MaxRetries
    BY <1>2 DEF Retries
  <2>3. ClientTypes'
    BY <1>1, <2>1, <2>2 DEF ClientTypes
  <2>4. Calls'
    BY <1>1, <2>1, <2>2, StageType DEF Calls, Preparing, Walks
  <2> QED BY <2>3, <2>4
<1>3. CASE GoesOn
  <2>1. k' = k + 1 /\ retry' = 0 /\ rc' = 0 /\ k' \in 1 .. Len(Work) + 1 /\ (sock' = "null" \/ Retries)
    BY <1>1, <1>3 DEF GoesOn
  <2>2. \/ k' \in 1 .. Len(Work) /\ pc' = Work[k'].op /\ Work[k'].op \in {"d", "f", "c"}
        \/ k' = Len(Work) + 1 /\ pc' = "quit"
    BY <1>1, <1>3, WorkType DEF GoesOn
  <2>3. Job' = Work[k']
    BY DEF Job
  <2>4. ClientTypes'
    BY <1>1, <2>1, <2>2, <1>2 DEF ClientTypes
  <2>5. Calls'
    BY <1>1, <2>1, <2>2, <2>3, <1>2, StageType DEF Calls, Preparing, Walks
  <2> QED BY <2>4, <2>5
<1> QED BY <1>2, <1>3

LEMMA ClientTyped ==
  ASSUME TypeOK, Calls, Client
  PROVE  ClientTypes' /\ Calls'
<1>1. /\ k \in 1 .. Len(Work) + 1 /\ Len(Work) \in Nat \ {0} /\ MaxRetries = 3
      /\ sent \in BOOLEAN /\ rc \in {0, -7, -8, -9, -14, -17}
      /\ retry \in 0 .. MaxRetries + 1 /\ sock \in {"null", "open", "freed"}
      /\ DOMAIN Stages = {"greet", "user", "pass"}
  BY WorkType, StageType DEF TypeOK, ClientTypes, MaxRetries
<1>2. CASE InitStage \/ InitDone \/ InitFails \/ MakeRoot \/ MakeRootPoll
  <2>1. pc \in Preparing /\ k = 1 /\ retry = 0 /\ sock = "null" /\ rc \in {0, -7, -8}
    BY <1>1, <1>2 DEF Preparing, Calls, InitStage, InitDone, InitFails, MakeRoot, MakeRootPoll
  <2>2. UNCHANGED <<k, retry, sock, conn, sent>> /\ rc' \in {0, -7, -8}
        /\ pc' \in {"user", "pass", "cwdroot", "mkroot", "mkrootpoll", "chdir"}
    BY <1>1, <1>2, <2>1, StageMoves DEF InitDone, InitFails, MakeRoot, MakeRootPoll, server, ghosts
  <2> QED BY <1>1, <2>1, <2>2 DEF ClientTypes, Calls, Preparing, Walks, Job
<1>3. CASE ChangeDir \/ ChangeDirPoll \/ PwdPoll
  <2>1. pc \in Preparing /\ k = 1 /\ retry = 0 /\ sock = "null" /\ rc \in {0, -7, -8}
    BY <1>1, <1>3 DEF Preparing, Calls, ChangeDir, ChangeDirPoll, PwdPoll
  <2>2. UNCHANGED <<k, retry, sock, conn, sent>>
    BY <1>3 DEF ChangeDir, ChangeDirPoll, PwdPoll
  <2>3. \/ pc' \in {"chdirpoll", "pwdpoll"} /\ rc' = rc
        \/ Walk /\ rc' \in {0, -7, -8, -9}
    BY <1>3, <2>1 DEF ChangeDir, ChangeDirPoll, PwdPoll
  <2>4. Job' = Job /\ Job.op \in {"d", "f", "c"}
    BY <1>1, <2>1, <2>2, WorkType DEF Job
  <2>5. CASE pc' \in {"chdirpoll", "pwdpoll"} /\ rc' = rc
    BY <1>1, <2>1, <2>2, <2>5 DEF ClientTypes, Calls, Preparing, Walks
  <2>6. CASE Walk /\ rc' \in {0, -7, -8, -9}
    <3>1. pc' = IF rc' = 0 THEN Job.op ELSE "quit"
      BY <2>2, <2>6, <2>4 DEF Walk
    <3> QED BY <1>1, <2>1, <2>2, <2>4, <2>6, <3>1 DEF ClientTypes, Calls, Preparing, Walks
  <2> QED BY <2>3, <2>5, <2>6
<1>4. ASSUME pc \in Walks, UNCHANGED <<k, rc, retry, sent, sock>>,
             \/ pc = "d" /\ pc' = "mkdpoll"
             \/ pc \in {"f", "c"} /\ pc' = "pasvpoll"
             \/ pc = "pasvpoll" /\ pc' = "aborted"
             \/ pc = "storpoll" /\ pc' = "send"
      PROVE  ClientTypes' /\ Calls'
  <2>1. Job' = Job /\ k =< Len(Work) /\ rc = 0 /\ retry =< MaxRetries
    BY <1>4 DEF Job, Calls
  <2> QED BY <1>1, <1>4, <2>1 DEF ClientTypes, Calls, Preparing, Walks
<1>5. CASE MakeDir \/ MakeDirPoll
  <2>1. pc \in {"d", "mkdpoll"} /\ Job.op = "d" /\ k =< Len(Work) /\ rc = 0 /\ retry =< MaxRetries
        /\ UNCHANGED <<sock, sent>> /\ sock = "null"
    BY <1>1, <1>5 DEF MakeDir, MakeDirPoll, Calls, Walks
  <2>2. \/ pc = "d" /\ pc' = "mkdpoll" /\ UNCHANGED <<k, rc, retry>>
        \/ AttemptFails \/ AttemptSucceeds
    BY <1>5 DEF MakeDir, MakeDirPoll
  <2> QED BY <1>1, <1>4, <2>1, <2>2, FailsMoves, SucceedsMoves, AfterAttempt DEF Walks
<1>6. CASE OpenFile \/ PasvFails \/ OpenAsserts \/ Connect \/ ConnectFails \/ StorPoll
  <2>1. pc \in {"f", "c", "pasvpoll", "storpoll"} /\ k =< Len(Work) /\ rc = 0
        /\ retry =< MaxRetries /\ UNCHANGED sent
    BY <1>6 DEF OpenFile, PasvFails, OpenAsserts, Connect, ConnectFails, StorPoll, Calls, Walks
  <2>2. Job.op # "d"
    BY <2>1 DEF Calls
  <2>3. CASE Connect
    <3>1. UNCHANGED <<rc, k, retry, sent>> /\ Job' = Job /\ sock' = "open" /\ pc' = "storpoll"
      BY <2>3 DEF Connect, Job
    <3> QED BY <1>1, <2>1, <2>2, <3>1 DEF ClientTypes, Calls, Preparing, Walks
  <2>4. CASE ~Connect
    <3>1. \/ UNCHANGED <<k, rc, retry, sock>> /\
             \/ pc \in {"f", "c"} /\ pc' = "pasvpoll"
             \/ pc = "pasvpoll" /\ pc' = "aborted"
             \/ pc = "storpoll" /\ pc' = "send"
          \/ AttemptFails /\ sock' \in {sock, "freed"}
      BY <1>6, <2>4 DEF OpenFile, PasvFails, OpenAsserts, ConnectFails, StorPoll
    <3>2. CASE AttemptFails /\ sock' \in {sock, "freed"}
      BY <1>1, <2>1, <2>2, <3>2, FailsMoves, AfterAttempt DEF Walks
    <3> QED BY <1>4, <2>1, <3>1, <3>2 DEF Walks
  <2> QED BY <2>3, <2>4
<1>7. ASSUME NEW all \in BOOLEAN, Transfer(all)
      PROVE  ClientTypes' /\ Calls'
  <2>1. pc = "send" /\ pc' = "closepoll" /\ sent' = all /\ sock' = "null" /\ UNCHANGED <<rc, k, retry>>
    BY <1>7 DEF Transfer
  <2>2. Job' = Job /\ Job.op # "d" /\ k =< Len(Work) /\ rc = 0 /\ retry =< MaxRetries
    BY <2>1 DEF Calls, Job, Walks
  <2> QED BY <1>1, <2>1, <2>2 DEF ClientTypes, Calls, Preparing, Walks
<1>8. CASE ClosePoll
  <2>1. pc = "closepoll" /\ UNCHANGED <<sock, sent>> /\ sock = "null"
        /\ k =< Len(Work) /\ rc = 0 /\ retry =< MaxRetries /\ (AttemptFails \/ AttemptSucceeds)
    BY <1>8 DEF ClosePoll, Calls, Walks
  <2> QED BY <1>1, <2>1, FailsMoves, SucceedsMoves, AfterAttempt DEF Walks
<1>9. CASE Quit \/ QuitWait
  <2>1. pc \in {"quit", "quitwait"} /\ pc' \in {"quitwait", "exit"}
        /\ UNCHANGED <<rc, k, retry, sock, sent>> /\ Job' = Job
    BY <1>9 DEF Quit, QuitWait, Job
  <2> QED BY <1>1, <2>1 DEF ClientTypes, Calls, Preparing, Walks
<1> QED BY <1>2, <1>3, <1>5, <1>6, <1>7, <1>8, <1>9 DEF Client

\* The last part of Transfer on the server's side.
LEMMA TransferMoves ==
  ASSUME TypeOK, NEW all \in BOOLEAN, Transfer(all)
  PROVE  /\ xfer' \in Seq(Transfers) /\ Len(xfer') = Len(xfer)
         /\ xfer = << >> <=> xfer' = << >>
         /\ \A i \in 1 .. Len(xfer) :
              /\ xfer'[i].path = xfer[i].path
              /\ xfer'[i] = [path |-> xfer[i].path, data |-> IF all THEN "whole" ELSE "part"]
<1> DEFINE d == IF all THEN "whole" ELSE "part"
           t(i) == [xfer[i] EXCEPT !.data = d]
<1>1. xfer \in Seq(Transfers) /\ xfer' = [i \in DOMAIN xfer |-> t(i)] /\ d \in {"part", "whole"}
  BY DEF TypeOK, ServerTypes, Transfers, Transfer
<1> HIDE DEF d
<1>2. \A i \in 1 .. Len(xfer) : xfer[i] \in Transfers
  BY <1>1, InQueue
<1>3. \A i \in 1 .. Len(xfer) : t(i) = [path |-> xfer[i].path, data |-> d] /\ t(i) \in Transfers
  BY <1>1, <1>2 DEF Transfers
<1>4. DOMAIN xfer = 1 .. Len(xfer) /\ Len(xfer) \in Nat
  BY <1>1
<1> HIDE DEF t
<1>5. xfer' \in [1 .. Len(xfer) -> Transfers]
  BY <1>1, <1>3, <1>4
<1>6. xfer' \in Seq(Transfers) /\ Len(xfer') = Len(xfer)
  BY <1>4, <1>5
<1>7. xfer = << >> <=> xfer' = << >>
  BY <1>1, <1>6
<1>8. \A i \in 1 .. Len(xfer) : xfer'[i] = [path |-> xfer[i].path, data |-> d]
  BY <1>1, <1>3, <1>4
<1> QED BY <1>6, <1>7, <1>8 DEF d

LEMMA SendTyped ==
  ASSUME TypeOK, NEW v \in Verbs, NEW a \in Seq(Names), Send(v, a)
  PROVE  cmds' \in Seq(Commands)
<1>1. cmds \in Seq(Commands) /\ [verb |-> v, arg |-> a] \in Commands
  BY DEF TypeOK, LineTypes, Commands
<1> QED BY <1>1, QueueAppend DEF Send

\* The client takes all that has arrived, or does not listen; it sends what its
\* place in the program says; and nothing of the server changes but the transfer
\* that comes to the end of its data.
LEMMA ClientMoves ==
  ASSUME TypeOK, Calls, Client
  PROVE  /\ UNCHANGED <<closed, cwd, dirs, stored, port>>
         /\ inbox' = << >> \/ inbox' = inbox
         /\ pc \notin {"send", "quit", "quitwait"} => inbox' = << >>
         /\ \/ UNCHANGED cmds
            \/ pc \in Preparing /\ \E v \in {"USER", "PASS", "CWD", "MKD", "PWD"} :
                                   \E a \in Seq(Names) : Send(v, a)
            \/ pc = "d" /\ pc' = "mkdpoll" /\ Send("MKD", Job.name)
            \/ pc \in {"f", "c"} /\ pc' = "pasvpoll" /\ Send("PASV", << >>)
            \/ pc = "pasvpoll" /\ Connect /\ Send("STOR", Job.name)
            \/ pc = "quit" /\ Send("QUIT", << >>)
<1>1. << >> \in Seq(Names) /\ <<RootDir>> \in Seq(Names) /\ <<BackupDir>> \in Seq(Names)
      /\ DOMAIN Stages = {"greet", "user", "pass"}
  BY FtpWork, SmallSequences, StageType
<1>2. CASE InitStage
  BY <1>1, <1>2, StageMoves DEF Answered, server, Preparing
<1>3. CASE InitDone \/ InitFails \/ MakeRootPoll
  BY <1>1, <1>3 DEF InitDone, InitFails, MakeRootPoll, Answered, Unanswered, HungUpOn, TimedOut, server
<1>4. CASE MakeRoot
  BY <1>1, <1>4 DEF MakeRoot, Quiet, Unexpected, server, Preparing
<1>5. CASE ChangeDir
  BY <1>1, <1>5 DEF ChangeDir, Quiet, Unexpected, server, Preparing
<1>6. CASE ChangeDirPoll
  BY <1>1, <1>6 DEF ChangeDirPoll, Answered, Unanswered, HungUpOn, TimedOut, server, Preparing
<1>7. CASE PwdPoll
  BY <1>7 DEF PwdPoll, Answered, Unanswered, HungUpOn, TimedOut, server
<1>8. CASE MakeDir \/ OpenFile
  BY <1>8 DEF MakeDir, OpenFile, Quiet, Unexpected, server
<1>9. CASE MakeDirPoll \/ PasvFails \/ OpenAsserts \/ ConnectFails \/ StorPoll \/ ClosePoll
  BY <1>9 DEF MakeDirPoll, PasvFails, OpenAsserts, ConnectFails, StorPoll, ClosePoll,
     Answered, Unanswered, HungUpOn, TimedOut, server
<1>10. CASE Connect
  BY <1>10 DEF Connect, Answered, server
<1>11. ASSUME NEW all \in BOOLEAN, Transfer(all)
       PROVE  UNCHANGED <<closed, cwd, dirs, stored, port, inbox, cmds>> /\ pc = "send"
  BY <1>11 DEF Transfer
<1>12. CASE Quit \/ QuitWait
  BY <1>12 DEF Quit, QuitWait, server
<1> QED BY <1>2, <1>3, <1>4, <1>5, <1>6, <1>7, <1>8, <1>9, <1>10, <1>11, <1>12 DEF Client

LEMMA ClientLine ==
  ASSUME TypeOK, Calls, Client
  PROVE  LineTypes' /\ ServerTypes'
<1>1. /\ cmds \in Seq(Commands) /\ inbox \in Seq(Replies) /\ << >> \in Seq(Replies)
      /\ closed \in BOOLEAN /\ xfer \in Seq(Transfers) /\ Len(xfer) =< 1
      /\ conn \in 0 .. port /\ port \in Nat /\ << >> \in Seq(Names)
  BY FtpWork, SmallSequences DEF TypeOK, LineTypes, ServerTypes, Commands, Replies, Transfers
<1>2. pc \in Walks => Job.name \in Seq(Names)
  BY WorkType DEF TypeOK, ClientTypes, Calls, Job
<1>3. cmds' \in Seq(Commands)
  <2>1. \A v \in {"USER", "PASS", "CWD", "MKD", "PWD", "PASV", "STOR", "QUIT"} : v \in Verbs
    BY DEF Verbs
  <2> QED BY <1>1, <1>2, <2>1, ClientMoves, SendTyped DEF Walks
<1>4. LineTypes'
  BY <1>1, <1>3, ClientMoves DEF LineTypes, Commands, Replies
<1>5. (\E all \in BOOLEAN : Transfer(all)) \/ UNCHANGED xfer
  BY DEF Client, InitStage, InitDone, InitFails, MakeRoot, MakeRootPoll, ChangeDir, ChangeDirPoll,
     PwdPoll, MakeDir, MakeDirPoll, OpenFile, PasvFails, OpenAsserts, Connect, ConnectFails,
     StorPoll, ClosePoll, Quit, QuitWait, server
<1>6. xfer' \in Seq(Transfers) /\ Len(xfer') =< 1
  BY <1>1, <1>5, TransferMoves
<1>7. conn' \in {conn, port, 0}
  BY DEF Client, InitStage, InitDone, InitFails, MakeRoot, MakeRootPoll, ChangeDir, ChangeDirPoll,
     PwdPoll, MakeDir, MakeDirPoll, OpenFile, PasvFails, OpenAsserts, Connect, ConnectFails,
     StorPoll, Transfer, ClosePoll, Quit, QuitWait
<1>8. ServerTypes'
  BY <1>1, <1>6, <1>7, ClientMoves DEF ServerTypes, Transfers, TypeOK
<1> QED BY <1>4, <1>8

\* What the server reads, and what it answers.
LEMMA Handled ==
  ASSUME TypeOK, NEW v, Handle(v), NEW c \in Nat, Reply(c), port' \in Nat
  PROVE  LET r == [code |-> c, port |-> port']
         IN  /\ cmds # << >> /\ Head(cmds) \in Range(cmds) /\ Head(cmds).verb = v /\ Arg \in Seq(Names)
             /\ cmds' = Tail(cmds) /\ cmds' \in Seq(Commands) /\ Range(cmds') \subseteq Range(cmds)
             /\ inbox' = Append(inbox, r) /\ inbox' \in Seq(Replies) /\ inbox' # << >>
             /\ Range(inbox') = Range(inbox) \cup {r} /\ r.code = c
             /\ Head(inbox') = IF inbox = << >> THEN r ELSE Head(inbox)
             /\ ~closed /\ xfer = << >> /\ UNCHANGED <<client, slow, slowPwd, cut>>
<1> DEFINE r == [code |-> c, port |-> port']
<1>1. cmds \in Seq(Commands) /\ inbox \in Seq(Replies) /\ r \in Replies /\ r.code = c
  BY DEF TypeOK, LineTypes, Commands, Replies
<1>2. /\ ~closed /\ xfer = << >> /\ cmds # << >> /\ Head(cmds).verb = v
      /\ cmds' = Tail(cmds) /\ UNCHANGED <<client, slow, slowPwd, cut>>
  BY DEF Handle
<1>3. Head(cmds) \in Range(cmds) /\ Range(cmds) \subseteq Commands
  BY <1>1, <1>2, InQueue
<1>4. Arg \in Seq(Names)
  BY <1>3 DEF Arg, Commands
<1>5. cmds' \in Seq(Commands) /\ Range(cmds') \subseteq Range(cmds)
  BY <1>1, <1>2, QueueTail
<1>6. inbox' = Append(inbox, r)
  BY DEF Reply
<1> HIDE DEF r
<1>7. /\ inbox' \in Seq(Replies) /\ inbox' # << >> /\ Range(inbox') = Range(inbox) \cup {r}
      /\ Head(inbox') = IF inbox = << >> THEN r ELSE Head(inbox)
  BY <1>1, <1>6, QueueAppend
<1> QED BY <1>1, <1>2, <1>3, <1>4, <1>5, <1>6, <1>7 DEF r

\* One command and its reply: what they are, and what they change.
Serving(v, c) ==
  /\ Handle(v) /\ Reply(c)
  /\ v # "CWD" => cwd' = cwd
  /\ v = "CWD" => \/ c = 250 /\ cwd' = cwd \o Arg
                  \/ c # 250 /\ cwd' = cwd
  /\ v # "MKD" => dirs' = dirs /\ (c = 257 => v = "PWD")
  /\ v = "MKD" => \/ c = 257 /\ cwd \o Arg \notin dirs /\ dirs' = dirs \cup {cwd \o Arg}
                  \/ c # 257 /\ dirs' = dirs
  /\ v # "PASV" => port' = port /\ c # 227
  /\ v = "PASV" => \/ c = 227 /\ port' = port + 1
                   \/ c # 227 /\ port' = port
  /\ v # "STOR" => xfer' = << >> /\ stored' = stored /\ c # 150
  /\ v = "STOR" =>
       \/ /\ c = 150 /\ stored' = stored \ {cwd \o Arg}
          /\ xfer' = <<[path |-> cwd \o Arg, data |-> IF conn = port THEN "open" ELSE "part"]>>
       \/ c # 150 /\ xfer' = << >> /\ stored' = stored
  /\ v # "QUIT" => closed' = closed
  /\ v = "QUIT" => closed' = TRUE

LEMMA ServerMoves ==
  ASSUME TypeOK, Serves
  PROVE  EndTransfer \/ \E v \in Verbs : \E c \in Nat : Serving(v, c)
<1>1. CASE ServeTalk
  <2>1. PICK v \in DOMAIN Says : \E c \in Says[v] :
               Handle(v) /\ UNCHANGED <<server, closed>> /\ Reply(c)
    BY <1>1 DEF ServeTalk
  <2>2. PICK c \in Says[v] : Handle(v) /\ UNCHANGED <<server, closed>> /\ Reply(c)
    BY <2>1
  <2>3. v \in {"connect", "USER", "PASS", "PWD"}
    BY <2>1 DEF Says
  <2>4. /\ Says["connect"] = {220, 421} /\ Says["USER"] = {331, 530}
        /\ Says["PASS"] = {230, 530} /\ Says["PWD"] = {257, 501}
    BY DEF Says
  <2>5. c \in {220, 421, 331, 530, 230, 257, 501} /\ (c = 257 => v = "PWD")
    BY <2>2, <2>3, <2>4
  <2>6. v \in Verbs /\ c \in Nat /\ xfer = << >>
    BY <2>2, <2>3, <2>5 DEF Verbs, Handle
  <2>7. Serving(v, c)
    BY <2>2, <2>3, <2>5, <2>6 DEF server, Serving
  <2> QED BY <2>6, <2>7
<1>2. CASE ServeCwd
  <2>1. Handle("CWD") /\ xfer = << >> /\ "CWD" \in Verbs
    BY <1>2 DEF ServeCwd, Handle, Verbs
  <2>2. \E c \in {250, 550} : Serving("CWD", c)
    BY <1>2, <2>1 DEF ServeCwd, server, Serving
  <2> QED BY <2>1, <2>2
<1>3. CASE ServeMkd
  <2>1. Handle("MKD") /\ xfer = << >> /\ "MKD" \in Verbs
    BY <1>3 DEF ServeMkd, Handle, Verbs
  <2>2. \E c \in {257, 550, 553} : Serving("MKD", c)
    BY <1>3, <2>1 DEF ServeMkd, server, Serving
  <2> QED BY <2>1, <2>2
<1>4. CASE ServePasv
  <2>1. Handle("PASV") /\ xfer = << >> /\ "PASV" \in Verbs
    BY <1>4 DEF ServePasv, Handle, Verbs
  <2>2. CASE port' = port + 1 /\ UNCHANGED <<cwd, dirs, stored, xfer, closed>> /\ Reply(227)
    <3>1. Serving("PASV", 227)
      BY <2>1, <2>2 DEF Serving
    <3> QED BY <2>1, <3>1
  <2>3. CASE UNCHANGED <<server, closed>> /\ Reply(425)
    <3>1. Serving("PASV", 425)
      BY <2>1, <2>3 DEF server, Serving
    <3> QED BY <2>1, <3>1
  <2> QED BY <1>4, <2>2, <2>3 DEF ServePasv
<1>5. CASE ServeStor
  <2>1. Handle("STOR") /\ xfer = << >> /\ "STOR" \in Verbs
    BY <1>5 DEF ServeStor, Handle, Verbs
  <2>2. \E c \in {150, 425, 553} : Serving("STOR", c)
    BY <1>5, <2>1 DEF ServeStor, server, Serving
  <2> QED BY <2>1, <2>2
<1>6. CASE ServeQuit
  <2>1. Handle("QUIT") /\ xfer = << >> /\ "QUIT" \in Verbs
    BY <1>6 DEF ServeQuit, Handle, Verbs
  <2>2. Serving("QUIT", 221)
    BY <1>6, <2>1 DEF ServeQuit, server, Serving
  <2> QED BY <2>1, <2>2
<1> QED BY <1>1, <1>2, <1>3, <1>4, <1>5, <1>6 DEF Serves

LEMMA EndMoves ==
  ASSUME TypeOK, EndTransfer
  PROVE  \E c \in {226, 426} :
           LET r == [code |-> c, port |-> port]
           IN  /\ inbox' = Append(inbox, r) /\ inbox' \in Seq(Replies) /\ inbox' # << >>
               /\ Range(inbox') = Range(inbox) \cup {r} /\ r.code = c
               /\ Head(inbox') = IF inbox = << >> THEN r ELSE Head(inbox)
               /\ ~closed /\ xfer # << >> /\ xfer' = << >>
               /\ UNCHANGED <<client, cmds, cwd, dirs, port, closed, slow, slowPwd>>
               /\ \/ stored' = stored \cup {xfer[1].path} /\ cut' = cut
                  \/ stored' = stored /\ cut' = (cut \/ xfer[1].data = "whole")
<1>1. PICK c \in {226, 426} :
        /\ Reply(c) /\ ~closed /\ xfer # << >> /\ xfer' = << >>
        /\ UNCHANGED <<client, cmds, cwd, dirs, port, closed, slow, slowPwd>>
        /\ \/ stored' = stored \cup {xfer[1].path} /\ cut' = cut
           \/ stored' = stored /\ cut' = (cut \/ xfer[1].data = "whole")
  <2>1. xfer[1].data = "part" => ~(xfer[1].data = "whole")
    OBVIOUS
  <2>2. cut \in BOOLEAN /\ (xfer[1].data = "part" => cut = (cut \/ xfer[1].data = "whole"))
    BY <2>1 DEF TypeOK
  <2> QED BY <2>2 DEF EndTransfer
<1> DEFINE r == [code |-> c, port |-> port]
<1>2. inbox' = Append(inbox, r) /\ inbox \in Seq(Replies) /\ r \in Replies /\ r.code = c
  BY <1>1 DEF Reply, TypeOK, LineTypes, ServerTypes, Replies
<1> HIDE DEF r
<1>3. /\ inbox' \in Seq(Replies) /\ inbox' # << >> /\ Range(inbox') = Range(inbox) \cup {r}
      /\ Head(inbox') = IF inbox = << >> THEN r ELSE Head(inbox)
  BY <1>2, QueueAppend
<1> QED BY <1>1, <1>2, <1>3 DEF r

LEMMA ServerLine ==
  ASSUME TypeOK, Calls, Serves \/ HangUp
  PROVE  UNCHANGED <<client, slow, slowPwd>> /\ LineTypes' /\ ServerTypes'
<1>1. /\ cmds \in Seq(Commands) /\ inbox \in Seq(Replies) /\ closed \in BOOLEAN
      /\ xfer \in Seq(Transfers) /\ Len(xfer) =< 1 /\ conn \in 0 .. port /\ port \in Nat
      /\ cwd \in Seq(Names) /\ dirs \subseteq Seq(Names) /\ stored \subseteq Seq(Names)
  BY DEF TypeOK, LineTypes, ServerTypes, Commands, Replies, Transfers
<1>2. << >> \in Seq(Commands) /\ << >> \in Seq(Transfers) /\ Len(<< >>) = 0
  OBVIOUS
<1>3. CASE HangUp
  BY <1>1, <1>2, <1>3 DEF HangUp, client, LineTypes, ServerTypes, Commands, Replies, Transfers
<1>4. CASE EndTransfer
  <2>1. xfer # << >> => xfer[1] \in Transfers
    BY <1>1, InQueue
  <2>2. xfer # << >> => xfer[1].path \in Seq(Names)
    BY <2>1 DEF Transfers
  <2>3. /\ inbox' \in Seq(Replies) /\ UNCHANGED <<client, cmds, cwd, dirs, port, closed, slow, slowPwd>>
        /\ xfer # << >> /\ xfer' = << >> /\ stored' \in {stored, stored \cup {xfer[1].path}}
    BY <1>4, EndMoves
  <2>4. stored' \subseteq Seq(Names)
    BY <1>1, <2>2, <2>3
  <2> QED BY <1>1, <1>2, <2>3, <2>4 DEF client, LineTypes, ServerTypes, Commands, Replies, Transfers
<1>5. ASSUME NEW v \in Verbs, NEW c \in Nat, Serving(v, c)
      PROVE  UNCHANGED <<client, slow, slowPwd>> /\ LineTypes' /\ ServerTypes'
  <2>1. Handle(v) /\ Reply(c) /\ port' \in Nat /\ port' >= port
    BY <1>1, <1>5 DEF Serving
  <2>2. /\ Arg \in Seq(Names) /\ cmds' \in Seq(Commands) /\ inbox' \in Seq(Replies)
        /\ UNCHANGED <<client, slow, slowPwd, cut>>
    BY <2>1, Handled
  <2>3. cwd \o Arg \in Seq(Names)
    BY <1>1, <2>2, Joined
  <2>4. cwd' \in Seq(Names) /\ dirs' \subseteq Seq(Names) /\ stored' \subseteq Seq(Names)
    <3>1. cwd' \in {cwd, cwd \o Arg}
      BY <1>5 DEF Serving
    <3>2. dirs' \in {dirs, dirs \cup {cwd \o Arg}}
      BY <1>5 DEF Serving
    <3>3. stored' \in {stored, stored \ {cwd \o Arg}}
      BY <1>5 DEF Serving
    <3> QED BY <1>1, <2>3, <3>1, <3>2, <3>3
  <2>5. xfer' \in Seq(Transfers) /\ Len(xfer') =< 1
    <3> DEFINE t == [path |-> cwd \o Arg, data |-> IF conn = port THEN "open" ELSE "part"]
    <3>1. t \in Transfers
      BY <2>3 DEF Transfers
    <3>2. xfer' = << >> \/ xfer' = <<t>>
      BY <1>5 DEF Serving
    <3> HIDE DEF t
    <3>3. <<t>> \in Seq(Transfers) /\ Len(<<t>>) = 1
      BY <3>1, SmallSequences
    <3>4. CASE xfer' = << >>
      BY <1>2, <3>4
    <3>5. CASE xfer' = <<t>>
      BY <3>3, <3>5
    <3> QED BY <3>2, <3>4, <3>5
  <2>6. closed' \in BOOLEAN
    <3>1. closed' = closed \/ closed' = TRUE
      BY <1>5 DEF Serving
    <3> QED BY <1>1, <3>1
  <2> QED BY <1>1, <2>1, <2>2, <2>4, <2>5, <2>6 DEF client, LineTypes, ServerTypes, Commands, Replies, Transfers
<1> QED BY <1>3, <1>4, <1>5, ServerMoves

LEMMA FlagsTyped ==
  ASSUME TypeOK, Client \/ Serves \/ HangUp
  PROVE  /\ slow' \in BOOLEAN /\ slowPwd' \in BOOLEAN
         /\ refused' \in BOOLEAN /\ cut' \in BOOLEAN
<1>1. slow \in BOOLEAN /\ slowPwd \in BOOLEAN /\ refused \in BOOLEAN /\ cut \in BOOLEAN
  BY DEF TypeOK
<1>2. \/ slow' = slow \/ slow' = TRUE
  BY StageMoves DEF Client, InitDone, InitFails, MakeRoot, MakeRootPoll, ChangeDir, ChangeDirPoll,
     PwdPoll, MakeDir, MakeDirPoll, OpenFile, PasvFails, OpenAsserts, Connect, ConnectFails,
     StorPoll, Transfer, ClosePoll, Quit, QuitWait, Serves, ServeTalk, ServeCwd, ServeMkd,
     ServePasv, ServeStor, ServeQuit, Handle, EndTransfer, HangUp,
     Answered, Unanswered, HungUpOn, TimedOut, Quiet, Unexpected
<1>3. slowPwd' = slowPwd \/ slowPwd' = TRUE \/ slowPwd' = FALSE
  BY StageMoves DEF Client, InitDone, InitFails, MakeRoot, MakeRootPoll, ChangeDir, ChangeDirPoll,
     PwdPoll, MakeDir, MakeDirPoll, OpenFile, PasvFails, OpenAsserts, Connect, ConnectFails,
     StorPoll, Transfer, ClosePoll, Quit, QuitWait, Serves, ServeTalk, ServeCwd, ServeMkd,
     ServePasv, ServeStor, ServeQuit, Handle, EndTransfer, HangUp, ghosts
<1>4. refused' = refused \/ refused' = TRUE \/ refused' = FALSE
  BY <1>1, StageMoves DEF Client, InitDone, InitFails, MakeRoot, MakeRootPoll, ChangeDir, ChangeDirPoll,
     PwdPoll, MakeDir, MakeDirPoll, OpenFile, PasvFails, OpenAsserts, Connect, ConnectFails,
     StorPoll, Transfer, ClosePoll, Quit, QuitWait, Serves, ServeTalk, ServeCwd, ServeMkd,
     ServePasv, ServeStor, ServeQuit, EndTransfer, HangUp, ghosts, Accept, Refuse
<1>5. cut' = cut \/ cut' = TRUE \/ cut' = FALSE
  BY <1>1, StageMoves DEF Client, InitDone, InitFails, MakeRoot, MakeRootPoll, ChangeDir, ChangeDirPoll,
     PwdPoll, MakeDir, MakeDirPoll, OpenFile, PasvFails, OpenAsserts, Connect, ConnectFails,
     StorPoll, Transfer, ClosePoll, Quit, QuitWait, Serves, ServeTalk, ServeCwd, ServeMkd,
     ServePasv, ServeStor, ServeQuit, Handle, EndTransfer, HangUp, ghosts
<1> QED BY <1>1, <1>2, <1>3, <1>4, <1>5

LEMMA TypesStep ==
  ASSUME TypeOK, Calls, [Next]_vars
  PROVE  TypeOK' /\ Calls'
<1>1. CASE Client
  BY <1>1, ClientTyped, ClientLine, FlagsTyped DEF TypeOK
<1>2. CASE Serves \/ HangUp
  <2>1. UNCHANGED client
    BY <1>2, ServerLine
  <2>2. ClientTypes' /\ Calls'
    BY <2>1 DEF client, TypeOK, ClientTypes, Calls, Job
  <2> QED BY <1>2, <2>2, ServerLine, FlagsTyped DEF TypeOK
<1>3. CASE UNCHANGED vars
  BY <1>3 DEF vars, client, server, ghosts, TypeOK, ClientTypes, LineTypes, ServerTypes, Calls, Job
<1> QED BY <1>1, <1>2, <1>3 DEF Next, Terminated

\* The types of the variables, for every walk and every server.
THEOREM FtpTypes == Spec => []TypeOK
<1>1. Init => TypeOK /\ Calls
  BY InitTyped
<1>2. TypeOK /\ Calls /\ [Next]_vars => (TypeOK /\ Calls)'
  BY TypesStep
<1> QED BY <1>1, <1>2, PTL DEF Spec

-----------------------------------------------------------------------------
(* Until the walk begins *)

LEMMA AskedIs ==
  /\ Asked["greet"] = [verb |-> "connect", arg |-> << >>]
  /\ Asked["user"] = [verb |-> "USER", arg |-> << >>]
  /\ Asked["pass"] = [verb |-> "PASS", arg |-> << >>]
  /\ Asked["cwdroot"] = [verb |-> "CWD", arg |-> <<RootDir>>]
  /\ Asked["mkrootpoll"] = [verb |-> "MKD", arg |-> <<BackupDir>>]
  /\ Asked["chdirpoll"] = [verb |-> "CWD", arg |-> <<BackupDir>>]
  /\ Asked["pwdpoll"] = [verb |-> "PWD", arg |-> << >>]
  BY DEF Asked

\* A command sent into an idle connection is the only one on it, or none is.
LEMMA SendAlone ==
  ASSUME NEW v, NEW a, Send(v, a), cmds = << >>
  PROVE  cmds' = <<[verb |-> v, arg |-> a]>> \/ cmds' = << >>
<1>1. Append(<< >>, [verb |-> v, arg |-> a]) = <<[verb |-> v, arg |-> a]>>
  OBVIOUS
<1> QED BY <1>1 DEF Send

LEMMA InitPrelude == Init => Prelude
  BY AskedIs DEF Init, Prelude

LEMMA InPreparation ==
  ASSUME TypeOK, Calls, Client
  PROVE  \/ pc \notin Preparing
         \/ InitStage \/ InitDone \/ InitFails \/ MakeRoot \/ MakeRootPoll
         \/ ChangeDir \/ ChangeDirPoll \/ PwdPoll
  BY StageType DEF Client, MakeDir, MakeDirPoll, OpenFile, PasvFails, OpenAsserts, Connect,
     ConnectFails, StorPoll, Transfer, ClosePoll, Quit, QuitWait, Preparing

\* The preparation is left for good.
LEMMA NoWayBack ==
  ASSUME TypeOK, Calls, Client, pc \notin Preparing
  PROVE  pc' \notin Preparing
<1> USE StageType DEF Preparing
<1>1. ASSUME pc \in Walks, Retries \/ GoesOn
      PROVE  pc' \notin Preparing
  <2>1. k \in 1 .. Len(Work) /\ Len(Work) \in Nat
    BY <1>1, WorkType DEF TypeOK, ClientTypes, Calls
  <2>2. CASE Retries
    BY <2>2 DEF Retries
  <2>3. CASE GoesOn
    <3>1. pc' = "quit" \/ (k' \in 1 .. Len(Work) /\ pc' = Work[k'].op)
      BY <2>1, <2>3 DEF GoesOn
    <3> QED BY <3>1, WorkType
  <2> QED BY <1>1, <2>2, <2>3
<1>2. ASSUME pc \in Walks, AttemptFails \/ AttemptSucceeds
      PROVE  pc' \notin Preparing
  <2>1. k =< Len(Work) /\ retry =< MaxRetries /\ rc = 0
    BY <1>2 DEF Calls
  <2> QED BY <1>1, <1>2, <2>1, FailsMoves, SucceedsMoves
<1>3. CASE MakeDir \/ MakeDirPoll \/ OpenFile \/ PasvFails \/ OpenAsserts \/ Connect
           \/ ConnectFails \/ StorPoll \/ ClosePoll
  <2>1. pc \in Walks
    BY <1>3 DEF MakeDir, MakeDirPoll, OpenFile, PasvFails, OpenAsserts, Connect,
       ConnectFails, StorPoll, ClosePoll, Walks
  <2>2. AttemptFails \/ AttemptSucceeds \/ pc' \in {"mkdpoll", "pasvpoll", "aborted", "storpoll", "send"}
    BY <1>3 DEF MakeDir, MakeDirPoll, OpenFile, PasvFails, OpenAsserts, Connect,
       ConnectFails, StorPoll, ClosePoll
  <2> QED BY <1>2, <2>1, <2>2
<1>4. CASE (\E all \in BOOLEAN : Transfer(all)) \/ Quit \/ QuitWait
  BY <1>4 DEF Transfer, Quit, QuitWait
<1>5. ~(InitStage \/ InitDone \/ InitFails \/ MakeRoot \/ MakeRootPoll
           \/ ChangeDir \/ ChangeDirPoll \/ PwdPoll)
  BY DEF InitStage, InitDone, InitFails, MakeRoot, MakeRootPoll, ChangeDir, ChangeDirPoll, PwdPoll
<1> QED BY <1>3, <1>4, <1>5 DEF Client

LEMMA ClientPrelude ==
  ASSUME TypeOK, Calls, Prelude, Client
  PROVE  Prelude'
<1> SUFFICES ASSUME pc' \in Preparing, rc' = 0
             PROVE  Prelude'
  BY DEF Prelude
<1>1. DOMAIN Stages = {"greet", "user", "pass"} /\ Len(<< >>) = 0
      /\ inbox \in Seq(Replies) /\ UNCHANGED cwd
  BY StageType, ClientMoves DEF TypeOK, LineTypes, Replies
<1>2. CASE InitStage
  <2>1. /\ Answered /\ rc = 0 /\ pc # "mkroot" /\ pc' # "mkroot"
        /\ \/ pc = "greet" /\ pc' = "user" /\ Send("USER", << >>)
           \/ pc = "user" /\ pc' = "pass" /\ Send("PASS", << >>)
           \/ pc = "pass" /\ pc' = "cwdroot" /\ Send("CWD", <<RootDir>>)
    BY <1>2, StageMoves
  <2>2. cmds = << >> /\ inbox' = << >> /\ cwd = << >>
    BY <1>1, <2>1 DEF Prelude, Preparing, Answered
  <2>3. cmds' = << >> \/ cmds' = <<Asked[pc']>>
    BY <2>1, <2>2, AskedIs, SendAlone
  <2> QED BY <1>1, <2>1, <2>2, <2>3 DEF Prelude
<1>3. CASE InitDone
  <2>1. pc = "cwdroot" /\ pc' = "mkroot" /\ Answered /\ rc = 0 /\ Code = 250 /\ cmds' = cmds
    BY <1>3 DEF InitDone
  <2>2. cmds = << >> /\ inbox' = << >> /\ cwd = <<RootDir>>
    BY <2>1 DEF Prelude, Preparing, Answered
  <2> QED BY <1>1, <2>1, <2>2 DEF Prelude
<1>4. CASE InitFails
  BY <1>4 DEF InitFails
<1>5. CASE MakeRoot
  <2>1. pc = "mkroot" /\ pc' = "mkrootpoll" /\ rc = 0 /\ Quiet /\ Send("MKD", <<BackupDir>>)
    BY <1>5 DEF MakeRoot
  <2>2. cmds = << >> /\ inbox' = << >> /\ cwd = <<RootDir>>
    BY <2>1 DEF Prelude, Preparing, Quiet
  <2>3. cmds' = << >> \/ cmds' = <<Asked[pc']>>
    BY <2>1, <2>2, AskedIs, SendAlone
  <2> QED BY <1>1, <2>1, <2>2, <2>3 DEF Prelude
<1>6. CASE MakeRootPoll
  <2>1. pc = "mkrootpoll" /\ pc' = "chdir" /\ rc = 0 /\ Answered /\ cmds' = cmds
    BY <1>6, <1>1 DEF MakeRootPoll, TypeOK, ClientTypes
  <2>2. cmds = << >> /\ inbox' = << >> /\ cwd = <<RootDir>>
    BY <2>1 DEF Prelude, Preparing, Answered
  <2> QED BY <1>1, <2>1, <2>2 DEF Prelude
<1>7. k = 1 /\ pc \in {"chdir", "chdirpoll", "pwdpoll"} /\ UNCHANGED k => ~Walk \/ rc' # 0
  <2>1. Work[1].op \in {"d", "f", "c"}
    BY WorkType
  <2> QED BY <2>1, StageType DEF Walk, Job, Preparing
<1>8. CASE ChangeDir
  <2>1. pc = "chdir" /\ k = 1 /\ UNCHANGED k
    BY <1>8 DEF ChangeDir, Calls, Preparing
  <2>2. pc' = "chdirpoll" /\ rc = 0 /\ Quiet /\ Send("CWD", <<BackupDir>>)
    BY <1>7, <1>8, <2>1 DEF ChangeDir
  <2>3. cmds = << >> /\ inbox' = << >> /\ cwd = <<RootDir>>
    BY <2>1, <2>2 DEF Prelude, Preparing, Quiet
  <2>4. cmds' = << >> \/ cmds' = <<Asked[pc']>>
    BY <2>2, <2>3, AskedIs, SendAlone
  <2> QED BY <1>1, <2>2, <2>3, <2>4 DEF Prelude
<1>9. CASE ChangeDirPoll
  <2>1. pc = "chdirpoll" /\ k = 1 /\ UNCHANGED k
    BY <1>9 DEF ChangeDirPoll, Calls, Preparing
  <2>2. pc' = "pwdpoll" /\ rc = 0 /\ Answered /\ Code = 250 /\ Send("PWD", << >>)
    BY <1>7, <1>9, <2>1 DEF ChangeDirPoll
  <2>3. cmds = << >> /\ inbox' = << >> /\ cwd = Backup
    BY <2>1, <2>2 DEF Prelude, Preparing, Answered
  <2>4. cmds' = << >> \/ cmds' = <<Asked[pc']>>
    BY <2>2, <2>3, AskedIs, SendAlone
  <2> QED BY <1>1, <2>2, <2>3, <2>4 DEF Prelude
<1>10. CASE PwdPoll
  <2>1. pc = "pwdpoll" /\ k = 1 /\ UNCHANGED k /\ Walk
    BY <1>10 DEF PwdPoll, Calls, Preparing
  <2> QED BY <1>7, <2>1
<1>11. CASE pc \notin Preparing
  BY <1>11, NoWayBack
<1> QED BY <1>2, <1>3, <1>4, <1>5, <1>6, <1>8, <1>9, <1>10, <1>11, InPreparation

LEMMA ServerPrelude ==
  ASSUME TypeOK, Calls, Prelude, pc \in Preparing => xfer = << >>, Serves \/ HangUp
  PROVE  Prelude'
<1>1. UNCHANGED <<pc, rc>>
  BY ServerLine DEF client
<1> SUFFICES ASSUME pc \in Preparing, rc = 0
             PROVE  Prelude'
  BY <1>1 DEF Prelude
<1>2. CASE HangUp
  <2>1. cmds' = << >> /\ UNCHANGED <<inbox, cwd>>
    BY <1>2 DEF HangUp
  <2>2. Len(inbox) =< 1 /\ (pc \in {"mkroot", "chdir"} => inbox = << >>)
    <3>1. Len(<< >>) = 0
      OBVIOUS
    <3> QED BY <3>1 DEF Prelude
  <2> QED BY <1>1, <2>1, <2>2 DEF Prelude, Code
<1>3. CASE EndTransfer
  BY <1>3 DEF EndTransfer
<1>4. ASSUME NEW v \in Verbs, NEW c \in Nat, Serving(v, c)
      PROVE  Prelude'
  <2> DEFINE r == [code |-> c, port |-> port']
  <2>1. Handle(v) /\ Reply(c) /\ port' \in Nat
    BY <1>4 DEF Serving, TypeOK, ServerTypes
  <2>2. /\ cmds # << >> /\ Head(cmds).verb = v /\ cmds' = Tail(cmds)
        /\ inbox' = Append(inbox, r) /\ r.code = c
    BY <2>1, Handled
  <2>3. pc \notin {"mkroot", "chdir"} /\ cmds = <<Asked[pc]>> /\ inbox = << >>
    BY <2>2 DEF Prelude
  <2> HIDE DEF r
  <2>4. cmds' = << >> /\ inbox' = <<r>> /\ Len(inbox') = 1 /\ Head(inbox').code = c
        /\ v = Asked[pc].verb /\ Arg = Asked[pc].arg
    BY <2>2, <2>3 DEF Arg
  <2>5. /\ v # "CWD" => cwd' = cwd
        /\ v = "CWD" => cwd' = IF c = 250 THEN cwd \o Arg ELSE cwd
    BY <1>4 DEF Serving
  <2>6. pc \in {"greet", "user", "pass", "mkrootpoll", "pwdpoll"} => cwd' = cwd
    BY <2>4, <2>5, AskedIs
  <2>7. pc = "cwdroot" /\ c = 250 => cwd' = <<RootDir>>
    <3>1. pc = "cwdroot" => cwd = << >> /\ v = "CWD" /\ Arg = <<RootDir>>
      BY <2>3, <2>4, AskedIs DEF Prelude
    <3> QED BY <2>5, <3>1, FtpWork, SmallSequences
  <2>8. pc = "chdirpoll" /\ c = 250 => cwd' = Backup
    <3>1. pc = "chdirpoll" => cwd = <<RootDir>> /\ v = "CWD" /\ Arg = <<BackupDir>>
      BY <2>3, <2>4, AskedIs DEF Prelude
    <3> QED BY <2>5, <3>1, FtpWork, SmallSequences DEF Backup
  <2> QED BY <1>1, <2>3, <2>4, <2>6, <2>7, <2>8 DEF Prelude, Code
<1> QED BY <1>2, <1>3, <1>4, ServerMoves

-----------------------------------------------------------------------------
(* The walk begins in the right place and stays there                      *)

\* It begins with an answer to PWD, or without one, and with nothing else: where
\* chDirRemote forgets its result nothing can have arrived yet.
LEMMA WalkBegins ==
  ASSUME TypeOK, Calls, Prelude, Client, ~Begun, Begun'
  PROVE  /\ PwdPoll /\ rc = 0 /\ rc' = 0 /\ k = 1 /\ cwd = Backup
         /\ \/ cmds = <<Asked["pwdpoll"]>> /\ inbox = << >>
            \/ cmds = << >> /\ Len(inbox) =< 1
<1>1. pc \in Preparing
  <2>1. ASSUME pc \notin Preparing
        PROVE  FALSE
    <3>1. rc \in {-7, -8, -9} /\ pc \notin Walks
      BY <2>1 DEF Begun, Calls
    <3>2. Quit \/ QuitWait
      BY <2>1, <3>1, StageType DEF Client, Walks, Preparing, InitStage, InitDone, InitFails, MakeRoot,
         MakeRootPoll, ChangeDir, ChangeDirPoll, PwdPoll, MakeDir, MakeDirPoll, OpenFile, PasvFails,
         OpenAsserts, Connect, ConnectFails, StorPoll, Transfer, ClosePoll
    <3>3. rc' = rc
      BY <3>2 DEF Quit, QuitWait
    <3> QED BY <3>1, <3>3 DEF Begun
  <2> QED BY <2>1
<1>2. /\ k = 1 /\ rc' \notin {-7, -8, -9} /\ pc' \notin Preparing
      /\ DOMAIN Stages = {"greet", "user", "pass"}
  BY <1>1, StageType DEF Calls, Begun
<1>3. ~(InitStage \/ InitDone \/ InitFails \/ MakeRoot \/ MakeRootPoll)
  BY <1>2, StageMoves DEF InitDone, InitFails, MakeRoot, MakeRootPoll, Preparing
<1>4. ~ChangeDirPoll
  BY <1>2 DEF ChangeDirPoll, Preparing
<1>5. ~ChangeDir
  <2>1. ASSUME ChangeDir
        PROVE  FALSE
    <3>1. pc = "chdir" /\ inbox # << >> /\ rc \in {0, -7, -8} /\ rc' \in {rc, -9}
      BY <1>1, <1>2, <2>1 DEF ChangeDir, Unexpected, Preparing, Calls
    <3>2. rc = 0
      BY <1>2, <3>1
    <3> QED BY <1>1, <3>1, <3>2 DEF Prelude
  <2> QED BY <2>1
<1>6. PwdPoll
  BY <1>1, <1>3, <1>4, <1>5, InPreparation
<1>7. pc = "pwdpoll" /\ rc' = rc /\ rc = 0
  BY <1>1, <1>2, <1>6 DEF PwdPoll, Calls
<1> QED BY <1>1, <1>2, <1>6, <1>7 DEF Prelude

LEMMA InitPlace == Init => Place
  BY StageType DEF Init, Place, Begun, Preparing

LEMMA ClientPlace ==
  ASSUME TypeOK, Calls, Prelude, Place, Client
  PROVE  Place'
<1> SUFFICES ASSUME Begun'
             PROVE  Place'
  BY DEF Place
<1>1. cmds \in Seq(Commands) /\ cwd' = cwd
  BY ClientMoves DEF TypeOK, LineTypes, Commands
<1>2. CASE Begun
  <2>1. cmds' = cmds \/ \E v \in {"MKD", "PASV", "STOR", "QUIT"} : \E a \in Seq(Names) : Send(v, a)
    <3>1. pc \notin Preparing
      BY <1>2 DEF Begun
    <3>2. pc \in {"d", "f", "c", "pasvpoll"} => Job.name \in Seq(Names)
      BY WorkType DEF TypeOK, ClientTypes, Calls, Job, Walks
    <3>3. << >> \in Seq(Names)
      OBVIOUS
    <3> QED BY <3>1, <3>2, <3>3, ClientMoves
  <2>2. ASSUME NEW v \in {"MKD", "PASV", "STOR", "QUIT"}, NEW a \in Seq(Names), Send(v, a)
        PROVE  \A c \in Range(cmds') : c \in Range(cmds) \/ c.verb = v
    <3> DEFINE c == [verb |-> v, arg |-> a]
    <3>1. c \in Commands /\ c.verb = v
      BY DEF Commands, Verbs
    <3>2. cmds' = cmds \/ cmds' = Append(cmds, c)
      BY <2>2 DEF Send
    <3> HIDE DEF c
    <3>3. Range(Append(cmds, c)) = Range(cmds) \cup {c}
      BY <1>1, <3>1, QueueAppend
    <3> QED BY <3>1, <3>2, <3>3
  <2> QED BY <1>1, <1>2, <2>1, <2>2 DEF Place
<1>3. CASE ~Begun
  <2>1. PwdPoll /\ cwd = Backup /\ (cmds = <<Asked["pwdpoll"]>> \/ cmds = << >>)
    BY <1>3, WalkBegins
  <2>2. cmds' = cmds
    BY <2>1 DEF PwdPoll
  <2>3. \A c \in Range(cmds) : c.verb = "PWD"
    <3>1. Asked["pwdpoll"].verb = "PWD"
      BY AskedIs
    <3>2. Range(<<Asked["pwdpoll"]>>) = {Asked["pwdpoll"]}
      BY DEF Range
    <3> QED BY <2>1, <3>1, <3>2, QueueEmpty
  <2> QED BY <1>1, <2>1, <2>2, <2>3 DEF Place
<1> QED BY <1>2, <1>3

LEMMA ServerPlace ==
  ASSUME TypeOK, Calls, Place, Serves \/ HangUp
  PROVE  Place'
<1>1. Begun' = Begun
  BY ServerLine DEF client, Begun
<1> SUFFICES ASSUME Begun
             PROVE  Place'
  BY <1>1 DEF Place
<1>2. CASE HangUp
  BY <1>2, QueueEmpty DEF HangUp, Place
<1>3. CASE EndTransfer
  BY <1>3 DEF EndTransfer, Place
<1>4. ASSUME NEW v \in Verbs, NEW c \in Nat, Serving(v, c)
      PROVE  Place'
  <2>1. Handle(v) /\ Reply(c) /\ port' \in Nat
    BY <1>4 DEF Serving, TypeOK, ServerTypes
  <2>2. Head(cmds) \in Range(cmds) /\ Head(cmds).verb = v /\ Range(cmds') \subseteq Range(cmds)
    BY <2>1, Handled
  <2>3. v # "CWD"
    BY <2>2 DEF Place
  <2>4. cwd' = cwd
    BY <1>4, <2>3 DEF Serving
  <2> QED BY <2>2, <2>4 DEF Place
<1> QED BY <1>2, <1>3, <1>4, ServerMoves

-----------------------------------------------------------------------------
(* The data connection *)

LEMMA InitDataLine == Init => DataLine
<1> SUFFICES ASSUME Init
             PROVE  DataLine
  OBVIOUS
<1>1. cmds = <<Asked["greet"]>> /\ inbox = << >> /\ xfer = << >> /\ pc = "greet"
  BY AskedIs DEF Init
<1>2. Range(cmds) = {Asked["greet"]} /\ Range(inbox) = {}
  BY <1>1, QueueEmpty DEF Range
<1>3. Asked["greet"].verb # "STOR"
  BY AskedIs
<1> QED BY <1>1, <1>2, <1>3 DEF DataLine, Unasked, OwnStor, AtStor, AtSend, Under, Waiting

\* Where a step of the client leads.
LEMMA ClientPlaces ==
  ASSUME TypeOK, Calls, Client
  PROVE  /\ pc' = "storpoll" => Connect
         /\ pc' = "send" => StorPoll /\ Answered /\ Code = 150 /\ UNCHANGED <<k, conn, cmds>>
         /\ pc' = "closepoll" => \E all \in BOOLEAN : Transfer(all)
         /\ UNCHANGED xfer \/ (pc = "send" /\ \E all \in BOOLEAN : Transfer(all))
         /\ UNCHANGED k \/ (GoesOn /\ (MakeDirPoll \/ ClosePoll) /\ sock = "null" /\ UNCHANGED <<cmds, sock>>)
         /\ sock' = "null" => sock = "null" \/ pc = "send"
<1>1. DOMAIN Stages = {"greet", "user", "pass"} /\ Len(Work) \in Nat \ {0} /\ k \in 1 .. Len(Work) + 1
  BY StageType, WorkType DEF TypeOK, ClientTypes
<1>2. CASE InitStage
  BY <1>2, StageMoves DEF server
<1>3. CASE InitDone \/ InitFails \/ MakeRoot \/ MakeRootPoll
  BY <1>3 DEF InitDone, InitFails, MakeRoot, MakeRootPoll, server
<1>4. CASE ChangeDir \/ ChangeDirPoll \/ PwdPoll
  <2>1. UNCHANGED <<k, sock, xfer>> /\ (Walk \/ pc' \in {"chdirpoll", "pwdpoll"}) /\ k = 1
    BY <1>4 DEF ChangeDir, ChangeDirPoll, PwdPoll, server, Calls, Preparing
  <2>2. Walk => pc' \in {"d", "f", "c", "quit"}
    <3>1. Work[1].op \in {"d", "f", "c"}
      BY WorkType
    <3> QED BY <2>1, <3>1 DEF Walk, Job
  <2> QED BY <2>1, <2>2
<1>5. ASSUME pc \in Walks, AttemptFails \/ AttemptSucceeds
      PROVE  /\ Retries \/ GoesOn
             /\ AttemptFails => k' = k
             /\ pc' \notin {"storpoll", "send", "closepoll"}
  <2>1. k =< Len(Work) /\ retry =< MaxRetries /\ rc = 0
    BY <1>5 DEF Calls
  <2>2. (Retries \/ GoesOn) /\ (AttemptFails => Retries)
    BY <1>5, <2>1, FailsMoves, SucceedsMoves
  <2>3. Retries => k' = k /\ pc' \in {"quit", "d", "f"}
    BY DEF Retries
  <2>4. GoesOn => pc' \in {"quit", "d", "f", "c"}
    <3>1. GoesOn => pc' = "quit" \/ (k' \in 1 .. Len(Work) /\ pc' = Work[k'].op)
      BY <1>1 DEF GoesOn
    <3> QED BY <3>1, WorkType
  <2> QED BY <2>2, <2>3, <2>4
<1>6. CASE MakeDir \/ OpenFile
  <2>1. pc \in Walks /\ UNCHANGED <<sock, xfer>>
        /\ (AttemptFails \/ (pc' \in {"mkdpoll", "pasvpoll"} /\ UNCHANGED k))
    BY <1>6 DEF MakeDir, OpenFile, server, Walks
  <2> QED BY <1>5, <2>1
<1>7. CASE MakeDirPoll \/ ClosePoll
  <2>1. pc \in {"mkdpoll", "closepoll"} /\ UNCHANGED <<sock, xfer, cmds>> /\ (AttemptFails \/ AttemptSucceeds)
    BY <1>7 DEF MakeDirPoll, ClosePoll, server
  <2>2. sock = "null" /\ pc \in Walks
    BY <1>1, <2>1 DEF Calls, Walks, TypeOK, ClientTypes
  <2>3. Retries => k' = k
    BY DEF Retries
  <2> QED BY <1>5, <1>7, <2>1, <2>2, <2>3
<1>8. CASE PasvFails \/ OpenAsserts \/ ConnectFails
  <2>1. pc \in Walks /\ UNCHANGED xfer /\ sock' \in {sock, "freed"}
        /\ (AttemptFails \/ (pc' = "aborted" /\ UNCHANGED k))
    BY <1>8 DEF PasvFails, OpenAsserts, ConnectFails, server, Walks
  <2> QED BY <1>5, <2>1
<1>9. CASE Connect
  BY <1>9 DEF Connect, server
<1>10. CASE StorPoll
  <2>1. pc \in Walks /\ UNCHANGED <<xfer, cmds>> /\ sock' \in {sock, "freed"}
    BY <1>10 DEF StorPoll, server, Walks
  <2>2. AttemptFails \/ (pc' = "send" /\ Answered /\ Code = 150 /\ UNCHANGED <<k, conn>>)
    BY <1>10 DEF StorPoll
  <2> QED BY <1>5, <1>10, <2>1, <2>2
<1>11. CASE \E all \in BOOLEAN : Transfer(all)
  BY <1>11 DEF Transfer
<1>12. CASE Quit \/ QuitWait
  BY <1>12 DEF Quit, QuitWait, server
<1> QED BY <1>2, <1>3, <1>4, <1>6, <1>7, <1>8, <1>9, <1>10, <1>11, <1>12 DEF Client

LEMMA JobName ==
  ASSUME TypeOK, Calls, pc \in Walks
  PROVE  Job.name \in Seq(Names)
  BY WorkType DEF TypeOK, ClientTypes, Calls, Job

LEMMA SendInRange ==
  ASSUME TypeOK, NEW v \in Verbs, NEW a \in Seq(Names), Send(v, a)
  PROVE  Range(cmds') = Range(cmds) \/ Range(cmds') = Range(cmds) \cup {[verb |-> v, arg |-> a]}
<1>1. cmds \in Seq(Commands) /\ [verb |-> v, arg |-> a] \in Commands
  BY DEF TypeOK, LineTypes, Commands
<1> QED BY <1>1, QueueAppend DEF Send

\* No other call than Connect sends a STOR.
LEMMA StorSent ==
  ASSUME TypeOK, Calls, Client, NEW c \in Range(cmds'), c.verb = "STOR"
  PROVE  c \in Range(cmds) \/ (Connect /\ c.arg = Job.name)
<1>1. pc \in {"d", "f", "c", "pasvpoll"} => Job.name \in Seq(Names)
  BY WorkType DEF TypeOK, ClientTypes, Calls, Job, Walks
<1>2. CASE UNCHANGED cmds
  BY <1>2
<1>3. ASSUME NEW v \in {"USER", "PASS", "CWD", "MKD", "PWD", "PASV", "QUIT"}, NEW a \in Seq(Names), Send(v, a)
      PROVE  c \in Range(cmds)
  <2> DEFINE d == [verb |-> v, arg |-> a]
  <2>1. v \in Verbs /\ d.verb = v
    BY DEF Verbs
  <2>2. Range(cmds') = Range(cmds) \/ Range(cmds') = Range(cmds) \cup {d}
    BY <1>3, <2>1, SendInRange
  <2> HIDE DEF d
  <2> QED BY <2>1, <2>2
<1>4. CASE Connect /\ pc = "pasvpoll" /\ Send("STOR", Job.name)
  <2> DEFINE d == [verb |-> "STOR", arg |-> Job.name]
  <2>1. "STOR" \in Verbs /\ d.arg = Job.name
    BY DEF Verbs
  <2>2. Range(cmds') = Range(cmds) \/ Range(cmds') = Range(cmds) \cup {d}
    BY <1>1, <1>4, <2>1, SendInRange
  <2> HIDE DEF d
  <2> QED BY <1>4, <2>1, <2>2
<1>5. << >> \in Seq(Names)
  OBVIOUS
<1> QED BY <1>1, <1>2, <1>3, <1>4, <1>5, ClientMoves

LEMMA ClientDataLine ==
  ASSUME TypeOK, Calls, DataLine, Client
  PROVE  DataLine'
<1>1. /\ cmds \in Seq(Commands) /\ inbox \in Seq(Replies) /\ xfer \in Seq(Transfers)
      /\ DOMAIN Stages = {"greet", "user", "pass"}
      /\ inbox' = << >> \/ inbox' = inbox
      /\ Range(<< >>) = {}
  BY ClientMoves, StageType, QueueEmpty DEF TypeOK, LineTypes, ServerTypes, Commands, Replies, Transfers
<1>2. (pc \in Preparing => xfer = << >>)'
  <2>1. pc' \in Preparing => pc \in Preparing /\ pc # "send"
    BY NoWayBack, <1>1 DEF Preparing
  <2> QED BY <2>1, ClientPlaces DEF DataLine
<1>3. Unasked'
  <2> SUFFICES ASSUME sock' = "null"
               PROVE  Unasked'
    BY DEF Unasked
  <2>1. ~Connect
    BY DEF Connect
  <2>2. ~Under(cmds, "STOR") /\ ~Waiting(150)
    BY ClientPlaces, <1>1 DEF DataLine, Unasked, AtSend, Under
  <2>3. ~Under(cmds', "STOR")
    BY <2>1, <2>2, StorSent DEF Under
  <2>4. ~Waiting(150)'
    BY <1>1, <2>2 DEF Waiting
  <2>5. xfer' # << >> => ~Waiting(227)'
    <3>1. CASE sock = "null"
      <4>1. pc # "send"
        BY <3>1 DEF Calls
      <4>2. xfer' = xfer
        BY <4>1, ClientPlaces
      <4> QED BY <1>1, <3>1, <4>2 DEF DataLine, Unasked, Waiting
    <3>2. CASE pc = "send"
      BY <1>1, <3>2 DEF DataLine, AtSend, Waiting
    <3> QED BY <3>1, <3>2, ClientPlaces
  <2> QED BY <2>3, <2>4, <2>5 DEF Unasked
<1>4. OwnStor'
  <2>1. SUFFICES ASSUME NEW c \in Range(cmds'), c.verb = "STOR"
                 PROVE  c.arg = Job'.name
    BY DEF OwnStor
  <2>2. CASE UNCHANGED k
    <3>1. Job' = Job
      BY <2>2 DEF Job
    <3> QED BY <2>1, <3>1, StorSent DEF DataLine, OwnStor
  <2>3. CASE ~UNCHANGED k
    <3>1. sock = "null" /\ UNCHANGED cmds
      BY <2>3, ClientPlaces
    <3> QED BY <2>1, <3>1 DEF DataLine, Unasked, Under
  <2> QED BY <2>2, <2>3
<1>5. AtStor'
  <2> SUFFICES ASSUME pc' = "storpoll", ~closed'
               PROVE  AtStor'
    BY DEF AtStor
  <2>1. /\ Connect /\ pc = "pasvpoll" /\ Answered /\ Code = 227 /\ sock = "null" /\ conn' = port
        /\ Send("STOR", Job.name) /\ UNCHANGED <<xfer, port, closed>>
    BY ClientPlaces DEF Connect, server
  <2>2. xfer = << >> /\ inbox' = << >>
    <3>1. Head(inbox) \in Range(inbox)
      BY <1>1, <2>1, InQueue DEF Answered
    <3>2. Waiting(227)
      BY <2>1, <3>1 DEF Waiting, Code
    <3> QED BY <2>1, <3>2 DEF DataLine, Unasked, Answered
  <2>3. ~Waiting(150)'
    BY <1>1, <2>2 DEF Waiting
  <2> DEFINE d == [verb |-> "STOR", arg |-> Job.name]
  <2>4. cmds' = Append(cmds, d)
    BY <2>1 DEF Send
  <2>5. d \in Commands /\ d.verb = "STOR"
    <3>1. Job.name \in Seq(Names)
      BY <2>1, JobName DEF Walks
    <3> QED BY <3>1 DEF Commands, Verbs
  <2> HIDE DEF d
  <2>6. cmds' # << >> /\ cmds'[Len(cmds')].verb = "STOR" /\ Len(cmds') - 1 = Len(cmds)
        /\ \A i \in 1 .. Len(cmds) : cmds'[i] = cmds[i]
    <3>1. Len(cmds) \in Nat
      BY <1>1
    <3> QED BY <1>1, <2>4, <2>5, <3>1, QueueAppend
  <2>7. \A i \in 1 .. Len(cmds) : cmds[i].verb # "STOR"
    BY <1>1, <2>1, InQueue DEF DataLine, Unasked, Under
  <2> QED BY <2>1, <2>2, <2>3, <2>6, <2>7 DEF AtStor
<1>6. AtSend'
  <2> SUFFICES ASSUME pc' = "send"
               PROVE  AtSend'
    BY DEF AtSend
  <2>1. StorPoll /\ pc = "storpoll" /\ Answered /\ Code = 150 /\ UNCHANGED <<k, conn, cmds, xfer, port>>
    BY ClientPlaces DEF StorPoll, server
  <2>2. Head(inbox) \in Range(inbox) /\ inbox' = << >> /\ ~closed
    BY <1>1, <2>1, InQueue DEF Answered
  <2>3. Waiting(150)
    BY <2>1, <2>2 DEF Waiting, Code
  <2>4. cmds = << >> /\ conn = port /\ \A i \in DOMAIN xfer : xfer[i].path = Path(Job)
    BY <2>1, <2>2, <2>3 DEF DataLine, AtStor
  <2>5. ~Waiting(150)' /\ ~Waiting(227)'
    BY <1>1, <2>2 DEF Waiting
  <2> QED BY <2>1, <2>4, <2>5 DEF AtSend, Path, Job
<1> QED BY <1>2, <1>3, <1>4, <1>5, <1>6 DEF DataLine

\* The server reads the STOR, or a command before it.
LEMMA ServerAtStor ==
  ASSUME TypeOK, Calls, Place, DataLine, pc = "storpoll", ~closed',
         NEW v \in Verbs, NEW c \in Nat, Serving(v, c)
  PROVE  AtStor'
<1> DEFINE r == [code |-> c, port |-> port']
<1>1. /\ cmds \in Seq(Commands) /\ inbox \in Seq(Replies) /\ port \in Nat /\ Handle(v) /\ Reply(c)
      /\ port' \in Nat
  BY DEF TypeOK, LineTypes, ServerTypes, Commands, Replies, Serving
<1>2. /\ cmds # << >> /\ Head(cmds).verb = v /\ cmds' = Tail(cmds) /\ ~closed
      /\ inbox' # << >> /\ Range(inbox') = Range(inbox) \cup {r} /\ r.code = c
      /\ Head(inbox') = IF inbox = << >> THEN r ELSE Head(inbox)
      /\ xfer = << >> /\ UNCHANGED client /\ Head(cmds) \in Range(cmds)
  BY <1>1, Handled
<1> HIDE DEF r
<1>3. /\ cmds[Len(cmds)].verb = "STOR" /\ \A i \in 1 .. Len(cmds) - 1 : cmds[i].verb # "STOR"
      /\ ~Waiting(150) /\ (~Waiting(227) => conn = port)
  BY <1>2 DEF DataLine, AtStor
<1>4. Len(cmds) \in Nat \ {0} /\ Head(cmds) = cmds[1] /\ Len(cmds') = Len(cmds) - 1
      /\ \A i \in 1 .. Len(cmds) - 1 : cmds'[i] = cmds[i + 1]
  BY <1>1, <1>2, InQueue, QueueTail
<1>5. UNCHANGED <<pc, k, conn>> /\ Job' = Job /\ Path(Job)' = Path(Job)
  BY <1>2 DEF client, Job, Path
<1>6. CASE Len(cmds) = 1
  <2>1. v = "STOR" /\ cmds' = << >> /\ port' = port
    BY <1>1, <1>2, <1>3, <1>4, <1>6 DEF Serving
  <2>2. Code' = 150 => conn = port
    <3>1. inbox # << >> => Head(inbox).code # 150
      BY <1>1, <1>3, InQueue DEF Waiting
    <3>2. inbox = << >> => ~Waiting(227)
      BY QueueEmpty DEF Waiting
    <3> QED BY <1>2, <1>3, <3>1, <3>2 DEF Code
  <2>3. \A i \in DOMAIN xfer' : xfer'[i].path = Path(Job)
    <3>1. Arg = Job.name
      BY <1>2, <2>1 DEF DataLine, OwnStor, Arg
    <3>2. cwd = Backup
      BY StageType DEF Place, Begun, Calls, Preparing, Walks
    <3>3. xfer' = << >> \/ xfer' = <<[path |-> cwd \o Arg, data |-> IF conn = port THEN "open" ELSE "part"]>>
      BY <2>1 DEF Serving
    <3> QED BY <3>1, <3>2, <3>3 DEF Path
  <2> QED BY <1>2, <1>5, <2>1, <2>2, <2>3 DEF AtStor
<1>7. CASE Len(cmds) > 1
  <2>1. v # "STOR" /\ c # 150 /\ xfer' = << >>
    <3>1. v # "STOR"
      BY <1>2, <1>3, <1>4, <1>7
    <3> QED BY <3>1 DEF Serving
  <2>2. cmds' # << >> /\ cmds'[Len(cmds')].verb = "STOR"
        /\ \A i \in 1 .. Len(cmds') - 1 : cmds'[i].verb # "STOR"
    <3>1. cmds' # << >>
      BY <1>4, <1>7, QueueEmpty
    <3>2. Len(cmds') \in 1 .. Len(cmds) - 1 /\ Len(cmds') + 1 = Len(cmds)
      BY <1>4, <1>7
    <3>3. cmds'[Len(cmds')] = cmds[Len(cmds)]
      BY <1>4, <3>2
    <3>4. \A i \in 1 .. Len(cmds') - 1 : cmds'[i] = cmds[i + 1] /\ i + 1 \in 1 .. Len(cmds) - 1
      BY <1>4, <3>2
    <3> QED BY <1>3, <3>1, <3>3, <3>4
  <2>3. ~Waiting(150)'
    BY <1>2, <1>3, <2>1 DEF Waiting
  <2>4. ~Waiting(227)' => conn = port'
    <3>1. c = 227 => Waiting(227)'
      BY <1>2 DEF Waiting
    <3>2. Waiting(227) => Waiting(227)'
      BY <1>2 DEF Waiting
    <3>3. c # 227 => port' = port
      BY DEF Serving
    <3> QED BY <1>3, <3>1, <3>2, <3>3
  <2> QED BY <1>5, <2>1, <2>2, <2>3, <2>4 DEF AtStor
<1> QED BY <1>4, <1>6, <1>7

LEMMA ServerDataLine ==
  ASSUME TypeOK, Calls, Place, DataLine, Serves \/ HangUp
  PROVE  DataLine'
<1>1. UNCHANGED client /\ Job' = Job /\ Path(Job)' = Path(Job) /\ UNCHANGED <<pc, sock, conn, k>>
  BY ServerLine DEF client, Job, Path
<1>2. inbox \in Seq(Replies) /\ Range(<< >>) = {}
  BY QueueEmpty DEF TypeOK, LineTypes, Replies
<1>3. CASE HangUp
  <2>1. cmds' = << >> /\ xfer' = << >> /\ closed' /\ UNCHANGED <<inbox, port>>
    BY <1>3 DEF HangUp
  <2> QED BY <1>1, <1>2, <2>1 DEF DataLine, Unasked, OwnStor, AtStor, AtSend, Under, Waiting
<1>4. CASE EndTransfer
  <2>1. PICK c \in {226, 426} :
          LET r == [code |-> c, port |-> port]
          IN  /\ Range(inbox') = Range(inbox) \cup {r} /\ r.code = c /\ inbox' # << >>
              /\ Head(inbox') = IF inbox = << >> THEN r ELSE Head(inbox)
              /\ xfer # << >> /\ xfer' = << >> /\ UNCHANGED <<cmds, port, closed>>
    BY <1>4, EndMoves
  <2>2. Waiting(150)' <=> Waiting(150)
    BY <2>1 DEF Waiting
  <2>3. Waiting(227)' <=> Waiting(227)
    BY <2>1 DEF Waiting
  <2>4. AtStor'
    BY <1>1, <2>1 DEF DataLine, AtStor, Code
  <2> QED BY <1>1, <2>1, <2>2, <2>3, <2>4 DEF DataLine, Unasked, OwnStor, AtSend, Under
<1>5. ASSUME NEW v \in Verbs, NEW c \in Nat, Serving(v, c)
      PROVE  DataLine'
  <2> DEFINE r == [code |-> c, port |-> port']
  <2>1. Handle(v) /\ Reply(c) /\ port' \in Nat
    BY <1>5 DEF Serving, TypeOK, ServerTypes
  <2>2. /\ cmds # << >> /\ Head(cmds).verb = v /\ Head(cmds) \in Range(cmds)
        /\ Range(cmds') \subseteq Range(cmds)
        /\ Range(inbox') = Range(inbox) \cup {r} /\ r.code = c
    BY <2>1, Handled
  <2> HIDE DEF r
  <2>3. sock = "null" => v # "STOR" /\ c # 150 /\ xfer' = << >>
    <3>1. sock = "null" => v # "STOR"
      BY <2>2 DEF DataLine, Unasked, Under
    <3> QED BY <1>5, <3>1 DEF Serving
  <2>4. pc' \in Preparing => xfer' = << >>
    BY <1>1, <2>3 DEF Calls
  <2>5. Unasked'
    BY <1>1, <2>2, <2>3 DEF DataLine, Unasked, Under, Waiting
  <2>6. OwnStor'
    BY <1>1, <2>2 DEF DataLine, OwnStor
  <2>7. AtStor'
    BY <1>1, <1>5, ServerAtStor DEF AtStor
  <2>8. AtSend'
    BY <1>1, <2>2 DEF DataLine, AtSend
  <2> QED BY <2>4, <2>5, <2>6, <2>7, <2>8 DEF DataLine
<1> QED BY <1>3, <1>4, <1>5, ServerMoves

-----------------------------------------------------------------------------
(* What is taken for done                                                  *)

LEMMA InitLedger == Init => Ledger /\ DoneIsDone
<1>1. Init => pc = "greet" /\ k = 1
  BY DEF Init
<1>2. pc = "greet" => ~Begun
  BY StageType DEF Begun, Preparing
<1> QED BY <1>1, <1>2 DEF Ledger, DoneIsDone

LEMMA SamePath ==
  ASSUME NEW T, NEW a \in Seq(T), NEW b \in Seq(T), NEW c \in Seq(T), a \o b = a \o c
  PROVE  b = c
<1>1. Len(a \o b) = Len(a) + Len(b) /\ Len(a \o c) = Len(a) + Len(c)
  OBVIOUS
<1>2. Len(b) = Len(c) /\ Len(a) \in Nat /\ Len(b) \in Nat
  BY <1>1
<1>3. \A i \in 1 .. Len(b) : b[i] = (a \o b)[Len(a) + i]
  OBVIOUS
<1>4. \A i \in 1 .. Len(c) : c[i] = (a \o c)[Len(a) + i]
  OBVIOUS
<1>5. \A i \in 1 .. Len(b) : b[i] = c[i]
  BY <1>2, <1>3, <1>4
<1> QED BY <1>2, <1>5

\* Two jobs with the same remote path have the same name.
LEMMA PathNames ==
  ASSUME NEW i \in 1 .. Len(Work), NEW j \in 1 .. Len(Work), Path(Work[i]) = Path(Work[j])
  PROVE  Work[i].name = Work[j].name
<1>1. Work[i].name \in Seq(Names) /\ Work[j].name \in Seq(Names) /\ Backup \in Seq(Names)
  BY WorkType, FtpWork, SmallSequences DEF Backup
<1> QED BY <1>1, SamePath DEF Path

LEMMA HistoryMoves ==
  ASSUME TypeOK, Calls, Client
  PROVE  /\ Begun => slowPwd' = slowPwd
         /\ cut => cut'
<1>1. slowPwd' = slowPwd \/ PwdPoll
  BY StageMoves DEF Client, InitDone, InitFails, MakeRoot, MakeRootPoll, ChangeDir, ChangeDirPoll,
     MakeDir, MakeDirPoll, OpenFile, PasvFails, OpenAsserts, Connect, ConnectFails,
     StorPoll, Transfer, ClosePoll, Quit, QuitWait, ghosts
<1>2. PwdPoll => ~Begun
  BY StageType DEF PwdPoll, Begun, Preparing
<1>3. cut => cut'
  BY StageMoves DEF Client, InitDone, InitFails, MakeRoot, MakeRootPoll, ChangeDir, ChangeDirPoll,
     PwdPoll, MakeDir, MakeDirPoll, OpenFile, PasvFails, OpenAsserts, Connect, ConnectFails,
     StorPoll, Transfer, ClosePoll, Quit, QuitWait, ghosts
<1> QED BY <1>1, <1>2, <1>3

\* What ends a job that goes on to the next one.
LEMMA JobEnds ==
  ASSUME TypeOK, Calls, Client, ~UNCHANGED k
  PROVE  /\ k' = k + 1 /\ k \in 1 .. Len(Work) /\ UNCHANGED <<cmds, dirs, stored, xfer, cut>> /\ inbox' = << >>
         /\ \/ pc = "mkdpoll" /\ Job.op = "d" /\ Waiting(257)
            \/ pc = "closepoll" /\ Job.op # "d" /\ sent
<1>1. GoesOn /\ (MakeDirPoll \/ ClosePoll) /\ UNCHANGED cmds
  BY ClientPlaces
<1>2. pc \in {"mkdpoll", "closepoll"} /\ UNCHANGED <<dirs, stored, xfer, cut>>
  BY <1>1 DEF MakeDirPoll, ClosePoll, server, ghosts
<1>3. /\ k' = k + 1 /\ k \in 1 .. Len(Work) /\ inbox \in Seq(Replies) /\ k' # k
      /\ k =< Len(Work) /\ retry =< MaxRetries /\ rc = 0
  BY <1>1, <1>2, WorkType DEF GoesOn, Calls, Walks, TypeOK, ClientTypes, LineTypes, Replies
<1>4. ~AttemptFails
  BY <1>3, FailsMoves DEF Retries
<1>5. inbox' = << >>
  BY <1>2, ClientMoves
<1>6. CASE MakeDirPoll
  <2>1. pc = "mkdpoll" /\ inbox # << >> /\ Code = 257
    BY <1>4, <1>6 DEF MakeDirPoll
  <2>2. Waiting(257)
    BY <1>3, <2>1, InQueue DEF Waiting, Code
  <2> QED BY <1>2, <1>3, <1>5, <1>1, <2>1, <2>2 DEF Calls
<1>7. CASE ClosePoll
  <2>1. pc = "closepoll" /\ sent
    BY <1>4, <1>7 DEF ClosePoll
  <2> QED BY <1>2, <1>3, <1>5, <1>1, <2>1 DEF Calls
<1> QED BY <1>1, <1>6, <1>7

LEMMA ClientLedger ==
  ASSUME TypeOK, Calls, Prelude, Place, DataLine, Ledger, Client
  PROVE  Ledger'
<1>1. /\ UNCHANGED <<dirs, stored>> /\ (inbox' = << >> \/ inbox' = inbox) /\ Range(<< >>) = {}
      /\ cmds \in Seq(Commands) /\ xfer \in Seq(Transfers) /\ Len(xfer) =< 1
  BY ClientMoves, QueueEmpty DEF TypeOK, LineTypes, ServerTypes, Commands, Transfers
<1>2. ASSUME Begun', ~slowPwd'
      PROVE  /\ ~Under(cmds', "PWD")
             /\ \A c \in Range(cmds') : c.verb = "MKD" =>
                  \/ k' =< Len(Work) /\ Job'.op = "d" /\ c.arg = Job'.name
                  \/ Backup \o c.arg \in dirs'
             /\ Waiting(257)' => k' =< Len(Work) /\ Job'.op = "d" /\ Path(Job)' \in dirs'
  <2>1. CASE ~Begun
    <3>1. PwdPoll /\ (inbox # << >> => cmds = << >>)
      BY <1>2, <2>1, WalkBegins
    <3>2. pc = "pwdpoll" /\ inbox # << >> /\ cmds' = cmds
      BY <1>2, <3>1 DEF PwdPoll
    <3>3. Range(cmds') = {} /\ Range(inbox') = {}
      BY <1>1, <3>1, <3>2, ClientMoves
    <3> QED BY <3>3 DEF Under, Waiting
  <2>2. CASE Begun /\ UNCHANGED k
    <3>1. Job' = Job /\ Path(Job)' = Path(Job) /\ ~slowPwd
      BY <1>2, <2>2, HistoryMoves DEF Job, Path
    <3>2. \/ cmds' = cmds
          \/ \E v \in {"PASV", "STOR", "QUIT"} : \E a \in Seq(Names) : Send(v, a)
          \/ pc = "d" /\ Send("MKD", Job.name)
      <4>1. pc \notin Preparing /\ << >> \in Seq(Names)
        BY <2>2 DEF Begun
      <4>2. pc \in {"d", "f", "c", "pasvpoll"} => Job.name \in Seq(Names)
        BY JobName DEF Walks
      <4> QED BY <4>1, <4>2, ClientMoves
    <3>3. ASSUME NEW c \in Range(cmds')
          PROVE  c \in Range(cmds) \/ c.verb \in {"PASV", "STOR", "QUIT"}
                 \/ (pc = "d" /\ c.verb = "MKD" /\ c.arg = Job.name)
      <4>1. CASE cmds' = cmds
        BY <3>3, <4>1
      <4>2. ASSUME NEW v \in {"PASV", "STOR", "QUIT"}, NEW a \in Seq(Names), Send(v, a)
            PROVE  c \in Range(cmds) \/ c.verb = v
        <5> DEFINE d == [verb |-> v, arg |-> a]
        <5>1. v \in Verbs /\ d.verb = v
          BY DEF Verbs
        <5>2. Range(cmds') = Range(cmds) \/ Range(cmds') = Range(cmds) \cup {d}
          BY <4>2, <5>1, SendInRange
        <5> HIDE DEF d
        <5> QED BY <3>3, <5>1, <5>2
      <4>3. CASE pc = "d" /\ Send("MKD", Job.name)
        <5> DEFINE d == [verb |-> "MKD", arg |-> Job.name]
        <5>1. "MKD" \in Verbs /\ d.verb = "MKD" /\ d.arg = Job.name /\ Job.name \in Seq(Names)
          BY <4>3, JobName DEF Verbs, Walks
        <5>2. Range(cmds') = Range(cmds) \/ Range(cmds') = Range(cmds) \cup {d}
          BY <4>3, <5>1, SendInRange
        <5> HIDE DEF d
        <5> QED BY <3>3, <4>3, <5>1, <5>2
      <4> QED BY <3>2, <4>1, <4>2, <4>3
    <3>4. pc = "d" => k =< Len(Work) /\ Job.op = "d"
      BY DEF Calls, Walks
    <3> QED BY <1>1, <2>2, <3>1, <3>3, <3>4 DEF Ledger, Under, Waiting
  <2>3. CASE Begun /\ ~UNCHANGED k
    <3>1. /\ k \in 1 .. Len(Work) /\ UNCHANGED cmds /\ inbox' = << >> /\ ~slowPwd
          /\ \/ Job.op = "d" /\ Waiting(257)
             \/ Job.op # "d"
      BY <1>2, <2>3, JobEnds, HistoryMoves
    <3>2. \A c \in Range(cmds) : c.verb = "MKD" => Backup \o c.arg \in dirs
      BY <2>3, <3>1 DEF Ledger, Path
    <3> QED BY <1>1, <2>3, <3>1, <3>2 DEF Ledger, Under, Waiting
  <2> QED BY <2>1, <2>2, <2>3
<1>3. ASSUME pc' = "closepoll", sent'
      PROVE  cut' \/ Done(k)'
  <2>1. PICK all \in BOOLEAN : Transfer(all)
    BY <1>3, ClientPlaces
  <2>2. /\ pc = "send" /\ all /\ UNCHANGED k /\ (xfer = << >> => cut')
    BY <1>3, <2>1 DEF Transfer
  <2>3. CASE xfer # << >>
    <3>1. Len(xfer) = 1 /\ 1 \in DOMAIN xfer
      <4>1. Len(xfer) \in Nat \ {0}
        BY <1>1, <2>3, InQueue
      <4>2. Len(xfer) =< 1
        BY DEF TypeOK, ServerTypes
      <4>5. Len(xfer) = 1
        BY <4>1, <4>2, NoMoreThanOne
      <4>3. DOMAIN xfer = 1 .. Len(xfer)
        BY <1>1
      <4> QED BY <4>5, <4>3
    <3>2. xfer[1].path = Path(Job)
      BY <2>2, <3>1 DEF DataLine, AtSend
    <3>3. xfer' \in Seq(Transfers) /\ Len(xfer') = 1 /\ xfer'[1] = [path |-> Path(Job), data |-> "whole"]
      <4>1. 1 \in 1 .. Len(xfer)
        BY <3>1
      <4>2. /\ xfer' \in Seq(Transfers) /\ Len(xfer') = Len(xfer)
            /\ xfer'[1] = [path |-> xfer[1].path, data |-> IF all THEN "whole" ELSE "part"]
        BY <2>1, <4>1, TransferMoves
      <4> QED BY <2>2, <3>1, <3>2, <4>2
    <3>4. xfer' = <<[path |-> Path(Job), data |-> "whole"]>>
      BY <3>3
    <3>5. Job.op # "d"
      BY <2>2 DEF Calls
    <3> QED BY <2>2, <3>4, <3>5 DEF Done, Job, Path
  <2> QED BY <2>2, <2>3
<1> QED BY <1>2, <1>3 DEF Ledger

LEMMA ClientDone ==
  ASSUME TypeOK, Calls, DataLine, Ledger, DoneIsDone, Client
  PROVE  DoneIsDone'
<1>1. /\ k \in 1 .. Len(Work) + 1 /\ Len(Work) \in Nat /\ UNCHANGED <<dirs, stored>>
      /\ k' = k \/ (k' = k + 1 /\ ~UNCHANGED k)
  BY ClientMoves, JobEnds, WorkType DEF TypeOK, ClientTypes
<1> SUFFICES ASSUME NEW j \in 1 .. k' - 1
             PROVE  IF Work[j].op = "d" THEN slowPwd' \/ Done(j)' ELSE cut' \/ Overwritten(j)' \/ Done(j)'
  BY DEF DoneIsDone
<1>2. Begun
  <2>1. j \in 1 .. k /\ (k' = k => k # 1)
    BY <1>1
  <2>2. k' # k => pc \in {"mkdpoll", "closepoll"}
    BY JobEnds
  <2>3. pc \in {"mkdpoll", "closepoll"} => rc = 0 /\ pc \notin Preparing
    BY StageType DEF Calls, Walks, Preparing
  <2> QED BY <2>1, <2>2, <2>3 DEF Begun, Calls
<1>3. slowPwd' = slowPwd /\ (cut => cut')
  BY <1>2, HistoryMoves
<1>4. CASE j < k
  <2>1. IF Work[j].op = "d" THEN slowPwd \/ Done(j) ELSE cut \/ Overwritten(j) \/ Done(j)
    BY <1>1, <1>4 DEF DoneIsDone
  <2>2. Overwritten(j) => Overwritten(j)'
    BY <1>1 DEF Overwritten
  <2>3. CASE UNCHANGED xfer
    BY <1>1, <1>3, <2>1, <2>2, <2>3 DEF Done
  <2>4. CASE pc = "send"
    <3>1. k \in j + 1 .. k /\ k =< Len(Work) /\ Job.op # "d" /\ k \in 1 .. Len(Work) /\ j \in 1 .. Len(Work)
      BY <1>1, <1>4, <2>4 DEF Calls, Walks
    <3>2. xfer = <<[path |-> Path(Work[j]), data |-> "whole"]>> => Overwritten(j)
      <4>1. SUFFICES ASSUME xfer = <<[path |-> Path(Work[j]), data |-> "whole"]>>
                     PROVE  Overwritten(j)
        OBVIOUS
      <4>2. xfer[1].path = Path(Work[j]) /\ 1 \in DOMAIN xfer
        BY <4>1
      <4>3. Path(Work[k]) = Path(Work[j])
        BY <2>4, <4>2 DEF DataLine, AtSend, Job
      <4> QED BY <3>1, <4>3, PathNames DEF Overwritten, Job
    <3> QED BY <1>1, <1>3, <2>1, <2>2, <3>2 DEF Done
  <2> QED BY <2>3, <2>4, ClientPlaces
<1>5. CASE j = k
  <2>1. ~UNCHANGED k
    BY <1>1, <1>5
  <2>2. /\ UNCHANGED <<xfer, cut>> /\ k \in 1 .. Len(Work)
        /\ \/ Job.op = "d" /\ Waiting(257)
           \/ pc = "closepoll" /\ Job.op # "d" /\ sent
    BY <2>1, JobEnds
  <2>3. CASE Job.op = "d" /\ Waiting(257)
    BY <1>1, <1>2, <1>3, <1>5, <2>3 DEF Ledger, Done, Job, Path
  <2>4. CASE pc = "closepoll" /\ Job.op # "d" /\ sent
    <3>1. cut \/ Done(k)
      BY <2>4 DEF Ledger
    <3> QED BY <1>1, <1>3, <1>5, <2>2, <2>4, <3>1 DEF Done, Job
  <2> QED BY <2>2, <2>3, <2>4
<1> QED BY <1>1, <1>4, <1>5

\* A transfer that ends, however it does, is one that was stored or one whose
\* failure is remembered.
LEMMA TransferEnds ==
  ASSUME TypeOK, EndTransfer \/ HangUp, NEW p,
         p \in stored \/ xfer = <<[path |-> p, data |-> "whole"]>>
  PROVE  cut' \/ p \in stored'
<1>1. CASE p \in stored
  <2>1. stored \subseteq stored'
    BY DEF EndTransfer, HangUp
  <2> QED BY <1>1, <2>1
<1>2. CASE xfer = <<[path |-> p, data |-> "whole"]>>
  <2>1. xfer[1].path = p /\ xfer[1].data = "whole" /\ xfer # << >>
    BY <1>2
  <2>2. CASE HangUp
    <3>1. cut' = (cut \/ (xfer # << >> /\ xfer[1].data = "whole"))
      BY <2>2 DEF HangUp
    <3>2. cut \/ (xfer # << >> /\ xfer[1].data = "whole")
      BY <2>1
    <3> QED BY <3>1, <3>2, Zenon
  <2>3. CASE EndTransfer
    <3>1. \/ stored' = stored \cup {xfer[1].path}
          \/ cut' = (cut \/ xfer[1].data = "whole")
      BY <2>1, <2>3 DEF EndTransfer
    <3> QED BY <2>1, <3>1, Zenon
  <2> QED BY <2>2, <2>3
<1> QED BY <1>1, <1>2

LEMMA CutLasts ==
  ASSUME TypeOK, EndTransfer \/ HangUp, cut
  PROVE  cut'
<1>1. \/ cut' = cut
      \/ cut' = (cut \/ xfer[1].data = "whole")
      \/ cut' = (cut \/ (xfer # << >> /\ xfer[1].data = "whole"))
  BY DEF EndTransfer, HangUp
<1> QED BY <1>1, Zenon

LEMMA ServerLedger ==
  ASSUME TypeOK, Calls, Place, DataLine, Ledger, Serves \/ HangUp
  PROVE  Ledger'
<1>1. UNCHANGED <<client, slowPwd>> /\ Job' = Job /\ Begun' = Begun /\ UNCHANGED <<pc, sent, k>>
  BY ServerLine DEF client, Job, Begun
<1>2. pc = "closepoll" => sock = "null" /\ Job.op # "d" /\ k =< Len(Work)
  BY DEF Calls, Walks
<1>6. ASSUME EndTransfer \/ HangUp, pc = "closepoll", sent
      PROVE  cut' \/ Done(k)'
  <2>1. cut \/ Done(k)
    BY <1>6 DEF Ledger
  <2>2. Done(k) => cut' \/ Path(Work[k]) \in stored'
    BY <1>2, <1>6, TransferEnds DEF Done, Job
  <2>3. Path(Work[k]) \in stored' => Done(k)'
    BY <1>1, <1>2, <1>6 DEF Done, Job, Path
  <2> QED BY <1>6, <2>1, <2>2, <2>3, CutLasts
<1>3. CASE HangUp
  <2>1. cmds' = << >> /\ UNCHANGED <<inbox, dirs>>
    BY <1>3 DEF HangUp
  <2>2. Waiting(257)' = Waiting(257) /\ Range(cmds') = {}
    BY <2>1, QueueEmpty DEF Waiting
  <2> QED BY <1>1, <1>6, <2>1, <2>2, <1>3 DEF Ledger, Under, Path
<1>4. CASE EndTransfer
  <2>1. PICK c \in {226, 426} :
          LET r == [code |-> c, port |-> port]
          IN  /\ Range(inbox') = Range(inbox) \cup {r} /\ r.code = c
              /\ UNCHANGED <<cmds, dirs>>
    BY <1>4, EndMoves
  <2>2. Waiting(257)' => Waiting(257)
    BY <2>1 DEF Waiting
  <2> QED BY <1>1, <1>4, <1>6, <2>1, <2>2 DEF Ledger, Under, Path
<1>5. ASSUME NEW v \in Verbs, NEW c \in Nat, Serving(v, c)
      PROVE  Ledger'
  <2> DEFINE r == [code |-> c, port |-> port']
  <2>1. Handle(v) /\ Reply(c) /\ port' \in Nat
    BY <1>5 DEF Serving, TypeOK, ServerTypes
  <2>2. /\ cmds # << >> /\ Head(cmds).verb = v /\ Head(cmds) \in Range(cmds)
        /\ Range(cmds') \subseteq Range(cmds)
        /\ Range(inbox') = Range(inbox) \cup {r} /\ r.code = c
        /\ xfer = << >> /\ UNCHANGED cut
    BY <2>1, Handled
  <2> HIDE DEF r
  <2>3. dirs \subseteq dirs'
    <3>1. dirs' = dirs \/ dirs' = dirs \cup {cwd \o Arg}
      BY <1>5 DEF Serving
    <3> QED BY <3>1
  <2>4. ASSUME Begun, ~slowPwd, c = 257
        PROVE  k =< Len(Work) /\ Job.op = "d" /\ Path(Job) \in dirs'
    <3>1. v # "PWD" /\ cwd = Backup
      BY <2>2, <2>4 DEF Ledger, Under, Place
    <3>2. v = "MKD" /\ cwd \o Arg \notin dirs /\ dirs' = dirs \cup {cwd \o Arg}
      BY <1>5, <2>4, <3>1 DEF Serving
    <3>3. k =< Len(Work) /\ Job.op = "d" /\ Arg = Job.name
      BY <2>2, <2>4, <3>1, <3>2 DEF Ledger, Arg
    <3> QED BY <3>1, <3>2, <3>3 DEF Path
  <2>5. Waiting(257)' => Waiting(257) \/ c = 257
    BY <2>2 DEF Waiting
  <2>6. pc = "closepoll" /\ sent => cut' \/ Done(k)'
    <3>1. pc = "closepoll" => v # "STOR"
      BY <1>2, <2>2 DEF DataLine, Unasked, Under
    <3>2. pc = "closepoll" => stored' = stored
      BY <1>5, <3>1 DEF Serving
    <3> QED BY <1>1, <1>2, <2>2, <3>2 DEF Ledger, Done, Path, Job
  <2> QED BY <1>1, <2>2, <2>3, <2>4, <2>5, <2>6 DEF Ledger, Under, Path
<1> QED BY <1>3, <1>4, <1>5, ServerMoves

LEMMA ServerDone ==
  ASSUME TypeOK, Calls, Place, DataLine, DoneIsDone, Serves \/ HangUp
  PROVE  DoneIsDone'
<1>1. UNCHANGED <<k, pc, rc, slowPwd, sock>> /\ k \in 1 .. Len(Work) + 1 /\ Len(Work) \in Nat
  BY ServerLine, WorkType DEF client, TypeOK, ClientTypes
<1> SUFFICES ASSUME NEW j \in 1 .. k - 1
             PROVE  IF Work[j].op = "d" THEN slowPwd' \/ Done(j)' ELSE cut' \/ Overwritten(j)' \/ Done(j)'
  BY <1>1 DEF DoneIsDone
<1>2. j \in 1 .. Len(Work) /\ k # 1 /\ Overwritten(j)' = Overwritten(j)
  BY <1>1 DEF Overwritten
<1>3. cwd = Backup
  BY <1>2 DEF Calls, Begun, Place
<1>4. IF Work[j].op = "d" THEN slowPwd \/ Done(j) ELSE cut \/ Overwritten(j) \/ Done(j)
  BY DEF DoneIsDone
<1>5. CASE EndTransfer \/ HangUp
  <2>1. UNCHANGED dirs /\ (cut => cut')
    BY <1>5, CutLasts DEF EndTransfer, HangUp
  <2>2. Work[j].op # "d" /\ Done(j) => cut' \/ Path(Work[j]) \in stored'
    BY <1>5, TransferEnds DEF Done
  <2> QED BY <1>1, <1>2, <1>4, <2>1, <2>2 DEF Done, Path
<1>6. ASSUME NEW v \in Verbs, NEW c \in Nat, Serving(v, c)
      PROVE  IF Work[j].op = "d" THEN slowPwd' \/ Done(j)' ELSE cut' \/ Overwritten(j)' \/ Done(j)'
  <2>1. Handle(v) /\ Reply(c) /\ port' \in Nat
    BY <1>6, ServerLine DEF Serving, ServerTypes, TypeOK
  <2>2. /\ Head(cmds) \in Range(cmds) /\ Head(cmds).verb = v
        /\ xfer = << >> /\ UNCHANGED cut
    BY <2>1, Handled
  <2>3. CASE Work[j].op = "d"
    <3>1. dirs' = dirs \/ dirs' = dirs \cup {cwd \o Arg}
      BY <1>6 DEF Serving
    <3> QED BY <1>1, <1>4, <2>3, <3>1 DEF Done, Path
  <2>4. CASE Work[j].op # "d" /\ v # "STOR"
    <3>1. stored' = stored
      BY <1>6, <2>4 DEF Serving
    <3> QED BY <1>2, <1>4, <2>2, <2>4, <3>1 DEF Done, Path
  <2>5. CASE Work[j].op # "d" /\ v = "STOR"
    <3>1. Arg = Job.name /\ sock # "null"
      BY <2>2, <2>5 DEF DataLine, OwnStor, Unasked, Under, Arg
    <3>2. k \in 1 .. Len(Work) /\ Job.op # "d"
      BY <1>1, <3>1 DEF Calls
    <3>3. stored' = stored \/ stored' = stored \ {Path(Job)}
      BY <1>3, <1>6, <2>5, <3>1 DEF Serving, Path
    <3>4. Path(Work[j]) = Path(Job) => Overwritten(j)
      BY <1>1, <1>2, <3>2, PathNames DEF Overwritten, Job
    <3> QED BY <1>2, <1>4, <2>2, <2>5, <3>3, <3>4 DEF Done, Path
  <2> QED BY <2>3, <2>4, <2>5
<1> QED BY <1>5, <1>6, ServerMoves

-----------------------------------------------------------------------------
(* The invariant, and what follows from it *)

LEMMA InvInit == Init => IInv
  BY InitTyped, InitPrelude, InitPlace, InitDataLine, InitLedger DEF IInv

LEMMA InvStep == IInv /\ [Next]_vars => IInv'
<1> SUFFICES ASSUME IInv, [Next]_vars
             PROVE  IInv'
  OBVIOUS
<1> USE DEF IInv
<1>1. TypeOK' /\ Calls'
  BY TypesStep
<1>2. CASE Client
  BY <1>1, <1>2, ClientPrelude, ClientPlace, ClientDataLine, ClientLedger, ClientDone
<1>3. CASE Serves \/ HangUp
  <2>1. pc \in Preparing => xfer = << >>
    BY DEF DataLine
  <2> QED BY <1>1, <1>3, <2>1, ServerPrelude, ServerPlace, ServerDataLine, ServerLedger, ServerDone
<1>4. CASE UNCHANGED vars
  <2>1. UNCHANGED <<pc, rc, k, retry, sock, conn, sent>>
    BY <1>4 DEF vars, client
  <2>2. UNCHANGED <<cmds, inbox, closed, cwd, dirs, stored, port, xfer, slow, slowPwd, refused, cut>>
    BY <1>4 DEF vars, server, ghosts
  <2>3. Prelude' /\ Place'
    BY <2>1, <2>2 DEF Prelude, Place, Begun, Code
  <2>4. DataLine'
    BY <2>1, <2>2 DEF DataLine, Unasked, OwnStor, AtStor, AtSend, Under, Waiting, Code, Path, Job
  <2>5. Ledger' /\ DoneIsDone'
    BY <2>1, <2>2 DEF Ledger, DoneIsDone, Begun, Under, Waiting, Path, Job, Done, Overwritten
  <2> QED BY <1>1, <2>3, <2>4, <2>5
<1> QED BY <1>2, <1>3, <1>4 DEF Next, Terminated

\* The inductive invariant: what can be under way between client and server, at
\* every moment, whatever the server does (initRemote, mkDirRemote, chDirRemote,
\* sendDataRemote and closeRemote, MTCPFTP.CPP).
THEOREM FtpInvariant == Spec => []IInv
<1>1. Init => IInv
  BY InvInit
<1>2. IInv /\ [Next]_vars => IInv'
  BY InvStep
<1> QED BY <1>1, <1>2, PTL DEF Spec

\* Whatever the server answers, and whenever, the walk only goes on in the
\* directory of the backup (initRemote, chDirRemote, do_backup).
THEOREM FtpInRightPlace == Spec => []InRightPlace
<1>1. IInv => InRightPlace
  BY StageType DEF IInv, InRightPlace, Walking, Place, Begun, Preparing
<1> QED BY <1>1, FtpInvariant, PTL

\* The data of a file go to the transfer that its own STOR has begun, or to none:
\* never to that of another file or of an earlier attempt (openRemoteFile).
THEOREM FtpSendsToItsOwn == Spec => []SendsToItsOwn
<1>1. IInv => SendsToItsOwn
  BY DEF IInv, SendsToItsOwn, DataLine, AtSend, Calls
<1> QED BY <1>1, FtpInvariant, PTL

\* What the walk has left behind is on the server, in its own place (mkDirRemote,
\* openRemoteFile, send_file, closeRemoteFile).
THEOREM FtpDoneIsDone == Spec => []DoneIsDone
<1>1. IInv => DoneIsDone
  BY DEF IInv
<1> QED BY <1>1, FtpInvariant, PTL

-----------------------------------------------------------------------------
(* Whose turn it is, while the server answers in time *)

LEMMA InitTurnOver == Init => TurnOver
  BY StageType DEF Init, TurnOver, Walks

\* In time, and over a connection that is open, a poll has its answer.
LEMMA InTime ==
  ASSUME TypeOK, Calls, Client, pc' \in Walks, ~slow', ~closed
  PROVE  /\ ~slow
         /\ pc \in {"pwdpoll", "mkdpoll", "pasvpoll", "storpoll", "closepoll"} =>
              inbox # << >> /\ inbox' = << >>
<1> USE DEF Answered, Unanswered, HungUpOn, TimedOut, Quiet, Unexpected
<1>1. CASE InitStage \/ InitDone \/ InitFails \/ MakeRoot \/ MakeRootPoll
           \/ ChangeDir \/ ChangeDirPoll \/ PwdPoll
  <2>1. Answered \/ Unanswered \/ Quiet \/ Unexpected
    BY <1>1, StageMoves DEF InitDone, InitFails, MakeRoot, MakeRootPoll,
       ChangeDir, ChangeDirPoll, PwdPoll
  <2>2. pc \notin {"mkdpoll", "pasvpoll", "storpoll", "closepoll"}
    BY <1>1, StageType DEF InitStage, InitDone, InitFails, MakeRoot, MakeRootPoll,
       ChangeDir, ChangeDirPoll, PwdPoll
  <2>3. pc = "pwdpoll" => Answered \/ Unanswered
    BY <1>1, StageType DEF InitStage, InitDone, InitFails, MakeRoot, MakeRootPoll,
       ChangeDir, ChangeDirPoll, PwdPoll
  <2> QED BY <2>1, <2>2, <2>3
<1>2. CASE MakeDir \/ MakeDirPoll
  BY <1>2 DEF MakeDir, MakeDirPoll
<1>3. CASE OpenFile \/ PasvFails \/ OpenAsserts \/ Connect \/ ConnectFails
  BY <1>3 DEF OpenFile, PasvFails, OpenAsserts, Connect, ConnectFails
<1>4. CASE StorPoll \/ ClosePoll
  BY <1>4 DEF StorPoll, ClosePoll
<1>5. CASE (\E all \in BOOLEAN : Transfer(all)) \/ Quit \/ QuitWait
  BY <1>5 DEF Transfer, Quit, QuitWait
<1> QED BY <1>1, <1>2, <1>3, <1>4, <1>5 DEF Client

\* How the calls of the walk follow each other when nothing is late.
LEMMA TurnMoves ==
  ASSUME TypeOK, Calls, Client, pc \in Walks, pc' \in Walks
  PROVE  \/ pc \in {"d", "f", "c"} /\ inbox # << >>
         \/ /\ pc = "d" /\ pc' = "mkdpoll" /\ UNCHANGED xfer
            /\ Send("MKD", Job.name)
         \/ /\ pc \in {"f", "c"} /\ pc' = "pasvpoll" /\ UNCHANGED xfer
            /\ Send("PASV", << >>)
         \/ /\ pc = "pasvpoll" /\ pc' = "storpoll" /\ UNCHANGED xfer
            /\ Send("STOR", Job.name)
         \/ /\ pc = "storpoll" /\ pc' = "send" /\ UNCHANGED <<xfer, cmds>> /\ Code = 150
         \/ /\ pc = "storpoll" /\ pc' \in {"d", "f", "c"} /\ UNCHANGED <<xfer, cmds>>
            /\ Answered => Code # 150
         \/ /\ pc \in {"mkdpoll", "pasvpoll", "closepoll"} /\ pc' \in {"d", "f", "c"}
            /\ UNCHANGED <<xfer, cmds>>
         \/ /\ pc = "send" /\ pc' = "closepoll" /\ UNCHANGED <<cmds, inbox>>
            /\ xfer = << >> => xfer' = << >>
<1>1. /\ k \in 1 .. Len(Work) /\ Len(Work) \in Nat /\ rc = 0 /\ retry =< MaxRetries
  BY WorkType DEF TypeOK, ClientTypes, Calls
<1>2. Retries \/ GoesOn => pc' \in {"d", "f", "c"}
  BY <1>1, WorkType DEF Retries, GoesOn, Walks
<1>3. AttemptFails \/ AttemptSucceeds => pc' \in {"d", "f", "c"}
  BY <1>1, <1>2, FailsMoves, SucceedsMoves
<1>4. CASE MakeDir \/ MakeDirPoll
  BY <1>3, <1>4 DEF MakeDir, MakeDirPoll, Unexpected, server
<1>5. CASE OpenFile \/ PasvFails \/ OpenAsserts
  BY <1>3, <1>5 DEF OpenFile, PasvFails, OpenAsserts, Unexpected, server, Walks
<1>6. CASE Connect \/ ConnectFails
  BY <1>3, <1>6 DEF Connect, ConnectFails, server
<1>7. CASE StorPoll
  BY <1>3, <1>7 DEF StorPoll, server, Answered, Unanswered, HungUpOn, TimedOut
<1>8. CASE ClosePoll
  BY <1>3, <1>8 DEF ClosePoll, server
<1>9. ASSUME NEW all \in BOOLEAN, Transfer(all)
      PROVE  /\ pc = "send" /\ pc' = "closepoll" /\ UNCHANGED <<cmds, inbox>>
             /\ xfer = << >> => xfer' = << >>
  BY <1>9, TransferMoves DEF Transfer
<1>10. CASE Quit \/ QuitWait
  BY <1>10 DEF Quit, QuitWait, Walks
<1>11. ~(\/ InitStage \/ InitDone \/ InitFails \/ MakeRoot \/ MakeRootPoll
        \/ ChangeDir \/ ChangeDirPoll \/ PwdPoll)
  BY StageType DEF Walks, InitStage, InitDone, InitFails, MakeRoot, MakeRootPoll, ChangeDir,
     ChangeDirPoll, PwdPoll
<1> QED BY <1>4, <1>5, <1>6, <1>7, <1>8, <1>9, <1>10, <1>11 DEF Client

\* A walk that goes on has been going on.
LEMMA ClientStays ==
  ASSUME TypeOK, Calls, Client, pc \notin Preparing, pc' \in Walks
  PROVE  pc \in Walks
<1>1. pc \in Walks \cup {"quit", "quitwait", "exit", "aborted"}
  BY DEF TypeOK, ClientTypes, Preparing, Walks
<1>2. pc \in {"quit", "quitwait", "exit", "aborted"} => Quit \/ QuitWait
  BY StageType DEF Client, InitStage, InitDone, InitFails, MakeRoot, MakeRootPoll, ChangeDir,
     ChangeDirPoll, PwdPoll, MakeDir, MakeDirPoll, OpenFile, PasvFails, OpenAsserts, Connect,
     ConnectFails, StorPoll, Transfer, ClosePoll
<1>3. Quit \/ QuitWait => pc' \in {"quitwait", "exit"}
  BY DEF Quit, QuitWait
<1> QED BY <1>1, <1>2, <1>3 DEF Walks

LEMMA StorAnswered ==
  ASSUME Client, pc = "storpoll", ~closed, inbox # << >>
  PROVE  Answered
  BY StageType DEF Client, InitStage, InitDone, InitFails, MakeRoot, MakeRootPoll, ChangeDir,
     ChangeDirPoll, PwdPoll, MakeDir, MakeDirPoll, OpenFile, PasvFails, OpenAsserts, Connect,
     ConnectFails, StorPoll, Transfer, ClosePoll, Quit, QuitWait, Answered, Unanswered,
     HungUpOn, TimedOut

LEMMA ClientTurnOver ==
  ASSUME IInv, TurnOver, Client
  PROVE  TurnOver'
<1> SUFFICES ASSUME rc' = 0, pc' \in Walks, ~slow', ~closed'
             PROVE  TurnOver'
  BY DEF TurnOver
<1>1. /\ TypeOK /\ Calls /\ Prelude /\ DataLine /\ ~closed /\ ~slow /\ Calls'
      /\ cmds \in Seq(Commands) /\ inbox \in Seq(Replies)
      /\ pc \notin {"send", "quit", "quitwait"} => inbox' = << >>
  BY ClientMoves, ClientTyped, InTime DEF IInv, TypeOK, LineTypes, Commands, Replies
<1>2. pc' \notin Preparing /\ Begun'
  BY StageType DEF Walks, Preparing, Begun
<1>3. CASE ~Begun
  <2>1. PwdPoll /\ pc = "pwdpoll" /\ cmds' = cmds /\ xfer' = xfer
    BY <1>1, <1>2, <1>3, WalkBegins DEF PwdPoll, server
  <2>2. inbox # << >> /\ inbox' = << >>
    BY <1>1, <2>1, InTime
  <2>3. cmds = << >> /\ xfer = << >>
    BY <1>1, <1>2, <1>3, <2>1, <2>2, WalkBegins DEF DataLine, Preparing
  <2>4. pc' \in {"d", "f", "c"}
    <3>1. pc' = Job.op /\ k = 1
      BY <1>1, <2>1 DEF PwdPoll, Walk, Calls, Preparing
    <3> QED BY <3>1, WorkType DEF Job
  <2> QED BY <2>1, <2>2, <2>3, <2>4 DEF TurnOver
<1>4. CASE Begun
  <2>1. pc \in Walks /\ rc = 0
    <3>1. pc \in Walks
      BY <1>1, <1>4, ClientStays DEF Begun
    <3> QED BY <1>1, <3>1 DEF Calls
  <2>2. CASE pc' \in {"mkdpoll", "pasvpoll", "storpoll"}
    <3>1. /\ cmds = << >> /\ xfer = << >> /\ inbox' = << >> /\ xfer' = << >>
          /\ \/ pc' = "mkdpoll" /\ Send("MKD", Job.name)
             \/ pc' = "pasvpoll" /\ Send("PASV", << >>)
             \/ pc' = "storpoll" /\ Send("STOR", Job.name)
      BY <1>1, <2>1, <2>2, TurnMoves, InTime DEF TurnOver
    <3>2. ASSUME NEW v \in {"MKD", "PASV", "STOR"}, NEW a \in Seq(Names), Send(v, a)
          PROVE  Len(cmds') = 1 /\ \A c \in Range(cmds') : c.verb = v
      <4> DEFINE d == [verb |-> v, arg |-> a]
      <4>1. cmds' = Append(cmds, d) /\ d \in Commands /\ d.verb = v
        BY <1>1, <3>2 DEF Send, Commands, Verbs
      <4> HIDE DEF d
      <4>2. Len(cmds') = Len(cmds) + 1 /\ Range(cmds') = Range(cmds) \cup {d}
        BY <1>1, <4>1, QueueAppend
      <4>3. Len(cmds) = 0 /\ Range(cmds) = {}
        BY <3>1, QueueEmpty
      <4> QED BY <4>1, <4>2, <4>3
    <3>3. Job.name \in Seq(Names) /\ << >> \in Seq(Names)
      BY <1>1, <2>1, JobName
    <3> QED BY <2>2, <3>1, <3>2, <3>3 DEF TurnOver
  <2>3. CASE pc' \in {"d", "f", "c"}
    <3>1. cmds' = << >> /\ inbox' = << >> /\ xfer' = << >>
      <4>1. pc \in {"mkdpoll", "pasvpoll", "storpoll", "closepoll"} => inbox # << >> /\ inbox' = << >>
        BY <1>1, InTime
      <4>2. pc = "storpoll" /\ Code # 150 => xfer = << >>
        BY <1>1, <2>1, <4>1 DEF TurnOver
      <4>3. pc = "storpoll" => Answered
        BY <1>1, <2>1, <4>1, StorAnswered
      <4> QED BY <1>1, <2>1, <2>3, <4>1, <4>2, <4>3, TurnMoves DEF TurnOver
    <3> QED BY <2>3, <3>1 DEF TurnOver
  <2>4. CASE pc' \in {"send", "closepoll"}
    <3>1. pc = "storpoll" => inbox # << >> /\ inbox' = << >>
      BY <1>1, InTime
    <3> QED BY <1>1, <2>1, <2>4, <3>1, TurnMoves DEF TurnOver
  <2> QED BY <2>2, <2>3, <2>4 DEF Walks
<1> QED BY <1>3, <1>4

LEMMA ServerTurnOver ==
  ASSUME IInv, TurnOver, Serves \/ HangUp
  PROVE  TurnOver'
<1> SUFFICES ASSUME rc' = 0, pc' \in Walks, ~slow', ~closed'
             PROVE  TurnOver'
  BY DEF TurnOver
<1>1. /\ TypeOK /\ Calls /\ UNCHANGED <<pc, rc, slow>>
      /\ cmds \in Seq(Commands) /\ inbox \in Seq(Replies)
  BY ServerLine DEF IInv, TypeOK, LineTypes, Commands, Replies, client
<1>2. CASE EndTransfer
  <2>1. PICK c \in {226, 426} :
          /\ inbox' # << >> /\ ~closed /\ xfer # << >> /\ xfer' = << >> /\ UNCHANGED cmds
    BY <1>1, <1>2, EndMoves
  <2> QED BY <1>1, <2>1 DEF TurnOver, Walks
<1>3. ASSUME NEW v \in Verbs, NEW c \in Nat, Serving(v, c)
      PROVE  TurnOver'
  <2> DEFINE r == [code |-> c, port |-> port']
  <2>1. Handle(v) /\ Reply(c) /\ port' \in Nat
    BY <1>1, <1>3 DEF Serving, TypeOK, ServerTypes
  <2>2. /\ cmds # << >> /\ Head(cmds).verb = v /\ Head(cmds) \in Range(cmds)
        /\ cmds' = Tail(cmds) /\ inbox' = Append(inbox, r) /\ inbox' # << >>
        /\ r \in Replies /\ r.code = c
        /\ Head(inbox') = IF inbox = << >> THEN r ELSE Head(inbox)
        /\ ~closed /\ xfer = << >>
    BY <1>1, <2>1, Handled DEF Replies
  <2> HIDE DEF r
  <2>3. xfer' # << >> => c = 150 /\ v = "STOR"
    BY <1>3 DEF Serving
  <2>4. Len(cmds) = 1 => cmds' = << >> /\ Len(cmds') = 0
    BY <1>1, <2>2
  <2>5. pc \in {"mkdpoll", "pasvpoll", "storpoll"}
    BY <1>1, <2>2 DEF TurnOver, Walks
  <2>6. CASE pc \in {"mkdpoll", "pasvpoll"}
    <3>1. Len(cmds) = 1 /\ v # "STOR"
      BY <1>1, <2>2, <2>6 DEF TurnOver, Walks
    <3> QED BY <1>1, <2>3, <2>4, <2>6, <3>1, QueueEmpty DEF TurnOver
  <2>7. CASE pc = "storpoll"
    <3>1. Len(cmds) = 1 /\ inbox = << >>
      BY <1>1, <2>2, <2>7 DEF TurnOver, Walks
    <3>2. Len(inbox') = 1 /\ Code' = c
      BY <1>1, <2>2, <3>1, QueueAppend, QueueEmpty DEF Code
    <3> QED BY <1>1, <2>2, <2>3, <2>4, <2>7, <3>1, <3>2 DEF TurnOver
  <2> QED BY <2>5, <2>6, <2>7
<1>4. CASE HangUp
  BY <1>4 DEF HangUp
<1> QED BY <1>1, <1>2, <1>3, <1>4, ServerMoves

LEMMA TurnOverStep == IInv /\ TurnOver /\ [Next]_vars => TurnOver'
<1> SUFFICES ASSUME IInv, TurnOver, [Next]_vars
             PROVE  TurnOver'
  OBVIOUS
<1>1. CASE UNCHANGED vars
  BY <1>1 DEF TurnOver, vars, client, server, Code
<1> QED BY <1>1, ClientTurnOver, ServerTurnOver DEF Next, Terminated

\* As long as no poll has timed out nothing of one call is left over when the next
\* begins; this takes the dummy read of closeRemoteFile.
THEOREM FtpInStep == Spec => []InStep
<1>1. Init => TurnOver
  BY InitTurnOver
<1>2. IInv /\ TurnOver /\ [Next]_vars => TurnOver'
  BY TurnOverStep
<1>3. IInv /\ TurnOver => InStep
  <2> SUFFICES ASSUME IInv, TurnOver, rc = 0, pc \in {"mkroot", "chdir", "d", "f", "c"}, ~slow, ~closed
               PROVE  cmds = << >> /\ inbox = << >> /\ xfer = << >>
    BY DEF InStep
  <2>1. CASE pc \in {"mkroot", "chdir"}
    BY <2>1 DEF IInv, Prelude, DataLine, Preparing
  <2>2. CASE pc \in {"d", "f", "c"}
    BY <2>2 DEF TurnOver, Walks
  <2> QED BY <2>1, <2>2
<1> QED BY <1>1, <1>2, <1>3, FtpInvariant, PTL DEF Spec

-----------------------------------------------------------------------------
(* A server in good health *)
Polls == {"greet", "user", "pass", "cwdroot", "mkrootpoll", "chdirpoll", "pwdpoll",
          "mkdpoll", "pasvpoll", "storpoll", "closepoll"}

\* The command that may be under way, and its answer.
Ordered(c) ==
  \/ pc = "greet" /\ c.verb = "connect"
  \/ pc = "user" /\ c.verb = "USER"
  \/ pc = "pass" /\ c.verb = "PASS"
  \/ pc \in {"cwdroot", "chdirpoll"} /\ c.verb = "CWD"
  \/ pc = "mkrootpoll" /\ c.verb = "MKD"
  \/ pc = "pwdpoll" /\ c.verb = "PWD"
  \/ pc = "mkdpoll" /\ c.verb = "MKD" /\ c.arg = Job.name
  \/ pc = "pasvpoll" /\ c.verb = "PASV"
  \/ pc = "storpoll" /\ c.verb = "STOR"
  \/ pc = "quitwait" /\ c.verb = "QUIT"

Wanted(r) ==
  \/ pc = "greet" /\ r.code = 220
  \/ pc = "user" /\ r.code = 331
  \/ pc = "pass" /\ r.code = 230
  \/ pc \in {"cwdroot", "chdirpoll"} /\ r.code = 250
  \/ pc = "mkrootpoll" /\ r.code \in {257, 550}
  \/ pc = "pwdpoll" /\ r.code = 257
  \/ pc = "mkdpoll" /\ r.code = 257
  \/ pc = "pasvpoll" /\ r.code = 227 /\ r.port = port
  \/ pc = "storpoll" /\ r.code = 150 /\ xfer # << >>
  \/ pc = "closepoll" /\ xfer = << >>
  \/ pc \in {"quitwait", "exit"}

\* Where the client and its variables are.
Smooth ==
  /\ rc = 0 /\ retry = 0 /\ pc # "aborted" /\ ~slowPwd /\ ~cut
  /\ sock # "null" => pc \in {"storpoll", "send"}
  /\ pc = "send" => xfer # << >>
  /\ pc = "closepoll" => sent
  /\ pc \in {"quit", "quitwait", "exit"} => k = Len(Work) + 1
  /\ closed => pc \in {"quitwait", "exit"} /\ cmds = << >> /\ xfer = << >>
  /\ pc = "exit" => closed

\* One command, one answer, or one transfer.
OneThing ==
  /\ cmds = << >> \/ (Len(cmds) = 1 /\ inbox = << >> /\ xfer = << >> /\ Ordered(Head(cmds)))
  /\ inbox = << >> \/ (Len(inbox) = 1 /\ cmds = << >> /\ Wanted(Head(inbox)))
  /\ xfer = << >> \/ (/\ Len(xfer) = 1 /\ cmds = << >>
                      /\ \/ pc \in {"storpoll", "send"} /\ xfer[1].data = "open"
                         \/ pc = "closepoll" /\ xfer[1].data = "whole" /\ inbox = << >>)

\* The directories still to be made do not exist.
Unmade ==
  \A j \in k .. Len(Work) :
    Work[j].op = "d" /\ Path(Work[j]) \in dirs => j = k /\ pc = "mkdpoll" /\ cmds = << >>

\* What was done is there, but for a file that is being replaced.
Kept ==
  \A j \in 1 .. k - 1 :
    Done(j) \/ (k =< Len(Work) /\ Job.op # "d" /\ Work[j].op # "d" /\ Work[j].name = Job.name)

Health  == Smooth /\ OneThing /\ Unmade /\ Kept
Healthy == ~slow /\ ~refused => Health

-----------------------------------------------------------------------------
(* The server *)

\* The answers of a server that refuses nothing.
Honest(v, c) ==
  /\ v = "connect" => c = 220
  /\ v = "USER" => c = 331
  /\ v = "PASS" => c = 230
  /\ v = "PWD" => c = 257
  /\ v = "CWD" => c = 250
  /\ v = "MKD" => c = 257 \/ (c = 550 /\ cwd \o Arg \in dirs)
  /\ v = "PASV" => c = 227
  /\ v = "STOR" => c = 150

LEMMA HonestMoves ==
  ASSUME TypeOK, Serves, ~refused'
  PROVE  \/ EndTransfer
         \/ \E v \in Verbs : \E c \in Nat : Serving(v, c) /\ Honest(v, c)
<1>1. CASE ServeTalk
  <2>1. PICK v \in DOMAIN Says : \E c \in Says[v] :
               Handle(v) /\ c < 400 /\ UNCHANGED <<server, closed>> /\ Reply(c)
    BY <1>1 DEF ServeTalk, Refuse
  <2>2. PICK c \in Says[v] : Handle(v) /\ c < 400 /\ UNCHANGED <<server, closed>> /\ Reply(c)
    BY <2>1
  <2>3. v \in {"connect", "USER", "PASS", "PWD"}
    BY <2>1 DEF Says
  <2>4. /\ Says["connect"] = {220, 421} /\ Says["USER"] = {331, 530}
        /\ Says["PASS"] = {230, 530} /\ Says["PWD"] = {257, 501}
    BY DEF Says
  <2>5. Honest(v, c)
    BY <2>2, <2>3, <2>4 DEF Honest
  <2>6. v \in Verbs /\ c \in Nat /\ xfer = << >> /\ c \notin {150, 227} /\ (c = 257 => v = "PWD")
    BY <2>2, <2>3, <2>4 DEF Verbs, Handle
  <2>7. Serving(v, c)
    BY <2>2, <2>3, <2>6 DEF server, Serving
  <2> QED BY <2>5, <2>6, <2>7
<1>2. CASE ServeCwd
  <2>1. Handle("CWD") /\ xfer = << >> /\ "CWD" \in Verbs
    BY <1>2 DEF ServeCwd, Handle, Verbs
  <2>2. Serving("CWD", 250)
    BY <1>2, <2>1 DEF ServeCwd, server, Serving, Refuse
  <2> QED BY <2>1, <2>2 DEF Honest
<1>3. CASE ServeMkd
  <2>1. Handle("MKD") /\ xfer = << >> /\ "MKD" \in Verbs
    BY <1>3 DEF ServeMkd, Handle, Verbs
  <2>2. Serving("MKD", 257) \/ (Serving("MKD", 550) /\ cwd \o Arg \in dirs)
    BY <1>3, <2>1 DEF ServeMkd, server, Serving, Refuse
  <2> QED BY <2>1, <2>2 DEF Honest
<1>4. CASE ServePasv
  <2>1. Handle("PASV") /\ xfer = << >> /\ "PASV" \in Verbs
    BY <1>4 DEF ServePasv, Handle, Verbs
  <2>2. port' = port + 1 /\ UNCHANGED <<cwd, dirs, stored, xfer, closed>> /\ Reply(227)
    BY <1>4 DEF ServePasv, Refuse
  <2>3. Serving("PASV", 227)
    BY <2>1, <2>2 DEF Serving
  <2> QED BY <2>1, <2>3 DEF Honest
<1>5. CASE ServeStor
  <2>1. Handle("STOR") /\ xfer = << >> /\ "STOR" \in Verbs
    BY <1>5 DEF ServeStor, Handle, Verbs
  <2>2. /\ xfer' = <<[path |-> cwd \o Arg, data |-> IF conn = port THEN "open" ELSE "part"]>>
        /\ stored' = stored \ {cwd \o Arg}
        /\ UNCHANGED <<cwd, dirs, port, closed>> /\ Reply(150)
    BY <1>5 DEF ServeStor, Refuse
  <2>3. Serving("STOR", 150)
    BY <2>1, <2>2 DEF Serving
  <2> QED BY <2>1, <2>3 DEF Honest
<1>6. CASE ServeQuit
  <2>1. Handle("QUIT") /\ xfer = << >> /\ "QUIT" \in Verbs
    BY <1>6 DEF ServeQuit, Handle, Verbs
  <2>2. Serving("QUIT", 221)
    BY <1>6, <2>1 DEF ServeQuit, server, Serving
  <2> QED BY <2>1, <2>2 DEF Honest
<1> QED BY <1>1, <1>2, <1>3, <1>4, <1>5, <1>6 DEF Serves

\* What was refused stays refused, and what was late stays late.
LEMMA HealthIsLost ==
  ASSUME TypeOK, Client \/ Serves \/ HangUp
  PROVE  (slow => slow') /\ (refused => refused')
<1>1. ASSUME Serves \/ HangUp PROVE (slow => slow') /\ (refused => refused')
  BY <1>1 DEF Serves, HangUp, ServeTalk, ServeCwd, ServeMkd, ServePasv, ServeStor, EndTransfer,
     ServeQuit, Handle, Accept, Refuse
<1>2. ASSUME Client PROVE slow => slow'
  <2> USE DEF Answered, Unanswered, HungUpOn, TimedOut, Quiet, Unexpected
  <2>1. CASE InitStage \/ InitDone \/ InitFails \/ MakeRoot \/ MakeRootPoll
             \/ ChangeDir \/ ChangeDirPoll \/ PwdPoll
    BY <2>1 DEF InitStage, InitDone, InitFails, MakeRoot, MakeRootPoll, ChangeDir,
       ChangeDirPoll, PwdPoll
  <2>2. CASE MakeDir \/ MakeDirPoll \/ OpenFile \/ PasvFails \/ OpenAsserts \/ Connect
             \/ ConnectFails
    BY <2>2 DEF MakeDir, MakeDirPoll, OpenFile, PasvFails, OpenAsserts, Connect, ConnectFails
  <2>3. CASE StorPoll \/ (\E all \in BOOLEAN : Transfer(all)) \/ ClosePoll \/ Quit \/ QuitWait
    BY <2>3 DEF StorPoll, Transfer, ClosePoll, Quit, QuitWait
  <2> QED BY <1>2, <2>1, <2>2, <2>3 DEF Client
<1>3. ASSUME Client PROVE refused => refused'
  <2> USE DEF ghosts
  <2>1. CASE InitStage \/ InitDone \/ InitFails \/ MakeRoot \/ MakeRootPoll
             \/ ChangeDir \/ ChangeDirPoll \/ PwdPoll
    BY <2>1 DEF InitStage, InitDone, InitFails, MakeRoot, MakeRootPoll, ChangeDir,
       ChangeDirPoll, PwdPoll
  <2>2. CASE MakeDir \/ MakeDirPoll \/ OpenFile \/ PasvFails \/ OpenAsserts \/ Connect
    BY <2>2 DEF MakeDir, MakeDirPoll, OpenFile, PasvFails, OpenAsserts, Connect
  <2>3. CASE StorPoll \/ ClosePoll \/ Quit \/ QuitWait
    BY <2>3 DEF StorPoll, ClosePoll, Quit, QuitWait
  <2>4. CASE ConnectFails \/ (\E all \in BOOLEAN : Transfer(all))
    <3>1. \/ refused' = (refused \/ Head(inbox).port = port)
          \/ \E all \in BOOLEAN : refused' = (refused \/ ~all)
      BY <2>4 DEF ConnectFails, Transfer
    <3> QED BY <3>1, Zenon
  <2> QED BY <1>3, <2>1, <2>2, <2>3, <2>4 DEF Client
<1> QED BY <1>1, <1>2, <1>3

-----------------------------------------------------------------------------
(* The client *)

\* A poll that gets the answer it waits for, and a call that finds nothing waiting.
LEMMA HealthyPolls ==
  ASSUME TypeOK, Health, Client, ~slow'
  PROVE  /\ pc \in Polls =>
              Answered /\ ~Unanswered /\ inbox # << >> /\ cmds = << >> /\ Wanted(Head(inbox))
         /\ pc \in {"mkroot", "chdir", "d", "f", "c"} =>
              Quiet /\ ~Unexpected /\ cmds = << >> /\ inbox = << >>
<1>1. pc \in {"mkroot", "chdir", "d", "f", "c"} => cmds = << >> /\ inbox = << >>
  BY DEF Health, OneThing, Ordered, Wanted
<1>2. pc \in Preparing \cup Walks => ~closed
  BY StageType DEF Health, Smooth, Preparing, Walks
<1>3. CASE pc \in Polls
  <2>1. Answered \/ Unanswered
        <3>1. pc \in {"greet", "user", "pass", "cwdroot", "mkrootpoll", "chdirpoll", "pwdpoll"} =>
            InitStage \/ InitDone \/ InitFails \/ MakeRootPoll \/ ChangeDirPoll \/ PwdPoll
      BY StageType DEF Client, MakeRoot, ChangeDir, MakeDir, MakeDirPoll, OpenFile, PasvFails,
         OpenAsserts, Connect, ConnectFails, StorPoll, Transfer, ClosePoll, Quit, QuitWait
    <3>2. pc \in {"mkdpoll", "pasvpoll", "storpoll", "closepoll"} =>
            \/ MakeDirPoll \/ PasvFails \/ OpenAsserts \/ Connect \/ ConnectFails \/ StorPoll
            \/ ClosePoll
      BY StageType DEF Client, InitStage, InitDone, InitFails, MakeRoot, MakeRootPoll, ChangeDir,
         ChangeDirPoll, PwdPoll, MakeDir, OpenFile, Transfer, Quit, QuitWait
    <3>3. InitStage \/ InitDone \/ InitFails \/ MakeRootPoll \/ ChangeDirPoll \/ PwdPoll =>
            Answered \/ Unanswered
      BY DEF InitStage, InitDone, InitFails, MakeRootPoll, ChangeDirPoll, PwdPoll
    <3>4. \/ MakeDirPoll \/ PasvFails \/ OpenAsserts \/ Connect \/ ConnectFails \/ StorPoll
          \/ ClosePoll
          => Answered \/ Unanswered
      BY DEF MakeDirPoll, PasvFails, OpenAsserts, Connect, ConnectFails, StorPoll, ClosePoll
    <3> QED BY <1>3, <3>1, <3>2, <3>3, <3>4 DEF Polls
  <2>2. ~Unanswered
    BY <1>2, <1>3, <2>1, StageType DEF Answered, Unanswered, HungUpOn, TimedOut, Polls, Walks, Preparing
  <2>3. inbox # << >>
    BY <2>1, <2>2 DEF Answered
  <2>4. cmds = << >> /\ Wanted(Head(inbox))
    BY <2>3 DEF Health, OneThing
  <2> QED BY <1>3, <2>1, <2>2, <2>3, <2>4 DEF Polls
<1>4. CASE pc \in {"mkroot", "chdir", "d", "f", "c"}
  <2>1. ~Unexpected
    BY <1>1, <1>4 DEF Unexpected
  <2>2. MakeRoot \/ ChangeDir \/ MakeDir \/ OpenFile
    BY <1>4, StageType DEF Client, InitStage, InitDone, InitFails, MakeRootPoll,
       ChangeDirPoll, PwdPoll, MakeDirPoll, PasvFails, OpenAsserts, Connect, ConnectFails, StorPoll,
       Transfer, ClosePoll, Quit, QuitWait
  <2>3. Quiet
    BY <2>1, <2>2 DEF MakeRoot, ChangeDir, MakeDir, OpenFile
  <2> QED BY <1>1, <1>4, <2>1, <2>3 DEF Polls
<1> QED BY <1>3, <1>4

\* The client has sent the next command.
LEMMA AfterSend ==
  ASSUME IInv, Health, NEW v \in Verbs, NEW a \in Seq(Names),
         Send(v, a), Ordered([verb |-> v, arg |-> a])',
         cmds = << >>, inbox' = << >>, xfer = << >>, ~closed, pc # "mkdpoll",
         UNCHANGED <<closed, k, rc, retry, xfer, slowPwd, cut, dirs, stored>>,
         sock' # "null" => pc' = "storpoll", pc' = "quitwait" => pc = "quit"
  PROVE  Health'
<1> DEFINE c == [verb |-> v, arg |-> a]
<1>1. cmds' = Append(cmds, c) /\ c \in Commands /\ cmds \in Seq(Commands)
  BY DEF Send, Commands, IInv, TypeOK, LineTypes
<1>2. Ordered(c)'
  OBVIOUS
<1> HIDE DEF c
<1>3. Len(cmds') = 1 /\ Head(cmds') = c
  <2>1. Len(cmds') = Len(cmds) + 1 /\ Head(cmds') = c /\ Len(cmds) = 0
    BY <1>1, QueueAppend, QueueEmpty
  <2> QED BY <2>1
<1>4. pc' \in {"greet", "user", "pass", "cwdroot", "chdirpoll", "mkrootpoll", "pwdpoll", "mkdpoll",
               "pasvpoll", "storpoll", "quitwait"}
  BY <1>2 DEF Ordered
<1>5. Smooth'
  BY <1>4 DEF Health, Smooth
<1>6. OneThing'
  <2>1. Ordered(Head(cmds))'
    BY <1>2, <1>3 DEF Ordered
  <2> QED BY <1>3, <2>1 DEF OneThing
<1>7. Unmade' /\ Kept'
  BY DEF Health, Unmade, Kept, Done, Path, Job
<1> QED BY <1>5, <1>6, <1>7 DEF Health

\* The answer it was waiting for takes the client to the next call.
LEMMA AfterAnswer ==
  ASSUME IInv, Health, cmds = << >>, inbox' = << >>, ~closed,
         UNCHANGED <<cmds, closed, rc, sock, sent, xfer, slowPwd, cut, dirs, stored>>, retry' = 0,
         \/ pc = "storpoll" /\ pc' = "send" /\ xfer # << >> /\ k' = k
         \/ /\ pc \in {"cwdroot", "mkrootpoll", "pwdpoll"} /\ k' = k
            /\ pc' \in {"mkroot", "chdir", "d", "f", "c"}
         \/ pc \in {"mkdpoll", "closepoll"} /\ GoesOn /\ xfer = << >> /\ Done(k)
  PROVE  Health'
<1>1. k \in 1 .. Len(Work) + 1 /\ Len(Work) \in Nat
  BY WorkType DEF IInv, TypeOK, ClientTypes
<1>2. GoesOn => k' = k + 1 /\ (pc' = "quit" => k' = Len(Work) + 1) /\ pc' \in {"d", "f", "c", "quit"}
  BY <1>1, WorkType DEF GoesOn
<1>3. Smooth'
  <2>1. sock # "null" => pc \in {"storpoll", "send"}
    BY DEF Health, Smooth
  <2>2. pc = "storpoll" => pc' = "send"
    OBVIOUS
  <2>3. pc' \in {"mkroot", "chdir", "d", "f", "c", "quit"} \/ (pc' = "send" /\ xfer # << >>)
    BY <1>2
  <2>4. pc' = "quit" => k' = Len(Work) + 1
    BY <1>2
  <2> QED BY <2>1, <2>2, <2>3, <2>4 DEF Health, Smooth
<1>4. OneThing'
  <2>1. xfer = << >> \/ (Len(xfer) = 1 /\ pc = "storpoll" /\ xfer[1].data = "open" /\ pc' = "send")
    BY DEF Health, OneThing
  <2> QED BY <2>1 DEF OneThing
<1>5. CASE k' = k /\ pc # "mkdpoll"
  <2>1. Unmade' /\ Kept'
    BY <1>5 DEF Health, Unmade, Kept, Done, Path, Job
  <2> QED BY <1>3, <1>4, <2>1 DEF Health
<1>6. CASE GoesOn /\ xfer = << >> /\ Done(k)
  <2>1. k' = k + 1
    BY <1>2, <1>6
  <2>2. Unmade'
    <3> SUFFICES ASSUME NEW j \in k + 1 .. Len(Work), Work[j].op = "d", Path(Work[j]) \in dirs
                 PROVE  FALSE
      BY <2>1 DEF Unmade, Path
    <3>1. j \in k .. Len(Work) /\ j # k
      BY <1>1
    <3> QED BY <3>1 DEF Health, Unmade
  <2>3. Kept'
    <3> SUFFICES ASSUME NEW j \in 1 .. k
                 PROVE  Done(j)
      BY <1>1, <2>1 DEF Kept, Done, Path
    <3>1. CASE j = k
      BY <1>6, <3>1
    <3>2. CASE j \in 1 .. k - 1
      <4>1. Done(j) \/ (Job.op # "d" /\ Work[j].op # "d" /\ Work[j].name = Job.name)
        BY <3>2 DEF Health, Kept
      <4> QED BY <1>6, <4>1 DEF Done, Path, Job
    <3> QED BY <1>1, <3>1, <3>2
  <2> QED BY <1>3, <1>4, <2>2, <2>3 DEF Health
<1> QED BY <1>5, <1>6

\* All of the file has been sent to the transfer that waits for it.
LEMMA AfterTransfer ==
  ASSUME IInv, Health, Transfer(TRUE)
  PROVE  Health'
<1>1. /\ pc = "send" /\ pc' = "closepoll" /\ sent' = TRUE /\ sock' = "null"
      /\ UNCHANGED <<rc, k, retry, cmds, inbox, closed, dirs, stored, slowPwd>>
      /\ cut' = (cut \/ (TRUE /\ xfer = << >>))
  BY DEF Transfer
<1>2. /\ cmds = << >> /\ inbox = << >> /\ xfer # << >> /\ Len(xfer) = 1 /\ xfer[1].data = "open"
  BY <1>1 DEF Health, Smooth, OneThing, Ordered, Wanted
<1>3. ~cut'
  <2>1. ~cut
    BY DEF Health, Smooth
  <2>2. cut' = (cut \/ xfer = << >>)
    BY <1>1
  <2> QED BY <1>2, <2>1, <2>2, Zenon
<1>4. /\ Len(xfer') = 1 /\ xfer'[1] = [path |-> xfer[1].path, data |-> "whole"]
  <2>1. TypeOK /\ 1 \in 1 .. Len(xfer) /\ TRUE \in BOOLEAN
    BY <1>2 DEF IInv
  <2>2. /\ Len(xfer') = Len(xfer)
        /\ xfer'[1] = [path |-> xfer[1].path, data |-> IF TRUE THEN "whole" ELSE "part"]
    BY <2>1, TransferMoves
  <2> QED BY <1>2, <2>2
<1>5. Smooth'
  BY <1>1, <1>3 DEF Health, Smooth
<1>6. OneThing'
  BY <1>1, <1>2, <1>4 DEF OneThing
<1>7. Unmade'
  BY <1>1 DEF Health, Unmade, Path
<1>8. Kept'
  <2> SUFFICES ASSUME NEW j \in 1 .. k - 1
               PROVE  \/ Done(j)'
                      \/ k =< Len(Work) /\ Job.op # "d" /\ Work[j].op # "d" /\ Work[j].name = Job.name
    BY <1>1 DEF Kept, Job
  <2>1. xfer # <<[path |-> Path(Work[j]), data |-> "whole"]>>
    BY <1>2
  <2>2. Done(j) => Done(j)'
    BY <1>1, <2>1 DEF Done, Path
  <2> QED BY <2>2 DEF Health, Kept
<1> QED BY <1>5, <1>6, <1>7, <1>8 DEF Health

LEMMA HealthyPreparation ==
  ASSUME IInv, Health, ~slow', ~refused',
         InitStage \/ InitDone \/ InitFails \/ MakeRoot \/ MakeRootPoll
         \/ ChangeDir \/ ChangeDirPoll \/ PwdPoll
  PROVE  Health'
<1>1. /\ Client /\ TypeOK /\ rc = 0 /\ retry = 0 /\ ~slowPwd /\ sock = "null" /\ k = 1
      /\ ~closed /\ xfer = << >>
  <2>1. Client /\ TypeOK /\ Calls /\ rc = 0 /\ retry = 0 /\ ~slowPwd
    BY DEF Client, IInv, Health, Smooth
  <2>2. pc \in Preparing
    BY StageType DEF InitStage, InitDone, InitFails, MakeRoot, MakeRootPoll, ChangeDir,
       ChangeDirPoll, PwdPoll, Preparing
  <2>3. sock = "null" /\ k = 1 /\ ~closed /\ xfer = << >>
    BY <2>1, <2>2, StageType DEF Calls, Health, Smooth, IInv, DataLine, Preparing
  <2> QED BY <2>1, <2>3
<1>2. /\ pc \in Polls => Answered /\ ~Unanswered /\ inbox # << >> /\ cmds = << >> /\ Wanted(Head(inbox))
      /\ pc \in {"mkroot", "chdir"} => Quiet /\ ~Unexpected /\ cmds = << >> /\ inbox = << >>
  BY <1>1, HealthyPolls
<1>3. /\ {"USER", "PASS", "CWD", "MKD", "PWD"} \subseteq Verbs
      /\ << >> \in Seq(Names) /\ <<RootDir>> \in Seq(Names) /\ <<BackupDir>> \in Seq(Names)
  BY FtpWork, SmallSequences DEF Verbs
<1>4. ASSUME NEW v \in {"USER", "PASS", "CWD", "MKD", "PWD"}, NEW a \in Seq(Names), Send(v, a),
             \/ v = "USER" /\ pc' = "user"
             \/ v = "PASS" /\ pc' = "pass"
             \/ v = "CWD" /\ pc' \in {"cwdroot", "chdirpoll"}
             \/ v = "MKD" /\ pc' = "mkrootpoll"
             \/ v = "PWD" /\ pc' = "pwdpoll",
             cmds = << >>, inbox' = << >>, pc # "mkdpoll", rc' = rc,
             UNCHANGED <<k, retry, sock, conn, sent, closed, server, ghosts>>
      PROVE  Health'
  <2>1. Ordered([verb |-> v, arg |-> a])'
    BY <1>4 DEF Ordered
  <2>2. UNCHANGED <<closed, k, rc, retry, xfer, slowPwd, cut, dirs, stored, sock>>
    BY <1>4 DEF server, ghosts
  <2>3. pc' # "quitwait" /\ v \in Verbs
    BY <1>3, <1>4
  <2> QED BY <1>1, <1>4, <2>1, <2>2, <2>3, AfterSend
<1>5. CASE InitStage
  <2>1. pc \in {"greet", "user", "pass"} /\ pc \in Polls
    BY <1>5, StageType DEF InitStage, Polls
  <2>2. /\ pc = "greet" => Code = 220
        /\ pc = "user" => Code = 331
        /\ pc = "pass" => Code = 230
    BY <1>2, <2>1 DEF Wanted, Code
  <2>3. /\ Answered /\ UNCHANGED <<k, retry, sock, conn, sent, closed, server, ghosts>>
        /\ Send(Stages[pc].verb, Stages[pc].arg)
        /\ IF Code = Stages[pc].code THEN pc' = Stages[pc].next /\ UNCHANGED rc
                                     ELSE pc' = "mkroot" /\ rc' = -7
    BY <1>5 DEF InitStage
  <2>4. inbox' = << >> /\ cmds = << >>
    BY <1>2, <2>1, <2>3 DEF Answered
  <2>5. CASE pc = "greet"
    <3>1. pc' = "user" /\ UNCHANGED rc /\ Send("USER", << >>)
      BY <2>2, <2>3, <2>5, StageType
    <3> QED BY <1>3, <1>4, <2>3, <2>4, <2>5, <3>1
  <2>6. CASE pc = "user"
    <3>1. pc' = "pass" /\ UNCHANGED rc /\ Send("PASS", << >>)
      BY <2>2, <2>3, <2>6, StageType
    <3> QED BY <1>3, <1>4, <2>3, <2>4, <2>6, <3>1
  <2>7. CASE pc = "pass"
    <3>1. pc' = "cwdroot" /\ UNCHANGED rc /\ Send("CWD", <<RootDir>>)
      BY <2>2, <2>3, <2>7, StageType
    <3> QED BY <1>3, <1>4, <2>3, <2>4, <2>7, <3>1
  <2> QED BY <2>1, <2>5, <2>6, <2>7
<1>6. CASE InitFails
  <2>1. pc \in Polls /\ Unanswered
    BY <1>6, StageType DEF InitFails, Polls
  <2> QED BY <1>2, <2>1
<1>7. CASE MakeRoot
  <2>1. pc = "mkroot" /\ Quiet /\ Send("MKD", <<BackupDir>>) /\ pc' = "mkrootpoll" /\ UNCHANGED rc
        /\ UNCHANGED <<k, retry, sock, conn, sent, closed, server, ghosts>>
    BY <1>2, <1>7 DEF MakeRoot
  <2> QED BY <1>2, <1>3, <1>4, <2>1 DEF Quiet
<1>8. CASE ChangeDir
  <2>1. pc = "chdir" /\ Quiet /\ Send("CWD", <<BackupDir>>) /\ pc' = "chdirpoll" /\ UNCHANGED rc
        /\ UNCHANGED <<k, retry, sock, conn, sent, closed, server, ghosts>>
    BY <1>2, <1>8 DEF ChangeDir
  <2> QED BY <1>2, <1>3, <1>4, <2>1 DEF Quiet
<1>9. CASE ChangeDirPoll
  <2>1. pc = "chdirpoll" /\ pc \in Polls
    BY <1>9 DEF ChangeDirPoll, Polls
  <2>2. Code = 250 /\ inbox # << >>
    BY <1>2, <2>1 DEF Wanted, Code
  <2>3. Answered /\ Send("PWD", << >>) /\ pc' = "pwdpoll" /\ UNCHANGED rc
        /\ UNCHANGED <<k, retry, sock, conn, sent, closed, server, ghosts>>
    BY <1>1, <1>9, <2>2 DEF ChangeDirPoll
  <2> QED BY <1>2, <1>3, <1>4, <2>1, <2>3 DEF Answered
<1>10. CASE InitDone \/ MakeRootPoll \/ PwdPoll
  <2>1. pc \in {"cwdroot", "mkrootpoll", "pwdpoll"} /\ pc \in Polls
    BY <1>10 DEF InitDone, MakeRootPoll, PwdPoll, Polls
  <2>2. /\ pc = "cwdroot" => Code = 250
        /\ pc = "mkrootpoll" => Code \in {257, 550}
    BY <1>2, <2>1 DEF Wanted, Code
  <2>3. UNCHANGED <<k, retry, sock, sent, cmds, closed, dirs, stored, xfer, cut>>
    BY <1>10 DEF InitDone, MakeRootPoll, PwdPoll, server, ghosts
  <2>4. inbox' = << >> /\ inbox # << >> /\ cmds = << >>
    BY <1>2, <2>1 DEF Answered
  <2>5. rc' = rc /\ slowPwd' = slowPwd /\ pc' \in {"mkroot", "chdir", "d", "f", "c"}
    <3>1. CASE InitDone
      BY <2>2, <3>1 DEF InitDone, ghosts
    <3>2. CASE MakeRootPoll
      BY <1>2, <2>1, <2>2, <3>2 DEF MakeRootPoll, ghosts
    <3>3. CASE PwdPoll
      <4>1. rc' = rc /\ slowPwd' = (inbox = << >>) /\ pc' = IF rc' = 0 THEN Job.op ELSE "quit"
        BY <3>3 DEF PwdPoll, Walk
      <4>2. slowPwd' = FALSE /\ slowPwd = FALSE
        BY <1>1, <2>4, <4>1 DEF TypeOK
      <4>3. Job.op \in {"d", "f", "c"}
        BY <1>1, WorkType DEF Job
      <4> QED BY <1>1, <4>1, <4>2, <4>3
    <3> QED BY <1>10, <3>1, <3>2, <3>3
  <2> QED BY <1>1, <2>1, <2>3, <2>4, <2>5, AfterAnswer
<1> QED BY <1>5, <1>6, <1>7, <1>8, <1>9, <1>10

LEMMA HealthyWalk ==
  ASSUME IInv, Health, ~slow', ~refused',
         \/ MakeDir \/ MakeDirPoll \/ OpenFile \/ PasvFails \/ OpenAsserts \/ Connect
         \/ ConnectFails \/ StorPoll \/ ClosePoll
  PROVE  Health'
<1>1. /\ Client /\ TypeOK /\ rc = 0 /\ retry = 0 /\ ~closed
      /\ k \in 1 .. Len(Work) /\ Job.name \in Seq(Names)
  <2>1. Client /\ TypeOK /\ Calls /\ rc = 0 /\ retry = 0
    BY DEF Client, IInv, Health, Smooth
  <2>2. pc \in Walks
    BY DEF MakeDir, MakeDirPoll, OpenFile, PasvFails, OpenAsserts, Connect, ConnectFails, StorPoll,
       ClosePoll, Walks
  <2>3. k \in 1 .. Len(Work)
    BY <2>1, <2>2, WorkType DEF Calls, TypeOK, ClientTypes
  <2>4. ~closed
    BY <2>2 DEF Health, Smooth, Walks
  <2> QED BY <2>1, <2>2, <2>3, <2>4, JobName
<1>2. /\ pc \in Polls => Answered /\ ~Unanswered /\ inbox # << >> /\ cmds = << >> /\ Wanted(Head(inbox))
      /\ pc \in {"d", "f", "c"} => Quiet /\ ~Unexpected /\ cmds = << >> /\ inbox = << >>
  BY <1>1, HealthyPolls
<1>3. pc \in {"d", "f", "c", "mkdpoll", "pasvpoll"} => xfer = << >> /\ sock = "null"
  BY DEF Health, OneThing, Smooth, IInv, TypeOK, ClientTypes
<1>4. ASSUME NEW v \in {"MKD", "PASV", "STOR"}, NEW a \in Seq(Names), Send(v, a),
             \/ v = "MKD" /\ pc' = "mkdpoll" /\ a = Job.name
             \/ v = "PASV" /\ pc' = "pasvpoll"
             \/ v = "STOR" /\ pc' = "storpoll",
             pc \in {"d", "f", "c", "pasvpoll"}, cmds = << >>, inbox' = << >>,
             sock' # "null" => pc' = "storpoll",
             UNCHANGED <<rc, k, retry, sent, closed, server, ghosts>>
      PROVE  Health'
  <2>1. Ordered([verb |-> v, arg |-> a])'
    BY <1>4 DEF Ordered, Job
  <2>2. UNCHANGED <<closed, k, rc, retry, xfer, slowPwd, cut, dirs, stored>>
    BY <1>4 DEF server, ghosts
  <2>3. pc' # "quitwait" /\ pc # "mkdpoll" /\ v \in Verbs
    BY <1>4 DEF Verbs
  <2> QED BY <1>1, <1>3, <1>4, <2>1, <2>2, <2>3, AfterSend
<1>5. CASE MakeDir
  <2>1. pc = "d" /\ Quiet /\ Send("MKD", Job.name) /\ pc' = "mkdpoll"
        /\ UNCHANGED <<rc, k, retry, sock, sent, closed, server, ghosts>>
    BY <1>2, <1>5 DEF MakeDir
  <2> QED BY <1>1, <1>2, <1>3, <1>4, <2>1 DEF Quiet
<1>6. CASE OpenFile
  <2>1. pc \in {"f", "c"} /\ Quiet /\ Send("PASV", << >>) /\ pc' = "pasvpoll"
        /\ UNCHANGED <<rc, k, retry, sock, sent, closed, server, ghosts>>
    BY <1>2, <1>6 DEF OpenFile
  <2>2. << >> \in Seq(Names)
    OBVIOUS
  <2> QED BY <1>1, <1>2, <1>3, <1>4, <2>1, <2>2 DEF Quiet
<1>7. CASE PasvFails \/ OpenAsserts \/ Connect \/ ConnectFails
  <2>1. pc = "pasvpoll" /\ pc \in Polls
    BY <1>7 DEF PasvFails, OpenAsserts, Connect, ConnectFails, Polls
  <2>2. Code = 227 /\ Head(inbox).port = port /\ sock = "null" /\ Answered /\ ~Unanswered
    BY <1>2, <1>3, <2>1 DEF Wanted, Code
  <2>3. ~ConnectFails
    <3>1. SUFFICES ASSUME ConnectFails
                   PROVE  FALSE
      OBVIOUS
    <3>2. refused' = (refused \/ Head(inbox).port = port)
      BY <3>1 DEF ConnectFails
    <3> QED BY <2>2, <3>2, Zenon
  <2>4. ~PasvFails /\ ~OpenAsserts
    BY <2>2 DEF PasvFails, OpenAsserts
  <2>5. /\ Send("STOR", Job.name) /\ pc' = "storpoll"
        /\ UNCHANGED <<rc, k, retry, sent, closed, server, ghosts>>
    BY <1>7, <2>3, <2>4 DEF Connect
  <2> QED BY <1>1, <1>2, <1>4, <2>1, <2>2, <2>5 DEF Answered
<1>8. CASE StorPoll
  <2>1. pc = "storpoll" /\ pc \in Polls
    BY <1>8 DEF StorPoll, Polls
  <2>2. Code = 150 /\ xfer # << >> /\ Answered /\ ~Unanswered /\ cmds = << >>
    BY <1>2, <2>1 DEF Wanted, Code
  <2>3. /\ pc' = "send" /\ UNCHANGED <<rc, k, retry, sock, sent, cmds, closed, server, ghosts>>
    BY <1>8, <2>2 DEF StorPoll
  <2>4. inbox' = << >> /\ UNCHANGED <<dirs, stored, xfer, slowPwd, cut>>
    BY <2>2, <2>3 DEF Answered, server, ghosts
  <2> QED BY <1>1, <2>1, <2>2, <2>3, <2>4, AfterAnswer
<1>9. CASE MakeDirPoll \/ ClosePoll
  <2>1. pc \in {"mkdpoll", "closepoll"} /\ pc \in Polls
    BY <1>9 DEF MakeDirPoll, ClosePoll, Polls
  <2>2. /\ pc = "mkdpoll" => Code = 257
        /\ pc = "closepoll" => xfer = << >> /\ sent
        /\ Answered /\ ~Unanswered /\ cmds = << >> /\ xfer = << >> /\ inbox # << >>
    BY <1>2, <1>3, <2>1 DEF Wanted, Code, Health, Smooth
  <2>3. /\ AttemptSucceeds /\ inbox' = << >>
        /\ UNCHANGED <<sock, sent, cmds, closed, server, ghosts>>
    BY <1>1, <1>9, <2>1, <2>2 DEF MakeDirPoll, ClosePoll, Answered
  <2>4. GoesOn
    <3>1. /\ k' = k + 1 /\ retry' = 0 /\ rc' = rc
          /\ pc' = IF k' =< Len(Work) THEN Work[k'].op ELSE "quit"
      BY <1>1, <2>3 DEF AttemptSucceeds, MaxRetries
    <3> QED BY <1>1, <3>1, WorkType DEF GoesOn
  <2>5. Done(k)
    <3>1. ~slowPwd /\ ~cut /\ Ledger /\ Calls
      BY DEF Health, Smooth, IInv
    <3>2. CASE pc = "closepoll"
      BY <2>2, <3>1, <3>2 DEF Ledger
    <3>3. CASE pc = "mkdpoll"
      <4>1. Begun
        BY <1>1, <3>3, StageType DEF Begun, Preparing
      <4>2. Waiting(257)
        <5>1. inbox \in Seq(Replies)
          BY <1>1 DEF TypeOK, LineTypes, Replies
        <5>2. Head(inbox) \in Range(inbox)
          BY <2>2, <5>1, InQueue
        <5> QED BY <2>2, <3>3, <5>2 DEF Waiting, Code
      <4> QED BY <3>1, <4>1, <4>2 DEF Ledger, Done, Job
    <3> QED BY <2>1, <3>2, <3>3
  <2>6. UNCHANGED <<rc, dirs, stored, xfer, slowPwd, cut>> /\ retry' = 0
    BY <1>1, <2>3, <2>4 DEF GoesOn, server, ghosts
  <2> QED BY <1>1, <2>1, <2>2, <2>3, <2>4, <2>5, <2>6, AfterAnswer
<1> QED BY <1>5, <1>6, <1>7, <1>8, <1>9

LEMMA HealthyClient ==
  ASSUME IInv, Health, ~slow', ~refused', Client
  PROVE  Health'
<1>1. CASE InitStage \/ InitDone \/ InitFails \/ MakeRoot \/ MakeRootPoll
           \/ ChangeDir \/ ChangeDirPoll \/ PwdPoll
  BY <1>1, HealthyPreparation
<1>2. CASE \/ MakeDir \/ MakeDirPoll \/ OpenFile \/ PasvFails \/ OpenAsserts \/ Connect
           \/ ConnectFails \/ StorPoll \/ ClosePoll
  BY <1>2, HealthyWalk
<1>3. ASSUME NEW all \in BOOLEAN, Transfer(all)
      PROVE  Health'
  <2>1. refused' = (refused \/ ~all)
    BY <1>3 DEF Transfer
  <2>2. all = TRUE
    BY <1>3, <2>1, Zenon
  <2> QED BY <1>3, <2>2, AfterTransfer
<1>4. CASE Quit
  <2>1. /\ pc = "quit" /\ cmds = << >> /\ inbox = << >> /\ xfer = << >> /\ ~closed /\ sock = "null"
    BY <1>4 DEF Quit, Health, OneThing, Smooth, Ordered, Wanted, IInv, TypeOK, ClientTypes
  <2>2. /\ Send("QUIT", << >>) /\ pc' = "quitwait"
        /\ UNCHANGED <<closed, inbox, k, rc, retry, sock, xfer, slowPwd, cut, dirs, stored>>
    BY <1>4, <2>1 DEF Quit, server, ghosts
  <2>3. Ordered([verb |-> "QUIT", arg |-> << >>])' /\ "QUIT" \in Verbs /\ << >> \in Seq(Names)
    BY <2>2 DEF Ordered, Verbs
  <2> QED BY <2>1, <2>2, <2>3, AfterSend
<1>5. CASE QuitWait
  <2>1. /\ pc = "quitwait" /\ pc' = "exit" /\ closed
        /\ UNCHANGED <<rc, k, retry, sock, sent, cmds, inbox, closed, dirs, stored, xfer, port, slowPwd, cut>>
    BY <1>5 DEF QuitWait, server, ghosts
  <2>2. Smooth' /\ Unmade' /\ Kept'
    BY <2>1 DEF Health, Smooth, Unmade, Kept, Done, Path, Job
  <2>3. cmds = << >> /\ xfer = << >>
    BY <2>1 DEF Health, Smooth
  <2>4. OneThing'
    BY <2>1, <2>3 DEF Health, OneThing, Wanted
  <2> QED BY <2>2, <2>4 DEF Health
<1> QED BY <1>1, <1>2, <1>3, <1>4, <1>5 DEF Client

-----------------------------------------------------------------------------
(* The server, and the theorem *)

LEMMA ElementOf ==
  ASSUME NEW T, NEW q \in Seq(T), NEW i \in 1 .. Len(q)
  PROVE  q[i] \in T
  OBVIOUS

\* Every job is below the backup's own directory.
LEMMA PathBelow ==
  ASSUME NEW j \in 1 .. Len(Work), Work[j].op = "d"
  PROVE  Path(Work[j]) # Backup
<1>1. Work[j].name \in Seq(Names) /\ Work[j].name # << >>
  <2>1. j \in 1 .. Len(Jobs) /\ Work[j] = Jobs[j]
    <3>1. Jobs \in Seq([op : {"d", "f"}, name : Seq(Names) \ {<< >>}]) /\ Work = Append(Jobs, Control)
      BY FtpWork DEF Work
    <3>2. Len(Work) = Len(Jobs) + 1 /\ Len(Jobs) \in Nat /\ Work[Len(Jobs) + 1] = Control
      BY <3>1
    <3>3. j # Len(Jobs) + 1
      BY <3>2 DEF Control
    <3>4. j \in 1 .. Len(Jobs)
      BY <3>2, <3>3
    <3> QED BY <3>1, <3>4
  <2>2. Jobs[j] \in [op : {"d", "f"}, name : Seq(Names) \ {<< >>}]
    <3>1. Jobs \in Seq([op : {"d", "f"}, name : Seq(Names) \ {<< >>}])
      BY FtpWork
    <3> QED BY <2>1, <3>1, ElementOf
  <2> QED BY <2>1, <2>2
<1>2. Backup \in Seq(Names)
  BY FtpWork, SmallSequences DEF Backup
<1>3. Path(Work[j]) = Backup \o Work[j].name
  BY DEF Path
<1>4. Len(Work[j].name) \in Nat \ {0} /\ Len(Backup) \in Nat
  BY <1>1, <1>2
<1>5. Len(Backup \o Work[j].name) = Len(Backup) + Len(Work[j].name)
  BY <1>1, <1>2
<1> QED BY <1>3, <1>4, <1>5

LEMMA HealthyServer ==
  ASSUME NewBackup, IInv, Health, ~slow', ~refused', Serves
  PROVE  Health'
<1>1. /\ TypeOK /\ Calls /\ UNCHANGED <<pc, rc, k, retry, sock, sent, conn, slowPwd>> /\ Job' = Job
      /\ cmds \in Seq(Commands) /\ inbox \in Seq(Replies)
  BY ServerLine DEF IInv, TypeOK, LineTypes, Commands, Replies, client, Job
<1>2. CASE EndTransfer
  <2>1. /\ pc = "closepoll" /\ xfer[1].data = "whole" /\ cmds = << >> /\ inbox = << >> /\ Len(xfer) = 1
        /\ ~closed /\ sock = "null" /\ Done(k)
    <3>1. xfer # << >> /\ ~closed
      BY <1>2 DEF EndTransfer
    <3>2. xfer[1].data # "open"
      BY <1>2 DEF EndTransfer, Refuse
    <3>3. ~cut /\ sent
      BY <3>1, <3>2 DEF Health, Smooth, OneThing
    <3> QED BY <3>1, <3>2, <3>3 DEF Health, Smooth, OneThing, IInv, Ledger, Calls
  <2>2. /\ xfer' = << >> /\ UNCHANGED <<cmds, cut, dirs, closed>>
        /\ stored' = stored \cup {xfer[1].path}
        /\ inbox' = Append(inbox, [code |-> 226, port |-> port'])
    BY <1>2, <2>1 DEF EndTransfer, Reply, Refuse
  <2>3. Len(inbox') = 1
    BY <2>1, <2>2
  <2>4. Smooth' /\ OneThing'
    BY <1>1, <2>1, <2>2, <2>3 DEF Health, Smooth, OneThing, Wanted
  <2>5. Unmade'
    BY <1>1, <2>2 DEF Health, Unmade, Path
  <2>6. Kept'
    <3> SUFFICES ASSUME NEW j \in 1 .. k - 1, Done(j)
                 PROVE  Done(j)'
      BY <1>1 DEF Health, Kept
    <3>1. xfer = <<[path |-> Path(Work[j]), data |-> "whole"]>> => xfer[1].path = Path(Work[j])
      OBVIOUS
    <3> QED BY <2>2, <3>1 DEF Done, Path
  <2> QED BY <2>4, <2>5, <2>6 DEF Health
<1>3. ASSUME NEW v \in Verbs, NEW c \in Nat, Serving(v, c), Honest(v, c)
      PROVE  Health'
  <2> DEFINE r == [code |-> c, port |-> port']
  <2>1. Handle(v) /\ Reply(c) /\ port' \in Nat
    BY <1>1, <1>3 DEF Serving, TypeOK, ServerTypes
  <2>2. /\ cmds # << >> /\ Head(cmds).verb = v
        /\ cmds' = Tail(cmds) /\ inbox' = Append(inbox, r)
        /\ r \in Replies /\ r.code = c /\ r.port = port'
        /\ Head(inbox') = IF inbox = << >> THEN r ELSE Head(inbox)
        /\ ~closed /\ xfer = << >> /\ UNCHANGED cut
    BY <1>1, <2>1, Handled DEF Replies
  <2> HIDE DEF r
  <2>3. Len(cmds) = 1 /\ inbox = << >> /\ Ordered(Head(cmds))
    BY <2>2 DEF Health, OneThing
  <2>4. cmds' = << >> /\ Head(inbox') = r /\ Len(inbox') = 1 /\ inbox' # << >>
    <3>1. Len(inbox') = Len(inbox) + 1 /\ inbox' # << >> /\ Len(inbox) = 0
      BY <1>1, <2>2, <2>3, QueueAppend, QueueEmpty
    <3>2. cmds' = << >>
      BY <1>1, <2>2, <2>3
    <3> QED BY <2>2, <2>3, <3>1, <3>2
  <2>5. /\ pc = "pasvpoll" => v = "PASV"
        /\ pc = "storpoll" => v = "STOR"
        /\ pc \notin {"mkrootpoll", "mkdpoll"} => v # "MKD"
        /\ pc # "storpoll" => v # "STOR"
        /\ pc # "quitwait" => v # "QUIT"
        /\ pc # "closepoll"
    BY <2>2, <2>3 DEF Ordered
  <2>6. pc = "mkdpoll" => Path(Job) \notin dirs /\ cwd \o Arg = Path(Job)
    <3>1. pc = "mkdpoll" => k =< Len(Work) /\ Job.op = "d" /\ Begun
      BY <1>1, StageType DEF Calls, Walks, Begun, Preparing
    <3>2. pc = "mkdpoll" => Arg = Job.name /\ cwd = Backup
      BY <2>2, <2>3, <3>1 DEF Ordered, Arg, IInv, Place
    <3>3. k \in 1 .. Len(Work) + 1 /\ Len(Work) \in Nat
      BY <1>1, WorkType DEF TypeOK, ClientTypes
    <3>4. pc = "mkdpoll" => Work[k].op = "d" /\ k \in k .. Len(Work)
      BY <3>1, <3>3 DEF Job
    <3>5. pc = "mkdpoll" => Path(Work[k]) \notin dirs
      BY <2>2, <3>4 DEF Health, Unmade
    <3> QED BY <3>2, <3>5 DEF Path, Job
  <2>7. /\ pc = "mkrootpoll" => cwd \o Arg = Backup
    <3>1. pc = "mkrootpoll" => rc = 0 /\ pc \in Preparing
      BY StageType DEF Health, Smooth, Preparing
    <3>2. pc = "mkrootpoll" => cwd = <<RootDir>> /\ Head(cmds) = Asked["mkrootpoll"]
      BY <2>2, <3>1 DEF IInv, Prelude
    <3>3. pc = "mkrootpoll" => Arg = <<BackupDir>>
      BY <3>2, AskedIs DEF Arg
    <3>4. <<RootDir>> \o <<BackupDir>> = Backup
      BY FtpWork, SmallSequences DEF Backup
    <3> QED BY <3>2, <3>3, <3>4
  <2>8. v = "STOR" => /\ xfer' = <<[path |-> Path(Job), data |-> "open"]>>
                      /\ stored' = stored \ {Path(Job)}
                      /\ k \in 1 .. Len(Work) /\ Job.op # "d"
    <3> SUFFICES ASSUME v = "STOR"
                 PROVE  /\ xfer' = <<[path |-> Path(Job), data |-> "open"]>>
                        /\ stored' = stored \ {Path(Job)}
                        /\ k \in 1 .. Len(Work) /\ Job.op # "d"
      OBVIOUS
    <3>1. pc = "storpoll" /\ c = 150
      BY <1>3, <2>5 DEF Honest
    <3>2. k \in 1 .. Len(Work) /\ Job.op # "d" /\ Begun
      BY <1>1, <3>1, StageType, WorkType DEF Calls, Walks, Begun, Preparing, TypeOK, ClientTypes
    <3>3. cwd = Backup /\ Arg = Job.name
      <4>1. Head(cmds) \in Range(cmds)
        BY <1>1, <2>2, InQueue
      <4> QED BY <2>2, <3>2, <4>1 DEF IInv, Place, DataLine, OwnStor, Arg
    <3>4. conn = port
      <4>1. ~Waiting(227)
        BY <2>3, QueueEmpty DEF Waiting
      <4> QED BY <2>2, <3>1, <4>1 DEF IInv, DataLine, AtStor
    <3> QED BY <1>3, <3>1, <3>2, <3>3, <3>4 DEF Serving, Path
  <2>9. v # "STOR" => xfer' = << >> /\ stored' = stored
    BY <1>3 DEF Serving
  <2>10. OneThing'
    <3>1. Wanted(Head(inbox))'
      <4>1. v = "STOR" => xfer' # << >>
        BY <2>8
      <4>2. \/ v = "connect" /\ pc = "greet"
            \/ v = "USER" /\ pc = "user"
            \/ v = "PASS" /\ pc = "pass"
            \/ v = "CWD" /\ pc \in {"cwdroot", "chdirpoll"}
            \/ v = "MKD" /\ pc \in {"mkrootpoll", "mkdpoll"}
            \/ v = "PWD" /\ pc = "pwdpoll"
            \/ v = "PASV" /\ pc = "pasvpoll"
            \/ v = "STOR" /\ pc = "storpoll"
            \/ v = "QUIT" /\ pc = "quitwait"
        BY <2>2, <2>3 DEF Ordered
      <4>3. Head(inbox').code = c /\ Head(inbox').port = port'
        BY <2>2, <2>4
      <4>4. v = "MKD" /\ pc = "mkdpoll" => c = 257
        <5>1. pc = "mkdpoll" => cwd \o Arg \notin dirs
          BY <2>6
        <5>2. v = "MKD" => c = 257 \/ cwd \o Arg \in dirs
          BY <1>3 DEF Honest
        <5> QED BY <5>1, <5>2
      <4> QED BY <1>1, <1>3, <4>1, <4>2, <4>3, <4>4 DEF Wanted, Honest
    <3>2. xfer' = << >> \/ (Len(xfer') = 1 /\ xfer'[1].data = "open" /\ pc = "storpoll")
      BY <2>5, <2>8, <2>9
    <3> QED BY <1>1, <2>4, <3>1, <3>2 DEF OneThing, Wanted
  <2>11. Smooth'
    <3>1. closed' => pc = "quitwait"
      BY <1>3, <2>2, <2>5 DEF Serving
    <3>2. xfer' = << >> \/ pc = "storpoll"
      BY <2>5, <2>9
    <3>3. pc # "send"
      BY <2>3 DEF Ordered
    <3>4. pc # "exit"
      BY <2>3 DEF Ordered
    <3> QED BY <1>1, <2>2, <2>4, <2>5, <3>1, <3>2, <3>3, <3>4 DEF Health, Smooth
  <2>12. Unmade'
    <3> SUFFICES ASSUME NEW j \in k .. Len(Work), Work[j].op = "d", Path(Work[j]) \in dirs'
                 PROVE  j = k /\ pc = "mkdpoll"
      BY <1>1, <2>4 DEF Unmade, Path
    <3>1. Path(Work[j]) \notin dirs
      BY <2>2 DEF Health, Unmade
    <3>2. v = "MKD" /\ Path(Work[j]) = cwd \o Arg
      BY <1>3, <3>1 DEF Serving
    <3>3. j \in 1 .. Len(Work) /\ k \in 1 .. Len(Work)
      BY <1>1, WorkType DEF TypeOK, ClientTypes
    <3>4. CASE pc = "mkrootpoll"
      <4>1. Path(Work[j]) # Backup
        BY <3>3, PathBelow
      <4> QED BY <2>7, <3>2, <3>4, <4>1
    <3>5. CASE pc = "mkdpoll"
      <4>1. Path(Work[j]) = Path(Work[k]) /\ Work[k].op = "d"
        BY <1>1, <2>6, <3>2, <3>5 DEF Job, Calls
      <4>2. Work[j].name = Work[k].name
        BY <3>3, <4>1, PathNames
      <4>3. DOMAIN Work = 1 .. Len(Work)
        BY WorkType
      <4> QED BY <3>3, <3>5, <4>1, <4>2, <4>3 DEF NewBackup
    <3> QED BY <2>5, <3>2, <3>4, <3>5
  <2>13. Kept'
    <3> SUFFICES ASSUME NEW j \in 1 .. k - 1
                 PROVE  \/ Done(j)'
                        \/ k =< Len(Work) /\ Job.op # "d" /\ Work[j].op # "d" /\ Work[j].name = Job.name
      BY <1>1 DEF Kept
    <3>1. \/ Done(j)
          \/ k =< Len(Work) /\ Job.op # "d" /\ Work[j].op # "d" /\ Work[j].name = Job.name
      BY DEF Health, Kept
    <3>2. j \in 1 .. Len(Work)
      BY <1>1, WorkType DEF TypeOK, ClientTypes
    <3>3. dirs \subseteq dirs'
      <4>1. dirs' = dirs \/ dirs' = dirs \cup {cwd \o Arg}
        BY <1>3 DEF Serving
      <4> QED BY <4>1
    <3>4. CASE Done(j) /\ Work[j].op = "d"
      BY <3>3, <3>4 DEF Done, Path
    <3>5. CASE Done(j) /\ Work[j].op # "d" /\ v # "STOR"
      BY <2>2, <2>9, <3>5 DEF Done, Path
    <3>6. CASE Done(j) /\ Work[j].op # "d" /\ v = "STOR"
      <4>1. Path(Work[j]) \in stored
        BY <2>2, <3>6 DEF Done
      <4>2. Path(Work[j]) = Path(Job) => Work[j].name = Job.name
        BY <2>8, <3>2, <3>6, PathNames DEF Job
      <4>3. k =< Len(Work) /\ Job.op # "d"
        BY <2>8, <3>6, WorkType
      <4>4. Path(Work[j]) # Path(Job) => Path(Work[j]) \in stored'
        BY <2>8, <3>6, <4>1
      <4>5. Path(Work[j]) \in stored' => Done(j)'
        BY <3>6 DEF Done, Path
      <4> QED BY <3>6, <4>2, <4>3, <4>4, <4>5
    <3>7. CASE Done(j)
      BY <3>4, <3>5, <3>6, <3>7
    <3> QED BY <3>1, <3>7
  <2> QED BY <2>10, <2>11, <2>12, <2>13 DEF Health
<1> QED BY <1>1, <1>2, <1>3, HonestMoves

LEMMA HealthyInit ==
  ASSUME NewBackup
  PROVE  Init => Health
<1> SUFFICES ASSUME Init
             PROVE  Health
  OBVIOUS
<1>1. Smooth
  BY WorkType DEF Init, Smooth
<1>2. OneThing
  <2> DEFINE hello == [verb |-> "connect", arg |-> << >>]
  <2>1. cmds = <<hello>> /\ hello.verb = "connect" /\ inbox = << >> /\ xfer = << >> /\ pc = "greet"
    BY DEF Init
  <2> HIDE DEF hello
  <2>2. Head(cmds) = hello /\ Len(cmds) = 1
    BY <2>1
  <2> QED BY <2>1, <2>2 DEF OneThing, Ordered
<1>3. Unmade
  <2>1. DOMAIN Work = 1 .. Len(Work)
    BY WorkType
  <2> QED BY <2>1 DEF Init, Unmade, NewBackup
<1>4. Kept
  BY DEF Init, Kept
<1> QED BY <1>1, <1>2, <1>3, <1>4 DEF Health

LEMMA HealthyStep ==
  ASSUME NewBackup
  PROVE  IInv /\ Healthy /\ [Next]_vars => Healthy'
<1> SUFFICES ASSUME IInv, Healthy, [Next]_vars, ~slow', ~refused'
             PROVE  Health'
  BY DEF Healthy
<1>1. TypeOK
  BY DEF IInv
<1>2. CASE Client
  BY <1>1, <1>2, HealthIsLost, HealthyClient DEF Healthy
<1>3. CASE Serves
  BY <1>1, <1>3, HealthIsLost, HealthyServer DEF Healthy
<1>4. CASE HangUp
  BY <1>4 DEF HangUp, Refuse
<1>5. CASE UNCHANGED vars
  <2>1. UNCHANGED <<pc, rc, k, retry, sock, conn, sent, cmds, inbox, closed, cwd, dirs, stored, port,
                    xfer, slow, slowPwd, refused, cut>>
    BY <1>5 DEF vars, client, server, ghosts
  <2>2. Smooth' /\ Unmade' /\ Kept'
    BY <2>1 DEF Healthy, Health, Smooth, Unmade, Kept, Done, Path, Job
  <2>3. OneThing'
    BY <2>1 DEF Healthy, Health, OneThing, Ordered, Wanted, Job
  <2> QED BY <2>2, <2>3 DEF Health
<1> QED BY <1>2, <1>3, <1>4, <1>5 DEF Next, Terminated

\* A new backup on a server that refuses nothing and is never late: no attempt is
\* wasted, no failure reported, and at the end every directory and file and the list
\* itself are there (initRemote, do_backup and all that they call).
THEOREM FtpNoSpuriousFailure ==
  ASSUME NewBackup
  PROVE  Spec => []NoSpuriousFailure
<1>1. Init => Healthy
  BY HealthyInit DEF Healthy
<1>2. IInv /\ Healthy /\ [Next]_vars => Healthy'
  BY HealthyStep
<1>3. IInv /\ Healthy => NoSpuriousFailure
  <2> SUFFICES ASSUME IInv, Health
               PROVE  /\ rc = 0 /\ retry = 0 /\ pc # "aborted"
                      /\ pc = "exit" => k = Len(Work) + 1 /\ \A j \in DOMAIN Work : Done(j)
    BY DEF Healthy, NoSpuriousFailure
  <2>1. rc = 0 /\ retry = 0 /\ pc # "aborted" /\ (pc = "exit" => k = Len(Work) + 1)
    BY DEF Health, Smooth
  <2>2. k = Len(Work) + 1 => \A j \in DOMAIN Work : Done(j)
    <3>1. DOMAIN Work = 1 .. Len(Work) /\ Len(Work) \in Nat
      BY WorkType
    <3> QED BY <3>1 DEF Health, Kept
  <2> QED BY <2>1, <2>2
<1> QED BY <1>1, <1>2, <1>3, FtpInvariant, PTL DEF Spec
=============================================================================
