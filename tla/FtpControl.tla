----------------------------- MODULE FtpControl -----------------------------
(***************************************************************************)
(* The control connection: initRemote, mkDirRemote, chDirRemote,           *)
(* openRemoteFile, closeRemoteFile and closeRemote, called in the order in *)
(* which do_backup calls them, with an FTP server at the other end.        *)
(*                                                                         *)
(* A reply is whole here (FtpReply has the reading of one) and arrives in  *)
(* order but at any time: before, with or after the next one, and after    *)
(* the client has given up waiting for it.  The server handles one command *)
(* at a time and may refuse any; the client is a single thread.            *)
(***************************************************************************)
EXTENDS Integers, Sequences, SequencesExt

CONSTANTS
  Names,       \* what a file or directory may be called
  RootDir,     \* parms->RootDir
  BackupDir,   \* remote_name: the directory of this backup
  Jobs,        \* what the walk asks for, in order: [op : {"d", "f"}, name : path]
  ServerTrees  \* the directories that may be on the server beforehand

MaxRetries == 3          \* retry_count =< 3
Control == [op |-> "c", name |-> <<"CONTROL.NFO">>]
Work    == Append(Jobs, Control)

ASSUME FtpWork ==
  /\ {RootDir, BackupDir, "CONTROL.NFO"} \subseteq Names
  /\ Jobs \in Seq([op : {"d", "f"}, name : Seq(Names) \ {<< >>}])
  /\ \A t \in ServerTrees : t \subseteq Seq(Names) /\ << >> \in t

VARIABLES
  pc,       \* where the client is: a call, or a poll for its reply
  rc,       \* do_backup_rc
  k,        \* the job of Work the walk is at
  retry,    \* retry_count
  sock,     \* dataSocket: "null", "open", or "freed" but not NULL
  conn,     \* the server's port the data connection goes to, 0: there is none
  sent,     \* send_rc of the last transfer: all of the file was queued
  cmds,     \* the commands on their way to the server
  inbox,    \* the replies that have arrived and were not read
  closed,   \* the server has closed the control connection
  cwd,      \* server: its working directory
  dirs,     \* server: the directories that exist
  stored,   \* server: the files stored as a whole
  port,     \* server: the port of its last PASV
  xfer,     \* server: the transfer it is busy with, a sequence of at most one
  slow,     \* history: a poll of the client timed out
  slowPwd,  \* history: the poll for the answer to PWD timed out
  refused,  \* history: the server refused something, or a connection broke
  cut       \* history: a transfer failed after all of the file was queued

client == <<pc, rc, k, retry, sock, conn, sent>>
server == <<cwd, dirs, stored, port, xfer>>
ghosts == <<slowPwd, refused, cut>>
vars   == <<client, cmds, inbox, closed, server, slow, ghosts>>

Job     == Work[k]
Backup  == <<RootDir, BackupDir>>
Path(j) == Backup \o j.name

Init ==
  /\ pc = "greet" /\ rc = 0 /\ k = 1 /\ retry = 0
  /\ sock = "null" /\ conn = 0 /\ sent = FALSE
  /\ cmds = <<[verb |-> "connect", arg |-> << >>]>>
  /\ inbox = << >> /\ closed = FALSE
  /\ cwd = << >> /\ dirs \in ServerTrees /\ stored = {}
  /\ port = 0 /\ xfer = << >>
  /\ slow = FALSE /\ slowPwd = FALSE /\ refused = FALSE /\ cut = FALSE

-----------------------------------------------------------------------------
(* Talking to the server *)

\* A command sent after the server has closed goes nowhere.
Send(verb, arg) ==
  cmds' = IF closed THEN cmds ELSE Append(cmds, [verb |-> verb, arg |-> arg])

\* pollSocketAndGetFTPRc takes all that has arrived and looks at the first
\* reply; -1 when the connection is closed behind it, -2 when none came in time.
Code == Head(inbox).code
Answered   == inbox # << >> /\ ~closed /\ inbox' = << >> /\ UNCHANGED slow
HungUpOn   == inbox # << >> /\ closed /\ inbox' = << >> /\ UNCHANGED slow
TimedOut   == inbox = << >> /\ slow' = TRUE /\ UNCHANGED inbox
Unanswered == HungUpOn \/ TimedOut

\* "Here, we don't WANT any characters to arrive": what came in meanwhile is
\* thrown away, and no command is sent.
Unexpected == inbox # << >> /\ inbox' = << >> /\ UNCHANGED <<cmds, slow>>
Quiet      == inbox = << >> /\ UNCHANGED <<inbox, slow>>

-----------------------------------------------------------------------------
(* initRemote *)

\* The reply that each stage wants, and the command and the stage after it.
Stages == [ greet |-> [code |-> 220, verb |-> "USER", arg |-> << >>, next |-> "user"],
            user  |-> [code |-> 331, verb |-> "PASS", arg |-> << >>, next |-> "pass"],
            pass  |-> [code |-> 230, verb |-> "CWD",  arg |-> <<RootDir>>, next |-> "cwdroot"] ]

\* "Not continuing": the next command is sent all the same.
InitStage ==
  /\ pc \in DOMAIN Stages /\ Answered
  /\ LET s == Stages[pc]
     IN  /\ Send(s.verb, s.arg)
         /\ IF Code = s.code THEN pc' = s.next /\ UNCHANGED rc
                             ELSE pc' = "mkroot" /\ rc' = -7
  /\ UNCHANGED <<k, retry, sock, conn, sent, closed, server, ghosts>>

\* (mutant) The reply to CWD is not looked at.
InitDoneTrusts ==
  /\ pc = "cwdroot" /\ Answered
  /\ pc' = "mkroot"
  /\ UNCHANGED <<rc, k, retry, sock, conn, sent, cmds, closed, server, ghosts>>

InitDone ==
  /\ pc = "cwdroot" /\ Answered
  /\ rc' = IF Code = 250 THEN rc ELSE -7
  /\ pc' = "mkroot"
  /\ UNCHANGED <<k, retry, sock, conn, sent, cmds, closed, server, ghosts>>

InitFails ==
  /\ pc \in DOMAIN Stages \cup {"cwdroot"} /\ Unanswered
  /\ rc' = -7 /\ pc' = "mkroot"
  /\ UNCHANGED <<k, retry, sock, conn, sent, cmds, closed, server, ghosts>>

-----------------------------------------------------------------------------
(* The directory of the backup *)

\* mkDirRemote: 257 and 550 will both do.
MakeRoot ==
  /\ pc = "mkroot"
  /\ \/ Quiet /\ Send("MKD", <<BackupDir>>) /\ pc' = "mkrootpoll" /\ UNCHANGED rc
     \/ Unexpected /\ rc' = -8 /\ pc' = "chdir"
  /\ UNCHANGED <<k, retry, sock, conn, sent, closed, server, ghosts>>

MakeRootPoll ==
  /\ pc = "mkrootpoll"
  /\ \/ Answered /\ rc' = IF Code \in {257, 550} THEN rc ELSE -8
     \/ Unanswered /\ rc' = -8
  /\ pc' = "chdir"
  /\ UNCHANGED <<k, retry, sock, conn, sent, cmds, closed, server, ghosts>>

\* After chDirRemote the walk begins, unless something has failed.
Walk == pc' = IF rc' = 0 THEN Job.op ELSE "quit"

\* chDirRemote.  When characters were waiting its result is never set.
ChangeDir ==
  /\ pc = "chdir"
  /\ \/ Quiet /\ Send("CWD", <<BackupDir>>) /\ pc' = "chdirpoll" /\ UNCHANGED rc
     \/ Unexpected /\ rc' \in {rc, -9} /\ Walk
  /\ UNCHANGED <<k, retry, sock, conn, sent, closed, server, ghosts>>

\* (mutant) The answer to PWD is not waited for.
ChangeDirPollNoPwd ==
  /\ pc = "chdirpoll"
  /\ Answered \/ Unanswered
  /\ IF inbox # << >> /\ ~closed /\ Code = 250
       THEN Send("PWD", << >>) /\ UNCHANGED rc
       ELSE rc' = -9 /\ UNCHANGED cmds
  /\ Walk
  /\ UNCHANGED <<k, retry, sock, conn, sent, closed, server, ghosts>>

ChangeDirPoll ==
  /\ pc = "chdirpoll"
  /\ IF inbox # << >> /\ ~closed /\ Code = 250
       THEN Answered /\ Send("PWD", << >>) /\ pc' = "pwdpoll" /\ UNCHANGED rc
       ELSE /\ Answered \/ Unanswered
            /\ rc' = -9 /\ Walk
            /\ UNCHANGED cmds
  /\ UNCHANGED <<k, retry, sock, conn, sent, closed, server, ghosts>>

\* One second for the answer to PWD, which nobody looks at.
PwdPoll ==
  /\ pc = "pwdpoll"
  /\ Answered \/ Unanswered
  /\ slowPwd' = (inbox = << >>)
  /\ UNCHANGED rc /\ Walk
  /\ UNCHANGED <<k, retry, sock, conn, sent, cmds, closed, server, refused, cut>>

-----------------------------------------------------------------------------
(* One job: a directory, a file, the control file.                         *)

\* (mutants) One attempt more than retry_count allows; it is not counted.
AttemptFailsOneMore ==
  IF Job = Control
    THEN pc' = "quit" /\ UNCHANGED <<rc, k, retry>>
    ELSE /\ retry' = retry + 1
         /\ UNCHANGED k
         /\ IF retry' =< MaxRetries + 1
              THEN pc' = Job.op /\ UNCHANGED rc
              ELSE pc' = "quit" /\ rc' = IF Job.op = "d" THEN -14 ELSE -17
AttemptFailsUncounted ==
  /\ pc' = IF Job = Control THEN "quit" ELSE Job.op
  /\ UNCHANGED <<rc, k, retry>>

\* The attempt failed.  Three more are made, but none for the control file,
\* whose failure is not one of the backup.
AttemptFails ==
  IF Job = Control
    THEN pc' = "quit" /\ UNCHANGED <<rc, k, retry>>
    ELSE /\ retry' = retry + 1
         /\ UNCHANGED k
         /\ IF retry' =< MaxRetries
              THEN pc' = Job.op /\ UNCHANGED rc
              ELSE pc' = "quit" /\ rc' = IF Job.op = "d" THEN -14 ELSE -17

\* It succeeded; the fourth is counted as a failure all the same.
AttemptSucceeds ==
  IF retry + 1 > MaxRetries
    THEN AttemptFails
    ELSE /\ k' = k + 1 /\ retry' = 0
         /\ pc' = IF k' =< Len(Work) THEN Work[k'].op ELSE "quit"
         /\ UNCHANGED rc

MakeDir ==
  /\ pc = "d"
  /\ \/ Quiet /\ Send("MKD", Job.name) /\ pc' = "mkdpoll" /\ UNCHANGED <<rc, k, retry>>
     \/ Unexpected /\ AttemptFails
  /\ UNCHANGED <<sock, conn, sent, closed, server, ghosts>>

\* (mutant) "The directory exists" is good enough, as it is for the backup's own.
MakeDirPollLenient ==
  /\ pc = "mkdpoll"
  /\ IF inbox # << >> /\ ~closed /\ Code \in {257, 550}
       THEN Answered /\ AttemptSucceeds
       ELSE (Answered \/ Unanswered) /\ AttemptFails
  /\ UNCHANGED <<sock, conn, sent, cmds, closed, server, ghosts>>

MakeDirPoll ==
  /\ pc = "mkdpoll"
  /\ IF inbox # << >> /\ ~closed /\ Code = 257
       THEN Answered /\ AttemptSucceeds
       ELSE (Answered \/ Unanswered) /\ AttemptFails
  /\ UNCHANGED <<sock, conn, sent, cmds, closed, server, ghosts>>

\* openRemoteFile: PASV.
OpenFile ==
  /\ pc \in {"f", "c"}
  /\ \/ Quiet /\ Send("PASV", << >>) /\ pc' = "pasvpoll" /\ UNCHANGED <<rc, k, retry>>
     \/ Unexpected /\ AttemptFails
  /\ UNCHANGED <<sock, conn, sent, closed, server, ghosts>>

\* Only the reply to a PASV has six numbers in it.
PasvFails ==
  /\ pc = "pasvpoll"
  /\ \/ Answered /\ Code # 227
     \/ Unanswered
  /\ AttemptFails
  /\ UNCHANGED <<sock, conn, sent, cmds, closed, server, ghosts>>

\* assert((* s) == NULL) in openDataSocketPASV.
OpenAsserts ==
  /\ pc = "pasvpoll" /\ Answered /\ Code = 227
  /\ sock # "null"
  /\ pc' = "aborted"
  /\ UNCHANGED <<rc, k, retry, sock, conn, sent, cmds, closed, server, ghosts>>

\* The port of an older PASV does not answer any more.
Connect ==
  /\ pc = "pasvpoll" /\ Answered /\ Code = 227
  /\ sock = "null" /\ Head(inbox).port = port
  /\ sock' = "open" /\ conn' = port
  /\ Send("STOR", Job.name)
  /\ pc' = "storpoll"
  /\ UNCHANGED <<rc, k, retry, sent, closed, server, ghosts>>

\* closeAndFreeDataSocket clears its parameter, not dataSocket.
ConnectFails ==
  /\ pc = "pasvpoll" /\ Answered /\ Code = 227
  /\ sock = "null"
  /\ sock' = "freed"
  /\ refused' = (refused \/ Head(inbox).port = port)
  /\ AttemptFails
  /\ UNCHANGED <<conn, sent, cmds, closed, server, slowPwd, cut>>

\* (mutant) Every positive reply opens the file.
StorPollLenient ==
  /\ pc = "storpoll"
  /\ \/ /\ Answered /\ Code < 400
        /\ pc' = "send"
        /\ UNCHANGED <<rc, k, retry, sock, conn>>
     \/ /\ Answered /\ Code >= 400
        /\ sock' = "freed" /\ conn' = 0
        /\ AttemptFails
     \/ /\ Unanswered
        /\ AttemptFails
        /\ UNCHANGED <<sock, conn>>
  /\ UNCHANGED <<sent, cmds, closed, server, ghosts>>

\* The reply to STOR.  Without one the data connection stays open.
StorPoll ==
  /\ pc = "storpoll"
  /\ \/ /\ Answered /\ Code = 150
        /\ pc' = "send"
        /\ UNCHANGED <<rc, k, retry, sock, conn>>
     \/ /\ Answered /\ Code # 150
        /\ sock' = "freed" /\ conn' = 0
        /\ AttemptFails
     \/ /\ Unanswered
        /\ AttemptFails
        /\ UNCHANGED <<sock, conn>>
  /\ UNCHANGED <<sent, cmds, closed, server, ghosts>>

\* The loop of send_file and the close of the data connection: all was queued,
\* or a part (the server has given up, the connection broke).  The end of the
\* data reaches a transfer that is still on.
Transfer(all) ==
  /\ pc = "send"
  /\ sent' = all
  /\ refused' = (refused \/ ~all)
  /\ xfer' = [i \in DOMAIN xfer |->
                [xfer[i] EXCEPT !.data = IF all THEN "whole" ELSE "part"]]
  /\ cut' = (cut \/ (all /\ xfer = << >>))
  /\ sock' = "null" /\ conn' = 0
  /\ pc' = "closepoll"
  /\ UNCHANGED <<rc, k, retry, cmds, inbox, closed, cwd, dirs, stored, port, slow, slowPwd>>

\* (mutant) closeRemoteFile does not wait for the reply that ends the transfer.
ClosePollNone ==
  /\ pc = "closepoll"
  /\ IF sent THEN AttemptSucceeds ELSE AttemptFails
  /\ UNCHANGED <<sock, conn, sent, cmds, inbox, closed, server, slow, ghosts>>

\* closeRemoteFile's "dummy read", whatever it gives.
ClosePoll ==
  /\ pc = "closepoll"
  /\ Answered \/ Unanswered
  /\ IF sent THEN AttemptSucceeds ELSE AttemptFails
  /\ UNCHANGED <<sock, conn, sent, cmds, closed, server, ghosts>>

-----------------------------------------------------------------------------
(* closeRemote: it waits, without a limit, for the server to close.        *)

Quit ==
  /\ pc = "quit"
  /\ Send("QUIT", << >>)
  /\ pc' = IF closed THEN "exit" ELSE "quitwait"
  /\ UNCHANGED <<rc, k, retry, sock, conn, sent, inbox, closed, server, slow, ghosts>>

QuitWait ==
  /\ pc = "quitwait" /\ closed
  /\ pc' = "exit"
  /\ UNCHANGED <<rc, k, retry, sock, conn, sent, cmds, inbox, closed, server, slow, ghosts>>

-----------------------------------------------------------------------------
(* The server *)

Reply(c) == inbox' = Append(inbox, [code |-> c, port |-> port'])

\* It has read the next command; no transfer is on.
Handle(verb) ==
  /\ ~closed /\ xfer = << >>
  /\ cmds # << >> /\ Head(cmds).verb = verb
  /\ cmds' = Tail(cmds)
  /\ UNCHANGED <<client, slow, slowPwd, cut>>
Arg == Head(cmds).arg

Accept == UNCHANGED refused
Refuse == refused' = TRUE

\* The greeting, USER, PASS and PWD change nothing that matters here.
Says == [connect |-> {220, 421}, USER |-> {331, 530}, PASS |-> {230, 530}, PWD |-> {257, 501}]

ServeTalk ==
  \E verb \in DOMAIN Says : \E c \in Says[verb] :
    /\ Handle(verb)
    /\ IF c < 400 THEN Accept ELSE Refuse
    /\ UNCHANGED <<server, closed>> /\ Reply(c)

ServeCwd ==
  /\ Handle("CWD")
  /\ \/ /\ cwd \o Arg \in dirs /\ Accept
        /\ cwd' = cwd \o Arg /\ UNCHANGED <<dirs, stored, port, xfer, closed>>
        /\ Reply(250)
     \/ /\ Refuse
        /\ UNCHANGED <<server, closed>> /\ Reply(550)

\* 550 says that it exists, as clients expect, or that it cannot be made.
ServeMkd ==
  /\ Handle("MKD")
  /\ \/ /\ cwd \o Arg \notin dirs /\ cwd \o Front(Arg) \in dirs /\ Accept
        /\ dirs' = dirs \cup {cwd \o Arg} /\ UNCHANGED <<cwd, stored, port, xfer, closed>>
        /\ Reply(257)
     \/ /\ cwd \o Arg \in dirs /\ Accept
        /\ UNCHANGED <<server, closed>> /\ Reply(550)
     \/ /\ Refuse
        /\ UNCHANGED <<server, closed>>
        /\ \E c \in {550, 553} : Reply(c)

ServePasv ==
  /\ Handle("PASV")
  /\ \/ /\ Accept
        /\ port' = port + 1 /\ UNCHANGED <<cwd, dirs, stored, xfer, closed>>
        /\ Reply(227)
     \/ /\ Refuse
        /\ UNCHANGED <<server, closed>> /\ Reply(425)

\* STOR empties the file.  It finds the data connection open, or closed already.
ServeStor ==
  /\ Handle("STOR")
  /\ \/ /\ cwd \o Front(Arg) \in dirs /\ Accept
        /\ xfer' = <<[path |-> cwd \o Arg, data |-> IF conn = port THEN "open" ELSE "part"]>>
        /\ stored' = stored \ {cwd \o Arg}
        /\ UNCHANGED <<cwd, dirs, port, closed>>
        /\ Reply(150)
     \/ /\ Refuse
        /\ UNCHANGED <<server, closed>>
        /\ \E c \in {425, 553} : Reply(c)

\* All the data was there, the client closed early, or the server gives up.
EndTransfer ==
  /\ ~closed /\ xfer # << >>
  /\ xfer' = << >>
  /\ \/ /\ xfer[1].data = "whole" /\ Accept /\ UNCHANGED cut
        /\ stored' = stored \cup {xfer[1].path}
        /\ UNCHANGED port /\ Reply(226)
     \/ /\ xfer[1].data = "part" /\ UNCHANGED <<refused, cut, stored>>
        /\ UNCHANGED port /\ Reply(226)
     \/ /\ Refuse /\ cut' = (cut \/ xfer[1].data = "whole") /\ UNCHANGED stored
        /\ UNCHANGED port /\ Reply(426)
  /\ UNCHANGED <<client, cmds, cwd, dirs, closed, slow, slowPwd>>

ServeQuit ==
  /\ Handle("QUIT")
  /\ Accept /\ closed' = TRUE
  /\ UNCHANGED server /\ Reply(221)

HangUp ==
  /\ ~closed
  /\ closed' = TRUE /\ cmds' = << >> /\ xfer' = << >>
  /\ Refuse
  /\ cut' = (cut \/ (xfer # << >> /\ xfer[1].data = "whole"))
  /\ UNCHANGED <<client, inbox, cwd, dirs, stored, port, slow, slowPwd>>

-----------------------------------------------------------------------------

Ended == pc \in {"exit", "aborted"}

Terminated == Ended /\ UNCHANGED vars

Client ==
  \/ InitStage \/ InitDone \/ InitFails
  \/ MakeRoot \/ MakeRootPoll \/ ChangeDir \/ ChangeDirPoll \/ PwdPoll
  \/ MakeDir \/ MakeDirPoll
  \/ OpenFile \/ PasvFails \/ OpenAsserts \/ Connect \/ ConnectFails \/ StorPoll
  \/ \E all \in BOOLEAN : Transfer(all)
  \/ ClosePoll
  \/ Quit \/ QuitWait

Serves ==
  \/ ServeTalk \/ ServeCwd \/ ServeMkd \/ ServePasv \/ ServeStor
  \/ EndTransfer \/ ServeQuit

Next == Client \/ Serves \/ HangUp \/ Terminated

Spec == Init /\ [][Next]_vars

\* The client is a thread, whose polls end by their timeouts; the server reads
\* its commands and ends its transfers.
FairSpec == Spec /\ WF_vars(Client) /\ WF_vars(Serves)
-----------------------------------------------------------------------------
(* Properties *)

Verbs == {"connect", "USER", "PASS", "CWD", "PWD", "MKD", "PASV", "STOR", "QUIT"}

Walking == rc = 0 /\ pc \in {"d", "mkdpoll", "f", "c", "pasvpoll", "storpoll", "send", "closepoll"}

ClientTypes ==
  /\ pc \in DOMAIN Stages \cup
            {"cwdroot", "mkroot", "mkrootpoll", "chdir", "chdirpoll", "pwdpoll",
             "d", "mkdpoll", "f", "c", "pasvpoll", "storpoll", "send", "closepoll",
             "quit", "quitwait", "exit", "aborted"}
  /\ rc \in {0, -7, -8, -9, -14, -17}
  /\ k \in 1 .. Len(Work) + 1 /\ retry \in 0 .. MaxRetries + 1
  /\ sock \in {"null", "open", "freed"} /\ sent \in BOOLEAN

LineTypes ==
  /\ cmds \in Seq([verb : Verbs, arg : Seq(Names)])
  /\ inbox \in Seq([code : Nat, port : Nat])
  /\ closed \in BOOLEAN

ServerTypes ==
  /\ cwd \in Seq(Names) /\ dirs \subseteq Seq(Names) /\ stored \subseteq Seq(Names)
  /\ port \in Nat /\ conn \in 0 .. port
  /\ xfer \in Seq([path : Seq(Names), data : {"open", "part", "whole"}]) /\ Len(xfer) =< 1

\* The types of the client's variables, of the server's, and of what goes over
\* the connection between them.
TypeOK ==
  /\ ClientTypes /\ LineTypes /\ ServerTypes
  /\ slow \in BOOLEAN /\ slowPwd \in BOOLEAN /\ refused \in BOOLEAN /\ cut \in BOOLEAN

\* The walk only begins, and goes on, in the directory of the backup: a wrong
\* reply on the way, "not continuing", and the result that chDirRemote never
\* sets do not lead there (MTCPFTP.CPP:248-313, 384-446; BACKUP.C:105-121).
InRightPlace == Walking => cwd = Backup

\* The server empties a file whose STOR comes again.
Overwritten(j) ==
  \E i \in j + 1 .. k :
    i =< Len(Work) /\ Work[i].op # "d" /\ Work[i].name = Work[j].name

\* What the walk takes for done was done, and in the right place, however late
\* the replies to earlier commands came: a directory exists, a file is stored or
\* all of it is on the way, unless a later file has its name (the list itself
\* overwrites a CONTROL.NFO of the directory backed up).  Two things exempt the
\* rest of a run: once a transfer has failed behind the last byte queued, which
\* is not looked at, nothing is said of files (cut); once the answer to PWD has
\* come after its one second, when it may be taken for the answer to the first
\* MKD, nothing is said of directories (slowPwd; MTCPFTP.CPP:352-368, 411-417,
\* 494-510; BACKUP.C:298).
Done(j) ==
  CASE Work[j].op = "d" -> Path(Work[j]) \in dirs
    [] OTHER            -> \/ Path(Work[j]) \in stored
                           \/ xfer = <<[path |-> Path(Work[j]), data |-> "whole"]>>
DoneIsDone ==
  \A j \in 1 .. k - 1 :
    IF Work[j].op = "d" THEN slowPwd \/ Done(j) ELSE cut \/ Overwritten(j) \/ Done(j)

\* A file is only sent after the 150 of its own STOR: the server is at it, or
\* has given it up (MTCPFTP.CPP:455-516).
SendsToItsOwn ==
  pc = "send" =>
    /\ sock = "open" /\ conn = port
    /\ \A i \in DOMAIN xfer : xfer[i].path = Path(Job)

\* While no poll has timed out client and server agree on whose turn it is: no
\* command, reply or transfer is left over when the next call begins.  That
\* takes the dummy read of closeRemoteFile (MTCPFTP.CPP:665).
InStep ==
  rc = 0 /\ pc \in {"mkroot", "chdir", "d", "f", "c"} /\ ~slow /\ ~closed =>
    cmds = << >> /\ inbox = << >> /\ xfer = << >>

\* A new backup: no directory of the walk is in the backup's directory before, and
\* no two have the same path.
NewBackup ==
  /\ \A t \in ServerTrees : \A j \in DOMAIN Work :
       Work[j].op = "d" => Path(Work[j]) \notin t
  /\ \A i, j \in DOMAIN Work :
       Work[i].op = "d" /\ Work[j].op = "d" /\ Work[i].name = Work[j].name => i = j

\* With a server that refuses nothing and answers in time a new backup succeeds,
\* without a wasted attempt, and the list is stored too.
NoSpuriousFailure ==
  ~slow /\ ~refused =>
    /\ rc = 0 /\ retry = 0 /\ pc # "aborted"
    /\ pc = "exit" => k = Len(Work) + 1 /\ \A j \in DOMAIN Work : Done(j)

\* The backup ends, also over a connection that was closed or a transfer that
\* got stuck, if the server handles its commands and ends its transfers.
Terminates == <>Ended
=============================================================================
