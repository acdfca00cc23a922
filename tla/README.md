# A TLA+ model of nwbackup

nwbackup is a backup program for DOS. It walks a local directory tree, stores
each file on an FTP server through the mTCP library, and keeps a *control file*
that lists what was stored, so that a later restore can rebuild the tree. This
directory holds TLA+ modules for its core, TLC configurations that check them on
small instances, and TLAPS proofs of all of their invariants for every value of
the constants.

Run everything from this directory:

    tlasany Backup.tla
    tlc -workers 2 -config RoundTrip.cfg MCRoundTrip
    tlapm RoundTripProofs.tla


## 1. The system

| part | code | state it keeps | operations |
|---|---|---|---|
| directory stack | `DIR.C`, `DIR.H` | `dirStack_t`: saved searches, one path, a table of lengths, a count | `initDirStack`, `pushDir`, `popDir`, `freeDirStack` |
| backup traversal | `BACKUP.C` `do_backup`; `openDir`, `getNextFile` of `DIR.C` | the current search and file, four path buffers, `retry_count`, `do_backup_rc`, the control file | one function, a loop over the tree |
| sending one file | `BACKUP.C` `send_file` and the loop around it; `openRemoteFile`, `sendDataRemote`, `closeRemoteFile` of `MTCPFTP.CPP` | position of the local file, `out_buffer`, `chars_left`, the global `dataSocket` | open, send, close, try again |
| control file writer | `CONTROL.C` 25-68 | the file | header, directory, file, CDUP and EOF entries |
| control file parser, restore | `CONTROL.C` 70-212, `RESTORE.C` | the read position; the local path | `getNextEntry`, the `parse...` functions, `do_restore`, `restore_file` |
| control connection | `MTCPFTP.CPP` 130-446, 684-714 | `ctrlSocket`, one command and one reply buffer | `initRemote`, `mkDirRemote`, `chDirRemote`, `closeRemote` |
| reply reader | `MTCPFTP.CPP` 732-973, 1016-1052 | none between calls | `pollSocketAndGetFTPRc`, `getLineFromSocket`, `checkforFTPResponse`, `findNextLineBreak`, `parsePASVResponse` |
| receiving | `rcvDataRemote`, `restore_file` | position of the local file | receive, close, try again |
| command line | `NWBACKUP.C` | the position in `argv`, the mode, three names | `main`, `do_diff`, messages |
| rest of the front end | `readConfigParms`, timers | parameters | configuration parsing, progress output |
| environment | mTCP, DOS, the FTP server | TCP queues, directory searches, the remote tree | not in the repository |

`do_backup` is one thread. It calls the stack, the writer and the remote
functions one after the other, and they share buffers with it: `path` is changed
by `popDir`, `curr_dir` is overwritten by `openDir` and by `popDir`, and
`unix_path` is computed from what `path` holds *behind* the terminator when the
walk is at the root. The remote functions share two sockets and one reply
buffer. The only link between a backup and a restore is the control file and
the remote tree.

What is hard in this code is not parallelism inside the program (there is none)
but the following.

* Two actors: every remote call can succeed, fail, time out, or have happened on
  the server while the client thinks it failed. Retries follow, and they find the
  state that the failed attempt left (`curr_fp`, `dataSocket`, the remote file).
* Late answers: a reply that comes after its timeout meets the next call, several
  replies are read at once, and only the code of a reply says what it answers.
* Long legal sequences: pushes and pops that share one path string and one
  caller's buffer; several directories that close in one iteration.
* Partial results: a send that takes only a part of the buffer, no buffer at all,
  or gives no result.
* Streams cut anywhere: a reply that arrives in pieces in a buffer full of old
  ones, the end of a file that looks like the end of the connection.
* Boundaries: the 64th entry of the stack, the 128th character of a path, the
  fourth attempt, the last part of a file, `uint16_t` counts.
* Partial failure: a failed step that must stop the rest, and one that does not.
* Interruption: a backup that ends early leaves a list that a restore may follow,
  an interrupted restore leaves directories that the next one meets.
* Things that must end: the loops over `TARGET_BUSY`, the receive loop, and the
  wait for the server in `closeRemote`.

What makes each part correct:

* stack: it behaves as a stack of (search, path) pairs for every sequence of
  calls, and refuses what would break that;
* traversal: every entry goes to its own remote name; a directory exists on the
  server before anything is put into it; what is stored is listed and what is
  listed can be followed; success means everything was stored; a failure is
  never forgotten; it ends;
* sending: the bytes arrive once, in order and without gaps, over partial sends
  and retries; "sent" means stored; the socket is given back; it ends;
* restore: it rebuilds the tree that was backed up, asks for each file under the
  name it was stored under, and fails only when something outside failed;
* receiving: what arrived is what the local file holds;
* control connection: the walk takes place in the directory of the backup, what
  the client takes for done was done, and a healthy server is never taken for a
  broken one;
* reply reader: a reply gives its code and is read to its end, however the stream
  is cut (three cases in which the code does not manage this are named in section 3);
* command line: what runs is what was asked for, and what cannot be run is refused.

`PROJECT.json` lists the hazards with their lines and the properties that watch
them.


## 2. Modules

| module | what it is |
|---|---|
| `DirStack` | `dirStack_t` and `pushDir` / `popDir` as operators on a record |
| `DirStackApi` | a state machine over `DirStack`: any caller, any calls |
| `PathStack` | the abstract stack of saved pairs that `DirStackApi` implements |
| `Backup` | `do_backup`; extends `DirStack` and drives its operators |
| `BackupProps` | properties of `Backup` over the control file as `do_restore` follows it |
| `FileTransfer` | the abstract transfer of a file that `SendFile` and `ReceiveFile` implement |
| `SendFile` | the retry loop of `do_backup`, `send_file` and the data connection |
| `FtpControl` | all commands of a backup over the control connection, and a server |
| `FtpReply` | one poll after the other over a stream of characters |
| `ReceiveFile` | the retry loop of `do_restore`, `restore_file` and the data connection |
| `Restore` | `do_restore` |
| `RoundTrip` | `Backup` and then restores of what it left: composes `Backup` and `Restore` |
| `CommandLine` | `main`: the arguments of the program |
| `MCCommandLine`, `MCDirStack`, `MCBackup`, `MCSendFile`, `MCFtpControl`, `MCFtpReply`, `MCReceiveFile`, `MCRoundTrip` | the instances TLC checks |
| `SequenceLemmas` | facts about sequences (paths, names, lines) and induction, for the proofs below |
| `DirStackProofs`, `SendFileProofs`, `ReceiveFileProofs`, `FtpControlProofs`, `FtpReplyProofs`, `CommandLineProofs` | theorems and proofs about the module of that name |
| `RoundTripProofs` | the same for `RoundTrip`, whose first half is `Backup` |

How they fit together: `Backup` takes a remote call for one step with every
result it can have. `SendFile` opens up the transfer of a file, `FtpControl` the
commands and replies of all calls, `FtpReply` the reading of one reply.
`ReceiveFile` is to `Restore` what `SendFile` is to `Backup`; what both sides of these two
layers agree on is `FileTransfer`.

Definitions marked *(mutant)* are not part of the model. Each is a plausible bug
of the definition it stands before; substituting it must violate the property
that `PROJECT.json` pairs it with.

### Directory stack

`DirStack` keeps the C structure as it is: `entries`, one `pathName`, the table
`pathSplits` and `nextEntry`. `PushRc` gives `pushDir`'s three refusals in the
order of the code and `PushDir` the structure after an accepted push. `pathSplits`
has as many elements as there are entries, but the length is stored after
`nextEntry` was incremented; the push that fills the last entry therefore writes
behind the array, where the structure has `nextEntry` (a `uint8_t`, hence
`% 256`). `ClearsTail` says when `pushDir` and `popDir` also clear the character
behind the terminator in the *caller's* buffer. A path is a sequence of
elements; when the stack is looked at alone they are characters, so that the
prefix test of `strstr` can accept a path that is no subdirectory (`C:\AB` below
`C:\A`), as the code does.

`PathStack` promises that a pop hands back exactly the pair the matching push
saved. `DirStackApi!Abstract` maps the structure to the sequence of pairs it
stands for.

### Backup traversal

Each action is one stretch of `do_backup` between two points where something
outside can intervene or a loop can turn.

| `pc` | actions | code (`BACKUP.C`) |
|---|---|---|
| `prepare` | `PrepareFails`, `Prepare` | 35-103 |
| `init`, `mkroot`, `cdroot` | `InitRemote`, `MakeBackupDir`, `ChangeDir` | 105-118 |
| `visit` | `PathTooLong`, `VisitDot`, `EnterDir`, `OpenFile`, `OpenFileFails` | 121-178, 208-220 |
| `mkdir` | `MkDirAttempt`: one turn of the loop | 180-197 |
| `send` | `SendAttempt`: one turn of the loop | 222-256 |
| `next` | `NextEntry`, `CloseAndPop`, `LastClose` | 260-277 |
| `finish` | `GiveUp`, `Finalize` | 281-296 |
| `sendctrl`, `close` | `SendControlFile`, `Close` | 298-312 |
| any remote call | `Abort`: `shutdown(-1)`, a failed assertion | `MTCPFTP.CPP` 191-241 |

The buffers are modelled by what the code can tell of them. `path` is the string;
`unix` is what the buffer holds behind the separator that follows the root, which
a shorter string leaves as it was (`UnixAfterCopy`) unless the stack cleared it.
Names are sequences too, so a long name uses up more of `MaxPath` than a short
one; separators are counted with the name they come before.

`curr_dir` is uninitialised when the root is pushed (line 78). When that entry is
popped the code calls `getNextFile` on it; `Strays` are the entries such a search
may still return. With an empty stray the walk ends there. With files and dot entries
it visits them with an empty path, and the model follows it. That such a search returns
no *directory* is an assumption (`BackupWorlds`): the code would enter one
(`BACKUP.C` 153-178), and nothing here says what becomes of the walk then.

`fs` is the local tree and does not change. `acked` and `skipped` are history:
what the remote confirmed, and whether a search was cut short.

Codes of the remote functions are reduced to the three that `do_backup` tells
apart. Any code may come at any time. `send_file` is one step with its three
results here; its inside is in `SendFile`.

### Sending one file

Byte `i` of the local file is the number `i`, and 0 is a byte of memory that is
not of the file. So a gap, a repetition or garbage is visible in `wire` (queued in
this attempt) and `remote` (what the server holds).

| actions | code |
|---|---|
| `OpenOk`, `OpenFailsEarly`, `OpenRefused`, `OpenUnanswered` | `openRemoteFile`, `MTCPFTP.CPP` 451-552 |
| `OpenAsserts` | `openDataSocketPASV`, 1057-1061 (assertions are compiled in) |
| `ReadFull`, `ReadTail`, `ReadError` | `send_file`, `BACKUP.C` 330-339, 361-364 |
| `SendFull`, `SendTail`, `TailDone` with `SendDataRemote` | `BACKUP.C` 341-388 with `MTCPFTP.CPP` 554-622 |
| `Close`, `CloseLocal` with `Deliver` | `BACKUP.C` 391-410 with `MTCPFTP.CPP` 656-669 |
| `TryAgain` | the loop around `send_file`, `BACKUP.C` 222-255 |

`sendDataRemote` leaves both of its results unset when the outgoing queue has no
room. Reading them is undefined; the model lets `sendRc` be anything and keeps
the old count in `charsSent`, as the local variable of the caller does. The
history variable `unset` marks the attempts in which that happened. `sock` tells a
data socket that is NULL from one that is open and from one that was freed while
the pointer stayed.


### The transfer both layers agree on

`FileTransfer` says what one attempt is for `do_backup` and `do_restore`: `Attempt(r)` with a result of
0, -1 or -2, and `Verdict(r)`, which is what the loops make of it (-2 before the count, the count
before 0). What the other side holds once the file counts as transferred is one of `Parts`:
with `Resumes` a later attempt may leave out the beginning (sending), with `EndsEarly` the end may be
missing (receiving). `flawed` stands for what the caller cannot see: results that were not
set and queued bytes that were lost, a full disk and a null stream (`Derail`). `SendFile!Abstract` and
`ReceiveFile!Abstract` map to it; an attempt is one step there, taken when its result is
looked at, and everything before is stuttering.

### Control connection

`FtpControl` follows the calls in the order in which `do_backup` makes them; the
walk is reduced to a list `Jobs` of directories and files, and the control file
comes last. A reply is one element of `inbox` and may arrive at any time.

| `pc` | actions | code (`MTCPFTP.CPP`) |
|---|---|---|
| `greet`, `user`, `pass`, `cwdroot` | `InitStage`, `InitDone`, `InitFails` | `initRemote`, 248-323 |
| `mkroot`, `mkrootpoll`, `d`, `mkdpoll` | `MakeRoot`, `MakeRootPoll`, `MakeDir`, `MakeDirPoll` | `mkDirRemote`, 326-381 |
| `chdir`, `chdirpoll`, `pwdpoll` | `ChangeDir`, `ChangeDirPoll`, `PwdPoll` | `chDirRemote`, 384-446 |
| `f`, `c`, `pasvpoll`, `storpoll` | `OpenFile`, `PasvFails`, `OpenAsserts`, `Connect`, `ConnectFails`, `StorPoll` | `openRemoteFile`, 451-552 |
| `send`, `closepoll` | `Transfer`, `ClosePoll` | `closeRemoteFile`, 656-669 |
| `quit`, `quitwait` | `Quit`, `QuitWait` | `closeRemote`, 684-704 |

A call first looks for characters nobody asked for (`Quiet`, `Unexpected`), sends
its command, and polls: `Answered` takes *everything* that has arrived and uses the
first reply only, `TimedOut` gives up while the reply may still be on its way.
`AttemptFails` and `AttemptSucceeds` are the loops of `do_backup` around the calls.
The server (external) reads one command at a time, may refuse any, keeps its
directory, its tree, its port and its transfer, and may hang up. Codes it never
sends to a command are left out; those that two commands share (257 for MKD and
PWD, 250, 550, 226) are there, because they are what a client can confuse.
`Names` are the names a path on the server is made of; a job may have the name of
the list, `CONTROL.NFO`, which the backup then overwrites at its end.

### Reply reader

`FtpReply` works on characters. `Recv(n)` is one successful `recv` of
`getLineFromSocket`, `ParseLine` one turn of the loop in `pollSocketAndGetFTPRc`
with `checkforFTPResponse` (`Check`) and `findNextLineBreak` (`LineBreak`).
`cmdResponseBuffer` keeps old bytes behind what was received, and `At` says what
lies behind its end. The count that `findNextLineBreak` goes on with still holds
the two characters of the line end, so the loop can look past what was received;
`misread` marks a poll in which it found digits there. A line of a reply may be empty
or have digits at its beginning. An empty one that is received by itself is shorter
than three characters, which `checkforFTPResponse` calls too short and the poll a loss of
synchronization; `lone` marks that. `HangUp` closes the connection: a poll that
comes to an end of a reply afterwards gives -1 (797-800), whatever it has read.

### Receiving one file

| actions | code |
|---|---|
| `Fopen`, `FopenFails`, `Fclose` with `Flush` | the loop of `do_restore`, `RESTORE.C` 214-246 |
| `OpenOk`, `OpenFails`, `OpenAsserts` | `openRemoteFile` for RETR |
| `Receive`, `ReceiveNoRoom` | `restore_file`, `RESTORE.C` 330-364, with `rcvDataRemote`, `MTCPFTP.CPP` 624-654 |
| `Close` | `closeRemoteFile` |
| `Give`, `End` | server and network (external) |

The stream's buffer (`cache`) stands between `fwrite` and the disk, because
`fclose` is where a full disk shows and its result is not looked at. A turn of the
loop that gets nothing while the connection is open changes nothing and is no
step.

### Restore

`Restore` has one action per kind of entry: `Header`, `MakeDir`, `FileAttempt`,
`CdUp`, `EndOfList`, and `Unexpected` when the parser has nothing left. The
parser's local state is the read position; what it would make of a control file
of which only the beginning came is in `GetList` and `Torn`: the last entry may be
torn inside its name, or right after its letter, when the buffer still holds a
field of an earlier entry (`Junk`). `path` and `unix` are the two path buffers;
`RemoteName` ignores `unix` at the root, where `CdUp` leaves it stale. `Again`
interrupts a restore at any point and starts it anew in the same directory.

`RoundTrip` runs a whole `Backup`, through all failures it can have, and then
restores. The control file is there when all of it was sent, and a file is there
when the server confirmed it.

### Command line

`CommandLine` follows `main`: `NextArgument`, one action per letter (`Choose`,
`LogFile`, `Refuse`), `EndOfArgument`, `Operands` with the difference of 16 bits, and
`Run`. Names are indices of `argv`, so one that was not given shows as an index
behind its end. `Kind` says independently what each argument is; the properties
compare the two.


## 3. What TLC checks

| run | bounds | states | result |
|---|---|---|---|
| `dirstack` | 4 entries, caller stops at 3, paths of up to 3 characters over {a, b}, `MaxPath` 2, 2 searches | 18 352 | passes |
| `roundtrip` | 6 trees, `MaxPath` 5, `OpenMax` 4, 5 entries, two restores | 435 870 | passes |
| `sendfile` | files of 0 to 7 bytes, buffer 4, packet 2, word 8, lossy network | 330 004 | passes |
| `receive` | files of 0 to 5 bytes, buffer 2, window 3 | 3 526 | passes |
| `ftp` | 2 directories, 1 file, the control file; 3 server trees | 140 851 | passes |
| `reply` | 6 dialogues of 2 or 3 replies, buffer 22 | 139 987 | passes |
| `options` | up to 5 arguments out of 10 | 740 522 | passes |
| `backup_fourth` | the trees of `roundtrip`, without restores | | violated |
| `sendfile_retry`, `sendfile_full`, `sendfile_refused`, `receive_cut` | as the run of that name | | violated |

The passing runs check, besides one type invariant each:

*Stack*

* `SplitsNested`: the recorded lengths never shrink towards the top and the last
  is the length of the kept path. This is what makes truncation a correct pop.
* `ImplementsPathStack`: the structure implements `PathStack!Spec`.

*Traversal*

* `MirrorsSource`: at every send and MKD, root and remote name together are the
  local path, through pushes, pops and the shared buffer.
* `ConfirmedIsListed`: at every moment, so also if the program dies there, what
  the server has confirmed is found by a restore that follows the list written so
  far, under the same name.
* `ParentFirst`: nothing is confirmed in a directory that was not confirmed
  before, and all of it is of the local tree.
* `CompleteOnSuccess`: a backup that returns 0 has stored and listed the whole
  tree (once each, if the stray search is empty), unless findnext failed.
* `FailureIsFinal` (action property): after a failure nothing is listed or stored
  any more and the failure is not overwritten with success.
* `Terminates`: the walk ends for any answers of the server.

*Sending*

* `NoGap`: in an attempt whose calls all set their results, the bytes queued are
  those of the file from where the attempt began, and reading goes on behind them.
* `StoresTheRest`: when the loop counts the file as sent, and nothing was lost or
  unset in that attempt, the server has all of it from where the attempt began;
  after a first attempt that is all.
* `ImplementsFileTransfer`: the loop is the transfer `do_backup` takes it for: at most four
  attempts, and what counts as sent is the whole file in a first attempt and its end in a
  later one.
* `Terminates`: the loop of one file ends unless it runs on unset results.

*Receiving*

* `KeepsWhatArrived`: a file that counts as restored holds every byte the server
  sent before the connection was closed, once and in order. That needs the test
  for the end of the data to wait for a read that is not full, since more than a
  buffer may be left when the connection closes.
* `ImplementsFileTransfer`: the loop is the transfer `do_restore` takes it for: at most four
  attempts, each of which begins at the beginning of the file and may end before its end.
* `Terminates`: the loop ends when the server closes in the end.

*Control connection*

* `InRightPlace`: the walk begins and goes on only in the directory of this backup,
  although `initRemote` sends its next command after a wrong reply and
  `chDirRemote` may return a result it never set.
* `DoneIsDone`: however late replies come, a directory the walk takes for made
  exists, a file it takes for stored is stored or on its way. Three exemptions show
  what the code does get wrong: a transfer that fails after the last byte was
  queued, an answer to PWD that comes after its one second and is taken for the
  answer to the first MKD, and a `CONTROL.NFO` in the directory that is backed up,
  whose place the list takes (`Overwritten`). The first exempts all files, the second all
  directories, for the rest of the run.
* `SendsToItsOwn`: the data of a file only goes to the transfer of its own STOR.
* `InStep`: while no poll has timed out, nothing is left over between two calls.
* `NoSpuriousFailure`: with a server that refuses nothing and answers in time the
  backup succeeds without one repeated attempt, and its list is stored.
* `Terminates`: the backup ends, also over a connection that was closed.

*Reply reader*

* `WholeReply`: a poll that began with nothing outstanding and did not time out gives the
  code of its reply, or -1 when the server has closed the connection, and has taken all of
  the reply, wherever the stream was cut. Three kinds of polls are exempt, in
  which the code does go wrong: the buffer was filled (a piece that ends inside a code is
  taken for the end), a line that is empty was received by itself, or the search for the
  next line found a code in old bytes.

*Round trip*

* `RebuildsTree`: a restore that reports success has made every directory and file
  of the tree that was backed up and nothing else, also when the control file came
  only in part: the end entry is what tells.
* `AsksForItsOwn`: each file is asked for under its own path, although `unix_path` is
  stale at the root.
* `FailsForAReason`: a restore of a list that was confirmed fails only when
  something outside fails.
* `StaysInBuffer`: no path of a restore outgrows its buffer if `local_dir` is no
  longer than the directory that was backed up. The instances satisfy `ShortStrays`:
  nothing that the search that was never opened may return is too long below that
  directory. The backup does not check it, since its path is empty by then.
* `OnlyIntoItsOwn`: below its own root a restore writes only into directories that
  it made itself, also when an earlier one was interrupted there; `_mkdir` refuses
  one that exists, which makes an interrupted restore impossible to repeat.

*Command line*

* `RunsWhatWasAsked`: the part that runs is that of the mode given, on the first two
  operands, with the log file of the last `-l`.
* `RefusesOnlyBad`: arguments are refused when they are too few, an option is bad or
  operands are missing, and no others are.

Both exempt a last `-l` without a value, and say nothing of modes that exclude each other
in two options (`Exclusive`): the program calls them mutually exclusive (`NWBACKUP.C`
51-75, 160), but leaves open whether a later option may overrule an earlier one (129-131).

### Bounds

*Stack.* Three levels with paths shorter than, as long as and longer than
`MaxPath` reach all nestings and the refusals of a path that is too long or no
subdirectory. The refusal of a full stack (-2) cannot be reached: the caller's `Limit`
keeps it off the last entry, since the push that fills it stores its length behind
`pathSplits`, in `nextEntry` itself.

*Backup.* `OpenMax` is smaller than `MaxPath` because `\*.*` must fit behind a
path that is opened: a directory at the fourth level is pushed and does not open.
`roundtrip` checks the backup too, as its first half. The trees have an empty root, a
root with only a dot entry, empty directories, neighbours, equal names at two places, a directory that is the last entry of its
parent (so that two close in one iteration), a chain that is too deep and a name
that is too long. The error codes -3 (root not pushable) and -12 (push refused
inside the walk) are in the model but not reached by these trees; -11 is not
modelled, since `createUnixName` cannot fail on a path that fits its buffer.

*Sending.* A buffer of 4 and a packet of 2 make every full buffer go out in part
and a last part of 3 bytes in two pieces. Files are empty, shorter than, as long
as and longer than a buffer. `Word` stands for 2^16 and lets `chars_left`
wrap. `MaxWire` bounds the bytes queued in an attempt; as long as every call
sets its results no more than the length of the file is queued, so it cuts off
only endless garbage after an unset result. Then a send may still find no buffer,
no room, or the connection closed.

*Receiving.* A window of 3 above a buffer of 2 leaves more than a buffer behind when
the server closes; the files are shorter than, as long as and longer than either.

*Control connection.* A directory, one in it, and a file: every call follows every
other. The root directory of the server is missing, there, or holds a directory
of the same name. The attempts bound the commands, so no queue needs a bound.

*Command line.* Five arguments hold two options, a log file and both operands. The
ten have each mode alone and before another, `-l` alone, behind and before a
letter, help, a single hyphen and a name.

*Reply reader.* Replies with one line, with several of equal and of different
length, with and without text behind the code, with two codes, with an empty line or one
of two digits, and one that does not fit the 22 characters. The buffer is fresh, filled with digits or letters.
Every way to cut the stream is tried, with a timeout anywhere.

*Round trip.* The trees above with every way the backup can fail; `MaxRuns` 2,
as a third restore meets nothing that a second does not. `LocalDir` is as long as
the root, the longest for which `StaysInBuffer` is promised.

### Fairness

The program is one thread that goes on while it has a step, so `RFairSpec` has weak
fairness of the steps of the backup (of the restores nothing is assumed) and `FairSpec` of
`SendFile` weak fairness of `Next`. It includes that a remote call returns: mTCP's calls and
the reply reader have timeouts. `closeRemote` has none and relies on the server
to close the connection after QUIT. For `SendFile` there is strong fairness of the
sends that make progress (take bytes or fail): TCP buffers become free, because
the stack retransmits until the peer acknowledges or gives the connection up.
Without it the loop over `TARGET_BUSY` may go on for ever, and nothing in the code
bounds it.

In `FtpControl` the client and the server have weak fairness each: polls end by their
timeouts, the server reads its commands and ends its transfers. In `ReceiveFile`
nothing but the server ends a transfer, so termination is shown on the
assumption that it sends the file and closes (or that the connection breaks).

### Disagreements between code and comments

Five runs show a statement of a comment that the code does not keep; `findings`
in `PROJECT.json` quotes them.

| run | what happens |
|---|---|
| `backup_fourth` | success at the fourth attempt is reported as -17 |
| `sendfile_retry` | a retry sends the rest of the file only, and it counts as sent |
| `sendfile_full` | a full outgoing queue makes the loop use old counts |
| `sendfile_refused` | the socket that is closed after a refused STOR, so that no assertion fails later, makes the assertion of the next attempt fail |
| `receive_cut` | a connection closed in the middle of a file looks like its end |

Other things the models contain that surprise:
the push that fills the 64th entry of the stack writes behind `pathSplits` (hence
`Limit < MaxEntries` in `dirstack`); a CDUP entry is written for the root as well,
which the restore ignores; a findnext error ends a directory like its last entry
(`skipped`); the failure
to send the control file is not a failure of the backup; a second backup into the
same remote directory fails at the first directory that exists; the search for the
next line of a multi-line reply goes on behind the last one, since its count still
has the line ends in it; a mode that excludes another is refused behind one hyphen
only, and runs when given in an argument of its own; a last `-l` makes the count
of what is left wrap, and the program goes on with names that were not given.


## 4. What is proved

TLAPS checks every proof. The assumptions are those the modules state about their
constants, which TLC evaluates for the instances:

* `StackBounds`, `ApiInputs`, `SendBounds`, `ReceiveBounds`, `FtpWork`,
  `RestoreBounds`, `BackupBounds`, `BackupEntries`, `BackupWorlds`: types, and how the sizes
  of buffers relate in the code. `BackupWorlds` also says that the search that was never opened
  (`Strays`) returns no directory, which the code does not ensure and which all theorems about
  the traversal and the restore rest on;
* `BackupTrees`: the local disk is a tree (every directory is an entry of another one,
  no two entries have the same path), as DOS keeps it;
* `FtpReplies`: what a reply of a server is (`IsReply`): it begins and ends with its code, a hyphen
  behind the first code says that more lines follow, a line between that begins
  like a code has that of the reply and a hyphen, and no line contains a line end. Lines may be
  empty. The buffer has more than four characters, and CR is no digit. Nothing is said of how
  long lines and replies are, of what the buffer was filled with, or of how the stream is cut. One
  fact about the memory is in the model itself: what lies before the buffer is no line end, and what
  lies behind it is no digit, hyphen or line end (`EndsLine`, `At`);
* `CommandLineBounds`: `argc` is an `int` of 16 bits.

Some theorems have a hypothesis of their own. Those of `DirStackProofs` assume `Limit <
MaxEntries`, without which they are false (the push that fills the last entry
overwrites the count). `FtpNoSpuriousFailure` assumes `NewBackup`: the backup's
directory has none of the walk's directories yet, and the walk names none twice;
otherwise a healthy server rightly refuses an MKD. `RestoreStaysInBuffer` assumes
`ShortStrays`. The instances check both with `ASSUME`.

**Stack** (`DirStackProofs`). `StackTypes` and `StackSafe` prove `TypeOK` and
`SplitsNested`, and `StackImplementsPairs` that the specification implements
`PathStack!Spec`. The invariant needs no more than the two, but the refinement needs
that a pop of any depth finds the prefix that was current then, which follows from the
nesting and from the prefix test of `pushDir`.

`SequenceLemmas` has the facts about prefixes and concatenation that the proofs
about paths and about replies share, and induction. The library's induction theorems take a predicate as a parameter,
which the installed provers cannot instantiate; stated for the *set* of numbers of which
something holds (`Inductive`, from the well-foundedness of `<`) it can be used. That is
what the facts about `FlattenSeq` (names put one behind the other), the folds over the control
file and the kinds of arguments rest on.

**Traversal** (`RoundTripProofs`, first part). `BackupTypes`, `WalkMirrorsSource`, `FailuresAreFinal`, then
`ParentsComeFirst`, `ConfirmedAreListed` and `SuccessIsComplete`. `MirrorsSource` is far
from inductive: after a pop, path and search come from the stack, so the invariant has to
say what the stack holds. `Inv` has these parts:

* `Tries`: the retry counter stays within its bound until an attempt gives up;
* `StackInv`: the lengths are nested (`Nested`), begin at the root, end at the
  current path and grow by at least one element per level (`Lengths`), the current
  path is one that could be opened and the stack is not full (`Room`), and the
  saved search of each depth is the search of the path recorded for that depth
  (`Saved`);
* `Here`: the current search, the current path and the bytes behind the root in
  the path buffer belong together;
* `Targets`: the remote name was built from them.

`Room` with `Lengths` is where `BackupBounds` is used: each level of a path takes at least one
element, so a path short enough to be opened cannot fill the stack
(`OpenMax + 1 < Len(Root) + MaxEntries`; in the code 124 characters give at most
63 levels of 64 entries). This is why the overrun of the last entry cannot corrupt a
walk that goes on.

`Journal` ties the list to the stack. `Charted` says that a restore that has followed the list
so far is in the directory the walk is in, and that going up `i` times leads to the
directory saved at that depth; so the fold over the list, which only grows at its end, is
known from the stack. `Searched` says whose entries are still to come, `Made` that all
directories on the way are on the server, `Announced` that what is being sent is
listed.

`Account` is what completeness takes: nothing is forgotten of a directory that is there
(`Covered`: an entry of it is listed, or still to come in the search of its level),
what is listed is sent or was given up (`Delivered`), nothing is listed twice or before its
time (`Fresh`, `Once`, which need `BackupTrees`), what is listed below a directory is listed
after it (`Opens`), nothing is listed that is not there (`Sources`), and only a walk that came to
its end writes the end of the list (`Ending`).

**Sending** (`SendFileProofs`). `SendTypes`, `SendLeavesNoGap`, `SentFileIsStored` and
`SendImplementsTransfer`. `Inv` adds to the type invariant

* `Buffer`: where in the file `out_buffer` was read from and how much is in it;
* `Attempts`: the attempts are counted, and the first begins at the beginning of the
  file;
* `Transfer`: for an attempt whose calls set their results, the bytes queued are
  a slice of the file from `start`, and at each `pc` how the end of the slice, the
  file position, `since` and `left` add up;
* `Stored`: what the server holds once the loop counts the file as sent.

`SendBounds` has `Payload < Word`, without which `chars_left` could not hold a
full buffer. The refinement rests on `Stored` and `Attempts`: what is stored begins where the last
attempt began, which is the beginning of the file if it was the first.

**Receiving** (`ReceiveFileProofs`). `ReceiveTypes`, `ReceivedIsKept` and
`ReceiveImplementsTransfer`. `Kept` follows
the bytes on their way: while the transfer is on, what the server has sent is, in
this order, on the disk, in the stream's buffer and in the socket; when it is over
the socket is empty, since only a read that was not full ends it; after `fclose`
the stream's buffer is. `Split` and `FirstGrows` are the facts about sequences
that this takes. In the refinement an attempt is what `retry_count` counts, here and in
`SendFile`; that none goes uncounted is for `Terminates`, since such a loop would not end.

That `Backup!SendAttempt` and `Restore!FileAttempt` make of each result what `FileTransfer` makes of
it is `SendAttemptAgrees` and `FileAttemptAgrees` in `RoundTripProofs`: the two layers meet in
`Verdict`.

**Control connection** (`FtpControlProofs`). `FtpTypes`, `FtpInRightPlace`, `FtpSendsToItsOwn`,
`FtpDoneIsDone`, `FtpInStep` and `FtpNoSpuriousFailure`, for any list of jobs. What the client has
to know of the server is never in its variables but in the commands and replies under way, so
the inductive invariant (`IInv`) says what these can be:

* `Calls`: where the client is, and with what;
* `Prelude`: until the walk begins, and as long as nothing has failed, one command or one reply
  is under way and no more (this is why a wrong reply in `initRemote` cannot take the
  walk to another directory);
* `Place`: from then on the server is in the backup's directory and no CWD will ever come;
* `DataLine`: every STOR under way is for the job the client is at, and while the client has
  no data socket neither a STOR nor a 150 is under way; so a 150 it takes is about
  the transfer its socket is for;
* `Ledger`: unless PWD was answered late, a 257 under way means that the directory of the job the client
  is at exists, and an MKD under way is for that job or for a directory that exists.

`TurnOver`, for `InStep`, says that it is the client's turn or the server's while no poll has
timed out. `Health`, for `NoSpuriousFailure`, describes a backup in lock-step: each command has the
one answer the client waits for (`Smooth`, `OneThing`), and what is to be made is not there
(`Unmade`).

**Round trip** (`RoundTripProofs`, second part). `RestoreTypes`, `RestoreAsksForItsOwn`,
`RestoreOnlyIntoItsOwn`, `SuccessRebuilds`, `FailuresHaveReasons`, `RestoreStaysInBuffer`. The
proofs stand on those about the backup, which is half of the specification. `RInv`: what a restore reads is a
list that the backup wrote, cut or not (`Received`); it is at its root or in a directory all of
whose levels it has made itself, and whose path `unix_path` holds (`OnTheWay`). `Progress`: what was
made is what the list names as far as it was followed (`AsListed`), a list that has an end came
whole (`CameWhole`), and every failure and repeated attempt has a reason (`Excused`). With
`Account`, which makes a list with an end name the whole tree, this gives `RebuildsTree`; with `Fitting`,
the lengths the backup has looked at, it gives `StaysInBuffer`.

**Command line** (`CommandLineProofs`). `CommandLineTypes`, `RunsAsked` and `RefusesBad`, for
any arguments. `LInv` puts the loop of `main`, which looks at each argument once, next to
`Kind`, which says what an argument is from all before it: behind `count` there are only options and
their values (`Scanned`), this option's letters up to `i` are spelled as they may be (`Spelled`), no
option behind is bad (`Good`), mode and log are those of the last option that gave one (`Asked`).

**Reply reader** (`FtpReplyProofs`). `ReplyTypes` and `ReplyIsWhole`, for replies of any number of lines
of any length, empty ones too. `WholeReply` speaks of the end of a poll only, so the invariant (`RInv`) follows
the poll through the reply, in the characters of the reply, in which line `n` ends at
`Ends(r, n)`:

* `Received`, `NetFrom`, `BufFrom`: what has come and what is still under way are, put together, the
  rest of the reply;
* `Gathering`: what is received into the buffer begins where a line begins, with the code that was seen
  before if it is not the first;
* `Parsing`: once it is looked at it ends where a line ends. That is `BreakIsEnd`: CR LF stands nowhere in
  a reply but at its line ends, so a piece that ends in it is a number of whole lines however the
  stream was cut. A full buffer can end anywhere, which is why `full` is exempt;
* `AtLine`, `Behind`: the loop is at the beginning of a line, with two characters too many in
  `charsLeft` for each line behind it (the code never takes them off, so an empty line is only too
  short when it is the first of a piece, and then the piece is no more than that: `lone`), or it has run out of what was
  received and looks at old bytes. It can take those for a code, which is why `misread` is exempt; if it
  does not, it goes back to receiving;
* `Answered`: `WholeReply` at the end of the poll.

That the loop finds the ends of all lines is by induction over them (`LineThere`, `BreakThere`, `CheckLine`), which
`Inductive` gives.

**Only model-checked.** The liveness properties (`Terminates`), because liveness and `ENABLED` are out of the
prover's reach. All other properties of the runs that pass have a theorem. The inductive invariants are
definitions of the proof modules; no run checks them.


## 5. What is not modelled

* The characters of a PASV reply (`parsePASVResponse`): `FtpControl` takes a 227 to give
  the port it names, and every other reply to give none.
* The restore's own sequence of commands: `Restore` takes every remote call for
  one step with every result, and `FtpControl` has the order of the backup. The
  functions are the same.
* The control file's columns for attributes, times and sizes, and setting them
  on the restored file, whose failure is only a warning; the escaping of
  backslashes, which only the header has and nothing reads.
* A disk that changes while it is backed up; write errors of the control file
  (the code does not look at the results of its `fprintf` calls).
* `abortXfer`, which nothing calls;
  `freeDirStack`, which only releases memory.
* Configuration, timers, progress output: one pass over their input, no state that
  a later step reads; the messages of `main`, and `do_diff`, which does nothing. The DOS and mTCP calls are external and modelled
  by their results.
* The keyboard. Ctrl-Break is only looked at while a name is resolved and before a
  packet is sent, where it is one more result that ends the attempt.


## 6. Plan

Done: all modules of section 2, with theorems about all their invariants and refinements. Left:

1. `Escape`: `expandBackslashes` and the reading of it, as operators checked against
   each other.
2. The restore's own sequence of commands in `FtpControl`.
