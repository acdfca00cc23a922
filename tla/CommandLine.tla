---------------------------- MODULE CommandLine -----------------------------
(***************************************************************************)
(* main: how the arguments of the program choose one of its three parts,   *)
(* the names it works on and the log file.                                 *)
(*                                                                         *)
(* An argument is a sequence of characters, since letters may be grouped   *)
(* behind one hyphen.  args[n] is argv[n]; an index of argc or more is an  *)
(* argument that was not given.  argc is an int and count an unsigned      *)
(* short, both of 16 bits (the program is built for DOS).                  *)
(***************************************************************************)
EXTENDS Integers, Sequences, FiniteSets

CONSTANTS
  Arguments,  \* what an argument may be
  MaxArgs     \* bound: how many there are; argc is an int of 16 bits

ASSUME CommandLineBounds ==
  Arguments \subseteq Seq(STRING) /\ MaxArgs \in Nat /\ MaxArgs + 1 < 32768

VARIABLES
  args,     \* argv without the name of the program
  pc,       \* "start", "args" in the loop over them, "letters" in the one below,
            \* "run" when a part is called, "exit" and "refused" behind it
  count, i, \* the argument, and the letter in it
  mode,     \* prog_mode, as its letter
  log,      \* logfile_name, as an index: 0 is the default
  backup,   \* backup_mode_implied
  restore,  \* restore_mode_implied
  name, dir \* backup_name and start_dir, as indices

vars == <<args, pc, count, i, mode, log, backup, restore, name, dir>>

Word == 65536
argc == Len(args) + 1

Init ==
  /\ args \in UNION {[1 .. n -> Arguments] : n \in 0 .. MaxArgs}
  /\ pc = "start" /\ count = 1 /\ i = 0
  /\ mode = "f" /\ log = 0
  /\ backup = FALSE /\ restore = FALSE
  /\ name = 0 /\ dir = 0

Start ==
  /\ pc = "start"
  /\ pc' = IF argc < 3 THEN "refused" ELSE "args"
  /\ UNCHANGED <<args, count, i, mode, log, backup, restore, name, dir>>

-----------------------------------------------------------------------------
(* The loop over the arguments that begin with a hyphen *)

Hyphen(a) == a # << >> /\ a[1] = "-"
Option    == count < argc /\ Hyphen(args[count])

\* What the letters before it implied is forgotten with every argument.
NextArgument ==
  /\ pc = "args" /\ Option
  /\ i' = 0 /\ backup' = FALSE /\ restore' = FALSE
  /\ pc' = "letters"
  /\ UNCHANGED <<args, count, mode, log, name, dir>>

More      == pc = "letters" /\ i < Len(args[count]) - 1
Letter    == args[count][i + 2]
Conflicts == IF Letter = "r" THEN backup ELSE restore \/ backup

Choose ==
  /\ More /\ Letter \in {"r", "f", "d"}
  /\ ~Conflicts
  /\ mode' = Letter
  /\ IF Letter = "r" THEN restore' = TRUE /\ UNCHANGED backup
                     ELSE backup' = TRUE /\ UNCHANGED restore
  /\ i' = i + 1
  /\ UNCHANGED <<args, pc, count, log, name, dir>>

\* (mutants) The name of the log file is not stepped over; what comes behind it
\* is.
LogFileStays ==
  /\ More /\ Letter = "l" /\ i = Len(args[count]) - 2
  /\ log' = count + 1
  /\ count' = count + 1 /\ pc' = "args"
  /\ UNCHANGED <<args, i, mode, backup, restore, name, dir>>
LogFileTwice ==
  /\ More /\ Letter = "l" /\ i = Len(args[count]) - 2
  /\ log' = count + 1
  /\ count' = count + 3 /\ pc' = "args"
  /\ UNCHANGED <<args, i, mode, backup, restore, name, dir>>

\* The next argument is the log file's name, whether there is one or not.
LogFile ==
  /\ More /\ Letter = "l" /\ i = Len(args[count]) - 2
  /\ log' = count + 1
  /\ count' = count + 2 /\ pc' = "args"
  /\ UNCHANGED <<args, i, mode, backup, restore, name, dir>>

\* Help, an unknown letter, two modes, or an argument to -l that cannot be one.
Refuse ==
  /\ More
  /\ CASE Letter \in {"r", "f", "d"} -> Conflicts
       [] Letter = "l"               -> i # Len(args[count]) - 2
       [] OTHER                      -> TRUE
  /\ pc' = "refused"
  /\ UNCHANGED <<args, count, i, mode, log, backup, restore, name, dir>>

\* A single hyphen is complained about and passed over.
EndOfArgument ==
  /\ pc = "letters" /\ ~More
  /\ count' = count + 1 /\ pc' = "args"
  /\ UNCHANGED <<args, i, mode, log, backup, restore, name, dir>>

-----------------------------------------------------------------------------
(* The operands *)

\* (mutant) One operand is enough.
OperandsOne ==
  /\ pc = "args" /\ ~Option
  /\ IF (argc - count) % Word < 1
       THEN pc' = "refused" /\ UNCHANGED <<log, name, dir>>
       ELSE /\ name' = count /\ dir' = count + 1
            /\ log' = IF log = argc THEN 0 ELSE log
            /\ pc' = "run"
  /\ UNCHANGED <<args, count, i, mode, backup, restore>>

\* argc - count is unsigned.  argv[argc] is NULL, which is no log file.
Operands ==
  /\ pc = "args" /\ ~Option
  /\ IF (argc - count) % Word < 2
       THEN pc' = "refused" /\ UNCHANGED <<log, name, dir>>
       ELSE /\ name' = count /\ dir' = count + 1
            /\ log' = IF log = argc THEN 0 ELSE log
            /\ pc' = "run"
  /\ UNCHANGED <<args, count, i, mode, backup, restore>>

\* do_backup, do_diff or do_restore; its result is not looked at.
Run ==
  /\ pc = "run"
  /\ pc' = "exit"
  /\ UNCHANGED <<args, count, i, mode, log, backup, restore, name, dir>>

Ended == pc \in {"refused", "exit"}

Terminated == Ended /\ UNCHANGED vars

Next ==
  \/ Start \/ NextArgument \/ Choose \/ LogFile \/ Refuse \/ EndOfArgument
  \/ Operands \/ Run
  \/ Terminated

Spec == Init /\ [][Next]_vars

-----------------------------------------------------------------------------
(* Properties *)

\* The types of main's variables; no more than the argument of a last -l is
\* looked for behind the end of argv.
TypeOK ==
  /\ pc \in {"start", "args", "letters", "run", "exit", "refused"}
  /\ count \in 1 .. argc + 1 /\ i \in Nat
  /\ mode \in {"r", "f", "d"}
  /\ log \in 0 .. argc /\ name \in 0 .. argc + 1 /\ dir \in 0 .. argc + 2
  /\ backup \in BOOLEAN /\ restore \in BOOLEAN

\* What the arguments are, as their order says: options come first, one that ends
\* in l takes the next argument for its value.
TakesNext(a) == Len(a) > 1 /\ a[Len(a)] = "l"
Kind[n \in 0 .. Len(args)] ==
  IF n = 0 THEN "value"
  ELSE IF Kind[n - 1] = "operand" THEN "operand"
  ELSE IF Kind[n - 1] = "option" /\ TakesNext(args[n - 1]) THEN "value"
  ELSE IF Hyphen(args[n]) THEN "option" ELSE "operand"

Are(kind)   == {n \in 1 .. Len(args) : Kind[n] = kind}
Letters(n)  == {args[n][m] : m \in 2 .. Len(args[n])}
Modes       == {n \in Are("option") : Letters(n) \cap {"r", "f", "d"} # {}}
Latest(s)   == CHOOSE n \in s : \A m \in s : m =< n

\* The last option wants a value, and there is none.
WantsMore == Len(args) \in Are("option") /\ TakesNext(args[Len(args)])

\* An option that is refused: an unknown letter, a mode after another one, a
\* letter behind l.
Bad(n) ==
  \E m \in 2 .. Len(args[n]) :
    LET c == args[n][m]
        before == {args[n][k] : k \in 2 .. m - 1}
    IN  CASE c = "r"          -> before \cap {"f", "d"} # {}
          [] c \in {"f", "d"} -> before \cap {"r", "f", "d"} # {}
          [] c = "l"          -> m # Len(args[n])
          [] OTHER            -> TRUE

\* Restore and a backup mode, or a backup mode twice, in two options: the program
\* calls these exclusive, refuses them in one option only, and leaves open whether
\* a second one may overrule the first (NWBACKUP.C:50-81, 129-131, 160).
Exclusive ==
  \E m, n \in Modes :
    m < n /\ (Letters(m) \cup Letters(n)) \cap {"r", "f", "d"} # {"r"}

\* The part that is run is the one of the mode given (a full backup without
\* one), on the first two operands, with the log file of the last -l; wherever
\* the options stand, alone or grouped (NWBACKUP.C:33-135).  Nothing is said of
\* exclusive modes in two options, nor of a last -l without a value.
RunsWhatWasAsked ==
  pc \in {"run", "exit"} /\ ~WantsMore /\ ~Exclusive =>
    /\ IF Modes = {} THEN mode = "f" ELSE \A n \in Modes : mode \in Letters(n)
    /\ log = IF Are("value") = {} THEN 0 ELSE Latest(Are("value"))
    /\ name \in Are("operand") /\ name - 1 \notin Are("operand")
    /\ dir \in Are("operand") /\ dir = name + 1

\* There are too few arguments, an option is bad, or operands are missing and no
\* last -l has moved the count past them.
Unusable ==
  \/ Len(args) < 2
  \/ \E n \in Are("option") : Bad(n)
  \/ Cardinality(Are("operand")) < 2 /\ ~WantsMore

\* Unusable arguments are refused, and no others are unless they hold exclusive
\* modes in two options, which may be refused or not (NWBACKUP.C:26, 47-108).
RefusesOnlyBad ==
  /\ pc = "exit" => ~Unusable
  /\ pc = "refused" => Unusable \/ Exclusive
=============================================================================
