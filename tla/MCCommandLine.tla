--------------------------- MODULE MCCommandLine ----------------------------
(***************************************************************************)
(* Arguments for CommandLine: a single hyphen, each mode alone and as one  *)
(* of two, -l alone, behind and before another letter, help, and a name.   *)
(***************************************************************************)
EXTENDS CommandLine

MCArguments ==
  { <<"-">>, <<"-", "r">>, <<"-", "f">>, <<"-", "l">>, <<"-", "d", "l">>,
    <<"-", "l", "r">>, <<"-", "r", "f">>, <<"-", "f", "r">>, <<"-", "h">>, <<"a">> }
=============================================================================
