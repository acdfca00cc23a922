----------------------------- MODULE MCFtpReply -----------------------------
(***************************************************************************)
(* Dialogues for FtpReply: replies of one and of several lines, with the   *)
(* same and with different codes, lines of equal and of different length,  *)
(* empty lines and lines of two digits, and one that is longer than the    *)
(* buffer.                                                                 *)
(***************************************************************************)
EXTENDS FtpReply

\* The last line, one line of several, and a line without a code.
End(c)  == <<c, c, c, " ", "x">>
More(c) == <<c, c, c, "-", "x">>
Bare(c) == <<c, c, c>>
Text    == <<" ", "x", "y">>

Short(c) == <<End(c)>>
Two(c)   == <<More(c), End(c)>>
Three3(c) == <<More(c), Text, Bare(c)>>
Listing(c) == <<More(c), More(c), End(c)>>
Gaps(c)  == <<More(c), << >>, <<c, c>>, End(c)>>
Long(c)  == <<More(c), Text, More(c), End(c)>>

MCDigit == {"2", "5"}
MCDialogues ==
  { <<Short("2"), Three3("5"), Two("2")>>,
    <<Listing("2"), Listing("5")>>,
    <<Listing("2"), Listing("2")>>,
    <<Two("2"), <<Bare("5")>>, Listing("5")>>,
    <<Gaps("2"), Gaps("5")>>,
    <<Long("2"), Short("5")>> }
=============================================================================
