SPECIFICATION Spec
CONSTANTS
  BufSize = 22
  Digit <- MCDigit
  Dialogues <- MCDialogues
  Leftover = {"y", "2"}
INVARIANTS
  TypeOK
  WholeReply
