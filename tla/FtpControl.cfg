SPECIFICATION FairSpec
CONSTANTS
  Names = {"root", "backup", "a", "b", "f", "CONTROL.NFO"}
  RootDir = "root"
  BackupDir = "backup"
  Jobs <- MCJobs
  ServerTrees <- MCServerTrees
INVARIANTS
  TypeOK
  InRightPlace
  DoneIsDone
  SendsToItsOwn
  InStep
  NoSpuriousFailure
PROPERTIES
  Terminates
