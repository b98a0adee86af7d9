SPECIFICATION Spec
CONSTANTS
  Width = 10
  BackupBase = 3
  MaxPid = 7
  Tree <- MCTree
  Programs <- MCPrograms
  ProgramKind <- MCProgramKind
  Hosted <- MCHosted
  ParentOnly <- MCParentOnly
  Sessions <- MCSessions
  FileTexts <- MCFileTexts
INVARIANT OutcomeExact AnswersExact ContextRestored
PROPERTY ProgramEnds
CHECK_DEADLOCK FALSE
