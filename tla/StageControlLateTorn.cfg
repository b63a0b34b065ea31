SPECIFICATION Spec
CONSTANTS
  Controllers = {c1}
  Words <- MCWords
  Commands <- MCCommands
  CmdWords <- MCCmdWords
  Values <- MCValues
  Dynamic <- MCNoWords
  LateWords <- MCWords
  AllowAbandon = FALSE
  Nobody = Nobody
  NoCommand = NoCommand
INVARIANT LiveMatchesState
