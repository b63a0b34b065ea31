SPECIFICATION TuningSpec
CONSTANTS
  Controllers = {xscope}
  Thread = xscope
  Words <- MCWords
  Commands <- MCCommands
  CmdWords <- MCCmdWords
  Values <- MCValues
  Dynamic <- MCDynamic
  LateWords <- MCLate
  AllowAbandon = FALSE
  Nobody = Nobody
  NoCommand = NoCommand
  Elsewhere = "elsewhere"
  ConfigOrder <- MCOrder
  Settings <- MCSettings
  Malformed = Malformed
  NotSent = NotSent
  Checksum = Checksum
  ValidationMode = "once"
  MaxUploads = 1
  MaxLate = 0
INVARIANT MemoryIsSent
