\* Two controllers; a read may be given up.  A program that fails its
\* assertion stops: NoTrap reports it.
SPECIFICATION FairSpec
CONSTANTS
  Controllers = {c1, c2}
  Words <- MCWords
  Commands <- MCCommands
  CmdWords <- MCCmdWords
  Values <- MCValues
  Dynamic <- MCNoWords
  LateWords <- MCNoWords
  AllowAbandon = TRUE
  Nobody = Nobody
  NoCommand = NoCommand
INVARIANTS TypeOK NoConfigRace SettledAgreement NoTrap
PROPERTIES ImplementsMailbox StageDrains
CHECK_DEADLOCK FALSE
