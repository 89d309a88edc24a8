SPECIFICATION ConfigSpec
CONSTANTS
  Text <- MCText
  Answers <- MCAnswers
  ParsedU64 <- MCParsedU64
  HandEnvs <- MCHandEnvs
  MachineFiles <- MCMachineFiles
  Followed <- MCFollowed
  Unset = Unset
  Nothing = Nothing
  MaxSetups = 2
  MaxRestarts = 1
INVARIANTS
  ConfigTypeOK
  SetupTakesEffect
  SettingsComeTogether
  VersionsServe
  AdviceUnlessShadowed
