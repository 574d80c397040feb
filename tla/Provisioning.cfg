SPECIFICATION FairSpec
CONSTANTS
  MaxBots = 2
  MaxFaults = 2
  MaxActs = 1
INVARIANTS TypeOK PollerIsRecorded BotIsRecorded ActiveCanBeServed
PROPERTIES RestartMakesNoBot RetriesSucceed
