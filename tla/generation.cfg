SPECIFICATION FairSpec
CONSTANTS
  ConfigFiles <- Files
  Commands = {"serve", "test"}
  MaxParts = 3
  MaxEdits = 2
  MaxOutages = 2
INVARIANTS TypeOK CheckedConfigsRun
PROPERTIES SourcesFollow ImplementsLifetime
CHECK_DEADLOCK FALSE
