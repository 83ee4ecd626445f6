CONSTANTS
  HostEntries = 3
  Slots = 2
  Beats = 2
  CountLimit = 3
  WaitsForSwap = FALSE
  NoJob = NoJob

SPECIFICATION BridgeSpec
PROPERTIES
  ReadBankStable
