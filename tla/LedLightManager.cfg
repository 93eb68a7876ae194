SPECIFICATION ManagerSpec
CONSTANTS
  Keys <- MCKeys
  Titles <- MCTitles
  Configs <- MCConfigs
  NoTitle = NoTitle
  Gone = Gone
  AnyString = AnyString
  NoConfig = NoConfig
  MaxQueue = 1
  MaxShown = 2
INVARIANTS
  ManagerTypeOK
  ListsAligned
  RulesNeedPackages
  ShowsLatest
