SPECIFICATION SpecAll
CONSTANTS
  None = None
  Key <- Keys
  Setting <- HandCodex
  Server <- Servers
  CodexAsk <- CodexAsks
  Routed <- RoutedModels
  Project <- Projects
  Picks <- Picked
  CodexEdits = 2
  CodexRuns = 2
  Call <- Calls
  Path <- Homes
  Personal <- PersonalHomes
  HomeAsk <- HomeAsks
  HomeRuns = 2
  Template <- TemplateInterpreter
  Profile <- ProfileInterpreter
  InterpreterAsk <- InterpreterAsks
  RoleNames <- Names
  InterpreterRuns = 3
  ModelId <- Models
  Words <- WordsOf
  Coding <- Table
  Catalogs <- Prices
  Overrides <- Overridden
  Setups = {"p1", "p2"}
  Env <- Shells
  Asset <- Assets
  Sanitized <- ChannelNames
  Variable <- ChannelVariables
  Passwd <- PasswdHome
  Update <- Updates
  ProfileName = {"default"}
  Channel = {"prod", "dev"}
  Platform <- Machines
  Encodings = {"utf-8", "other"}
  BlockEdits = 1
  BlockRuns = 2
  NoLock = NoLock
  Torn = Torn
  Proc = {p1, p2, p3}
  Session = {s1}
  Mortal = TRUE
  Places <- Subvolumes
  KeepLast = 1
  MinAge = 1
INVARIANTS
  EveryRequestIsFenced
  ChoicesAreKept
  WhatRunsIsMeant
  HomesAreApart
  SharedFilesWork
  ExclusiveAmongTheLiving
  LockIsRecoverable
  LiveSessionsSurvive
  LossHasACause
  CompleteIsWhole
  NewestRemain
PROPERTIES
  LaunchIsCovered
  PruneSpares
CHECK_DEADLOCK FALSE
