CONSTANTS
  Keys = {"key", "button"}
  TypedKeys = {"key"}
  MouseButtons = {"button"}
  Bindings <- MCBindings
  KeptCmds <- MCKept
  PauseCmds <- MCPause
  ForcedCmds <- MCForced
  EatenCmds <- MCEaten
  MenuCmds <- MCMenu
  SlaveCmds <- MCSlave
  KeyFifoSize = 4
  CmdQueueSize = 2
  MaxKeyDown = 1
  NumKeyFds = 2
SPECIFICATION FairSpec
INVARIANTS TypeOK ReserveIsForReleases RepeatsWhatIsHeld TakenIsPeeked QuitIsRun
PROPERTIES OneCommandPerPress QuitIsObeyed
