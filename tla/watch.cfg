CONSTANTS
  home = home
  leftover = leftover
  guest = guest
  busy = busy
  idle = idle
  Configured <- MCConfigured
  Orphans <- MCOrphans
  Strangers <- MCStrangers
  Downs <- MCDowns
  Figures <- MCFigures
SPECIFICATION WatcherSpec
INVARIANTS ListenerIsOwed NoFigureOnceDown ReplacedPollersAreNamed NudgeIsHeeded
PROPERTIES Mirrored ToldInTheEnd
