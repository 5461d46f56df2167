CONSTANTS
  home = home
  guest = guest
  busy = busy
  Configured <- MCConfigured
  Orphans <- MCOrphans
  Strangers <- MCStrangers
  Downs <- MCDowns
  Figures <- MCFigures
  MaxLag = 2
  MaxEvents = 1
SPECIFICATION TraySpec
INVARIANTS EveryRowSettles
