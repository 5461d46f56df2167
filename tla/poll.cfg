CONSTANTS
  film = film
  song = song
  note = note
  here = here
  there = there
  NoRoot = nowhere
  Files <- MCFiles
  Roots <- MCRoots
  RootOf <- MCRootOf
  Rclones <- MCRclones
SPECIFICATION PollerSpec
INVARIANTS PollerTypeOK SafeWasTrue KnownLeavesNothingOut CallsAreHonest KnownNeedsEveryWriteQueued RateSpansNoLapse
PROPERTIES MonitoredInTheEnd
