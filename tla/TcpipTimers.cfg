SPECIFICATION FairSpec
CONSTANTS
  Tcp = "tcp"
  Periodic = {"arp", "reass"}
  Interval <- MCInterval
  TickMax = 6
  Timeouts = 4
  MboxSize = 2
  MaxBusy = 2
INVARIANTS
  TypeOK
  OnTime
  TimersListed
PROPERTIES
  TimersRun
