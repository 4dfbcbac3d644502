SPECIFICATION MachineSpec
CONSTANTS
  Threads = {p, o}
  Poller = p
  MaxId = 3
  MaxTells = 0
INVARIANT PendingTracksDriver
