SPECIFICATION MachineSpec
CONSTANTS
  Threads = {p, o}
  Poller = p
  MaxId = 2
  MaxTells = 0
PROPERTY RepliedNeverClosed
