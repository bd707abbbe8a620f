SPECIFICATION Spec
CONSTANTS
  Width = 4
  Routes <- TheRoutes
  Mac = {m, n}
  Moving = {}
  Header <- ErrorsAndForwarded
  MaxPackets = 2
  AfterDoubleFree = {TRUE}
  MaxEntries = 2
  EntryTimeout = 1
  MaxRetries = 1
  NoMac = NoMac
INVARIANTS PendingCanLeave
