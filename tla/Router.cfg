SPECIFICATION FairSpec
CONSTANTS
  Width = 4
  Routes <- TheRoutes
  Mac = {m, n}
  Moving = {5}
  Header <- TheHeaders
  MaxPackets = 3
  AfterDoubleFree = {TRUE}
  MaxEntries = 2
  EntryTimeout = 1
  MaxRetries = 1
  NoMac = NoMac
INVARIANTS CacheIsTidy NowhereTwice SentByTheRoute
PROPERTIES SentToTheOwner AllSettled
