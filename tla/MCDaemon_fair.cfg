\* Two clients, two values of the setting.
SPECIFICATION FairSpec
CONSTANTS
  c1 = c1
  c2 = c2
  s1 = s1
  s2 = s2
  Clients = {c1, c2}
  Settings = {s1, s2}
  Default = s1
  Fallback = s2
  Query = Query
  Broken = Broken
  None = None
INVARIANT IInv
PROPERTIES HotReload NobodyIsLeftWaiting StopCompletes
