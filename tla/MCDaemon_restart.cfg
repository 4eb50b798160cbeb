\* One client stores a setting; the daemon is started again.
SPECIFICATION Spec
CONSTANTS
  c1 = c1
  c2 = c2
  s1 = s1
  s2 = s2
  Clients = {c1}
  Settings = {s1, s2}
  Default = s1
  Fallback = s2
  Query = Query
  Broken = Broken
  None = None
INVARIANT SettingsPersist
