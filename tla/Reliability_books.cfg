\* One client, two settings, three errors wherever they happen.
SPECIFICATION RSpec
CONSTANTS
  Clients = {c1}
  Settings = {s1, s2}
  Default = s1
  Fallback = s2
  Query = Query
  Broken = Broken
  None = None
  MaxErrors = 3
INVARIANTS RInv StatusExplainsItsError
PROPERTY ImplementsDaemon
