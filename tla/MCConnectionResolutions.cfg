\* A connection that ends while another one starts.
SPECIFICATION AuthedOnly
CONSTANTS
  Displays <- TwoDisplays
  PrimaryDisplay = 0
  Conns = {c1, c2}
  Resizables = {d1}
  Kinds = {"Remote", "ViewCamera"}
  MaxChanges = 1
  MaxQueue = 1
  Attempts = {a1, a2}
PROPERTY ClearedWhenNobodyConnected
