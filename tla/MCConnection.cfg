\* Subscriptions of a connection, guards of three; logins of two.
SPECIFICATION ConnectionSpec
CONSTANTS
  Displays <- TwoDisplays
  PrimaryDisplay = 0
  Conns = {c1, c2, c3}
  Resizables = {d1}
  Kinds = {"Remote", "ViewCamera"}
  MaxChanges = 1
  MaxQueue = 1
  Attempts = {a1, a2}
SYMMETRY Symmetry
INVARIANTS
  ConnectionTypeOK
  ExactlyWhenAllowed SentWithGrant
  WakeLockFollows LeftAsFound UsersAreAuthed
PROPERTIES
  LetInForCause SessionKept
