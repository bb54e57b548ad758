\* A file the user keeps, and what an earlier transfer left of it.
SPECIFICATION TransferOnly
CONSTANTS
  Radix = 4
  Lengths <- SomeLengths
  MaxFrames = 2
  MaxRaw = 2
  MaxSends = 3
  MaxData = 2
  MaxLogins = 2
  MaxDelays = 2
  MaxTalk = 1
  Hosts = {h1, h2}
  NoHost = NoHost
  MaxIds = 5
  Fails1 = 1
  Fails2 = 2
  Probes = {t1}
  MaxChanges = 1
  MaxFaults = 2
  N = 2
  Size = 2
  MaxResumes = 1
  MaxErrors = 1
  MaxFailures = 0
INVARIANT UserDecides
CHECK_DEADLOCK FALSE
