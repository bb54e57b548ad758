\* Frames, keys, port forwarding, registration and file transfer.
SPECIFICATION NetworkSpec
CONSTANTS
  Radix = 4
  Lengths <- SomeLengths
  MaxFrames = 2
  MaxRaw = 2
  MaxSends = 3
  MaxData = 2
  MaxLogins = 2
  MaxDelays = 2
  MaxTalk = 1
  Hosts = {h1, h2}
  NoHost = NoHost
  MaxIds = 5
  Fails1 = 1
  Fails2 = 2
  Probes = {t1}
  MaxChanges = 1
  MaxFaults = 2
  N = 2
  Size = 2
  MaxResumes = 1
  MaxErrors = 1
  MaxFailures = 1
INVARIANTS
  NetworkTypeOK NothingStuck SealedWithoutGap DataPassesThrough OnlineIsAnswering
  SentWhenAgreed 
PROPERTIES
  ImplementsChannels ImplementsCopying GapNoticed ForwardingStarts RestartTakesEffect RegistrationSettles 
CHECK_DEADLOCK FALSE
