\* Two connections on one display, or one that switches between two.
SPECIFICATION VideoSpec
CONSTANTS
  Nobody = Nobody
  Conns = {c1, c2}
  Services = {v1, v2}
  NeedSnapshot = {v1, v2}
  Restarting = {v1, v2}
  Video = {v1, v2}
  Primary = v1
  MaxVersion = 2
  MaxFails = 1
INVARIANTS
  SnapshotComplete
  ClosedIsGone
  AskedIsSubscribed
  SubscribedIsAsked
PROPERTIES
  SubscriberCatchesUpWhenQuiet
