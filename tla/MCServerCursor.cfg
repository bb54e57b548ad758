\* Two connections and one service that sends snapshots.
SPECIFICATION FairSpec
CONSTANTS
  Nobody = Nobody
  Conns = {c1, c2}
  Services = {cursor}
  NeedSnapshot = {cursor}
  Restarting = {}
  Video = {}
  Primary = v1
  MaxVersion = 2
  MaxFails = 1
PROPERTIES
  ImplementsRegistry
  SubscriberCatchesUp
  DropTerminates
