\* A display switch against the threads of the two video services.
SPECIFICATION Spec
CONSTANTS
  Nobody = Nobody
  Conns = {c1}
  Services = {v1, v2}
  NeedSnapshot = {v1, v2}
  Restarting = {v1, v2}
  Video = {v1, v2}
  Primary = v1
  MaxVersion = 1
  MaxFails = 0
PROPERTIES
  UnnecessaryCapturersRemoved
