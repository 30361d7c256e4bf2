SPECIFICATION Spec
CONSTANTS
  Job = Job
  Workers = {w1}
  n1 = n1
  n2 = n2
  Nets = {n1, n2}
  NoNet = NoNet
  Passes = {NoPass, p1}
  NoPass = NoPass
  Open = {n2}
  NoScan = NoScan
  Scans <- OneOrTwo
PROPERTIES SavedIsJoined

