SPECIFICATION Spec
CONSTANTS
  Job = Job
  Workers = {w1}
  n1 = n1
  n2 = n2
  Nets = {n1}
  NoNet = NoNet
  Passes = {NoPass}
  NoPass = NoPass
  Open = {n1}
  NoScan = NoScan
  Scans <- EmptyOrOne
INVARIANTS TypeOK HolderTalks OneJob IdleRowsAreCurrent
PROPERTIES JobSettles

