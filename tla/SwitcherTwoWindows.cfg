\* Two Windows on disks of their own, the hive of one of them named by --bcd.
SPECIFICATION Spec
CONSTANTS
  wbm = wbm
  ubuntu = ubuntu
  fedora = fedora
  w10 = w10
  w11 = w11
  None = None
  Ids = {wbm, ubuntu, fedora}
  WinIds = {wbm, fedora}
  Home = wbm
  Guids = {w10, w11}
  Display <- MCDisplay
  Procs = {p1}
  Selectors <- KeySelectors
  BcdFlags = {TRUE}
  Faults = {}
INVARIANT
  OkMeansSelected
