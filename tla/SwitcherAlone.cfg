\* One command at a time, everything but reading the firmware may fail, crashes at any step.
SPECIFICATION Spec
CONSTANTS
  wbm = wbm
  ubuntu = ubuntu
  fedora = fedora
  w10 = w10
  w11 = w11
  None = None
  Ids = {wbm, ubuntu, fedora}
  WinIds = {wbm}
  Home = wbm
  Guids = {w10, w11}
  Display <- MCDisplay
  Procs = {p1}
  Selectors <- MixedSelectors
  BcdFlags = {FALSE, TRUE}
  Faults = {"write", "load", "open", "save", "bcdedit", "kill"}
INVARIANTS
  TypeOK
  OkMeansSelected
  NextShownIsBooted
PROPERTIES
  ClearedMeansDisarmed
  ScopesIndependent
  FirmwareLeads
  OthersKeepPlace
