\* One command at a time, reading a variable may fail.
SPECIFICATION Spec
CONSTANTS
  wbm = wbm
  ubuntu = ubuntu
  fedora = fedora
  w10 = w10
  w11 = w11
  None = None
  Ids = {wbm, ubuntu, fedora}
  WinIds = {wbm}
  Home = wbm
  Guids = {w10, w11}
  Display <- MCDisplay
  Procs = {p1}
  Selectors <- MixedSelectors
  BcdFlags = {FALSE}
  Faults = {"read"}
INVARIANT
  OrderIsPermutation
