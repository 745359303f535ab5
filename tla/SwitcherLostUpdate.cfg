\* Two commands at the same time, nothing fails.
SPECIFICATION Spec
CONSTANTS
  wbm = wbm
  ubuntu = ubuntu
  fedora = fedora
  w10 = w10
  w11 = w11
  None = None
  Ids = {wbm, ubuntu}
  WinIds = {wbm}
  Home = wbm
  Guids = {w10, w11}
  Display <- MCDisplay
  Procs = {p1, p2}
  Selectors <- KeySelectors
  BcdFlags = {FALSE}
  Faults = {}
PROPERTY
  ScopesIndependent
