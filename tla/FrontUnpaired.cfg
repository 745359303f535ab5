\* What the store being hidden from an unprivileged window does to a click (see ClickFinds).
SPECIFICATION Spec
CONSTANTS
  wbm = wbm
  setup = setup
  w11 = w11
  t = t
  None = None
  Ids = {wbm, setup}
  WinIds = {wbm}
  OsIds = {wbm}
  Home = wbm
  Guids = {w11}
  Display <- MCDisplay
  worker = worker
  ui = ui
  Users = {t}
  Callers = {t, worker, ui}
  Selectors <- MCSelectors
  Scenes <- MCScenes
PROPERTIES
  ClickFinds
