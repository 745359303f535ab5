\* A window and a user at a terminal, under both systems, while everything fails.
SPECIFICATION Spec
CONSTANTS
  wbm = wbm
  setup = setup
  w11 = w11
  t = t
  None = None
  Ids = {wbm, setup}
  WinIds = {wbm}
  OsIds = {wbm}
  Home = wbm
  Guids = {w11}
  Display <- MCDisplay
  worker = worker
  ui = ui
  Users = {t}
  Callers = {t, worker, ui}
  Selectors <- MCSelectors
  Scenes <- MCScenes
INVARIANTS
  TypeOK
  OneQuestion
  ShownIsTruth
  ClickSelects
PROPERTIES
  KeepsErrands
  BrokerSetsChosen
  JobsEnd
