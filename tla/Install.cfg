\* Two installers of one version, the service, a window and restarts, while everything fails.
SPECIFICATION Spec
CONSTANTS
  Installers = {i1, i2}
  Versions = {v1}
  InDir = InDir
  None = None
  Torn = Torn
  Faults = {"source", "copy", "register", "key", "task", "unkey", "schedule", "kill"}
INVARIANTS
  TypeOK
  ReportedServes
  RemovedIsGone
PROPERTIES
  UpdateKeepsService
  DoomedGoes
