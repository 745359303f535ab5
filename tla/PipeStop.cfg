CONSTANTS
    Clients = {c1, c2}
    Keys = {os1, os2}
    Present = {os1}
    None = None
    Tries = 2
    Faults = {}
SPECIFICATION Spec
PROPERTY StopStops
