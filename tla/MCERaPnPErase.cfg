SPECIFICATION Spec
CONSTANTS
    None = None
    Nets = {n1}
    Statuses = {"off", "ok"}
    Erase = {TRUE}
    Events = {"button", "command", "network"}
    MaxEvents = 2
PROPERTIES EraseHappens
