SPECIFICATION FairSpec
CONSTANTS
    None = None
    Nets = {n1, n2}
    Statuses = {"off", "ok", "local"}
    Erase = {TRUE, FALSE}
    Events = {"fault", "command", "post", "button", "network", "crash"}
    MaxEvents = 3
INVARIANTS TypeOK StoredIsProven NewIsJoined RunningIsStored PortalServed
PROPERTY Back
