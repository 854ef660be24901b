\* Module Proxy: two clients with the same channel number; one of them leaves.
SPECIFICATION ProxySpec
CONSTANTS
    ProxyClients = {"a", "b"}
    DownIds = {0}
    ProxySlots = 3
    ServerSlots = 3
    PlainMux = FALSE
    MaxOpens = 3
    MaxQueue = 2
INVARIANT MasterSurvives
CHECK_DEADLOCK FALSE
