SPECIFICATION MCSpec
CONSTANTS
    Clients = {"x", "y"}
    Commands <- MCCommands
    MaxChannels = 4
    MaxMuxers = 2
    FixedPorts = {1}
    DynamicPorts = {1, 2}
    Dests = {"a", "b"}
    AtStart <- MCAtStart
    Addresses = 2
    Ask = TRUE
    MaxOpens = 1
    MaxTurns = 1
INVARIANTS
    ClientSound
PROPERTIES
    ClientLive
CHECK_DEADLOCK FALSE
