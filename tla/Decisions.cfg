SPECIFICATION MCSpec
CONSTANTS
    Procs = {1, 2}
    KnownHosts <- MCKnownHosts
    Offers <- MCOffers
    HostOptions <- MCHostOptions
    Announced = {{"k1", "k4"}, {"k2", "k1"}, {"k1", "bad"}}
    Owned = {"k1", "k2", "k4"}
    MayDie = TRUE
    UserFiles <- MCUserFiles
    SystemFile <- MCSystemFile
    IncludedFiles <- MCIncludedFiles
    CommandLines <- MCCommandLines
    HostArg = "h"
    Canonical = "c"
    ReadConfMaxDepth = 2
    MaxIdentityFiles = 5
    MaxHostsFiles = 2
    ConfigFiles <- MCConfigFiles
    ConfigIncludes <- MCConfigIncludes
    ConfigUsers = {"u", "v"}
    ServConfMaxDepth = 2
    MaxPorts = 2
    MaxSubsystems = 2
    MaxSerial = 399
    CostLimit = 100000
    BitmapMax = 100000
    MaxBignum = 2048
    CAs = {"ca1", "any"}
    KrlLines <- MCKrlLines
    KrlStarts <- MCKrlStarts
    MaxKrlLines = 2
    SftpRequests <- MCSftpRequests
    InitialFiles <- MCFiles
    SftpModes <- MCSftpModes
    MaxHandles = 2
    QueueLimit = 2
    MaxSftpRequests = 5
    Outstanding = 2
    XSetups <- MCXSetups
    Arrivals <- MCArrivals
    XMaxTime = 3
    ScpJobs <- MCScpJobs
    ScpFaults = {"open", "read", "write", "times", "fstat", "lost"}
    MaxFaults = 3
    Offered <- MCOffered
    Sites <- MCSites
    Host = "here"
    Username = "user"
    AkMaxTime = 3
    PermitMax = 1
    Signers = {1, 2}
    Maxsign = 2
    LastIndex = 4
    MaxDamages = 1
    SieveStarts <- MCSieveStarts
    LargeBits = 32
    TinyNumber = 4
    SmallMaximum = 63
    QsizeMinimum = 7
    ScreenOptions <- MCScreenOptions
    DhRequests <- MCDhRequests
    MaxKills = 2
    MaxUnrecorded = 1
    SocksRequests <- MCSocksRequests
    Directions = {"local", "remote"}
    Permissions <- MCPermissions
    SocksData <- MCSocksData
    Pieces = {1, 2, 5, 20}
    MaxSocks4 = 12
    Addresses = {1, 2}
    X11Requests <- MCX11Requests
    SavedProtocol <- MCSavedProtocol
    FakeCookie <- MCFakeCookie
    RealCookie <- MCRealCookie
    ProxyClients = {"a", "b"}
    DownIds = {0}
    ProxySlots = 3
    ServerSlots = 3
    PlainMux = FALSE
    MaxOpens = 3
    MaxQueue = 2
    Setups <- MCSetups
INVARIANTS
  HostkeysSound
  ConfigSound
  RevocationSound
  SftpServerSound
  ScpSound
  AuthorisedExactly
  OneTimeKeys
  ModuliSound
  ConnectedAsAsked
  ProxyRouted
  ClientAuthSound
CHECK_DEADLOCK FALSE
