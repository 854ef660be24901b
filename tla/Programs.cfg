SPECIFICATION MCSpec
CONSTANTS
    Scripts <- MCScripts
    Destinations <- MCDestinations
    RemoteFiles <- MCRemoteFiles
    LocalFiles <- MCLocalFiles
    TypedWords <- MCTypedWords
    MaxDirDepth = 2
    MaxRefusals = 1
    Configs <- MCConfigs
    KexDefault <- MCKexDefault
    KexAll <- MCKexAll
    HostDefault <- MCHostDefault
    HostAll <- MCHostAll
    Aead = {"aead"}
    KeyTypeOf <- MCKeyTypeOf
    CertAlgs <- MCCertAlgs
    MaxProp = 3
    MaxPreBanner = 2
    MaxRekeys = 1
    KeyTypes <- MCKeyTypes
    XAlgs <- MCXAlgs
    ShortKeys = {8}
    SmallKeys = {2, 8}
    MaxIssued = 1
    MaxSteps = 5
    Kinds <- MCKinds
    Passphrases <- MCPassphrases
    Authorities <- MCAuthorities
    CertBodies <- MCCertBodies
    Issuers <- MCIssuers
    RevokedLists <- MCRevokedLists
    HostkeyNames <- MCHostkeyNames
    UserNames = {"id"}
    Words = {"", "w"}
    KnownHosts <- MCKnownHosts
    Invocations <- MCInvocations
    Serials = {1}
    MaxKeys = 2
    MaxCommands = 2
    Accounts <- MCAccounts
    Cases <- MCLoginCases
    MaxFaults = 2
    MaxReads = 3
    Invocations_c <- MCInvocations_c
    Canonical_c <- MCCanonical
    MaxIdentities = 3
    PacketCases <- MCPacketCases
    MacLength = 1
    MaxPacketSize = 120
    MaxSequence = 8
    MaxPacketsPerKey = 4
    BadLengths = {3, 12}
    SSHBUF_SIZE_INIT = 8
    SSHBUF_SIZE_INC = 8
    SSHBUF_SIZE_MAX = 20
    SSHBUF_PACK_MIN = 4
    SSHBUF_MAX_BIGNUM = 2
    BufferCount = 3
    BufferStarts <- MCBufferStarts
    ByteStrings <- MCByteStrings
    MaxSizes = {8, 12}
    MaxBufferCalls = 4
    WordBits = 2
    LongMax = 1000000
    HostAddresses <- MCHostAddresses
    AddressLists <- MCAddressLists
    MatchStrings <- MCMatchStrings
    MatchPatterns <- MCMatchPatterns
    PatternLists <- MCPatternLists
    ArgumentLists <- MCArgumentLists
    Words_t <- MCWords
    NextWords <- MCNextWords
    FormatStrings <- MCFormatStrings
    TimeStrings <- MCTimeStrings
    WrittenDestinations <- MCWrittenDestinations
    RawDestinations <- MCRawDestinations
    Terminals <- MCTerminals
    ModeMessages <- MCModeMessages
    LoopCases <- MCLoopCases
    Keystrokes = {"n", "~", "a", ".", "Z", "&", "R", "C", "?"}
    MaxTime = 6
INVARIANTS
  CommandsSound
  NegotiationSound
  KeysHold
  KeygenSound
  LoginHolds
  ConnectHolds
  PacketHolds
  LibraryHolds
  ClientLoopHolds
CHECK_DEADLOCK FALSE
