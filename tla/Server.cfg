SPECIFICATION MCSpec
CONSTANTS
    max_sessions = 2
    Pids = {11, 12}
    Ttys = {"t1", "t2"}
    MaxChannel = 3
    MaxFd = 2
    XSocks = 1
    MaxRequests = 5
    adm_forced_command = FALSE
    Conns = {"a", "b", "c"}
    max_startups = 2
    max_startups_begin = 1
    rexec_flag = TRUE
    CanFail = TRUE
INVARIANTS
  ServerSound
PROPERTIES
  TerminalsExclusive
  ServerLive
CHECK_DEADLOCK FALSE
