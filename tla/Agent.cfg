SPECIFICATION AgentFairSpec
CONSTANTS
    Clients = {c1, c2}
    FileKeys <- MCFileKeys
    Providers = {token}
    CardKeys <- MCCardKeys
    Passwords = {"", "pw"}
    Constraints <- MCConstraints
    lifetime = 0
    maxfds = 3
    MaxTime = 2
    MaxRequests = 3
INVARIANTS
  AgentSound
PROPERTIES
  RequestsAnswered
CHECK_DEADLOCK FALSE
