\* Method lists, PAM and passwords against any client.
CONSTANTS
  Configs <- AllConfigs
  KeyOptions <- Options
  Users = {"alice", "root", "mallory"}
  KnownUsers = {"alice", "root"}
  Services = {"ssh-connection", "other"}
  Styles = {"", "otp"}
  RightPassword = "secret"
  Keys = {"k1", "k2", "k3", "k4"}
  AuthorizedKeys = {"k1", "k2", "k3"}
  HostKeys = {"k3"}
SPECIFICATION Spec
INVARIANTS
  KeysUsedOnce
  OptionsEnforced
  LoginFollowsList
  
CHECK_DEADLOCK FALSE
