CONSTANTS
  Accounts = {a1}
  FirstGrade <- First
  Kinds = {"chat", "room"}
  Offline = Offline
  Idle = Idle
  MaxFailed = 2
  MaxTries = 2
  MaxKeys = 2
SPECIFICATION Spec
INVARIANTS
  TypeOK
  KeyAdmitsOnce
  SuspendedKeptOut
  LimitsReach
