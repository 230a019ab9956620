SPECIFICATION AdministrationSpec
CONSTANTS
  r1 = r1
  r2 = r2
  t1 = t1
  t2 = t2
  t3 = t3
  Requests = {r1, r2}
  Tokens = {t1, t2}
  MaxUsers = 2
  MaxChanges = 1
  Counted = {1}
  LoginMaxFailures = 1
  Screens = {r1, r2}
  Senders = {r1, r2}
  Secrets = {"k"}
  MaxWebhooks = 2
  Retention = 1
  MaxHooks = 2
  MaxDeliveries = 3
  MaxMishaps = 1
INVARIANTS AdministrationTypeOk AdminsLostOnlyByRace SessionsHold FailuresBounded SettingsFollowClicks DeliveriesLogged
SYMMETRY Interchangeable
CHECK_DEADLOCK FALSE
