SPECIFICATION SettingsSpec
CONSTANTS
  Admins = {a1, a2}
  Tenants = {w}
  LastConnection = 2
  LastChange = 3
INVARIANT ExactlyOneDefault
CHECK_DEADLOCK FALSE
