SPECIFICATION SettingsSpec
CONSTANTS
  SizeLimit = 7
  MaxHandlers = 10
  Numbers <- MCNumbers
  ByteSize = 256
  MaxPresses = 2
  PARAMS_EMAIL_LEN = 4
  PARAMS_PIN_LEN = 3
  MinLen = 1
  KeyLen = 2
  Builds = {220, 296}
  Variables <- VariableEntries
  Actions <- ActionEntries
  MaxFaults = 1
  Requests <- MCRequests
INVARIANTS
  PressesCounted
  NeverDeaf
  SettingsSurvive
  SchemaFits
PROPERTY ChangedAsAsked
