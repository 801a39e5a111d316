CONSTANTS
  P = P
  T0 = T0
  T1 = T1
  i1 = i1
  SetName <- MCSetName
  IP <- MCIP
  InstallArg <- MCInstallArg
  MaxRules = 4
  IptAvailable = TRUE
  NftAvailable = TRUE
  ToolFaults = FALSE
SPECIFICATION Spec
PROPERTIES DriverRefinesSpec
