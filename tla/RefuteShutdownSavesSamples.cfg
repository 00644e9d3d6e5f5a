SPECIFICATION Spec
CONSTANTS
  MinChargeAmps = 2
  MaxChargeAmps = 3
  LineVoltage = 2
  DeadbandPolls = 2
  WakeThresholdPolls = 2
  WakeMinAmpsMargin = 1
  AmpsChangeThreshold = 1
  WakeRetryInterval = 2
  PluggedInStaleAfter = 2
  WakeAfterNonActionableBackoff = 1
  ChargeStartRetry = 2
  CommandFailureBackoff = 2
  TeslaChargingPollInterval = 2
  TeslaIdlePollInterval = 3
  AmpsAdjustInterval = 1
  TestModes = {FALSE}
  SolarWatts <- Sun
  CarStates <- PlugStates
  Disturbances <- Stops
  SessionIDs = {1}
  MaxSessionSamples = 0
INVARIANT ShutdownSavesSamples
