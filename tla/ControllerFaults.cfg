SPECIFICATION Spec
CONSTANTS
  MinChargeAmps = 2
  MaxChargeAmps = 3
  LineVoltage = 2
  DeadbandPolls = 2
  WakeThresholdPolls = 2
  WakeMinAmpsMargin = 1
  AmpsChangeThreshold = 1
  WakeRetryInterval = 2
  PluggedInStaleAfter = 2
  WakeAfterNonActionableBackoff = 1
  ChargeStartRetry = 2
  CommandFailureBackoff = 2
  TeslaChargingPollInterval = 2
  TeslaIdlePollInterval = 3
  AmpsAdjustInterval = 1
  TestModes = {FALSE, TRUE}
  SolarWatts <- Sun
  CarStates <- PlugStates
  Disturbances <- Faults
  SessionIDs = {1, 2}
  MaxSessionSamples = 1
INVARIANT TypeOK
INVARIANT SessionBookkeeping
INVARIANT SnapshotLagsOnlyInError
INVARIANT TestModeLeavesCarAlone
PROPERTY AmpsStayInStep
PROPERTY KeepsChargeLog
