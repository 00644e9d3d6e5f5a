SPECIFICATION FairSpec
CONSTANTS
  MinChargeAmps = 2
  MaxChargeAmps = 3
  LineVoltage = 2
  DeadbandPolls = 2
  WakeThresholdPolls = 2
  WakeMinAmpsMargin = 0
  AmpsChangeThreshold = 1
  WakeRetryInterval = 2
  PluggedInStaleAfter = 2
  WakeAfterNonActionableBackoff = 0
  ChargeStartRetry = 2
  CommandFailureBackoff = 2
  TeslaChargingPollInterval = 2
  TeslaIdlePollInterval = 3
  AmpsAdjustInterval = 0
  TestModes = {FALSE}
  SolarWatts <- FaintSun
  CarStates <- PlugStates
  Disturbances <- Unattended
  SessionIDs = {1}
  MaxSessionSamples = 0
PROPERTY StopsOnShortage
PROPERTY ChargesOnSurplus
PROPERTY WakesEnd
PROPERTY ErrorClears
