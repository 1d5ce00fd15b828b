SPECIFICATION ServerSpec
CONSTANTS
  Interfaces <- OneInterface
  Cleanup = TRUE
  MaxPackets = 1
  Addresses = 2
  startupCount = 2
  MaxBeacons = 3
INVARIANTS ListenFailsAlone OneIdentityOverUDP BeaconsWithoutGap
PROPERTIES PacketsAccepted BeaconsUntilTheEnd
CHECK_DEADLOCK FALSE
