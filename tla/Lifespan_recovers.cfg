SPECIFICATION FairLifeSpec
CONSTANTS
  None = None
  NOutlets = 1
  Names = {}
  SysName = None
  Loads = {5}
  MaxRows = 32
  DeviceIds <- MCDeviceIds
  Slug <- MCSlug
  HaDeviceId = "My_PDU"
  FallbackId = "my_pdu"
  Unnamed = "Outlet"
  Qos = 0
  HaDiscoveryEnabled = FALSE
  MainsVoltage = 120
  OutletControlEnabled = FALSE
  AllowCsv <- MCAllowAll
  Word = Word
  Blank = Blank
  HasWriteCommunity = TRUE
  Attempts = 2
  Targets = {}
  Callers = {"mqtt"}
  MqttCaller = "mqtt"
  Faults = {"stall", "drop", "no_host", "empty_walk", "toggle", "crash"}
  Endings = {"settle", "stop"}
  MaxLives = 2
PROPERTIES
  StatesConverge
  KeepsLooping
  ShutdownEnds
CHECK_DEADLOCK FALSE
