SPECIFICATION LifeSpec
CONSTANTS
  None = None
  NOutlets = 1
  Names = {}
  SysName = None
  Loads = {5}
  MaxRows = 32
  DeviceIds <- MCDeviceIds
  Slug <- MCSlug
  HaDeviceId = "My_PDU"
  FallbackId = "my_pdu"
  Unnamed = "Outlet"
  Qos = 0
  HaDiscoveryEnabled = FALSE
  MainsVoltage = 120
  OutletControlEnabled = TRUE
  AllowCsv <- MCAllowAll
  Word = Word
  Blank = Blank
  HasWriteCommunity = TRUE
  Attempts = 2
  Targets = {1}
  Callers = {"mqtt"}
  MqttCaller = "mqtt"
  Faults = {"set_loss", "no_host", "stall", "drop", "half_open", "crash"}
  Endings = {"stop"}
  MaxLives = 2
INVARIANTS
  LifeTypeOK
  NothingStale
  OnlineWhileServing
  OfflineOnceGone
PROPERTIES MirrorsRelays
CHECK_DEADLOCK FALSE
