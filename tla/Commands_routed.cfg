SPECIFICATION FairSpec
CONSTANTS
  None = None
  NOutlets = 2
  Names = {}
  SysName = None
  Loads = {5}
  MaxRows = 32
  DeviceIds <- MCDeviceIds
  Slug <- MCSlug
  HaDeviceId = "My_PDU"
  FallbackId = "my_pdu"
  Unnamed = "Outlet"
  Qos = 0
  OutletControlEnabled = TRUE
  AllowCsv <- MCAllowFirst
  Word = Word
  Blank = Blank
  HasWriteCommunity = TRUE
  Attempts = 2
  Targets = {1, 2, 3}
  Callers = {"mqtt"}
  MqttCaller = "mqtt"
  PrefixLevels = 1
  Payloads <- MCPayloads
  MaxMessages = 3
  Faults = {"stall", "drop", "half_open", "no_host"}
  Endings = {}
INVARIANTS
  TypeOK
  LastCommandWins
PROPERTIES
  GatedWrites
  Drained
CHECK_DEADLOCK FALSE
