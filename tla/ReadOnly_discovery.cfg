SPECIFICATION Spec
CONSTANTS
  None = None
  NOutlets = 2
  Names = {"lamp"}
  SysName = "Rack_PDU"
  Loads = {5}
  MaxRows = 32
  DeviceIds <- MCDeviceIds
  Slug <- MCSlug
  HaDeviceId = "My_PDU"
  FallbackId = "cyberpower_pdu"
  Unnamed = "Outlet"
  Qos = 0
  HaDiscoveryEnabled = TRUE
  MainsVoltage = 120
  Faults = {"stall", "rename"}
  Endings = {}
INVARIANTS
  TypeOK
  AnnouncedWhole
  LegacyRetired
  EveryOutletAnnounced
PROPERTIES RememberedAsAnnounced
