SPECIFICATION FairSpec
CONSTANTS
  None = None
  NOutlets = 1
  Names = {"lamp"}
  SysName = "Rack_PDU"
  Loads = {5}
  MaxRows = 32
  DeviceIds <- MCDeviceIds
  Slug <- MCSlug
  HaDeviceId = None
  FallbackId = "cyberpower_pdu"
  Unnamed = "Outlet"
  Qos = 1
  HaDiscoveryEnabled = TRUE
  MainsVoltage = 120
  Faults = {"rename", "loss", "dark", "drop"}
  Endings = {"settle"}
INVARIANTS
  NamesCurrent
PROPERTIES
  IdentityKept
  ViewConverges
