SPECIFICATION Spec
CONSTANTS
  None = None
  NOutlets = 1
  Names = {}
  SysName = "Rack_PDU"
  Loads = {0, 5}
  MaxRows = 32
  DeviceIds <- MCDeviceIds
  Slug <- MCSlug
  HaDeviceId = "My_PDU"
  FallbackId = "cyberpower_pdu"
  Unnamed = "Outlet"
  Qos = 1
  HaDiscoveryEnabled = FALSE
  MainsVoltage = 120
  Faults = {"loss", "no_host", "drop", "half_open"}
  Endings = {"stop"}
INVARIANTS
  SuccessIsPublished
  TotalsAgree
CHECK_DEADLOCK FALSE
