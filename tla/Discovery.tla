------------------------------- MODULE Discovery -------------------------------
(***************************************************************************)
(* app/discovery.py: the identity under which the bridge announces the     *)
(* PDU to Home Assistant, and the names it announces.  A discovery topic   *)
(* is determined by (device id, entity, outlet); slugs are abstract.       *)
(***************************************************************************)
EXTENDS SnmpClient

CONSTANTS
  DeviceIds,     \* slugs that may end up in a unique_id
  Slug,          \* Slug[s]: the slug of configured id or sysName s
  HaDeviceId,    \* HA_DEVICE_ID, None when blank
  FallbackId,    \* the slug "cyberpower_pdu"
  Unnamed        \* the display name "Outlet n"

ASSUME DiscoveryAssumption ==
  /\ FallbackId \in DeviceIds
  /\ None \notin DeviceIds
  /\ Unnamed # None
  /\ HaDeviceId # None => Slug[HaDeviceId] \in DeviceIds
  /\ SysName # None => Slug[SysName] \in DeviceIds

\* Variant with a fault: the configured id is used as it is, not slugged.
derive_device_id_verbatim(sys_name) ==
  IF HaDeviceId # None THEN HaDeviceId
  ELSE IF sys_name # None THEN Slug[sys_name]
  ELSE FallbackId

\* HA_DEVICE_ID first, then sysName, then a constant.
derive_device_id(sys_name) ==
  IF HaDeviceId # None THEN Slug[HaDeviceId]
  ELSE IF sys_name # None THEN Slug[sys_name]
  ELSE FallbackId

\* The three whole-PDU sensors, in the order their topics are published.
TotalTopics == <<"load_amps", "load_watts", "voltage">>

\* The two entities announced for every outlet on one command topic.
OutletEntities == {"switch", "button"}

\* The friendly name of an outlet's entities.
DisplayName(name) == IF name = None THEN Unnamed ELSE name
===============================================================================
