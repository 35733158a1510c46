--------------------------- MODULE MCReadOnlyBridge ---------------------------
(***************************************************************************)
(* Constant values for model checking ReadOnlyBridge.  The configured id   *)
(* and the sysName are given slugs of their own.                           *)
(***************************************************************************)
EXTENDS ReadOnlyBridge

MCDeviceIds == {"cyberpower_pdu", "rack_pdu", "my_pdu"}

MCSlug == [Rack_PDU |-> "rack_pdu", My_PDU |-> "my_pdu"]
===============================================================================
