------------------------------- MODULE MCBridge -------------------------------
(***************************************************************************)
(* Constant values for model checking Bridge.                              *)
(***************************************************************************)
EXTENDS Bridge

MCDeviceIds == {"my_pdu"}

MCSlug == [My_PDU |-> "my_pdu"]

MCAllowAll == <<>>

MCAllowFirst == <<1, Word>>
===============================================================================
