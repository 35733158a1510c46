------------------------------ MODULE MCLifespan ------------------------------
(***************************************************************************)
(* Constant values for model checking Lifespan.                            *)
(***************************************************************************)
EXTENDS Lifespan

MCDeviceIds == {"my_pdu"}

MCSlug == [My_PDU |-> "my_pdu"]

MCAllowAll == <<>>
===============================================================================
