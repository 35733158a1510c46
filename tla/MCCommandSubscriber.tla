-------------------------- MODULE MCCommandSubscriber --------------------------
(***************************************************************************)
(* Constant values for model checking CommandSubscriber: a list with a bad *)
(* token, which the parser passes over.                                    *)
(***************************************************************************)
EXTENDS CommandSubscriber

MCDeviceIds == {"my_pdu"}

MCSlug == [My_PDU |-> "my_pdu"]

MCAllowFirst == <<1, Word>>

MCPayloads == {"ON", "OFF", "REBOOT", Blank}
===============================================================================
