-------------------------------- MODULE Wakeup --------------------------------
(***************************************************************************)
(* The asyncio.Event by which the Controller asks the Poller to skip the   *)
(* rest of its sleep.                                                      *)
(***************************************************************************)
VARIABLE immediate_event

trigger_immediate_poll == immediate_event' = TRUE
===============================================================================
