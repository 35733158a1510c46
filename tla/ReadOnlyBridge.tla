---------------------------- MODULE ReadOnlyBridge ----------------------------
(***************************************************************************)
(* The bridge as it is deployed by default, with OUTLET_CONTROL_ENABLED    *)
(* false: the poller is the only task that talks to the PDU and the only   *)
(* one that publishes.  Around it the PDU changes and fails, and the       *)
(* broker connection may break, as Faults allows.                          *)
(***************************************************************************)
EXTENDS Poller

vars == <<pduVars, mqttVars, pollerVars>>

Init == PduInit /\ MqttInit /\ PollerInit

Surroundings ==
  \/ PduNext /\ UNCHANGED <<mqttVars, pollerVars>>
  \/ LinkNext /\ UNCHANGED <<pduVars, pollerVars>>

Next == PollerNext \/ Surroundings

Spec == Init /\ [][Next]_vars

\* Every await of the poller ends: SNMP requests and MQTT confirmations time
\* out, the sleeps are bounded, and asyncio resumes a task that is ready.
FairSpec == Spec /\ WF_vars(Run)

TypeOK == PollTypes

-------------------------------------------------------------------------------
(***************************************************************************)
(* Safety.                                                                 *)
(***************************************************************************)
\* After a cycle the bridge calls a success (_run), the retained states and
\* totals are those of last_snapshot, so REST and MQTT consumers see the same
\* reading: whatever failed before with QoS 1 or 2, and with QoS 0 as long as
\* the connection lives.
SuccessIsPublished ==
  Delivered /\ AfterSuccess =>
    /\ \A n \in 1 .. Len(last_snapshot.outlets) :
         retained.state[n] = last_snapshot.outlets[n].state
    /\ \A k \in 1 .. 3 :
         BankTotal(k) # None => retained.total[TotalTopics[k]] = BankTotal(k)

\* Home Assistant falls back to "Outlet n" only for an outlet that has no name
\* (_republish_renamed_outlets).
FallbackMeansUnnamed ==
  [][\A t \in ConfigTopics :
       retained.config[t] # None /\ retained.config[t] # Unnamed
         /\ retained.config'[t] = Unnamed
       => outlet_name[t[3]] = None]_vars

\* The poller takes a name for announced (published_names) only when the switch
\* and the button of that outlet both bear it at the broker, however often the
\* pass between the two was broken off: a rename that got no further than the
\* switch stays due (_publish_discovery, _republish_renamed_outlets).
RememberedAsAnnounced ==
  [][\A n \in Outlets :
       Delivered /\ published_names'[n] # published_names[n] =>
         \A e \in OutletEntities :
           retained.config'[<<device_id, e, n>>] = DisplayName(published_names'[n])]_vars

\* Once discovery is published the identity is settled: no later poll, with
\* whatever sysName it read, moves the entities to another device.
IdentityKept == [][discovery_published => UNCHANGED device_id]_vars

-------------------------------------------------------------------------------
(***************************************************************************)
(* Liveness.                                                               *)
(***************************************************************************)
\* What a consumer sees of outlet n is what the PDU has now.
Mirrored(n) == retained.state[n] = parse_outlet_state(column[n])

Quiet == settled /\ conn = "up" /\ ~stop_event

\* The bridge recovers from everything that happened before: once the
\* surroundings stay quiet, the retained states are, and remain, the relays',
\* and the names Home Assistant shows are, and remain, those set on the PDU.
ViewConverges ==
  <>[]Quiet => <>[](\A n \in 1 .. AllRows :
    /\ Mirrored(n)
    /\ device_id # None
    /\ \A e \in OutletEntities :
         retained.config[<<device_id, e, n>>] = DisplayName(outlet_name[n]))

\* A PDU that stays silent is reported as unreachable.
OutageReported ==
  <>[](~answering) => <>(state = "unreachable" \/ stop_event)
===============================================================================
