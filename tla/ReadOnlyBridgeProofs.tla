------------------------- MODULE ReadOnlyBridgeProofs -------------------------
(***************************************************************************)
(* What holds of the bridge without outlet control for every PDU, every    *)
(* configuration and every set of disturbances.                            *)
(***************************************************************************)
EXTENDS ReadOnlyBridge, ReadingsProofs

\* The poller's invariant holds in every state.
THEOREM InvariantHolds == Spec => []PollerInv
<1>1. Init => PollerInv
  BY InitPollerInv DEF Init
<1>2. PollerInv /\ [Next]_vars => PollerInv'
  BY PollerNextStep, PduStep, LinkStep, StutterStep DEF Next, Surroundings, vars
<1> QED
  BY <1>1, <1>2, PTL DEF Spec

\* Every variable keeps its type: no loop of the poller ever indexes an outlet
\* or an id that does not exist.
THEOREM TypeCorrect == Spec => []TypeOK
<1>1. PollerInv => TypeOK
  BY DEF PollerInv, TypeOK
<1> QED
  BY <1>1, InvariantHolds, PTL

\* Once discovery counts as published, the sensors and both entities of every
\* outlet remembered as announced are there.
THEOREM DiscoveryIsWhole == Spec => []AnnouncedWhole
<1>1. PollerInv => AnnouncedWhole
  BY DEF PollerInv
<1> QED
  BY <1>1, InvariantHolds, PTL

\* Once discovery is published no step changes the device id.
THEOREM IdentityStays == Spec => IdentityKept
<1>1. ASSUME [Next]_vars, discovery_published PROVE UNCHANGED device_id
  <2>1. CASE PollerNext
    BY <1>1, <2>1
       DEF PollerNext, Run, Wake, PollOnce, PollIdentity, DiscoverOutletCount, PollBank,
           PollOutlet, PollDone, GetRaises, PublishValues, PublishState, EndStates,
           PublishTotal, SkipTotal, NoDiscovery, PublishDiscovery, BeginDiscovery,
           RetireLegacy, EndLegacy, PublishSensor, EndSensors, BeginRenames, PublishSwitch,
           PublishButton, SkipOutlet, EndOutlets, RequestStop, Cancel, discoveryVars
  <2>2. CASE Surroundings \/ UNCHANGED vars
    BY <2>2 DEF Surroundings, vars, pollerVars, discoveryVars
  <2> QED
    BY <1>1, <2>1, <2>2 DEF Next
<1> QED
  BY <1>1, PTL DEF Spec, IdentityKept

-------------------------------------------------------------------------------
(***************************************************************************)
(* What is announced and what is published.                                *)
(***************************************************************************)
\* What surrounds the poller leaves it, and all it has published, alone.
LEMMA SurroundingsFrame ==
  ASSUME PollerInv, Surroundings \/ UNCHANGED vars
  PROVE  /\ PollerInv' /\ UNCHANGED pollerOwn
         /\ retained'.config = retained.config /\ retained'.legacy = retained.legacy
         /\ retained'.total = retained.total /\ retained'.state = retained.state
         /\ "dark" \notin Faults /\ answering => answering'
         /\ conn' = "up" => conn = "up"
<1>0. MqttTypeOK
  BY DEF PollerInv, PollTypes
<1>1. PollerInv'
  BY PduStep, LinkStep, StutterStep DEF Surroundings, vars
<1>2. UNCHANGED pollerOwn
  BY DEF Surroundings, vars, pollerVars, loopVars, pollerOwn
<1>3. CASE PduNext /\ UNCHANGED mqttVars
  <2>1. "dark" \notin Faults => UNCHANGED answering \/ answering' = TRUE
    BY <1>3 DEF PduNext, Toggle, Rename, Sequence, GoDark, Settle, Disturbance
  <2> QED
    BY <1>1, <1>2, <1>3, <2>1 DEF mqttVars, linkVars
<1>4. CASE LinkNext /\ UNCHANGED pduVars
  <2>1. /\ retained'.config = retained.config /\ retained'.legacy = retained.legacy
        /\ retained'.total = retained.total /\ retained'.state = retained.state
        /\ conn' = "up" => conn = "up"
    BY <1>0, <1>4, LinkFrame
  <2> QED
    BY <1>1, <1>2, <1>4, <2>1 DEF pduVars
<1>5. CASE UNCHANGED vars
  BY <1>1, <1>2, <1>5 DEF vars, mqttVars, pduVars, linkVars
<1> QED
  BY <1>3, <1>4, <1>5 DEF Surroundings

\* What the poller knows of its announcements holds in every state.
THEOREM AnnouncementHolds == Spec => []AnnouncementInv
<1>1. Init => AnnouncementInv
  BY InitPollerInv, NewAnnouncement, NothingRetainedKnown
     DEF Init, MqttInit, NothingRetained
<1>2. AnnouncementInv /\ [Next]_vars => AnnouncementInv'
  BY AnnouncementStep, SurroundingsFrame, AnnouncementOutside DEF Next, AnnouncementInv
<1> QED
  BY <1>1, <1>2, PTL DEF Spec

\* Unless a walk finds no outlets, every outlet polled has its switch and its
\* button by the end of every successful cycle (_publish_discovery).
THEOREM OutletsAnnounced ==
  ASSUME WalksWhole
  PROVE  Spec => []EveryOutletAnnounced
BY AnnouncementHolds, AllAnnounced, PTL

\* Home Assistant sees one device: unless a lost sysName can change what the
\* id is derived from, all entities are under one id (derive_device_id).
THEOREM DeviceIsOne ==
  ASSUME IdCertain
  PROVE  Spec => []OneDevice
BY AnnouncementHolds, AllOneDevice, PTL

\* Once discovery counts as published no entity of v0.1.x is left, unless the
\* id is uncertain, or the walk finds none or not all of the outlets
\* (_publish_discovery).
THEOREM LegacyGone ==
  ASSUME LegacyReached
  PROVE  Spec => []LegacyRetired
BY AnnouncementHolds, AllLegacyRetired, PTL

\* What the poller knows of the names while it is the only process that has
\* announced any.
NamesAlone ==
  AnnouncementInv /\ OnlyCounted /\ (PublishesKnown => NamesInv)

\* It knows that in every state, also when a walk has found no outlets.
THEOREM NamesAloneHold == Spec => []NamesAlone
<1>1. Init => NamesAlone
  <2> SUFFICES ASSUME Init PROVE NamesAlone
    OBVIOUS
  <2>1. AnnouncementInv
    BY InitPollerInv, NewAnnouncement, NothingRetainedKnown
       DEF Init, MqttInit, NothingRetained
  <2>2. OnlyCounted
    BY DEF Init, MqttInit, NothingRetained, OnlyCounted
  <2>3. NamesInv
    BY DEF Init, PollerInit, NamesInv, AfterSuccess
  <2> QED
    BY <2>1, <2>2, <2>3 DEF NamesAlone
<1>2. NamesAlone /\ [Next]_vars => NamesAlone'
  <2> SUFFICES ASSUME NamesAlone, [Next]_vars PROVE NamesAlone'
    OBVIOUS
  <2>0. PollerInv /\ AnnouncementInv /\ OnlyCounted
    BY DEF NamesAlone, AnnouncementInv
  <2>1. CASE PollerNext
    BY <2>0, <2>1, AnnouncementStep, OnlyCountedStep, NamesStep
       DEF NamesAlone, PublishesKnown
  <2>2. CASE Surroundings \/ UNCHANGED vars
    <3>1. /\ PollerInv' /\ UNCHANGED pollerOwn
          /\ retained'.config = retained.config /\ retained'.legacy = retained.legacy
          /\ "dark" \notin Faults /\ answering => answering'
          /\ conn' = "up" => conn = "up"
      BY <2>0, <2>2, SurroundingsFrame
    <3>2. OnlyCounted'
      BY <2>0, <3>1 DEF OnlyCounted, OutletCount, pollerOwn
    <3> QED
      BY <2>0, <3>1, <3>2, AnnouncementOutside, NamesOutside
         DEF NamesAlone, PublishesKnown
  <2> QED
    BY <2>1, <2>2 DEF Next
<1> QED
  BY <1>1, <1>2, PTL DEF Spec

\* The announced names are those last polled, unless a publish may be taken
\* for failed that was not (_republish_renamed_outlets).
THEOREM NamesAreCurrent ==
  ASSUME PublishesKnown
  PROVE  Spec => []NamesCurrent
<1>1. NamesAlone => NamesCurrent
  BY AllNamesCurrent DEF NamesAlone, AnnouncementInv
<1> QED
  BY <1>1, NamesAloneHold, PTL

\* The switch of the outlet whose button is next bears the name polled.
SwitchAnnounced ==
  Delivered /\ pc = "button" =>
    retained.config[<<device_id, "switch", at>>] = DisplayName(PolledOutlets[at].name)

\* A config topic announced bears the name polled, and the others are kept.
LEMMA ConfigAfter ==
  ASSUME PollerInv, pc \in {"switch", "button"}, at \in 1 .. OutletCount,
         NEW e \in OutletEntities, retained' = Announced(e, at)
  PROVE  /\ retained'.config[<<device_id, e, at>>] = DisplayName(PolledOutlets[at].name)
         /\ \A t \in ConfigTopics :
              t # <<device_id, e, at>> => retained'.config[t] = retained.config[t]
<1>1. retained \in Retained /\ <<device_id, e, at>> \in ConfigTopics
  BY AnnouncedEffect DEF PollerInv, PollTypes, MqttTypeOK
<1> QED
  BY <1>1 DEF Announced, Retained

\* The outlet the loop is at, while it announces one of its entities.
LEMMA LoopAt ==
  ASSUME PollerInv, PublishSwitch \/ PublishButton
  PROVE  /\ pc \in {"switch", "button"} /\ at \in 1 .. OutletCount
         /\ at \in Outlets /\ device_id \in DeviceIds
<1>1. pc \in {"switch", "button"}
  BY DEF PublishSwitch, PublishButton
<1>2. OutletCount \in Nat
  BY <1>1, LoopFacts, PduAssumption
<1>3. at <= OutletCount
  BY <1>1, LoopFacts DEF PublishSwitch, PublishButton, OutletLeft, PollerInv, Cursors
<1>4. at \in 1 .. OutletCount
  BY <1>1, <1>2, <1>3, LoopFacts
<1> QED
  BY <1>1, <1>4, LoopFacts

\* Every step keeps SwitchAnnounced.
LEMMA SwitchAnnouncedStep ==
  PollerInv /\ SwitchAnnounced /\ [Next]_vars => SwitchAnnounced'
<1> SUFFICES ASSUME PollerInv, SwitchAnnounced, [Next]_vars, Delivered', pc' = "button"
             PROVE  SwitchAnnounced'
  BY DEF SwitchAnnounced
<1>1. CASE PublishSwitch
  <2>1. retained' = Announced("switch", at) /\ at' = at
    BY <1>1, DeliveredKept
       DEF PublishSwitch, Publish, Handed, Delivered, Goto, CycleFails, CycleEnds,
           PollerNext, Run, PublishDiscovery
  <2>2. UNCHANGED <<device_id, last_snapshot>>
    BY <1>1 DEF PublishSwitch, publishFrame, discoveryVars
  <2>3. retained'.config[<<device_id, "switch", at>>] =
          DisplayName(PolledOutlets[at].name)
    BY <1>1, <2>1, LoopAt, ConfigAfter DEF OutletEntities
  <2> QED
    BY <2>1, <2>2, <2>3 DEF SwitchAnnounced, PolledOutlets, DisplayName
<1>2. CASE PollerNext /\ ~PublishSwitch
  <2>1. RequestStop
    BY <1>2
       DEF PollerNext, Run, Wake, PollOnce, PollIdentity, DiscoverOutletCount, PollBank,
           PollOutlet, PollDone, GetRaises, PublishValues, PublishState, EndStates,
           PublishTotal, SkipTotal, NoDiscovery, PublishDiscovery, BeginDiscovery,
           RetireLegacy, EndLegacy, PublishSensor, EndSensors, BeginRenames,
           PublishButton, SkipOutlet, EndOutlets, Cancel, Publish, Goto, CycleFails,
           CycleSucceeds, CycleEnds
  <2> QED
    BY <2>1
       DEF RequestStop, loopVars, discoveryVars, mqttVars, linkVars, SwitchAnnounced,
           Delivered, PolledOutlets, DisplayName
<1>3. CASE Surroundings \/ UNCHANGED vars
  BY <1>3, SurroundingsFrame
     DEF pollerOwn, discoveryVars, SwitchAnnounced, Delivered, PolledOutlets, DisplayName
<1> QED
  BY <1>1, <1>2, <1>3 DEF Next

\* A name is only taken for announced when both entities bear it, whatever has
\* failed before (_publish_discovery, _republish_renamed_outlets).
THEOREM RemembersWhatIsAnnounced == Spec => RememberedAsAnnounced
<1>1. Init => PollerInv /\ SwitchAnnounced
  BY InitPollerInv DEF Init, PollerInit, SwitchAnnounced
<1>2. PollerInv /\ [Next]_vars => PollerInv'
  BY PollerNextStep, PduStep, LinkStep, StutterStep DEF Next, Surroundings, vars
<1>3. ASSUME PollerInv, SwitchAnnounced, [Next]_vars, Delivered, NEW n \in Outlets,
             published_names'[n] # published_names[n], NEW e \in OutletEntities
      PROVE  retained'.config[<<device_id, e, n>>] = DisplayName(published_names'[n])
  <2>1. PublishButton
    BY <1>3
       DEF Next, Surroundings, vars, pollerVars, PollerNext, Run, Wake, PollOnce,
           PollIdentity, DiscoverOutletCount, PollBank, PollOutlet, PollDone, GetRaises,
           PublishValues, PublishState, EndStates, PublishTotal, SkipTotal, NoDiscovery,
           PublishDiscovery, BeginDiscovery, RetireLegacy, EndLegacy, PublishSensor,
           EndSensors, BeginRenames, PublishSwitch, SkipOutlet, EndOutlets, RequestStop,
           Cancel, discoveryVars
  <2>2. /\ retained' = Announced("button", at)
        /\ published_names' = [published_names EXCEPT ![at] = PolledOutlets[at].name]
    BY <1>3, <2>1 DEF PublishButton, Publish, Handed, Delivered
  <2>3. n = at /\ published_names'[n] = PolledOutlets[at].name
    BY <1>3, <2>2 DEF PollerInv, PollTypes, PollerTypeOK
  <2>4. /\ pc = "button" /\ at \in 1 .. OutletCount /\ at \in Outlets
        /\ device_id \in DeviceIds
    BY <1>3, <2>1, LoopAt DEF PublishButton
  <2>5. CASE e = "button"
    BY <1>3, <2>2, <2>3, <2>4, <2>5, ConfigAfter
  <2>6. CASE e = "switch"
    <3>1. <<device_id, "switch", at>> \in ConfigTopics
      BY <2>4 DEF ConfigTopics, OutletEntities
    <3>2. <<device_id, "switch", at>> # <<device_id, "button", at>>
      OBVIOUS
    <3>3. retained'.config[<<device_id, "switch", at>>] =
            retained.config[<<device_id, "switch", at>>]
      BY <1>3, <2>2, <2>4, <3>1, <3>2, ConfigAfter DEF OutletEntities
    <3> QED
      BY <1>3, <2>3, <2>4, <2>6, <3>3 DEF SwitchAnnounced
  <2> QED
    BY <2>5, <2>6 DEF OutletEntities
<1>4. PollerInv /\ SwitchAnnounced /\ [Next]_vars =>
        [\A n \in Outlets :
           Delivered /\ published_names'[n] # published_names[n] =>
             \A e \in OutletEntities :
               retained.config'[<<device_id, e, n>>] = DisplayName(published_names'[n])]_vars
  BY <1>3
<1> QED
  BY <1>1, <1>2, <1>4, SwitchAnnouncedStep, PTL DEF Spec, RememberedAsAnnounced

\* What the poller knows of the values it has published.
THEOREM ReadingsHold == Spec => [](ReadingsInv /\ StatesInv)
<1>1. Init => ReadingsInv /\ StatesInv
  BY InitPollerInv, NewReadings DEF Init, MqttInit, NothingRetained
<1>2. ReadingsInv /\ StatesInv /\ [Next]_vars => ReadingsInv' /\ StatesInv'
  <2> SUFFICES ASSUME ReadingsInv, StatesInv, [Next]_vars
               PROVE  ReadingsInv' /\ StatesInv'
    OBVIOUS
  <2>1. CASE PollerNext
    BY <2>1, ReadingsStep, StatesStep DEF ReadingsInv
  <2>2. CASE Surroundings \/ UNCHANGED vars
    <3>1. ReadingsInv'
      BY <2>2, SurroundingsFrame, ReadingsOutside DEF ReadingsInv
    <3>2. StatesInv'
      BY <2>2, SurroundingsFrame
         DEF ReadingsInv, StatesInv, StatePublished, AfterSuccess, OutletCount,
             PolledOutlets, pollerOwn, Delivered
    <3> QED
      BY <3>1, <3>2
  <2> QED
    BY <2>1, <2>2 DEF Next
<1> QED
  BY <1>1, <1>2, PTL DEF Spec

\* A cycle that is called a success has published every state and every total
\* it has read, and they are at the broker (_publish, _run): with QoS 1 or 2
\* whatever goes wrong, and with QoS 0 as long as the connection lives.
THEOREM SuccessPublishes == Spec => []SuccessIsPublished
<1>1. ReadingsInv /\ StatesInv => SuccessIsPublished
  BY DEF ReadingsInv, CycleComplete, TotalsInv, TotalPublished, StatesInv,
         StatePublished, SuccessIsPublished, PolledOutlets
<1> QED
  BY <1>1, ReadingsHold, PTL

\* The watts delivered are those of the amps delivered, also when a poll has lost
\* the load: unless it may be lost, and a publish be taken for failed that was not.
THEOREM TotalsAlwaysAgree ==
  ASSUME PublishesKnown \/ LoadsCertain
  PROVE  Spec => []TotalsAgree
<1>1. ReadingsInv => TotalsAgree
  BY AllTotalsAgree
<1> QED
  BY <1>1, ReadingsHold, PTL
===============================================================================
