--------------------------- MODULE AnnouncementProofs ---------------------------
(***************************************************************************)
(* What Home Assistant has been told, for any number of outlets, names and *)
(* ids: every outlet polled is announced, under its name, under one id,    *)
(* and the entities of v0.1.x are gone.                                    *)
(*                                                                         *)
(* The invariants are the poller's own: the callers of the controller and  *)
(* the surroundings preserve them, and so does the end of a process.  Each *)
(* of them needs something not to go wrong.                                *)
(***************************************************************************)
EXTENDS PollerProofs

\* A walk that ends without an error has found the outlets.
WalksWhole == "empty_walk" \notin Faults

\* Whatever poll the id is derived from, it comes out the same.
IdCertain == \/ HaDeviceId # None
             \/ SysName = None
             \/ {"loss", "dark"} \cap Faults = {}

\* A publish raises only when the connection has failed.
PublishesKnown == "stall" \notin Faults

-------------------------------------------------------------------------------
(***************************************************************************)
(* The invariants.                                                         *)
(***************************************************************************)
\* What a successful cycle leaves behind.
CycleComplete ==
  /\ AfterSuccess => last_snapshot \in PollSnapshot /\ Len(PolledOutlets) = OutletCount
  /\ AfterSuccess /\ HaDiscoveryEnabled => discovery_published
  /\ discovery_published \/ pc \in {"legacy", "sensors", "switch", "button"} =>
       HaDiscoveryEnabled

\* The outlets are counted before any is polled, and counted once.
CountKnown ==
  /\ outlet_count_cached \in {AllRows, None}
  /\ pc \in {"bank", "outlets"} \cup Publishing \/ discovery_published =>
       outlet_count_cached = AllRows

\* Every outlet counted has been announced, and its announcement stays.
EveryEntity ==
  Delivered /\ discovery_published =>
    \A n \in 1 .. OutletCount, e \in OutletEntities : Entity(e, n)

AnnounceInv == PollerInv /\ CycleComplete /\ CountKnown /\ EveryEntity

\* The id the bridge goes by.
TheId == derive_device_id(SysName)

\* Nothing is read, used or announced that would make for another id.
IdInv ==
  /\ "dark" \notin Faults => answering
  /\ device_id \in {TheId, None}
  /\ pc \in {"walk", "bank", "outlets"} => derive_device_id(readings.sys_name) = TheId
  /\ pc \in Publishing => derive_device_id(last_snapshot.sys_name) = TheId
  /\ \A t \in ConfigTopics : retained.config[t] # None => t[1] = TheId

\* The legacy topics are emptied one after the other, before anything else is
\* announced.
LegacyInv ==
  /\ retained.legacy \subseteq {TheId} \X Outlets
  /\ Delivered /\ pc = "legacy" =>
       \A n \in Outlets : n < at => <<TheId, n>> \notin retained.legacy
  /\ Delivered /\ legacy_discovery_retired => retained.legacy = {}
  /\ pc \in {"sensors", "switch", "button"} \/ discovery_published =>
       legacy_discovery_retired

\* The entities of outlet n bear the name the poller remembers.
Remembered(n) ==
  \A e \in OutletEntities :
    Entity(e, n) =>
      retained.config[<<device_id, e, n>>] = DisplayName(published_names[n])

\* The cycle under way may still succeed, or the last one has.
Sound == \/ conn = "up" /\ pc # "stopped"
         \/ AfterSuccess
         \/ pc \in {"legacy", "sensors", "switch", "button"}
         \/ pc = "totals" /\ at > 3

\* The names remembered are those at the broker, but for the outlet whose
\* switch is announced and whose button is not; and a pass remembers the
\* names polled, as far as it has come.
NamesInv ==
  Delivered =>
    /\ Sound /\ discovery_published =>
         \A n \in 1 .. OutletCount : (pc = "button" /\ n = at) \/ Remembered(n)
    /\ pc \in {"switch", "button"} =>
         \A n \in 1 .. OutletCount : n < at =>
           Remembered(n) /\ published_names[n] = PolledOutlets[n].name
    /\ pc = "button" =>
         retained.config[<<device_id, "switch", at>>] =
           DisplayName(PolledOutlets[at].name)
    /\ AfterSuccess /\ HaDiscoveryEnabled =>
         \A n \in 1 .. OutletCount : published_names[n] = PolledOutlets[n].name

\* No outlet is announced that has not been counted: what holds of a broker
\* that knows of one process only.
OnlyCounted ==
  \A t \in ConfigTopics : retained.config[t] # None => t[3] <= OutletCount

-------------------------------------------------------------------------------
(***************************************************************************)
(* What a step of the poller does to what is announced.                    *)
(***************************************************************************)
\* The steps that neither announce an entity nor settle anything about one.
Unannounced ==
  \/ Wake \/ PollOnce \/ PublishValues \/ RequestStop \/ Cancel
  \/ BeginRenames \/ PublishSensor \/ EndSensors

\* They leave the discovery topics of the outlets as they are.
LEMMA UnannouncedFrame ==
  ASSUME PollerInv, Unannounced
  PROVE  /\ UNCHANGED <<pduVars, linkVars, discoveryVars>>
         /\ retained'.config = retained.config
         /\ retained'.legacy = retained.legacy
<1>0. retained \in Retained
  BY DEF PollerInv, PollTypes, MqttTypeOK
<1>1. CASE PublishState \/ PublishTotal
  BY <1>0, <1>1 DEF PublishState, PublishTotal, Publish, publishFrame, Retained,
                    Handed, linkVars
<1>2. CASE PublishSensor
  BY <1>0, <1>2 DEF PublishSensor, Publish, publishFrame, Retained, Handed,
                    linkVars
<1>3. CASE ~(PublishState \/ PublishTotal \/ PublishSensor)
  BY <1>3
     DEF Unannounced, Wake, PollOnce, PollIdentity, DiscoverOutletCount, PollBank,
         PollOutlet, PollDone, PublishValues, EndStates, SkipTotal, NoDiscovery,
         RequestStop, Cancel, BeginRenames, EndSensors, publishFrame, mqttVars,
         GetRaises, CycleFails, CycleEnds, linkVars
<1> QED
  BY <1>1, <1>2, <1>3

\* The others announce the entity the task is at, or empty a legacy topic.
LEMMA AnnouncingFrame ==
  ASSUME PollerInv,
         \/ BeginDiscovery \/ RetireLegacy \/ EndLegacy
         \/ PublishSwitch \/ PublishButton \/ SkipOutlet \/ EndOutlets
  PROVE  /\ UNCHANGED <<pduVars, linkVars, last_snapshot, outlet_count_cached>>
         /\ \/ retained'.config = retained.config
            \/ /\ pc \in OutletEntities /\ at \in 1 .. OutletCount
               /\ device_id \in DeviceIds
               /\ <<device_id, pc, at>> \in ConfigTopics
               /\ retained'.config =
                    [retained.config EXCEPT ![<<device_id, pc, at>>] =
                       DisplayName(PolledOutlets[at].name)]
         /\ \/ retained'.legacy = retained.legacy
            \/ RetireLegacy /\ retained'.legacy = retained.legacy \ {<<device_id, at>>}
<1>0. retained \in Retained /\ PollTypes /\ Cursors
  BY DEF PollerInv, PollTypes, MqttTypeOK
<1>1. CASE PublishSwitch \/ PublishButton
  <2>1. /\ pc \in {"switch", "button"} /\ at \in 1 .. OutletCount
        /\ device_id \in DeviceIds
    <3>1. device_id \in DeviceIds /\ at \in Nat \ {0} /\ pc \in {"switch", "button"}
      BY <1>0, <1>1
         DEF PublishSwitch, PublishButton, Cursors, PollTypes, PollerTypeOK, LoopTypeOK
    <3>2. Len(PolledOutlets) = OutletCount /\ OutletCount \in 0 .. NOutlets
      BY <1>0, <3>1, SnapshotFacts
    <3>3. at <= OutletCount
      BY <1>0, <1>1, <3>2 DEF PublishSwitch, PublishButton, OutletLeft, Cursors
    <3> QED
      BY <3>1, <3>2, <3>3, PduAssumption
  <2>2. /\ retained' \in {retained, Announced(pc, at)} /\ UNCHANGED linkVars
        /\ UNCHANGED <<pduVars, last_snapshot, outlet_count_cached>>
    BY <1>1 DEF PublishSwitch, PublishButton, Publish, publishFrame, Handed,
                linkVars
  <2>3. /\ Announced(pc, at).config =
             [retained.config EXCEPT ![<<device_id, pc, at>>] =
                DisplayName(PolledOutlets[at].name)]
        /\ Announced(pc, at).legacy = retained.legacy
    BY <1>0 DEF Announced, Retained
  <2>4. <<device_id, pc, at>> \in ConfigTopics
    BY <2>1, AnnouncedEffect DEF OutletEntities
  <2> QED
    BY <2>1, <2>2, <2>3, <2>4 DEF OutletEntities
<1>2. CASE RetireLegacy
  BY <1>0, <1>2 DEF RetireLegacy, Publish, publishFrame, Retained, Handed,
                    linkVars
<1>3. CASE BeginDiscovery \/ EndLegacy \/ SkipOutlet \/ EndOutlets
  BY <1>3 DEF BeginDiscovery, EndLegacy, SkipOutlet, EndOutlets, publishFrame, mqttVars,
              linkVars
<1> QED
  BY <1>1, <1>2, <1>3

\* There is no other step.
LEMMA StepKinds ==
  ASSUME PollerNext
  PROVE  \/ Unannounced
         \/ BeginDiscovery \/ RetireLegacy \/ EndLegacy
         \/ PublishSwitch \/ PublishButton \/ SkipOutlet \/ EndOutlets
BY DEF PollerNext, Run, PublishDiscovery, Unannounced

\* What has been delivered does not change while the poller runs.
LEMMA DeliveredKept ==
  ASSUME PollerInv, PollerNext
  PROVE  UNCHANGED linkVars /\ Delivered' = Delivered
<1>1. UNCHANGED linkVars
  BY StepKinds, UnannouncedFrame, AnnouncingFrame
<1> QED
  BY <1>1 DEF linkVars, Delivered

-------------------------------------------------------------------------------
(***************************************************************************)
(* Every outlet is announced.                                              *)
(***************************************************************************)
\* What a successful cycle leaves behind is there when it ends, and stays.
LEMMA CycleCompleteStep ==
  ASSUME PollerInv, CycleComplete, PollerNext
  PROVE  CycleComplete'
<1>1. CASE Wake \/ PollOnce \/ RequestStop \/ Cancel
  BY <1>1
     DEF CycleComplete, AfterSuccess, OutletCount, PolledOutlets, Wake, PollOnce,
         PollIdentity, DiscoverOutletCount, CycleFails, CycleEnds, PollBank,
         PollOutlet, PollDone, RequestStop, Cancel, Goto, discoveryVars, loopVars,
         GetRaises
<1>2. CASE \/ PublishState \/ EndStates \/ PublishTotal \/ SkipTotal
           \/ RetireLegacy \/ EndLegacy \/ PublishSensor \/ EndSensors
           \/ BeginDiscovery \/ BeginRenames
           \/ PublishSwitch \/ PublishButton \/ SkipOutlet
  BY <1>2
     DEF CycleComplete, AfterSuccess, PublishState, EndStates, PublishTotal,
         SkipTotal, RetireLegacy, EndLegacy, PublishSensor, EndSensors,
         BeginDiscovery, BeginRenames, PublishSwitch, PublishButton, SkipOutlet,
         TotalsDone, Publish, CycleFails, CycleEnds, Goto, discoveryVars, Handed,
         linkVars
<1>3. CASE NoDiscovery \/ EndOutlets
  <2>1. last_snapshot \in PollSnapshot /\ Len(PolledOutlets) = OutletCount
    BY <1>3, SnapshotFacts DEF PollerInv, NoDiscovery, TotalsDone, EndOutlets
  <2> QED
    BY <1>3, <2>1
       DEF CycleComplete, AfterSuccess, OutletCount, PolledOutlets, NoDiscovery,
           EndOutlets, CycleSucceeds, CycleEnds, publishFrame, discoveryVars
<1> QED
  BY <1>1, <1>2, <1>3 DEF PollerNext, Run, PublishValues, PublishDiscovery

\* The outlets are counted by the first walk that ends without an error.
LEMMA CountKnownStep ==
  ASSUME PollerInv, WalksWhole, CountKnown, PollerNext
  PROVE  /\ CountKnown'
         /\ discovery_published => OutletCount' = OutletCount
<1>0. Cursors
  BY DEF PollerInv
<1>1. CASE DiscoverOutletCount
  <2>1. outlet_count_cached = None /\ ~discovery_published /\ UNCHANGED discovery_published
    BY <1>0, <1>1, PduAssumption, NoneAssumption, MaxRowsAssumption
       DEF DiscoverOutletCount, Cursors, CountKnown, AllRows, discoveryVars,
           GetRaises, CycleFails, CycleEnds
  <2>2. CASE outlet_count_cached' = AllRows /\ pc' = "bank"
    BY <2>1, <2>2 DEF CountKnown
  <2>3. CASE CycleFails /\ UNCHANGED outlet_count_cached
    BY <2>1, <2>3 DEF CountKnown, CycleFails, CycleEnds, Publishing
  <2>4. \A rows \in WalkReplies : rows = AllRows
    BY DEF WalkReplies, WalksWhole, Disturbance
  <2>5. AllRows # 0
    BY PduAssumption, MaxRowsAssumption DEF AllRows
  <2> QED
    BY <1>1, <2>1, <2>2, <2>3, <2>4, <2>5 DEF DiscoverOutletCount, Goto,
                                              GetRaises, CycleFails, CycleEnds
<1>2. CASE ~DiscoverOutletCount
  <2>1. UNCHANGED outlet_count_cached
    BY <1>2
       DEF PollerNext, Run, Wake, PollOnce, PollIdentity, PollBank, PollOutlet,
           PollDone, PublishValues, PublishState, EndStates, PublishTotal, SkipTotal,
           NoDiscovery, PublishDiscovery, BeginDiscovery, RetireLegacy, EndLegacy,
           PublishSensor, EndSensors, BeginRenames, PublishSwitch, PublishButton,
           SkipOutlet, EndOutlets, RequestStop, Cancel, publishFrame, GetRaises,
           CycleFails, CycleEnds
  <2>2. \/ pc' \notin {"bank", "outlets"} \cup Publishing
        \/ pc \in {"bank", "outlets"} \cup Publishing
        \/ outlet_count_cached # None
    BY <1>2
       DEF PollerNext, Run, Wake, PollOnce, PollIdentity, PollBank, PollOutlet,
           PollDone, PublishValues, PublishState, EndStates, PublishTotal, SkipTotal,
           NoDiscovery, PublishDiscovery, BeginDiscovery, RetireLegacy, EndLegacy,
           PublishSensor, EndSensors, BeginRenames, PublishSwitch, PublishButton,
           SkipOutlet, EndOutlets, RequestStop, Cancel, TotalsDone, Goto,
           CycleSucceeds, CycleEnds, loopVars, Publishing, GetRaises, CycleFails
  <2>3. discovery_published' => discovery_published \/ pc = "switch"
    BY StepKinds, UnannouncedFrame
       DEF BeginDiscovery, RetireLegacy, EndLegacy, PublishSwitch, PublishButton,
           SkipOutlet, EndOutlets, discoveryVars
  <2> QED
    BY <2>1, <2>2, <2>3 DEF CountKnown, OutletCount, Publishing
<1> QED
  BY <1>1, <1>2

\* What has been announced of an outlet stays announced.
LEMMA EntityStays ==
  ASSUME PollerInv, PollerNext, discovery_published,
         NEW n \in Outlets, NEW e \in OutletEntities, Entity(e, n)
  PROVE  Entity(e, n)'
<1>1. device_id \in DeviceIds /\ <<device_id, e, n>> \in ConfigTopics
  BY DEF PollerInv, AnnouncedWhole, ConfigTopics
<1>2. UNCHANGED device_id
  BY StepKinds, UnannouncedFrame
     DEF BeginDiscovery, RetireLegacy, EndLegacy, PublishSwitch, PublishButton,
         SkipOutlet, EndOutlets, discoveryVars
<1>3. CASE retained'.config = retained.config
  BY <1>2, <1>3 DEF Entity
<1>4. CASE /\ pc \in OutletEntities /\ at \in 1 .. OutletCount
           /\ retained'.config =
                [retained.config EXCEPT ![<<device_id, pc, at>>] =
                   DisplayName(PolledOutlets[at].name)]
  <2>1. DisplayName(PolledOutlets[at].name) # None
    BY <1>4, SnapshotFacts, DisplayNameType
       DEF PollerInv, OutletEntities, OutletReading
  <2>2. retained.config \in [ConfigTopics -> Names \cup {Unnamed, None}]
    BY DEF PollerInv, PollTypes, MqttTypeOK, Retained
  <2> QED
    BY <1>1, <1>2, <1>4, <2>1, <2>2 DEF Entity
<1> QED
  BY <1>3, <1>4, StepKinds, UnannouncedFrame, AnnouncingFrame

\* Every step of the poller keeps AnnounceInv.
LEMMA AnnounceStep ==
  ASSUME AnnounceInv, WalksWhole, PollerNext
  PROVE  AnnounceInv'
<1>0. PollerInv /\ CycleComplete /\ CountKnown /\ EveryEntity
  BY DEF AnnounceInv
<1>1. /\ PollerInv' /\ CycleComplete' /\ CountKnown'
      /\ discovery_published => OutletCount' = OutletCount
  BY <1>0, PollerNextStep, CycleCompleteStep, CountKnownStep
<1> SUFFICES ASSUME Delivered' PROVE AnnounceInv'
  BY <1>1 DEF AnnounceInv, EveryEntity
<1>d. Delivered
  BY <1>0, DeliveredKept
<1>2. OutletCount \in 0 .. NOutlets
  BY <1>0, PduAssumption DEF PollerInv, PollTypes, PollerTypeOK, OutletCount, Outlets
<1>3. CASE discovery_published
  <2>1. ASSUME NEW n \in 1 .. OutletCount', NEW e \in OutletEntities
        PROVE  Entity(e, n)'
    <3>1. n \in Outlets /\ n \in 1 .. OutletCount
      BY <1>1, <1>2, <1>3, PduAssumption DEF Outlets
    <3> QED
      BY <1>0, <1>d, <1>3, <3>1, EntityStays DEF EveryEntity
  <2> QED
    BY <1>0, <1>1, <2>1 DEF AnnounceInv, EveryEntity
<1>4. CASE EndOutlets /\ ~discovery_published
  <2>1. /\ UNCHANGED <<retained, device_id>> /\ OutletCount' = OutletCount
        /\ \A n \in 1 .. OutletCount : n \in Outlets /\ n < at
    BY <1>0, <1>2, <1>4, SnapshotFacts
       DEF EndOutlets, OutletLeft, PollerInv, PollTypes, PollerTypeOK, LoopTypeOK,
           publishFrame, mqttVars, OutletCount, linkVars
  <2> QED
    BY <1>0, <1>1, <1>d, <1>4, <2>1
       DEF AnnounceInv, EveryEntity, PollerInv, PassProgress, EndOutlets, Entity,
           Delivered
<1>5. CASE ~EndOutlets /\ ~discovery_published
  <2>1. ~discovery_published'
    BY <1>0, <1>5, StepKinds, UnannouncedFrame
       DEF BeginDiscovery, RetireLegacy, EndLegacy, PublishSwitch, PublishButton,
           SkipOutlet, discoveryVars
  <2> QED
    BY <1>1, <2>1 DEF AnnounceInv, EveryEntity
<1> QED
  BY <1>3, <1>4, <1>5

-------------------------------------------------------------------------------
(***************************************************************************)
(* One device, and nothing left of v0.1.x.                                 *)
(***************************************************************************)
\* A poll reads the sysName for the sake of the id only, and cannot go wrong
\* about the id (derive_device_id).
LEMMA IdRead ==
  ASSUME IdCertain, "dark" \notin Faults => answering, NEW reply \in Replies(SysName)
  PROVE  derive_device_id(reply) = TheId
BY DEF IdCertain, Replies, Disturbance, TheId, derive_device_id

\* What a poll has read of the sysName stays with its snapshot.
LEMMA IdReadings ==
  ASSUME PollerInv, IdCertain, IdInv, PollerNext
  PROVE  /\ pc' \in {"walk", "bank", "outlets"} =>
              derive_device_id(readings'.sys_name) = TheId
         /\ pc' \in Publishing => derive_device_id(last_snapshot'.sys_name) = TheId
<1>0. readings \in PollSnapshot /\ ("dark" \notin Faults => answering)
  BY DEF PollerInv, PollTypes, PollerTypeOK, LoopTypeOK, IdInv
<1>1. CASE PollIdentity
  <2>1. PICK reply \in Replies(SysName) :
          readings' = [readings EXCEPT !.sys_name = reply]
    BY <1>1 DEF PollIdentity
  <2>2. readings'.sys_name = reply /\ pc' \in {"walk", "bank"}
    BY <1>0, <1>1, <2>1 DEF PollIdentity, PollSnapshot
  <2> QED
    BY <1>0, <2>2, IdRead DEF Publishing
<1>2. CASE PollBank \/ PollOutlet
  BY <1>0, <1>2 DEF PollBank, PollOutlet, PollSnapshot, Publishing, IdInv
<1>3. CASE DiscoverOutletCount
  BY <1>3 DEF DiscoverOutletCount, CycleFails, CycleEnds, Goto, Publishing, IdInv,
              GetRaises
<1>4. CASE PollDone
  BY <1>4 DEF PollDone, Publishing, IdInv
<1>5. CASE Wake \/ GetRaises \/ RequestStop \/ Cancel
  BY <1>5 DEF Wake, GetRaises, CycleFails, CycleEnds, RequestStop, Cancel, Goto,
              loopVars, Publishing, IdInv
<1>6. CASE PublishValues \/ PublishDiscovery
  <2>1. pc \in Publishing /\ UNCHANGED last_snapshot /\ pc' \in Publishing \cup {"sleep"}
    BY <1>6
       DEF PublishValues, PublishState, EndStates, PublishTotal, SkipTotal,
           NoDiscovery, PublishDiscovery, BeginDiscovery, RetireLegacy, EndLegacy,
           PublishSensor, EndSensors, BeginRenames, PublishSwitch, PublishButton,
           SkipOutlet, EndOutlets, TotalsDone, Publish, Goto, CycleFails,
           CycleSucceeds, CycleEnds, publishFrame, Publishing, Handed, linkVars
  <2> QED
    BY <2>1 DEF Publishing, IdInv
<1> QED
  BY <1>1, <1>2, <1>3, <1>4, <1>5, <1>6 DEF PollerNext, Run, PollOnce

\* Every step of the poller keeps IdInv.
LEMMA IdStep ==
  ASSUME PollerInv, IdCertain, IdInv, PollerNext
  PROVE  IdInv'
<1>1. UNCHANGED pduVars
  BY StepKinds, UnannouncedFrame, AnnouncingFrame
<1>2. device_id' \in {TheId, None}
  <2>1. CASE BeginDiscovery
    BY <2>1 DEF BeginDiscovery, TotalsDone, Publishing, IdInv
  <2>2. CASE ~BeginDiscovery
    <3>1. UNCHANGED device_id
      BY <2>2, StepKinds, UnannouncedFrame
         DEF RetireLegacy, EndLegacy, PublishSwitch, PublishButton, SkipOutlet,
             EndOutlets, discoveryVars
    <3> QED
      BY <3>1 DEF IdInv
  <2> QED
    BY <2>1, <2>2
<1>3. ASSUME NEW t \in ConfigTopics, retained'.config[t] # None PROVE t[1] = TheId
  <2>1. CASE retained'.config = retained.config
    BY <1>3, <2>1 DEF IdInv
  <2>2. CASE /\ device_id \in DeviceIds
             /\ retained'.config =
                  [retained.config EXCEPT ![<<device_id, pc, at>>] =
                     DisplayName(PolledOutlets[at].name)]
    <3>1. device_id = TheId
      BY <2>2, DiscoveryAssumption DEF IdInv
    <3>2. retained.config \in [ConfigTopics -> Names \cup {Unnamed, None}]
      BY DEF PollerInv, PollTypes, MqttTypeOK, Retained
    <3>3. CASE t = <<device_id, pc, at>>
      BY <3>1, <3>3
    <3>4. CASE t # <<device_id, pc, at>>
      BY <1>3, <2>2, <3>2, <3>4 DEF IdInv
    <3> QED
      BY <3>3, <3>4
  <2> QED
    BY <2>1, <2>2, StepKinds, UnannouncedFrame, AnnouncingFrame
<1>4. TheId' = TheId
  BY DEF TheId, derive_device_id
<1> QED
  BY <1>1, <1>2, <1>3, IdReadings DEF IdInv, pduVars, TheId, derive_device_id

\* Every step of the poller keeps LegacyInv.
LEMMA LegacyStep ==
  ASSUME AnnounceInv, IdInv, LegacyInv, NOutlets <= MaxRows, PollerNext
  PROVE  LegacyInv'
<1>0. PollerInv /\ PollTypes /\ CountKnown
  BY DEF AnnounceInv, PollerInv
<1>d. Delivered' = Delivered
  BY <1>0, DeliveredKept
<1>1. CASE RetireLegacy
  <2>1. device_id = TheId /\ at \in Nat \ {0}
    BY <1>0, <1>1 DEF RetireLegacy, PollerInv, Cursors, IdInv, PollTypes,
                      PollerTypeOK, LoopTypeOK
  <2>2. retained' \in {retained, [retained EXCEPT !.legacy = @ \ {<<device_id, at>>}]}
    BY <1>1 DEF RetireLegacy, Publish, Handed, linkVars
  <2>3. retained'.legacy \in {retained.legacy, retained.legacy \ {<<TheId, at>>}}
    BY <1>0, <2>1, <2>2 DEF PollTypes, MqttTypeOK, Retained
  <2>4. UNCHANGED discoveryVars
    BY <1>1 DEF RetireLegacy
  <2>5. CASE CycleFails
    BY <1>d, <2>3, <2>4, <2>5
       DEF LegacyInv, discoveryVars, CycleFails, CycleEnds, TheId, derive_device_id
  <2>6. CASE /\ Delivered =>
                  retained' = [retained EXCEPT !.legacy = @ \ {<<device_id, at>>}]
             /\ Goto("legacy", at + 1)
    <3>1. Delivered => retained'.legacy = retained.legacy \ {<<TheId, at>>}
      BY <1>0, <2>1, <2>6 DEF PollTypes, MqttTypeOK, Retained
    <3>2. ASSUME Delivered, NEW n \in Outlets, n < at + 1
          PROVE  <<TheId, n>> \notin retained'.legacy
      <4>1. CASE n = at
        BY <3>1, <3>2, <4>1
      <4>2. CASE n < at
        BY <1>1, <3>1, <3>2, <4>2 DEF LegacyInv, RetireLegacy
      <4> QED
        BY <2>1, <3>2, <4>1, <4>2, PduAssumption DEF Outlets
    <3> QED
      BY <1>d, <1>1, <2>3, <2>4, <2>6, <3>2
         DEF LegacyInv, RetireLegacy, discoveryVars, Goto, TheId, derive_device_id
  <2> QED
    BY <1>1, <2>5, <2>6 DEF RetireLegacy, Publish, Handed, Delivered
<1>2. CASE EndLegacy
  <2>1. /\ OutletCount = NOutlets /\ Len(PolledOutlets) = OutletCount
        /\ at \in Nat /\ at > NOutlets
    BY <1>0, <1>2, SnapshotFacts, PduAssumption, NoneAssumption
       DEF EndLegacy, OutletLeft, CountKnown, AllRows, OutletCount, Publishing,
           PollerInv, PollTypes, PollerTypeOK, LoopTypeOK
  <2>2. Delivered => retained.legacy = {}
    BY <1>2, <2>1, PduAssumption DEF LegacyInv, EndLegacy, Outlets
  <2> QED
    BY <1>d, <1>2, <2>2
       DEF LegacyInv, EndLegacy, Goto, mqttVars, TheId, derive_device_id
<1>3. CASE ~RetireLegacy /\ ~EndLegacy
  <2>1. retained'.legacy = retained.legacy /\ UNCHANGED legacy_discovery_retired
    BY <1>0, <1>3, StepKinds, UnannouncedFrame, AnnouncingFrame
       DEF BeginDiscovery, PublishSwitch, PublishButton, SkipOutlet, EndOutlets,
           discoveryVars
  <2>2. pc' = "legacy" => at' = 1 \/ (pc = "legacy" /\ at' = at)
    <3>1. CASE RequestStop \/ BeginDiscovery
      BY <3>1 DEF RequestStop, BeginDiscovery, Goto, loopVars
    <3>2. CASE ~RequestStop /\ ~BeginDiscovery
      <4>1. pc' # "legacy"
        BY <1>3, <3>2
           DEF PollerNext, Run, Wake, PollOnce, PollIdentity, DiscoverOutletCount,
               PollBank, PollOutlet, PollDone, PublishValues, PublishState, EndStates,
               PublishTotal, SkipTotal, NoDiscovery, PublishDiscovery, PublishSensor,
               EndSensors, BeginRenames, PublishSwitch, PublishButton, SkipOutlet,
               EndOutlets, Cancel, Publish, Goto, CycleFails, CycleSucceeds, CycleEnds,
               Handed, linkVars, GetRaises
      <4> QED
        BY <4>1
    <3> QED
      BY <3>1, <3>2
  <2>3. \/ pc' \notin {"sensors", "switch", "button"}
        \/ pc \in {"sensors", "switch", "button"}
        \/ legacy_discovery_retired \/ discovery_published
    BY <1>3
       DEF PollerNext, Run, Wake, PollOnce, PollIdentity, DiscoverOutletCount, PollBank,
           PollOutlet, PollDone, PublishValues, PublishState, EndStates, PublishTotal,
           SkipTotal, NoDiscovery, PublishDiscovery, BeginDiscovery, PublishSensor,
           EndSensors, BeginRenames, PublishSwitch, PublishButton, SkipOutlet,
           EndOutlets, RequestStop, Cancel, Publish, Goto, CycleFails, CycleSucceeds,
           CycleEnds, loopVars, Handed, linkVars, GetRaises
  <2>4. discovery_published' => discovery_published \/ pc = "switch"
    BY <1>0, <1>3, StepKinds, UnannouncedFrame
       DEF BeginDiscovery, PublishSwitch, PublishButton, SkipOutlet, EndOutlets,
           discoveryVars
  <2>5. \A n \in Outlets : ~(n < 1)
    BY PduAssumption DEF Outlets
  <2>6. Delivered /\ pc' = "legacy" =>
          \A n \in Outlets : n < at' => <<TheId, n>> \notin retained.legacy
    BY <2>2, <2>5 DEF LegacyInv
  <2> QED
    BY <1>d, <2>1, <2>3, <2>4, <2>6 DEF LegacyInv, TheId, derive_device_id
<1> QED
  BY <1>1, <1>2, <1>3

-------------------------------------------------------------------------------
(***************************************************************************)
(* The names.                                                              *)
(***************************************************************************)
\* Without a connection no cycle gets to its end: the last total, the voltage,
\* is always there to be published (_publish).
LEMMA SoundBefore ==
  ASSUME PollerInv, Delivered, PublishesKnown, PollerNext, Sound'
  PROVE  Sound
<1>0. at \in Nat /\ BankTotal(3) # None
  BY PollerAssumption, NoneAssumption
     DEF PollerInv, PollTypes, PollerTypeOK, LoopTypeOK, BankTotal, TotalTopics
<1>1. UNCHANGED linkVars /\ conn' = conn
  BY DeliveredKept DEF linkVars
<1>2. CASE conn = "up"
  BY <1>2 DEF Sound, PollerNext, Run, Wake, PollOnce, PollIdentity,
              DiscoverOutletCount, PollBank, PollOutlet, PollDone, PublishValues,
              PublishState, EndStates, PublishTotal, SkipTotal, NoDiscovery,
              PublishDiscovery, BeginDiscovery, RetireLegacy, EndLegacy, PublishSensor,
              EndSensors, BeginRenames, PublishSwitch, PublishButton, SkipOutlet,
              EndOutlets, RequestStop, Cancel, TotalsDone, AfterSuccess, loopVars,
              GetRaises, AtGet, CycleFails, CycleEnds
<1>3. CASE conn # "up"
  <2>1. CASE PublishTotal \/ SkipTotal
    BY <1>0, <1>1, <1>3, <2>1
       DEF Sound, PublishTotal, SkipTotal, Publish, Goto, CycleFails, CycleEnds,
           AfterSuccess, TotalTopics, Handed, Delivered
  <2>2. CASE PollOnce \/ Wake \/ RequestStop \/ Cancel
    BY <1>1, <1>3, <2>2
       DEF Sound, PollOnce, PollIdentity, DiscoverOutletCount, PollBank, PollOutlet,
           PollDone, Wake, RequestStop, Cancel, Goto, CycleFails, CycleEnds,
           AfterSuccess, loopVars, GetRaises
  <2>3. CASE PublishState \/ EndStates
    BY <1>1, <1>3, <2>3
       DEF Sound, PublishState, EndStates, Publish, Goto, CycleFails, CycleEnds,
           AfterSuccess, Handed, linkVars
  <2>4. CASE NoDiscovery \/ PublishDiscovery
    BY <1>0, <2>4
       DEF Sound, NoDiscovery, PublishDiscovery, BeginDiscovery, RetireLegacy,
           EndLegacy, PublishSensor, EndSensors, BeginRenames, PublishSwitch,
           PublishButton, SkipOutlet, EndOutlets, TotalsDone, TotalTopics
  <2> QED
    BY <2>1, <2>2, <2>3, <2>4 DEF PollerNext, Run, PublishValues
<1> QED
  BY <1>2, <1>3

\* What is remembered of an outlet is true as long as neither its topics nor
\* the memory of it change.
LEMMA RememberedStays ==
  ASSUME NEW n, Remembered(n), UNCHANGED device_id,
         published_names'[n] = published_names[n],
         \A e \in OutletEntities :
           retained'.config[<<device_id, e, n>>] = retained.config[<<device_id, e, n>>]
  PROVE  Remembered(n)'
BY DEF Remembered, Entity, DisplayName

\* A publish that does not return ends the cycle, and with it what the names
\* are worth: the connection is gone (_publish_retained).
LEMMA NamesGivenUp ==
  ASSUME CycleFails, conn' # "up"
  PROVE  NamesInv'
BY DEF NamesInv, CycleFails, CycleEnds, Sound, AfterSuccess, Delivered

\* A step that announces nothing, and does not begin or continue the loop over
\* the outlets, keeps the names as they are.
LEMMA NamesKept ==
  ASSUME NamesInv, Delivered, Sound' => Sound,
         UNCHANGED <<published_names, device_id>>,
         retained'.config = retained.config,
         discovery_published =>
           \A n \in 1 .. OutletCount' :
             n \in 1 .. OutletCount \/ \A e \in OutletEntities : ~Entity(e, n),
         discovery_published' => discovery_published,
         pc # "button",
         pc' \in {"switch", "button"} => at' = 1 /\ pc' # "button",
         AfterSuccess' => ~HaDiscoveryEnabled
  PROVE  NamesInv'
<1>1. \A n : Remembered(n)' = Remembered(n)
  BY DEF Remembered, Entity, DisplayName
<1>2. Sound' /\ discovery_published' => \A n \in 1 .. OutletCount' : Remembered(n)'
  BY <1>1 DEF NamesInv, Remembered, Delivered
<1>3. pc' \in {"switch", "button"} => \A n \in 1 .. OutletCount' : ~(n < at')
  OBVIOUS
<1> QED
  BY <1>2, <1>3 DEF NamesInv, Delivered

\* What the loop over the outlets works on.
LEMMA LoopFacts ==
  ASSUME PollerInv, pc \in {"switch", "button"}
  PROVE  /\ Len(PolledOutlets) = OutletCount /\ OutletCount \in 0 .. NOutlets
         /\ at \in Nat \ {0} /\ device_id \in DeviceIds
         /\ \A n \in 1 .. OutletCount : n \in Outlets /\ n \in Nat
         /\ published_names \in [Outlets -> Names \cup {None}]
         /\ retained \in Retained
<1>1. PollTypes /\ Cursors
  BY DEF PollerInv
<1>2. /\ Len(PolledOutlets) = OutletCount /\ OutletCount \in 0 .. NOutlets
      /\ \A n \in 1 .. OutletCount : n \in Outlets
  BY <1>1, SnapshotFacts
<1>3. \A n \in 1 .. OutletCount : n \in Nat
  BY <1>2, PduAssumption
<1> QED
  BY <1>1, <1>2, <1>3
     DEF PollTypes, PollerTypeOK, LoopTypeOK, MqttTypeOK, Cursors

\* The switch of an outlet is announced under the name polled.
LEMMA SwitchNames ==
  ASSUME PollerInv, NamesInv, Delivered, PublishesKnown, PublishSwitch
  PROVE  NamesInv'
<1>0. /\ at \in Nat \ {0} /\ device_id \in DeviceIds /\ retained \in Retained
      /\ \A n \in 1 .. OutletCount : n \in Outlets
  BY LoopFacts DEF PublishSwitch
<1>1. CASE CycleFails /\ conn' # "up"
  BY <1>1, NamesGivenUp
<1>2. CASE retained' = Announced("switch", at) /\ Goto("button", at)
  <2>1. /\ UNCHANGED <<discoveryVars, last_snapshot, outlet_count_cached, linkVars>>
        /\ pc = "switch" /\ OutletCount' = OutletCount /\ PolledOutlets' = PolledOutlets
    BY DEF PublishSwitch, Publish, publishFrame, OutletCount, PolledOutlets,
           Handed, linkVars
  <2>2. /\ at \in 1 .. OutletCount
        /\ <<device_id, "switch", at>> \in ConfigTopics
        /\ retained'.config = [retained.config EXCEPT ![<<device_id, "switch", at>>] =
                                 DisplayName(PolledOutlets[at].name)]
        /\ retained.config \in [ConfigTopics -> Names \cup {Unnamed, None}]
    <3>1. at <= OutletCount /\ OutletCount \in Nat
      BY <2>1, LoopFacts, PduAssumption DEF PublishSwitch, OutletLeft
    <3>2. at \in 1 .. OutletCount
      BY <1>0, <3>1
    <3>3. <<device_id, "switch", at>> \in ConfigTopics
      BY <1>0, <3>2 DEF ConfigTopics, OutletEntities
    <3> QED
      BY <1>0, <1>2, <3>2, <3>3 DEF Announced, Retained
  <2>3. ASSUME NEW n \in 1 .. OutletCount, n # at, Remembered(n)
        PROVE  Remembered(n)'
    <3>1. \A e \in OutletEntities :
             retained'.config[<<device_id, e, n>>] = retained.config[<<device_id, e, n>>]
      BY <1>0, <2>2, <2>3 DEF ConfigTopics
    <3> QED
      BY <2>1, <2>3, <3>1, RememberedStays DEF discoveryVars
  <2>4. Sound' => Sound
    BY <2>1 DEF Sound
  <2>5. /\ pc' = "button" /\ at' = at /\ ~AfterSuccess'
        /\ published_names' = published_names /\ device_id' = device_id
        /\ discovery_published' = discovery_published
    BY <1>2, <2>1 DEF Goto, AfterSuccess, discoveryVars
  <2>6. retained'.config[<<device_id', "switch", at'>>] =
          DisplayName(PolledOutlets'[at'].name)
    BY <2>1, <2>2, <2>5
  <2>7. Sound' /\ discovery_published' =>
          \A n \in 1 .. OutletCount' : n = at' \/ Remembered(n)'
    BY <2>1, <2>3, <2>4, <2>5 DEF NamesInv, Delivered
  <2>8. \A n \in 1 .. OutletCount' : n < at' =>
          Remembered(n)' /\ published_names'[n] = PolledOutlets'[n].name
    BY <1>0, <2>1, <2>3, <2>5 DEF NamesInv, Delivered
  <2> QED
    BY <2>5, <2>6, <2>7, <2>8 DEF NamesInv, Delivered
<1> QED
  BY <1>1, <1>2
     DEF PublishSwitch, Publish, PublishMayRaise, PublishesKnown, Disturbance,
         Handed, Delivered, linkVars

\* The button follows, and the name is remembered.
LEMMA ButtonNames ==
  ASSUME PollerInv, NamesInv, Delivered, PublishesKnown, PublishButton
  PROVE  NamesInv'
<1>0. /\ at \in Nat \ {0} /\ device_id \in DeviceIds /\ retained \in Retained
      /\ \A n \in 1 .. OutletCount : n \in Outlets
      /\ published_names \in [Outlets -> Names \cup {None}]
  BY LoopFacts DEF PublishButton
<1>1. CASE CycleFails /\ conn' # "up"
  BY <1>1, NamesGivenUp
<1>2. CASE /\ retained' = Announced("button", at) /\ Goto("switch", at + 1)
           /\ published_names' = [published_names EXCEPT ![at] = PolledOutlets[at].name]
  <2>1. /\ UNCHANGED <<discovery_published, device_id, last_snapshot,
                       outlet_count_cached, linkVars>>
        /\ pc = "button" /\ OutletCount' = OutletCount /\ PolledOutlets' = PolledOutlets
    BY DEF PublishButton, Publish, publishFrame, OutletCount, PolledOutlets,
           Handed, linkVars
  <2>2. /\ at \in 1 .. OutletCount
        /\ <<device_id, "button", at>> \in ConfigTopics
        /\ retained'.config = [retained.config EXCEPT ![<<device_id, "button", at>>] =
                                 DisplayName(PolledOutlets[at].name)]
        /\ retained.config \in [ConfigTopics -> Names \cup {Unnamed, None}]
    <3>1. at <= OutletCount /\ OutletCount \in Nat
      BY <1>0, <2>1, LoopFacts, PduAssumption DEF PollerInv, Cursors
    <3>2. at \in 1 .. OutletCount
      BY <1>0, <3>1
    <3>3. <<device_id, "button", at>> \in ConfigTopics
      BY <1>0, <3>2 DEF ConfigTopics, OutletEntities
    <3> QED
      BY <1>0, <1>2, <3>2, <3>3 DEF Announced, Retained
  <2>3. ASSUME NEW n \in 1 .. OutletCount, n # at, Remembered(n)
        PROVE  Remembered(n)' /\ published_names'[n] = published_names[n]
    <3>1. \A e \in OutletEntities :
             retained'.config[<<device_id, e, n>>] = retained.config[<<device_id, e, n>>]
      BY <1>0, <2>2, <2>3 DEF ConfigTopics
    <3>2. published_names'[n] = published_names[n]
      BY <1>0, <1>2, <2>3
    <3> QED
      BY <2>1, <2>3, <3>1, <3>2, RememberedStays
  <2>4. ASSUME NEW n \in 1 .. OutletCount, n = at
        PROVE  Remembered(n)' /\ published_names'[n] = PolledOutlets[n].name
    <3>1. published_names'[n] = PolledOutlets[n].name
      BY <1>0, <1>2, <2>4
    <3>2. \A e \in OutletEntities :
            retained'.config[<<device_id, e, n>>] = DisplayName(PolledOutlets[n].name)
      <4>1. <<device_id, "switch", at>> # <<device_id, "button", at>>
        OBVIOUS
      <4>2. <<device_id, "switch", at>> \in ConfigTopics
        BY <1>0, <2>2 DEF ConfigTopics, OutletEntities
      <4> QED
        BY <2>1, <2>2, <2>4, <4>1, <4>2 DEF NamesInv, OutletEntities, Delivered
    <3> QED
      BY <2>1, <3>1, <3>2 DEF Remembered
  <2>5. pc' = "switch" /\ at' = at + 1 /\ ~AfterSuccess'
    BY <1>2 DEF Goto, AfterSuccess
  <2>6. Sound
    BY <2>1 DEF Sound
  <2>7. discovery_published' => \A n \in 1 .. OutletCount' : Remembered(n)'
    BY <2>1, <2>3, <2>4, <2>6 DEF NamesInv, Delivered
  <2>8. ASSUME NEW n \in 1 .. OutletCount', n < at'
        PROVE  Remembered(n)' /\ published_names'[n] = PolledOutlets'[n].name
    <3>1. CASE n = at
      BY <2>1, <2>4, <3>1
    <3>2. CASE n # at
      <4>1. n < at /\ n \in 1 .. OutletCount
        BY <1>0, <2>1, <2>5, <2>8, <3>2
      <4> QED
        BY <2>1, <2>3, <3>2, <4>1 DEF NamesInv, Delivered
    <3> QED
      BY <3>1, <3>2
  <2> QED
    BY <2>5, <2>7, <2>8 DEF NamesInv, Delivered
<1> QED
  BY <1>1, <1>2
     DEF PublishButton, Publish, PublishMayRaise, PublishesKnown, Disturbance,
         Handed, Delivered, linkVars

\* An outlet is passed over only if its name is the one remembered.
LEMMA SkipNames ==
  ASSUME PollerInv, NamesInv, Delivered, SkipOutlet
  PROVE  NamesInv'
<1>0. /\ at \in Nat \ {0} /\ device_id \in DeviceIds
      /\ \A n \in 1 .. OutletCount : n \in Nat
  BY LoopFacts DEF SkipOutlet
<1>1. /\ discovery_published /\ published_names[at] = PolledOutlets[at].name
      /\ pc = "switch" /\ Sound
  BY <1>0, DiscoveryAssumption DEF SkipOutlet, Due, Sound
<1>2. /\ UNCHANGED <<retained, linkVars, discoveryVars, last_snapshot, outlet_count_cached>>
      /\ pc' = "switch" /\ at' = at + 1 /\ ~AfterSuccess'
      /\ OutletCount' = OutletCount /\ PolledOutlets' = PolledOutlets
  BY DEF SkipOutlet, Goto, AfterSuccess, publishFrame, mqttVars, OutletCount,
         PolledOutlets, linkVars
<1>3. \A n : Remembered(n)' = Remembered(n)
  BY <1>2 DEF Remembered, Entity, DisplayName, discoveryVars
<1>4. \A n \in 1 .. OutletCount : Remembered(n)
  BY <1>1 DEF NamesInv, Delivered
<1>5. ASSUME NEW n \in 1 .. OutletCount, n < at + 1
      PROVE  published_names[n] = PolledOutlets[n].name
  <2>1. n = at \/ n < at
    BY <1>0, <1>5
  <2> QED
    BY <1>1, <2>1 DEF NamesInv, Delivered
<1> QED
  BY <1>2, <1>3, <1>4, <1>5 DEF NamesInv, discoveryVars, Delivered

\* At the end of the loop every name is the one polled.
LEMMA EndNames ==
  ASSUME PollerInv, NamesInv, Delivered, EndOutlets
  PROVE  NamesInv'
<1>0. /\ at \in Nat \ {0} /\ OutletCount \in 0 .. NOutlets
      /\ Len(PolledOutlets) = OutletCount
      /\ \A n \in 1 .. OutletCount : n \in Nat
  BY LoopFacts DEF EndOutlets
<1>1. \A n \in 1 .. OutletCount : n < at
  BY <1>0 DEF EndOutlets, OutletLeft
<1>2. /\ UNCHANGED <<retained, device_id, published_names, last_snapshot,
                     outlet_count_cached>>
      /\ pc' = "sleep"
      /\ OutletCount' = OutletCount /\ PolledOutlets' = PolledOutlets
  BY DEF EndOutlets, CycleSucceeds, CycleEnds, publishFrame, mqttVars, OutletCount,
         PolledOutlets, linkVars
<1>3. \A n : Remembered(n)' = Remembered(n)
  BY <1>2 DEF Remembered, Entity, DisplayName
<1> QED
  BY <1>1, <1>2, <1>3 DEF NamesInv, EndOutlets, Delivered

\* An outlet found only after discovery was published has no entities yet.
LEMMA NewlyCounted ==
  ASSUME PollerInv, OnlyCounted, PollerNext, discovery_published,
         NEW n \in 1 .. OutletCount', n \notin 1 .. OutletCount,
         NEW e \in OutletEntities
  PROVE  ~Entity(e, n)
<1>1. /\ OutletCount \in 0 .. NOutlets /\ OutletCount' \in 0 .. NOutlets
      /\ device_id \in DeviceIds
  BY PollerNextStep, PduAssumption
     DEF PollerInv, PollTypes, PollerTypeOK, OutletCount, Outlets, AnnouncedWhole
<1>2. n \in Outlets /\ ~(n <= OutletCount)
  BY <1>1, PduAssumption DEF Outlets
<1>3. <<device_id, e, n>> \in ConfigTopics
  BY <1>1, <1>2 DEF ConfigTopics
<1> QED
  BY <1>2, <1>3 DEF OnlyCounted, Entity

\* Only what was counted is announced, and the count does not fall.
LEMMA OnlyCountedStep ==
  ASSUME PollerInv, OnlyCounted, PollerNext
  PROVE  OnlyCounted'
<1>0. /\ OutletCount \in Nat /\ OutletCount' \in Nat
      /\ retained.config \in [ConfigTopics -> Names \cup {Unnamed, None}]
  BY PollerNextStep, PduAssumption
     DEF PollerInv, PollTypes, PollerTypeOK, MqttTypeOK, Retained, OutletCount, Outlets
<1>1. OutletCount <= OutletCount'
  <2>1. CASE DiscoverOutletCount
    BY <1>0, <2>1 DEF DiscoverOutletCount, PollerInv, Cursors, OutletCount,
                      GetRaises, CycleFails, CycleEnds
  <2>2. CASE ~DiscoverOutletCount
    <3>1. UNCHANGED outlet_count_cached
      BY <2>2
         DEF PollerNext, Run, Wake, PollOnce, PollIdentity, PollBank, PollOutlet,
             PollDone, PublishValues, PublishState, EndStates, PublishTotal, SkipTotal,
             NoDiscovery, PublishDiscovery, BeginDiscovery, RetireLegacy, EndLegacy,
             PublishSensor, EndSensors, BeginRenames, PublishSwitch, PublishButton,
             SkipOutlet, EndOutlets, RequestStop, Cancel, publishFrame,
             GetRaises, CycleFails, CycleEnds
    <3> QED
      BY <1>0, <3>1 DEF OutletCount
  <2> QED
    BY <2>1, <2>2
<1>2. ASSUME NEW t \in ConfigTopics, retained'.config[t] # None PROVE t[3] <= OutletCount'
  <2>1. CASE retained.config[t] # None
    <3>1. t[3] <= OutletCount /\ t[3] \in Nat
      BY <2>1, PduAssumption DEF OnlyCounted, ConfigTopics, Outlets
    <3> QED
      BY <1>0, <1>1, <3>1
  <2>2. CASE retained.config[t] = None
    <3>1. /\ at \in 1 .. OutletCount
          /\ retained'.config = [retained.config EXCEPT ![<<device_id, pc, at>>] =
                                   DisplayName(PolledOutlets[at].name)]
      BY <1>2, <2>2, StepKinds, UnannouncedFrame, AnnouncingFrame
    <3>2. t = <<device_id, pc, at>>
      BY <1>0, <1>2, <2>2, <3>1
    <3> QED
      BY <1>0, <1>1, <3>1, <3>2
  <2> QED
    BY <2>1, <2>2
<1> QED
  BY <1>2 DEF OnlyCounted

\* Every step of the poller keeps NamesInv.
LEMMA NamesStep ==
  ASSUME PollerInv, NamesInv, (WalksWhole /\ CountKnown) \/ OnlyCounted,
         PublishesKnown, PollerNext
  PROVE  NamesInv'
<1> SUFFICES ASSUME Delivered' PROVE NamesInv'
  BY DEF NamesInv, Delivered
<1>a. Delivered
  BY DeliveredKept
<1>0. /\ Sound' => Sound
      /\ discovery_published =>
           \A n \in 1 .. OutletCount' :
             n \in 1 .. OutletCount \/ \A e \in OutletEntities : ~Entity(e, n)
  BY <1>a, SoundBefore, CountKnownStep, NewlyCounted
<1>1. CASE RequestStop
  <2>1. /\ UNCHANGED <<retained, linkVars, pc, at, state, discoveryVars, last_snapshot,
                       outlet_count_cached>>
    BY <1>1 DEF RequestStop, loopVars, mqttVars
  <2> QED
    BY <2>1 DEF NamesInv, Sound, AfterSuccess, Remembered, Entity, DisplayName,
                OutletCount, PolledOutlets, discoveryVars, Delivered, linkVars
<1>2. CASE PublishSwitch \/ PublishButton \/ SkipOutlet \/ EndOutlets
  BY <1>a, <1>2, SwitchNames, ButtonNames, SkipNames, EndNames
<1>3. CASE BeginDiscovery
  <2>1. /\ ~discovery_published' /\ pc' \in {"legacy", "sensors"}
    BY <1>3 DEF BeginDiscovery, Goto
  <2> QED
    BY <2>1 DEF NamesInv, AfterSuccess, Delivered
<1>4. CASE Cancel
  <2>1. pc' = "stopped" /\ ~Sound'
    BY <1>4 DEF Cancel, Sound, AfterSuccess
  <2> QED
    BY <2>1 DEF NamesInv, AfterSuccess, Delivered
<1>5. CASE \/ Wake \/ PollOnce \/ PublishValues \/ BeginRenames
           \/ RetireLegacy \/ EndLegacy \/ PublishSensor \/ EndSensors
  <2>1. /\ UNCHANGED <<published_names, device_id, discovery_published>>
        /\ retained'.config = retained.config
    <3>1. CASE RetireLegacy \/ EndLegacy
      BY <1>0, <3>1
         DEF RetireLegacy, EndLegacy, Publish, mqttVars, discoveryVars, PollerInv,
             PollTypes, MqttTypeOK, Retained, Handed, linkVars
    <3> QED
      BY <1>0, <1>5, <3>1, UnannouncedFrame DEF Unannounced, discoveryVars
  <2>2. /\ pc # "button"
        /\ pc' \in {"switch", "button"} => at' = 1 /\ pc' # "button"
    BY <1>5
       DEF Wake, PollOnce, PollIdentity, DiscoverOutletCount, PollBank,
           PollOutlet, PollDone, PublishValues, PublishState, EndStates, PublishTotal,
           SkipTotal, NoDiscovery, BeginRenames, RetireLegacy, EndLegacy,
           PublishSensor, EndSensors, TotalsDone, Publish, Goto, CycleFails,
           CycleSucceeds, CycleEnds, Handed, linkVars, GetRaises, AtGet
  <2>3. AfterSuccess' => ~HaDiscoveryEnabled
    BY <1>5
       DEF Wake, PollOnce, PollIdentity, DiscoverOutletCount, PollBank,
           PollOutlet, PollDone, PublishValues, PublishState, EndStates, PublishTotal,
           SkipTotal, NoDiscovery, BeginRenames, RetireLegacy, EndLegacy,
           PublishSensor, EndSensors, Publish, Goto, CycleFails, CycleEnds,
           AfterSuccess, Handed, linkVars, GetRaises
  <2> QED
    BY <1>0, <1>a, <2>1, <2>2, <2>3, NamesKept
<1> QED
  BY <1>1, <1>2, <1>3, <1>4, <1>5 DEF PollerNext, Run, PublishDiscovery

-------------------------------------------------------------------------------
(***************************************************************************)
(* All of it, each part as far as what it rests on is given.               *)
(***************************************************************************)
\* Every legacy topic can be reached: the walk is not cut off.
LegacyReached == WalksWhole /\ IdCertain /\ NOutlets <= MaxRows

AnnouncementInv ==
  /\ PollerInv /\ CycleComplete
  /\ WalksWhole => CountKnown /\ EveryEntity
  /\ IdCertain => IdInv
  /\ LegacyReached => LegacyInv
  /\ WalksWhole /\ PublishesKnown => NamesInv

\* Every step of the poller, its stop and its cancellation keep it.
LEMMA AnnouncementStep == AnnouncementInv /\ PollerNext => AnnouncementInv'
<1> SUFFICES ASSUME AnnouncementInv, PollerNext PROVE AnnouncementInv'
  OBVIOUS
<1>0. /\ PollerInv /\ CycleComplete
      /\ WalksWhole => AnnounceInv
      /\ LegacyReached => WalksWhole /\ IdCertain /\ NOutlets <= MaxRows
  BY DEF AnnouncementInv, AnnounceInv, LegacyReached
<1>1. PollerInv' /\ CycleComplete'
  BY <1>0, PollerNextStep, CycleCompleteStep
<1>2. WalksWhole => CountKnown' /\ EveryEntity'
  BY <1>0, AnnounceStep DEF AnnounceInv
<1>3. IdCertain => IdInv'
  BY <1>0, IdStep DEF AnnouncementInv
<1>4. LegacyReached => LegacyInv'
  BY <1>0, LegacyStep DEF AnnouncementInv
<1>5. WalksWhole /\ PublishesKnown => NamesInv'
  BY <1>0, NamesStep DEF AnnouncementInv
<1> QED
  BY <1>1, <1>2, <1>3, <1>4, <1>5
     DEF AnnouncementInv, WalksWhole, IdCertain, PublishesKnown, LegacyReached

\* The names are none of anybody else's business.
LEMMA NamesOutside ==
  ASSUME NamesInv, UNCHANGED pollerOwn, retained'.config = retained.config,
         conn' = "up" => conn = "up" \/ NotBegun
  PROVE  NamesInv'
<1>1. /\ UNCHANGED <<pc, at, state, last_snapshot, outlet_count_cached,
                     discovery_published, device_id, published_names>>
      /\ OutletCount' = OutletCount /\ PolledOutlets' = PolledOutlets
  BY DEF pollerOwn, discoveryVars, OutletCount, PolledOutlets
<1>2. \A n : Remembered(n)' = Remembered(n)
  BY <1>1 DEF Remembered, Entity, DisplayName
<1>3. Sound' /\ discovery_published => Sound
  BY <1>1 DEF Sound, AfterSuccess, NotBegun
<1>4. Delivered' => Delivered \/ NotBegun
  BY DEF Delivered
<1> QED
  BY <1>1, <1>2, <1>3, <1>4 DEF NamesInv, AfterSuccess, DisplayName, NotBegun

\* So does a step of anybody else, who may break the connection, but not make
\* one while the poller counts on it.
LEMMA AnnouncementOutside ==
  ASSUME AnnouncementInv, PollerInv', UNCHANGED pollerOwn,
         retained'.config = retained.config, retained'.legacy = retained.legacy,
         "dark" \notin Faults /\ answering => answering',
         conn' = "up" => conn = "up" \/ NotBegun
  PROVE  AnnouncementInv'
<1>1. /\ UNCHANGED <<pc, at, readings, state, last_snapshot, outlet_count_cached,
                     discovery_published, legacy_discovery_retired, device_id,
                     published_names>>
      /\ OutletCount' = OutletCount /\ PolledOutlets' = PolledOutlets
  BY DEF pollerOwn, discoveryVars, OutletCount, PolledOutlets
<1>2. CycleComplete'
  BY <1>1 DEF AnnouncementInv, CycleComplete, AfterSuccess
<1>3. WalksWhole => CountKnown' /\ EveryEntity'
  BY <1>1 DEF AnnouncementInv, CountKnown, EveryEntity, Entity, Delivered, NotBegun
<1>4. IdCertain => IdInv'
  BY <1>1 DEF AnnouncementInv, IdInv, TheId, derive_device_id
<1>5. LegacyReached => LegacyInv'
  BY <1>1 DEF AnnouncementInv, LegacyInv, TheId, derive_device_id, Delivered,
              NotBegun
<1>6. WalksWhole /\ PublishesKnown => NamesInv'
  BY NamesOutside DEF AnnouncementInv
<1> QED
  BY <1>2, <1>3, <1>4, <1>5, <1>6
     DEF AnnouncementInv, WalksWhole, IdCertain, PublishesKnown, LegacyReached

\* What a new poller may find at the broker: entities and legacy topics of
\* this PDU alone.
BrokerKnown ==
  /\ IdCertain =>
       /\ "dark" \notin Faults => answering
       /\ \A t \in ConfigTopics : retained.config[t] # None => t[1] = TheId
  /\ LegacyReached => retained.legacy \subseteq {TheId} \X Outlets

\* It holds of a new poller.
LEMMA NewAnnouncement == PollerInv /\ PollerInit /\ BrokerKnown => AnnouncementInv
BY DEF PollerInit, BrokerKnown, AnnouncementInv, CycleComplete, CountKnown,
       EveryEntity, IdInv, LegacyInv, NamesInv, AfterSuccess, Publishing, LegacyReached,
       Delivered

\* A broker that has heard nothing but v0.1.x is known.
LEMMA NothingRetainedKnown ==
  ASSUME PduInit, retained.config = NothingRetained.config,
         retained.legacy = NothingRetained.legacy
  PROVE  BrokerKnown
BY DEF PduInit, NothingRetained, BrokerKnown, TheId

-------------------------------------------------------------------------------
(***************************************************************************)
(* What it says of the properties.                                         *)
(***************************************************************************)
\* Every outlet polled has its entities.
LEMMA AllAnnounced == AnnouncementInv /\ WalksWhole => EveryOutletAnnounced
BY DEF AnnouncementInv, CycleComplete, EveryEntity, EveryOutletAnnounced, PolledOutlets,
       Delivered

\* There is one device.
LEMMA AllOneDevice == AnnouncementInv /\ IdCertain => OneDevice
BY DEF AnnouncementInv, IdInv, OneDevice

\* The entities of v0.1.x are gone.
LEMMA AllLegacyRetired == AnnouncementInv /\ LegacyReached => LegacyRetired
BY DEF AnnouncementInv, LegacyInv, LegacyRetired, Delivered

\* The names are those polled.
LEMMA AllNamesCurrent ==
  CycleComplete /\ NamesInv => NamesCurrent
<1> SUFFICES ASSUME CycleComplete, NamesInv,
                    Delivered, AfterSuccess, discovery_published,
                    NEW n \in 1 .. Len(last_snapshot.outlets), NEW e \in OutletEntities,
                    Entity(e, n)
             PROVE  retained.config[<<device_id, e, n>>] =
                      DisplayName(PolledOutlets[n].name)
  BY DEF NamesCurrent
<1>1. n \in 1 .. OutletCount /\ HaDiscoveryEnabled
  BY DEF CycleComplete, PolledOutlets
<1>2. Remembered(n) /\ published_names[n] = PolledOutlets[n].name
  BY <1>1 DEF NamesInv, Sound, AfterSuccess
<1> QED
  BY <1>2 DEF Remembered
===============================================================================
