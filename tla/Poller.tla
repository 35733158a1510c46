-------------------------------- MODULE Poller --------------------------------
(***************************************************************************)
(* app/poller.py: the background task that polls the PDU and publishes     *)
(* what it read.  A step runs from one await to the next, so other tasks   *)
(* interleave exactly where asyncio lets them: pc names the await (or the  *)
(* loop) the task is at, at the outlet or the topic it has come to.        *)
(*                                                                         *)
(*   jitter -> identity -> walk -> bank -> outlets     poll_once           *)
(*   -> states -> totals                               _publish            *)
(*   -> legacy -> sensors -> switch <-> button         _publish_discovery  *)
(*   -> sleep -> identity ...                                              *)
(*                                                                         *)
(* A rename pass takes the switch <-> button loop only.  Per-outlet load   *)
(* is left out: _poll_outlets sets it to None, so no topic for it is ever  *)
(* published.  The two GETs of one get_many are one step: no property      *)
(* relates the moments at which name and state of an outlet were read.     *)
(***************************************************************************)
EXTENDS MqttClient, Wakeup, Sequences

CONSTANTS
  HaDiscoveryEnabled,   \* HA_DISCOVERY_ENABLED
  MainsVoltage          \* MAINS_VOLTAGE, in whole volts

ASSUME PollerAssumption == /\ HaDiscoveryEnabled \in BOOLEAN
                           /\ MainsVoltage \in Nat

VARIABLES
  pc,                        \* the await the task is suspended at
  at,                        \* the outlet or topic its loop has come to
  readings,                  \* locals of poll_once: what this poll has read
  last_snapshot,             \* the last complete poll, None before the first
  state,                     \* BridgeState shown by the REST endpoints
  outlet_count_cached,       \* None until a walk has found outlets
  discovery_published,       \* the full discovery pass has been completed
  legacy_discovery_retired,  \* the v0.1.x topics have been emptied
  device_id,                 \* the id the entities are announced under
  published_names,           \* the outlet names last announced
  stop_event                 \* stop() has been called

loopVars == <<pc, at, readings, state, immediate_event>>

discoveryVars ==
  <<discovery_published, legacy_discovery_retired, device_id, published_names>>

pollerVars == <<loopVars, discoveryVars, last_snapshot, outlet_count_cached,
                stop_event>>

\* Everything of the poller but the event it shares with the controller.
pollerOwn == <<pc, at, readings, state, discoveryVars, last_snapshot,
               outlet_count_cached, stop_event>>

BridgeState == {"initializing", "connected", "unreachable"}

Labels == {"jitter", "identity", "walk", "bank", "outlets", "states", "totals",
           "legacy", "sensors", "switch", "button", "sleep", "stopped"}

OutletReading == [name : Names \cup {None}, state : OutletState]

PollSnapshot == [sys_name : {SysName, None},
                 amps     : Loads \cup {None},
                 outlets  : Seq(OutletReading)]

NoReadings == [sys_name |-> None, amps |-> None, outlets |-> <<>>]

LoopTypeOK ==
  /\ pc \in Labels
  /\ at \in Nat \ {0}
  /\ readings \in PollSnapshot
  /\ state \in BridgeState
  /\ immediate_event \in BOOLEAN

PollerTypeOK ==
  /\ LoopTypeOK
  /\ last_snapshot \in PollSnapshot \cup {None}
  /\ outlet_count_cached \in Outlets \cup {None}
  /\ discovery_published \in BOOLEAN
  /\ legacy_discovery_retired \in BOOLEAN
  /\ device_id \in DeviceIds \cup {None}
  /\ published_names \in [Outlets -> Names \cup {None}]
  /\ stop_event \in BOOLEAN

PollerInit ==
  /\ pc = "jitter"
  /\ at = 1
  /\ readings = NoReadings
  /\ last_snapshot = None
  /\ state = "initializing"
  /\ immediate_event = FALSE
  /\ outlet_count_cached = None
  /\ discovery_published = FALSE
  /\ legacy_discovery_retired = FALSE
  /\ device_id = None
  /\ published_names = [n \in Outlets |-> None]
  /\ stop_event = FALSE

-------------------------------------------------------------------------------
(***************************************************************************)
(* The run loop.                                                           *)
(***************************************************************************)
Goto(label, n) ==
  /\ pc' = label
  /\ at' = n
  /\ UNCHANGED <<readings, state, immediate_event>>

\* The end of a cycle, from the last await to the sleep: the outcome is
\* recorded and the event cleared, whenever it was set.
CycleEnds(outcome) ==
  /\ pc' = "sleep"
  /\ at' = 1
  /\ readings' = NoReadings
  /\ state' = outcome
  /\ immediate_event' = FALSE

\* Variant with a fault: the exception is not caught and ends the task.
CycleFailsFatally ==
  /\ pc' = "stopped"
  /\ UNCHANGED <<at, readings, state, immediate_event>>

\* The broad except: any failure of the cycle.
CycleFails == CycleEnds("unreachable")

CycleSucceeds == CycleEnds("connected")

\* Variant with a fault: the wait on the two events has no timeout.
WakeWithoutTimeout ==
  /\ pc \in {"jitter", "sleep"}
  /\ pc = "sleep" => immediate_event \/ stop_event
  /\ Goto(IF stop_event THEN "stopped" ELSE "identity", 1)
  /\ UNCHANGED <<pduVars, mqttVars, discoveryVars, last_snapshot,
                 outlet_count_cached, stop_event>>

\* Variant with a fault: nobody looks at the stop event after the sleep.
WakeIgnoringStop ==
  /\ pc \in {"jitter", "sleep"}
  /\ Goto("identity", 1)
  /\ UNCHANGED <<pduVars, mqttVars, discoveryVars, last_snapshot,
                 outlet_count_cached, stop_event>>

\* The sleep ends by the event, by stop(), or by the interval, which may be
\* over at any moment; the initial jitter only by its own second.
Wake ==
  /\ pc \in {"jitter", "sleep"}
  /\ Goto(IF stop_event THEN "stopped" ELSE "identity", 1)
  /\ UNCHANGED <<pduVars, mqttVars, discoveryVars, last_snapshot,
                 outlet_count_cached, stop_event>>

-------------------------------------------------------------------------------
(***************************************************************************)
(* poll_once: a step of it changes the readings, and may raise.            *)
(***************************************************************************)
\* The number of outlets this poll reads: none if the walk found none.
OutletCount == IF outlet_count_cached = None THEN 0 ELSE outlet_count_cached

\* The task is at a GET.
AtGet == \/ pc \in {"identity", "bank"}
         \/ pc = "outlets" /\ Len(readings.outlets) < OutletCount

\* get_many catches SnmpError only; what constructing the target raises ends
\* the cycle.
GetRaises ==
  /\ AtGet
  /\ TargetMayRaise
  /\ CycleFails
  /\ UNCHANGED <<pduVars, mqttVars, discoveryVars, last_snapshot,
                 outlet_count_cached, stop_event>>

PollIdentity ==
  /\ pc = "identity"
  /\ \E reply \in Replies(SysName) : readings' = [readings EXCEPT !.sys_name = reply]
  /\ pc' = IF outlet_count_cached = None THEN "walk" ELSE "bank"
  /\ UNCHANGED <<pduVars, mqttVars, discoveryVars, at, state, immediate_event,
                 last_snapshot, outlet_count_cached, stop_event>>

\* Variant with a fault: a walk that found nothing is remembered as well.
DiscoverOutletCountOnce ==
  /\ pc = "walk"
  /\ \/ \E rows \in WalkReplies : outlet_count_cached' = rows /\ Goto("bank", 1)
     \/ WalkMayRaise /\ CycleFails /\ UNCHANGED outlet_count_cached
  /\ UNCHANGED <<pduVars, mqttVars, discoveryVars, last_snapshot, stop_event>>

\* Only a walk that found outlets is remembered.
DiscoverOutletCount ==
  /\ pc = "walk"
  /\ \/ \E rows \in WalkReplies :
          /\ outlet_count_cached' = IF rows = 0 THEN None ELSE rows
          /\ Goto("bank", 1)
     \/ /\ WalkMayRaise
        /\ CycleFails
        /\ UNCHANGED outlet_count_cached
  /\ UNCHANGED <<pduVars, mqttVars, discoveryVars, last_snapshot, stop_event>>

PollBank ==
  /\ pc = "bank"
  /\ \E load \in Loads : \E reply \in Replies(load) :
       readings' = [readings EXCEPT !.amps = reply]
  /\ pc' = "outlets"
  /\ UNCHANGED <<pduVars, mqttVars, discoveryVars, at, state, immediate_event,
                 last_snapshot, outlet_count_cached, stop_event>>

\* The outlets are read one after the other.
PollOutlet ==
  /\ pc = "outlets"
  /\ Len(readings.outlets) < OutletCount
  /\ LET n == Len(readings.outlets) + 1
     IN \E name \in Replies(outlet_name[n]), raw \in Replies(column[n]) :
          readings' = [readings EXCEPT !.outlets =
            Append(@, [name |-> name, state |-> parse_outlet_state(raw)])]
  /\ UNCHANGED <<pduVars, mqttVars, discoveryVars, pc, at, state,
                 immediate_event, last_snapshot, outlet_count_cached, stop_event>>

\* Variant with a fault: the snapshot is taken only once.
PollDoneOnce ==
  /\ pc = "outlets"
  /\ Len(readings.outlets) = OutletCount
  /\ last_snapshot' = IF last_snapshot = None THEN readings ELSE last_snapshot
  /\ readings' = NoReadings
  /\ pc' = "states"
  /\ at' = 1
  /\ UNCHANGED <<pduVars, mqttVars, discoveryVars, state, immediate_event,
                 outlet_count_cached, stop_event>>

\* The snapshot is complete; _publish takes it from here.
PollDone ==
  /\ pc = "outlets"
  /\ Len(readings.outlets) = OutletCount
  /\ last_snapshot' = readings
  /\ readings' = NoReadings
  /\ pc' = "states"
  /\ at' = 1
  /\ UNCHANGED <<pduVars, mqttVars, discoveryVars, state, immediate_event,
                 outlet_count_cached, stop_event>>

-------------------------------------------------------------------------------
(***************************************************************************)
(* _publish: the state topics, then the totals.                            *)
(***************************************************************************)
PolledOutlets == last_snapshot.outlets

\* Variant with a fault: the loop stops before the last outlet.
OutletLeftButOne == at < Len(PolledOutlets)

\* The loop has an outlet left to publish.
OutletLeft == at <= Len(PolledOutlets)

publishFrame == <<pduVars, last_snapshot, outlet_count_cached, stop_event>>

PublishState ==
  /\ pc = "states"
  /\ OutletLeft
  /\ Publish([retained EXCEPT !.state[at] = PolledOutlets[at].state],
             Goto("states", at + 1), CycleFails)
  /\ UNCHANGED <<publishFrame, discoveryVars>>

EndStates ==
  /\ pc = "states"
  /\ ~OutletLeft
  /\ Goto("totals", 1)
  /\ UNCHANGED <<publishFrame, mqttVars, discoveryVars>>

BankTotal(k) ==
  CASE TotalTopics[k] = "load_amps"  -> last_snapshot.amps
    [] TotalTopics[k] = "load_watts" -> watts_from_amps_volts(last_snapshot.amps,
                                                              MainsVoltage)
    [] TotalTopics[k] = "voltage"    -> MainsVoltage

PublishTotal ==
  /\ pc = "totals"
  /\ at <= Len(TotalTopics)
  /\ BankTotal(at) # None
  /\ Publish([retained EXCEPT !.total[TotalTopics[at]] = BankTotal(at)],
             Goto("totals", at + 1), CycleFails)
  /\ UNCHANGED <<publishFrame, discoveryVars>>

\* A total that could not be read keeps its last retained value.
SkipTotal ==
  /\ pc = "totals"
  /\ at <= Len(TotalTopics)
  /\ BankTotal(at) = None
  /\ Goto("totals", at + 1)
  /\ UNCHANGED <<publishFrame, mqttVars, discoveryVars>>

TotalsDone == pc = "totals" /\ at > Len(TotalTopics)

NoDiscovery ==
  /\ TotalsDone
  /\ ~HaDiscoveryEnabled
  /\ CycleSucceeds
  /\ UNCHANGED <<publishFrame, mqttVars, discoveryVars>>

-------------------------------------------------------------------------------
(***************************************************************************)
(* _publish_discovery (the full pass) and _republish_renamed_outlets.      *)
(***************************************************************************)
\* Variant with a fault: the pass counts as published before it is.
BeginDiscoveryPublished ==
  /\ TotalsDone
  /\ HaDiscoveryEnabled
  /\ ~discovery_published
  /\ discovery_published' = TRUE
  /\ device_id' = derive_device_id(last_snapshot.sys_name)
  /\ Goto(IF legacy_discovery_retired THEN "sensors" ELSE "legacy", 1)
  /\ UNCHANGED <<publishFrame, mqttVars, legacy_discovery_retired,
                 published_names>>

\* Variant with a fault: the legacy topics count as retired before they are.
BeginDiscoveryRetired ==
  /\ TotalsDone
  /\ HaDiscoveryEnabled
  /\ ~discovery_published
  /\ legacy_discovery_retired' = TRUE
  /\ device_id' = derive_device_id(last_snapshot.sys_name)
  /\ Goto(IF legacy_discovery_retired THEN "sensors" ELSE "legacy", 1)
  /\ UNCHANGED <<publishFrame, mqttVars, discovery_published, published_names>>

\* The full pass, again from the start as long as none has been completed;
\* only the retirement of the legacy topics is not repeated.
BeginDiscovery ==
  /\ TotalsDone
  /\ HaDiscoveryEnabled
  /\ ~discovery_published
  /\ device_id' = derive_device_id(last_snapshot.sys_name)
  /\ Goto(IF legacy_discovery_retired THEN "sensors" ELSE "legacy", 1)
  /\ UNCHANGED <<publishFrame, mqttVars, discovery_published,
                 legacy_discovery_retired, published_names>>

\* Variant with a fault: the rename pass derives the id anew.
BeginRenamesRederived ==
  /\ TotalsDone
  /\ HaDiscoveryEnabled
  /\ discovery_published
  /\ device_id' = derive_device_id(last_snapshot.sys_name)
  /\ Goto("switch", 1)
  /\ UNCHANGED <<publishFrame, mqttVars, discovery_published,
                 legacy_discovery_retired, published_names>>

\* After the full pass, every later cycle looks for renamed outlets.
BeginRenames ==
  /\ TotalsDone
  /\ HaDiscoveryEnabled
  /\ discovery_published
  /\ Goto("switch", 1)
  /\ UNCHANGED <<publishFrame, mqttVars, discoveryVars>>

RetireLegacy ==
  /\ pc = "legacy"
  /\ OutletLeft
  /\ Publish([retained EXCEPT !.legacy = @ \ {<<device_id, at>>}],
             Goto("legacy", at + 1), CycleFails)
  /\ UNCHANGED <<publishFrame, discoveryVars>>

EndLegacy ==
  /\ pc = "legacy"
  /\ ~OutletLeft
  /\ legacy_discovery_retired' = TRUE
  /\ Goto("sensors", 1)
  /\ UNCHANGED <<publishFrame, mqttVars, discovery_published, device_id,
                 published_names>>

PublishSensor ==
  /\ pc = "sensors"
  /\ at <= Len(TotalTopics)
  /\ Publish([retained EXCEPT !.sensor = @ \cup {<<device_id, TotalTopics[at]>>}],
             Goto("sensors", at + 1), CycleFails)
  /\ UNCHANGED <<publishFrame, discoveryVars>>

EndSensors ==
  /\ pc = "sensors"
  /\ at > Len(TotalTopics)
  /\ Goto("switch", 1)
  /\ UNCHANGED <<publishFrame, mqttVars, discoveryVars>>

\* Variant with a fault: an outlet counts as renamed only if it had a name.
DueIfNamed(n) ==
  \/ ~discovery_published
  \/ published_names[n] # None /\ published_names[n] # PolledOutlets[n].name

\* The full pass announces every outlet, later passes the renamed ones.  A
\* name never announced and a blank name are both None here.
Due(n) ==
  \/ ~discovery_published
  \/ device_id # None /\ published_names[n] # PolledOutlets[n].name

\* The config of entity e of outlet n, announced under the polled name.
Announced(e, n) ==
  [retained EXCEPT !.config[<<device_id, e, n>>] = DisplayName(PolledOutlets[n].name)]

\* Variant with a fault: the name counts as published with the switch.
PublishSwitchRemembers ==
  /\ pc = "switch"
  /\ OutletLeft
  /\ Due(at)
  /\ Publish(Announced("switch", at),
             /\ Goto("button", at)
             /\ published_names' =
                  [published_names EXCEPT ![at] = PolledOutlets[at].name],
             CycleFails /\ UNCHANGED published_names)
  /\ UNCHANGED <<publishFrame, discovery_published, legacy_discovery_retired,
                 device_id>>

PublishSwitch ==
  /\ pc = "switch"
  /\ OutletLeft
  /\ Due(at)
  /\ Publish(Announced("switch", at), Goto("button", at), CycleFails)
  /\ UNCHANGED <<publishFrame, discoveryVars>>

\* Only now does the outlet's name count as published.
PublishButton ==
  /\ pc = "button"
  /\ Publish(Announced("button", at),
             /\ Goto("switch", at + 1)
             /\ published_names' =
                  [published_names EXCEPT ![at] = PolledOutlets[at].name],
             CycleFails /\ UNCHANGED published_names)
  /\ UNCHANGED <<publishFrame, discovery_published, legacy_discovery_retired,
                 device_id>>

SkipOutlet ==
  /\ pc = "switch"
  /\ OutletLeft
  /\ ~Due(at)
  /\ Goto("switch", at + 1)
  /\ UNCHANGED <<publishFrame, mqttVars, discoveryVars>>

EndOutlets ==
  /\ pc = "switch"
  /\ ~OutletLeft
  /\ discovery_published' = TRUE
  /\ CycleSucceeds
  /\ UNCHANGED <<publishFrame, mqttVars, legacy_discovery_retired, device_id,
                 published_names>>

-------------------------------------------------------------------------------
(***************************************************************************)
(* stop(): the event first; after five seconds the task is cancelled, at   *)
(* whatever await it is.                                                   *)
(***************************************************************************)
RequestStop ==
  /\ "stop" \in Endings
  /\ ~stop_event
  /\ stop_event' = TRUE
  /\ UNCHANGED <<pduVars, mqttVars, loopVars, discoveryVars, last_snapshot,
                 outlet_count_cached>>

Cancel ==
  /\ stop_event
  /\ pc # "stopped"
  /\ pc' = "stopped"
  /\ UNCHANGED <<pduVars, mqttVars, at, readings, state, immediate_event,
                 discoveryVars, last_snapshot, outlet_count_cached, stop_event>>

PollOnce ==
  \/ PollIdentity \/ DiscoverOutletCount \/ PollBank \/ PollOutlet \/ PollDone
  \/ GetRaises

PublishValues ==
  PublishState \/ EndStates \/ PublishTotal \/ SkipTotal \/ NoDiscovery

PublishDiscovery ==
  \/ BeginDiscovery \/ RetireLegacy \/ EndLegacy \/ PublishSensor \/ EndSensors
  \/ BeginRenames \/ PublishSwitch \/ PublishButton \/ SkipOutlet \/ EndOutlets

\* The task itself: what asyncio keeps running.
Run == Wake \/ PollOnce \/ PublishValues \/ PublishDiscovery

PollerNext == Run \/ RequestStop \/ Cancel

-------------------------------------------------------------------------------
(***************************************************************************)
(* What the poller promises, alone or beside the callers of the controller.*)
(* Some of it depends on what may go wrong; the theorems say on what.  All *)
(* that is said of retained messages is said of those that were delivered: *)
(* with QoS 0, as long as the connection lives.                            *)
(***************************************************************************)
\* Outlet n has entity e under the device id now in use.
Entity(e, n) == retained.config[<<device_id, e, n>>] # None

\* The awaits of a cycle once its poll is complete.
Publishing == {"states", "totals", "legacy", "sensors", "switch", "button"}

\* The poller sleeps after a cycle it calls a success.
AfterSuccess == pc = "sleep" /\ state = "connected"

\* The amps and watts a consumer reads belong together, also after polls that
\* lost the bank reading (_publish keeps the old totals then).
TotalsAgree ==
  Delivered /\ AfterSuccess =>
    retained.total["load_watts"] =
      watts_from_amps_volts(retained.total["load_amps"], MainsVoltage)

\* After a successful cycle every announced outlet bears the name last
\* polled, on its switch and on its button alike.
NamesCurrent ==
  Delivered /\ AfterSuccess /\ discovery_published =>
    \A n \in 1 .. Len(last_snapshot.outlets), e \in OutletEntities :
      Entity(e, n) =>
        retained.config[<<device_id, e, n>>] = DisplayName(PolledOutlets[n].name)

\* Home Assistant sees one device: every announced entity is under one id,
\* the one derive_device_id settled on.
OneDevice ==
  \A t, u \in ConfigTopics :
    retained.config[t] # None /\ retained.config[u] # None => t[1] = u[1]

\* When discovery counts as published the v0.1.x entities are gone, however
\* often the pass had to be repeated (provided the first walk finds outlets).
LegacyRetired == Delivered /\ discovery_published => retained.legacy = {}

\* By the end of a successful cycle every outlet polled has both its entities,
\* however often the pass had to be repeated, with or without a name (provided
\* the first walk finds outlets: an outlet without a name that turns up after
\* the pass counts as announced already).
EveryOutletAnnounced ==
  Delivered /\ AfterSuccess /\ HaDiscoveryEnabled =>
    \A n \in 1 .. Len(last_snapshot.outlets), e \in OutletEntities : Entity(e, n)

-------------------------------------------------------------------------------
(***************************************************************************)
(* What the poller keeps true whatever else happens around it: discovery   *)
(* is announced whole.  The invariant is inductive together with what the  *)
(* task knows at each await, and it holds of any composition in which the  *)
(* others leave the poller's variables and the discovery topics alone.     *)
(***************************************************************************)
PollTypes == PduTypeOK /\ MqttTypeOK /\ PollerTypeOK

\* Once discovery counts as published, the whole-PDU sensors exist under the
\* current id, and an outlet whose name is remembered as announced has both
\* its switch and its button, whatever failed while announcing them
\* (_publish_discovery, _republish_renamed_outlets).
AnnouncedWhole ==
  discovery_published =>
    /\ device_id \in DeviceIds
    /\ Delivered =>
         /\ \A k \in TotalName : <<device_id, k>> \in retained.sensor
         /\ \A n \in Outlets, e \in OutletEntities :
              published_names[n] # None => Entity(e, n)

\* The cursor of each loop, and the data the loop runs over.
Cursors ==
  /\ pc \in {"jitter", "identity", "walk", "bank", "sleep"} => readings.outlets = <<>>
  /\ pc = "walk" => outlet_count_cached = None
  /\ pc = "outlets" => Len(readings.outlets) <= OutletCount
  /\ pc \in {"states", "totals", "legacy", "sensors", "switch", "button"} =>
       last_snapshot \in PollSnapshot /\ Len(last_snapshot.outlets) = OutletCount
  /\ pc = "button" => at <= OutletCount
  /\ pc \in {"legacy", "sensors", "switch", "button"} \/ discovery_published =>
       device_id # None

\* A remembered name belongs to an outlet the walk found.
NamesWithin == \A n \in Outlets : published_names[n] # None => n <= OutletCount

\* What the full pass has announced by the time it has come to topic at.
PassProgress ==
  Delivered =>
    /\ pc = "sensors" =>
         \A k \in 1 .. 3 : k < at => <<device_id, TotalTopics[k]>> \in retained.sensor
    /\ pc \in {"switch", "button"} =>
         \A k \in TotalName : <<device_id, k>> \in retained.sensor
    /\ pc \in {"switch", "button"} /\ ~discovery_published =>
         \A n \in Outlets, e \in OutletEntities : n < at => Entity(e, n)
    /\ pc = "button" => Entity("switch", at)

PollerInv == PollTypes /\ Cursors /\ NamesWithin /\ PassProgress /\ AnnouncedWhole
===============================================================================
