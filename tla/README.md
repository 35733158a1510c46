# TLA+ models of cyberpower-pdu-mqtt-bridge

The bridge polls a CyberPower PDU over SNMP, publishes what it read to an MQTT
broker as retained messages, announces the entities to Home Assistant, and
carries out outlet commands that arrive over MQTT or REST. Everything runs in
one asyncio event loop: no two pieces of code run at the same time, but any
other task may run at every `await`. The models take the step from one await to
the next as their unit of atomicity.

## The system

| Part | State it keeps | Operations | What makes it correct |
|---|---|---|---|
| `app/cyberpower.py` | none | translate integers to states, amps to watts | every reply is one of three states; watts belong to the amps they were derived from |
| `app/snmp_client.py` | none between calls | `get_many`, `walk`, `set_int` | a failure is either reported or, in `get_many`, becomes `None` |
| `app/discovery.py` | none | derive the device id, build topics and payloads | one device, one identity |
| `app/mqtt_client.py` | the session; at the broker, one retained message per topic and the will | `session`, `publish`, `subscribe`, `messages` | `publish` returns only if the message was written (QoS 0) or confirmed (QoS 1, 2); the availability topic tells the truth, whatever becomes of the process |
| `app/poller.py` | bridge state, last snapshot, cached outlet count, discovery flags, device id, announced names, two events | `_run`, `poll_once`, `_publish`, `_publish_discovery`, `_republish_renamed_outlets`, `trigger_immediate_poll`, `stop` | the broker mirrors the PDU; discovery is complete, current and stable; no failure ends the loop |
| `app/controller.py` | the allow list | `set_outlet` | only permitted outlets are switched; an optimistic state never outlives the facts |
| `app/main.py` | the subscriber task, the queue of messages | `lifespan`, `_command_subscriber` | commands take effect in the order they came; none is left lying; a stop ends the process |
| `app/routers/` | none | outlet endpoints call `set_outlet`; the others read the poller | report what the poller knows |

They interact through four things: the SNMP agent (read by the poller, written
by the controller), the broker (published to by both, commanded from by Home
Assistant), the event `_immediate_event` (set by the controller, cleared and
awaited by the poller), and the fields of the poller that the REST routers read.

The hard behaviours:

* A cycle of the poller is a chain of awaits: one SNMP round trip per reading,
  then one publish per topic. States are read long before they are published,
  and commands run in between.
* `set_outlet` is not serialised. The subscriber runs one command at a time,
  REST requests any number, each with an SNMP SET (repeated if unanswered) and
  a publish.
* Every publish may raise and still have reached the broker. It may raise in
  the middle of the discovery pass, which is then repeated from its start. At
  QoS 0, the default, it may also return without ever reaching the broker: a
  half-open connection takes what is written to it until a keepalive expires.
* Every SNMP answer may be lost, and `get_many` turns that into `None`; an
  address that does not resolve is another error, which neither `get_many` nor
  `set_outlet` nor the subscriber catches.
* aiomqtt does not reconnect: the session is entered once.
* `stop()` cancels the poller at any await after five seconds, and the
  subscriber is cancelled in the middle of a command.
* A process may be killed anywhere. It keeps nothing; the broker keeps all it
  had published, and publishes its will only when it notices.

## The modules

```
CyberPower <- Pdu <- SnmpClient <- Discovery <- MqttClient
MqttClient, Wakeup <- Poller, Controller
Poller             <- ReadOnlyBridge                    (MCReadOnlyBridge)
Poller, Controller <- Bridge <- Lifespan                (MCBridge, MCLifespan)
Controller         <- CommandSubscriber                 (MCCommandSubscriber)

Bridge, Lifespan  implement  OutletMirror!Spec          (MirrorsRelays)

PollerProofs <- AnnouncementProofs <- ReadingsProofs
ReadingsProofs                   <- ReadOnlyBridgeProofs
ReadingsProofs, ControllerProofs <- BridgeProofs <- LifespanProofs
ControllerProofs                 <- CommandSubscriberProofs
```

| Module | Models | Its state |
|---|---|---|
| `CyberPower` | `app/cyberpower.py` and the enumerations of `app/models.py` | none |
| `Pdu` | the PDU, external, as `docs/cyberpower-mibs.md` describes it | `column` (the state/command column), `outlet_name`, `answering`, `settled` |
| `SnmpClient` | what one call of `app/snmp_client.py` may return | none |
| `Discovery` | `derive_device_id` and the topics and names of `app/discovery.py` | none |
| `MqttClient` | `publish` by its QoS, a connection that breaks seen or unseen, and the broker's retained messages | `conn` (`"half"` while only the bridge takes it for open), `lingering` (the broker still keeps a session that has lost its other end), `retained` |
| `Wakeup` | `Poller._immediate_event` and the method that sets it | `immediate_event` |
| `Poller` | every await of `app/poller.py` | `pc` (which await), `at` (where its loop is), `readings` (locals of `poll_once`), and the attributes of `Poller` under their own names |
| `Controller` | `_parse_allow`, `set_outlet` and its callers; when the subscriber task is there to call it | `call[c]`: where caller `c` is, with the outlet, the command and how often the PDU has carried it out |
| `CommandSubscriber` | the loop of `_command_subscriber`: queue, topic, payload | `queue`, and `arrived`, a history of the messages |
| `ReadOnlyBridge` | the default deployment: no outlet control | all of the above but `call` |
| `Bridge` | poller, controller and surroundings together | all, and two variables only properties read: `recent`, `unconfirmed` |
| `OutletMirror` | nothing of the code: what the bridge promises about the state topics | `relay`, `shown`, `pool`, `confirmed` |
| `Lifespan` | `lifespan` and `session`: processes that start, serve, stop and die after one another | `life`, `lives`, and all of `Bridge` |

How the actions correspond to the code: `pc` names the await the poller is
suspended at, and the action for it is everything the code does from the result
of that await to the next one. `PollIdentity`, `DiscoverOutletCount`,
`PollBank`, `PollOutlet`, `PollDone` are `poll_once`; `PublishState` to
`NoDiscovery` are `_publish`; `BeginDiscovery` to `EndOutlets` are the full
discovery pass and, from `BeginRenames` on, the rename pass, which shares
the loop over the outlets and differs in `Due`. `CycleFails` is the broad
`except` of `_run`; it and `CycleSucceeds` clear the event, as the code does
before every sleep; `GetRaises` is a GET whose transport cannot be built, which
is not an `SnmpError`.

`Publish(after, Return, Raise)` is the one place where a publish may return, or
raise with or without having reached the broker. aiomqtt returns once the packet
is written (`Qos = 0`, the default of `MQTT_QOS`) or once it is confirmed. On a
connection that is `"up"` the two come to the same. On one that is `"half"` open
(`LoseTouch`), nothing arrives any more, and the bridge only learns of it when its
own keepalive expires (`PingUnanswered`): a publish with QoS 0 returns all the
same, one with QoS 1 or 2 raises, and so does `subscribe`, whose SUBACK never comes. The broker has its own keepalive (`KeepaliveExpires`), sooner or later,
and publishes the will then: so the bridge may be shown as unavailable while
its cycles succeed. What is claimed of the broker after a successful cycle is
therefore claimed under `Delivered`: the QoS is 1 or 2, or the connection lives.

One abstract specification. `OutletMirror` knows relays, topics and rounds, and
neither awaits nor tasks: a topic only ever shows where its relay has been since
the round began, or what a command has claimed since; a round that is over
vouches for its outlets; and no relay moves because of a topic. `Bridge`
implements it by the mapping beside `Mirror`: a poll is a round, an optimistic
publish is a claim, `recent` is the pool. (`ControlSpec`, in `Controller`, is no
promise but a device of the proofs: the controller by itself, whose subscriber may
have any permitted command at any moment. `CommandSubscriber` is built from its
actions, so what is proved of `ControlSpec` holds of it.)

In `Lifespan`, `Exit` is the end of a process: every attribute of the poller
and the controller returns to what `__init__` gives it. `LeaveSession` is the
`finally` of `session`, whose publish may fail and is swallowed; leaving with a
clean DISCONNECT discards the will. `Crash` is an end without it: the broker
keeps the session (`lingering`) until the keepalive runs out or the next process
connects under the same client id, and publishes the will at that moment. The
HTTP server answers the requests it has before it lets `lifespan` go on, so
`Shutdown` waits for the REST callers and not for the subscriber. Three
simplifications: a publish that is not confirmed in time has reached the broker
by then or never does, and so has the datagram of a SET whose call is
cancelled; and a packet written to a connection that lives reaches the broker
before anything else happens to it. A loss behind such a write is the loss of a
connection that was half open before it.

What is abstracted: topics are tuples; slugs, names and currents are elements
of small sets; the discovery payload is the one field that can change, the
name; the two GETs of one outlet are one step, because no property relates the
moments of the two (the relay and the name are independent). Per-outlet load
is `None` in this code and leaves no trace. A REST request
that is refused changes nothing and has no action; a message that is refused is
`Reject`, because it must be consumed. A message is the topic level in the
number's place and the word its payload comes to; a token of the allow list is
a number, a word or blank. Time is absent: a sleep may end at any moment, and a
round trip may take as long as any sequence of other steps.

`Faults` says which disturbances a run has: `loss` (a GET, a walk or its answer),
`set_loss` (the answer to a SET), `dark` (the agent unreachable for a while),
`no_host` (the PDU's address does not resolve), `empty_walk` (an agent whose outlet
table is not there yet), `rename` and `toggle` (users at the PDU), `noop` (a SET
acknowledged without effect), `stall` (a publish that is not confirmed in
time), `drop` (the broker connection breaks, and both sides see it), `half_open` (it
breaks, and neither does), `crash` (the process is killed).
`Endings` allows `settle` (the disturbances end) and `stop` (the bridge
is told to stop).

## What the runs check

Every property in a passing run is also tried against a faulty variant of the
code (the operators marked "Variant with a fault") and fails there.

| Run | Configuration | Shows |
|---|---|---|
| `readonly_discovery` | 2 outlets, blank or one name, `stall`, `rename` | `TypeOK`; `AnnouncedWhole`, `LegacyRetired`, `EveryOutletAnnounced`: however often the pass was interrupted and repeated, once it counts as published nothing is missing and nothing of v0.1.x is left; `RememberedAsAnnounced`: a name counts as announced only when the switch and the button bear it, so a rename broken off between the two stays due |
| `readonly_names` | 1 outlet, QoS 1, id from sysName, `rename`, `loss`, `dark`, `drop`, fairness | `NamesCurrent`: both entities bear the name last polled; `IdentityKept`: the id stays; `ViewConverges`: in the end names and states are the PDU's |
| `readonly_values` | 1 outlet, QoS 1, 2 loads, no discovery, `loss`, `no_host`, `drop`, `half_open`, stop | `SuccessIsPublished`: "connected" means the broker has what REST shows; `TotalsAgree`: amps and watts of one reading |
| `bridge_commands` | 1 outlet, subscriber and REST, `noop`, fairness | `TypeOK`; `NothingStale`: after a successful cycle no retained state is older than the cycle; `MirrorsRelays`: the refinement of `OutletMirror`; `StatesConverge`: whatever raced, the broker ends up right |
| `commands_routed` | 2 outlets, messages for 1 to 3 and for no number, the list `1,word`, four words, 3 messages, `stall`, `drop`, `half_open`, `no_host`, fairness | `TypeOK`; `LastCommandWins`: commands take effect in the order they came; `GatedWrites`: a relay at rest moves only if the operator allowed it; `Drained`: no message is left lying |
| `lifespan_commands` | 1 outlet, 2 processes, QoS 0, subscriber with commands, 2 attempts per SET, `set_loss`, `no_host`, `stall`, `drop`, `half_open`, `crash`, stop | `LifeTypeOK`; `NothingStale`, `MirrorsRelays`: nothing of an earlier process or an earlier poll passes for current; `OnlineWhileServing`: no late will hides a bridge that serves; `OfflineOnceGone`: no bridge that is gone, or cut off, stays shown |
| `lifespan_recovers` | 1 outlet, 2 processes, control disabled, `stall`, `drop`, `no_host`, `empty_walk`, `toggle`, `crash`, stop, fairness | `StatesConverge`, `KeepsLooping`, `ShutdownEnds`, all across a restart |

Bounds. Two outlets are enough for a loop to be interrupted between two
elements and for one outlet to be disturbed while another is read; two callers
are enough for every order of two SETs and two optimistic publishes; two
attempts for one repeated SET; two loads and one name beside "blank" for a
reading to differ from the one before. Three messages (`MaxMessages`) are one
under way, one behind it and one behind that, which is what an order can be
wrong in; the outlets they name are one allowed, one forbidden, one missing.
Two processes (`MaxLives`) are one that leaves something behind and one that
finds it; `Exit` leaves no other trace, so a third finds what the second did.
All other counters are bounded by the program (`at` by the outlets and topics,
`executed` by `Attempts`), so no state constraint is needed. `MaxRows` is the
code's 32. What the small numbers leave open for the safety properties named
below is closed by the proofs.

In the runs of `Lifespan` and `CommandSubscriber`, and in `readonly_values`,
deadlock is not an error: the last process has ended, every message has been
sent and taken, or the poller has been stopped.
Everywhere else TLC also checks that the bridge never comes to rest.

### Fairness

`FairSpec` is weak fairness of the poller's own steps and of each call under
way. The code justifies it: SNMP requests and MQTT confirmations have
timeouts, the sleep has one, and asyncio resumes every task that is ready. In
`CommandSubscriber` the task that has a message takes it. `FairLifeSpec` adds
that a process that was started comes to serve or fails, and that one whose
poller has stopped leaves; nobody has to start another, and `ShutdownEnds`
holds without the cancellation after five seconds.
Nothing is assumed of the surroundings: no command need come, no disturbance
need end, no keepalive need run out, on either side. Convergence is stated under
`<>[]Quiet` (the disturbances have ended, the broker connection lives, nobody stopped the
bridge), and callers may go on until then.

### Where the code and its documentation disagree

Five runs expect a violation; each checks one sentence of the repository.

* `readonly_outage`: the bridge state is documented as the state of the
  connection to the PDU. Once the outlets are counted, nothing in `poll_once`
  can raise, and a silent PDU leaves the state "connected" with every outlet
  UNKNOWN.
* `readonly_two_devices`: the device id is documented as stable. With
  `HA_DEVICE_ID` blank, a pass that fails half-way is repeated with the id
  derived again, and a sysName answered only the second time gives a second
  device.
* `bridge_confirmed`: the poll requested by a command is documented to come
  without waiting out the interval. A request that arrives during a cycle is
  cleared at the cycle's end.
* `readonly_fallback`: "Outlet n" is documented as the name of an outlet that
  has none. A lost answer to the GET of a name is taken for a rename to no name.
* `bridge_subscriber`: switches are documented to work while control is
  enabled. A subscription or a publish that raises ends the subscriber (and so
  does a SET while the PDU's address does not resolve: the run is violated with
  `no_host` instead of `stall` as well).

### Known limits of the passing properties

More situations break a property if its run's constants are extended; they
follow from the code, and the runs leave them out:

* With `empty_walk`, `LegacyRetired` and `EveryOutletAnnounced` fail: the pass
  completes with no outlets, and outlets found later are announced only if they
  have a name, since a blank name equals "never announced" in `_published_names`.
* With `HA_DEVICE_ID` blank and `loss`, `LegacyRetired` fails: a sysName lost in
  the first poll makes for the fallback id, and the pass retires the legacy
  topics of that id while those of the true one stay. With more than 32 outlets
  it fails too: the legacy topics of the others are never reached.
* With QoS 0 and `half_open`, nothing is claimed of a cycle that succeeds once the
  connection has failed: up to the keepalive its publishes go nowhere, REST shows
  "connected" and the broker keeps the older states, totals and configs. The
  properties say so by `Delivered`; without it `SuccessIsPublished`,
  `NothingStale`, `NamesCurrent` and `TotalsAgree` are about the QoS the operator
  chose. In discovery this does not heal: the flags and the names remembered may
  be ahead of the broker, but with no reconnect only a new process, which
  starts from nothing, publishes again. `OfflineOnceGone` holds all the same.
* With `stall`, `NamesCurrent` and `ViewConverges` fail: a new name may reach
  the broker unconfirmed, and if the old one then comes back the cache sees no
  difference.
* With `stall` and `loss` together, `TotalsAgree` fails: the amps reach the
  broker unconfirmed, the cycle ends, and the next one lost the bank reading. So
  it does across a restart, if a process ends between the two publishes.
* With an allow list of words only, `GatedWrites` fails: `_parse_allow` returns
  the empty set, which allows every outlet. `UsableList`, the assumption of the
  theorems about the gate, excludes just this.
* With `PrefixLevels = 2`, `LastCommandWins` fails: `_OUTLET_TOPIC_RE` admits one
  level before `/outlet/`, so every command is subscribed to and passed over.
* No property speaks of a failed cycle's `last_snapshot`, which REST shows although
  the broker never got it, of the time between "online" and the first cycle, when
  states of an earlier process are still retained, or of commands sent after the
  connection is lost, which nobody takes: no document promises otherwise.
* With `empty_walk`, `NamesCurrent` fails across a restart: an outlet announced
  under a name by one process, found late by the next and by then without a name,
  counts as announced.
* `OneDevice` fails across a restart as it does within a process.

## What is proved

TLAPS checks every proof; they hold for every value of the constants that
satisfies the named assumptions (`NoneAssumption`, `PduAssumption`,
`MaxRowsAssumption`, `DiscoveryAssumption`, `MqttAssumption`,
`PollerAssumption`, `ControllerAssumption`, `SubscriberAssumption`,
`LifespanAssumption`), which say only what the configuration and the device
give: at least one outlet, `None` distinct from data, slugs that are device ids.

| Theorem | States |
|---|---|
| `ReadOnlyBridgeProofs!TypeCorrect`, `BridgeProofs!BridgeTypeCorrect`, `CommandSubscriberProofs!SubscriberTypeCorrect`, `LifespanProofs!LifeTypeCorrect` | every variable keeps its type; no loop indexes an outlet that does not exist |
| `ReadOnlyBridgeProofs!DiscoveryIsWhole`, `BridgeProofs!BridgeDiscoveryIsWhole`, `LifespanProofs!DiscoveryWholeAcrossLives` | `AnnouncedWhole`, with and without commands, and over any number of processes |
| `ReadOnlyBridgeProofs!IdentityStays` | `IdentityKept` |
| `ReadOnlyBridgeProofs!OutletsAnnounced`, `LifespanProofs!OutletsAnnouncedAcrossLives` | `EveryOutletAnnounced`, if `WalksWhole` |
| `ReadOnlyBridgeProofs!NamesAreCurrent`, `LifespanProofs!NamesCurrentAcrossLives` | `NamesCurrent`, if `PublishesKnown`; over several processes, if `WalksWhole` too |
| `ReadOnlyBridgeProofs!LegacyGone`, `LifespanProofs!LegacyGoneAcrossLives` | `LegacyRetired`, if `LegacyReached` |
| `ReadOnlyBridgeProofs!DeviceIsOne`, `LifespanProofs!DeviceIsOneAcrossLives` | `OneDevice`, if `IdCertain`: what the run `readonly_two_devices` violates holds wherever its cause is absent |
| `ReadOnlyBridgeProofs!RemembersWhatIsAnnounced` | `RememberedAsAnnounced`, whatever fails |
| `ReadOnlyBridgeProofs!SuccessPublishes` | `SuccessIsPublished`: with QoS 1 or 2 whatever fails, with QoS 0 as long as the connection lives |
| `ReadOnlyBridgeProofs!TotalsAlwaysAgree`, `BridgeProofs!BridgeTotalsAgree` | `TotalsAgree`, if `PublishesKnown` or `LoadsCertain` |
| `BridgeProofs!NothingIsStale`, `LifespanProofs!NothingStaleAcrossLives` | `NothingStale`, for any number of callers, outlets, attempts and processes, and all disturbances at once |
| `BridgeProofs!BridgeMirrors`, `LifespanProofs!LivesMirror` | `MirrorsRelays`: the bridge implements `OutletMirror` |
| `ControllerProofs!ControllerObeys`, `CommandSubscriberProofs!MessagesObey`, `BridgeProofs!WritesAreGated`, `LifespanProofs!GatedAcrossLives` | the gate, provided nobody toggles a relay at the PDU and the allow list is usable |
| `CommandSubscriberProofs!LastCommandHolds` | `LastCommandWins`, for any number of messages, if `Obedient` |
| `LifespanProofs!ServesOnline`, `LifespanProofs!GoneIsOffline` | `OnlineWhileServing`, `OfflineOnceGone`, for any number of processes, every QoS and every way a connection breaks |

The hypotheses speak of `Faults` and the configuration alone; a run or a known
limit above shows what happens without them:

* `WalksWhole`: no `empty_walk`. `PublishesKnown`: no `stall`, so that a publish
  raises only when the connection has failed. `LoadsCertain`: neither `loss` nor `dark`.
* `IdCertain`: `HA_DEVICE_ID` is set, or the PDU has no sysName, or no request goes
  unanswered. `LegacyReached`: `WalksWhole`, `IdCertain`, and no more outlets than
  the walk may count.
* `UsableList`: the allow list is blank or names a number.
* `Obedient`: the topic prefix has one level, the subscriber is the only caller,
  nobody switches a relay at the PDU, and a SET that is sent is answered and takes
  effect. A connection that breaks, seen or unseen, stalled publishes and an
  address that does not resolve are allowed: all of them may end the task,
  and nothing is claimed of a task that is gone.

The argument. `AnnouncedWhole` is not inductive: it speaks of the moment the
pass is complete and says nothing of how it got there. `PollerInv` (at the end
of `Poller`) adds what the task knows at each await: `Cursors` (where each loop
is, and that the snapshot being published has one entry per outlet counted),
`NamesWithin` (names are remembered only of outlets that were counted) and
`PassProgress` (what the pass has announced by topic `at`). `PollerProofs` has
one lemma per action that it is preserved, `OutsideStep`: any step that leaves
the poller's own variables and the announced configs alone preserves it too, and
`NewPoller`: a new poller has it whatever is retained. Every composition
builds on these three.

`AnnouncementInv` (in `AnnouncementProofs`) is what the poller keeps true of its
announcements, each part under the hypotheses it needs. `CountKnown` says the
outlets are counted once and right; `EveryEntity`, that what is announced of
them stays; `IdInv`, that no poll under way, no snapshot and no announced topic
bears any id but one; `LegacyInv`, how far the legacy topics have been emptied.
`NamesInv` is the hard one: between the switch and the button of a renamed
outlet, name, cache and broker disagree, and so they do after a publish that
raised. The first is excepted by cursor; the second is covered by `Sound`: with
no `stall`, a publish that raised means the connection has failed for good, so no
later publish is delivered (`Delivered`), and none with QoS 1 or 2 returns. Within
one process it holds with empty walks as well, because no outlet is announced that was not counted
(`OnlyCounted`). `ReadingsInv` (in `ReadingsProofs`) does the
same for the values: `TotalsInv` and `StatesInv` say how far the snapshot has
been published, `AgreeInv` that amps and watts agree except between their two
publishes (`Between`) and after a failure there. `SuccessIsPublished` needs no
hypothesis on `Faults`, because a cycle that skipped a publish never reaches
`CycleSucceeds`; all of it is stated under `Delivered`, because a publish that
returned may still have gone nowhere. `RememberedAsAnnounced` rests on
`SwitchAnnounced`: a poller at the button has announced the switch under the same
name, and no other step touches either.

All of these are the poller's own. Callers and surroundings leave what they speak
of alone (`AnnouncementOutside`, `ReadingsOutside`); a process that ends leaves
`BrokerKnown`, which is all a new poller has to find (`NewAnnouncement`). So the
announcements are proved of any number of processes. The totals are not, because a
process may end between the amps and the watts.

`ControlInv` (at the end of `Controller`) has `CallsGated`: a call under way has
passed `_check_allowed`, and publishes ON or OFF of an outlet the PDU has.
`ControllerProofs` shows that every caller keeps it; `CommandSubscriber` has it
because its steps are the controller's (`SubscriberControls`), and `Bridge` by
composition.

`LastCommandWins` is proved from `SubscriberInv` (in `CommandSubscriberProofs`).
`QueueInv` says that the queue is what has arrived after the messages taken;
`OrdersInv`, that of the messages taken so far the latest command for an outlet
is either in the call under way and not yet carried out (`Pending`), or is where
the relay stands, as long as the task lives. Every step either takes one message,
or belongs to that call or the surroundings; `NothingUndone` shows that the latter carry out what is
pending and move no other relay at rest, and `PermittedAccepted` that a command
to a permitted outlet is never passed over.

`BridgeInv` (at the end of `Bridge`) is `PollerInv`, `CallsGated` and
`StatesVouched`: the relay's present state is in `recent`, so is each state the
current poll has read, each state of the snapshot being published, and each
state published of it so far. It is preserved because `recent` only grows during a
poll: relays add the states they pass through, and an optimistic publish adds
its own. The beginning of a poll may therefore empty it. The step simulation of
`OutletMirror` needs just this invariant, before and after the step.

`LifeInv` (in `LifespanProofs`) adds `SessionsKept`: a process that has ended has no
connection, and no session lingers under one that lives; and `BornAnew`: a process
that has not announced itself yet has begun nothing, so a connection that fails
before it serves, or one that is opened, finds a new poller. A process that
ends satisfies `BridgeInv` by `NewPoller`; that it never leaves "online" behind
without a session to expire is by cases over `LeaveSession`.

TLC has checked the invariants before the proofs were tried.

Only model-checked: the liveness properties, for which TLAPS has neither fairness
nor ENABLED (`ViewConverges`, `StatesConverge`, `Drained`, `KeepsLooping`,
`ShutdownEnds`), and the five violations. Every invariant, action
property and refinement of a passing run is also a theorem.

## Not modelled

`app/config.py` is the constants. Logging, the HTTP server, the read-only
endpoints, the translation of errors to HTTP codes and the packaging have no
influence on the state. The datagrams, timers and request ids of one SNMP
request are pysnmp's; the models take a request for what the bridge learns of
it, and a SET for how often the PDU carries it out. A process that cannot
connect to the broker ends before it has done anything.

## Plan

Done: every component that keeps state, their compositions, the lifespan with
crashes and restarts, and the refinement of `OutletMirror`; every safety property
of a passing run proved.
To come:

1. The totals' part of `SuccessIsPublished` in `Bridge` and over several processes
   (`TotalsInv` is kept in `Bridge` already; the states' part is `NothingStale`).
2. The safety part of the liveness properties: what each of them must rest on at
   the moment the disturbances end, as invariants.
