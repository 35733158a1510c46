----------------------------- MODULE LifespanProofs -----------------------------
(***************************************************************************)
(* What holds of the bridge over any number of starts, stops and crashes,  *)
(* for any number of callers and outlets, and every set of disturbances.   *)
(***************************************************************************)
EXTENDS Lifespan, BridgeProofs

\* What is known of the sessions besides the properties: a process that has
\* ended has no connection, and no session lingers under one that lives.
SessionsKept ==
  /\ life = "down" => conn = "down"
  /\ lingering => conn # "up"

\* A process that does not serve yet has done nothing yet.
BornAnew == life \in {"down", "announcing"} => NotBegun

LifeInv ==
  /\ BridgeInv /\ LifeTypeOK
  /\ SessionsKept /\ BornAnew
  /\ OnlineWhileServing /\ OfflineOnceGone

-------------------------------------------------------------------------------
(***************************************************************************)
(* The tasks, and what surrounds them.                                     *)
(***************************************************************************)
\* No task but the session's own touches the availability topic, and none the
\* connection.
LEMMA TasksLeaveSession ==
  ASSUME BridgeInv, PollerStep \/ \E c \in Callers : CallerStep(c)
  PROVE  UNCHANGED linkVars /\ retained'.available = retained.available
<1>0. retained \in Retained
  BY DEF BridgeInv, TypeOK, PollTypes, MqttTypeOK
<1>1. CASE PollerStep
  <2>1. CASE PublishState \/ PublishTotal
    BY <1>0, <2>1 DEF PublishState, PublishTotal, Publish, Retained, Handed,
                      Delivered, linkVars
  <2>2. CASE RetireLegacy \/ PublishSensor
    BY <1>0, <2>2 DEF RetireLegacy, PublishSensor, Publish, Retained, Handed,
                      Delivered, linkVars
  <2>3. CASE PublishSwitch \/ PublishButton
    BY <1>0, <2>3 DEF PublishSwitch, PublishButton, Announced, Publish, Retained,
                      Handed, Delivered, linkVars
  <2>4. CASE UNCHANGED mqttVars
    BY <2>4 DEF mqttVars, linkVars
  <2> QED
    BY <1>1, <2>1, <2>2, <2>3, <2>4
       DEF PollerStep, PollerNext, Run, Wake, PollOnce, PollIdentity,
           DiscoverOutletCount, PollBank, PollOutlet, PollDone, PublishValues,
           EndStates, SkipTotal, NoDiscovery, PublishDiscovery, BeginDiscovery,
           EndLegacy, EndSensors, BeginRenames, SkipOutlet, EndOutlets,
           RequestStop, Cancel, GetRaises, CycleFails, CycleEnds
<1>2. ASSUME NEW c \in Callers, CallerStep(c)
      PROVE  UNCHANGED linkVars /\ retained'.available = retained.available
  <2>1. CASE PublishOptimistic(c)
    BY <1>0, <2>1 DEF PublishOptimistic, Publish, Retained, Handed, Delivered,
                      linkVars
  <2>2. CASE ~PublishOptimistic(c)
    BY <1>2, <2>2
       DEF CallerStep, Await, Subscribe, SubscriberEnds, Receive, Proceed,
           PduExecutes, SetReturns, SetFails, Nudge, mqttVars, linkVars,
           SetRaises
  <2> QED
    BY <2>1, <2>2
<1> QED
  BY <1>1, <1>2

\* The surroundings break the connection, seen by both sides or by neither, and
\* the will is published when the broker finds out.
LEMMA SurroundingsAndSession ==
  ASSUME BridgeInv, Surroundings
  PROVE  \/ UNCHANGED mqttVars
         \/ LoseTouch \/ PingUnanswered
         \/ /\ \/ conn = "up" /\ conn' = "down" /\ lingering' = lingering
               \/ conn' = conn /\ lingering /\ ~lingering'
            /\ retained'.available = "offline"
<1>1. retained \in Retained
  BY DEF BridgeInv, TypeOK, PollTypes, MqttTypeOK
<1>2. CASE Disconnect
  BY <1>1, <1>2 DEF Disconnect, Available, Retained
<1>3. CASE KeepaliveExpires
  BY <1>1, <1>3 DEF KeepaliveExpires, Available, Retained
<1> QED
  BY <1>2, <1>3 DEF Surroundings, LinkNext

\* A step in which only the session moves leaves the bridge as it was.
LEMMA SessionStep ==
  ASSUME BridgeInv, UNCHANGED <<pduVars, pollerVars, call, recent, unconfirmed>>,
         conn' \in {"up", "half", "down"}, lingering' \in BOOLEAN,
         conn' = "up" => conn = "up" \/ NotBegun,
         NEW payload \in {"online", "offline"}, retained' \in {retained, Available(payload)}
  PROVE  BridgeInv' /\ retained'.state = retained.state
<1>0. /\ PollerInv /\ PollTypes /\ retained \in Retained /\ immediate_event \in BOOLEAN
      /\ recent \in [Outlets -> SUBSET OutletState]
      /\ \A n \in Outlets : RelayState(n) \in recent[n]
  BY DEF BridgeInv, TypeOK, PollTypes, PollerTypeOK, LoopTypeOK, MqttTypeOK, StatesVouched
<1>1. /\ retained' \in Retained
      /\ retained'.state = retained.state
      /\ retained'.sensor = retained.sensor /\ retained'.config = retained.config
  BY <1>0 DEF Available, Retained
<1>2. MqttTypeOK' /\ UNCHANGED pollerOwn /\ immediate_event' \in BOOLEAN
  BY <1>0, <1>1 DEF MqttTypeOK, pollerOwn, pollerVars, loopVars
<1>3. PduTypeOK'
  BY <1>0, OthersTyped
<1>4. PollerInv'
  BY <1>0, <1>1, <1>2, <1>3, OutsideStep
<1>5. StatesVouched'
  <2>1. \A n \in Outlets : RelayState(n)' = RelayState(n)
    BY DEF RelayState, pduVars
  <2> QED
    BY <1>0, <1>1, <1>2, <2>1, OutsideVouched
<1>6. ControllerTypeOK' /\ CallsGated' /\ TypeOK'
  BY <1>0, <1>4
     DEF BridgeInv, TypeOK, PollerInv, ControllerTypeOK, CallsGated, Gated, Allowed,
         Outlets, OutletCommand
<1> QED
  BY <1>1, <1>4, <1>5, <1>6 DEF BridgeInv

\* A process that ends takes all it knew with it.
LEMMA ExitStep ==
  ASSUME BridgeInv, Exit, lingering' \in BOOLEAN,
         NEW payload \in {"online", "offline"}, retained' \in {retained, Available(payload)}
  PROVE  BridgeInv' /\ retained'.state = retained.state
<1>0. /\ retained \in Retained /\ PollTypes
      /\ recent \in [Outlets -> SUBSET OutletState]
      /\ \A n \in Outlets : RelayState(n) \in recent[n]
  BY DEF BridgeInv, TypeOK, PollTypes, MqttTypeOK, StatesVouched
<1>1. retained' \in Retained /\ retained'.state = retained.state
  BY <1>0 DEF Available, Retained
<1>2. PollerInv'
  <2>1. PduTypeOK' /\ MqttTypeOK' /\ PollerInit'
    BY <1>0, <1>1, OthersTyped DEF Exit, MqttTypeOK, PollerInit
  <2> QED
    BY <2>1, NewPoller, PTL
<1>3. ControllerTypeOK' /\ CallsGated'
  BY NoCallGated DEF Exit, ControllerTypeOK, CallsGated
<1>4. StatesVouched'
  <2>1. \A n \in Outlets : RelayState(n)' = RelayState(n)
    BY DEF Exit, RelayState, pduVars
  <2> QED
    BY <1>0, <2>1 DEF Exit, StatesVouched, AfterSuccess, Publishing
<1>5. TypeOK'
  BY <1>0, <1>2, <1>3 DEF Exit, TypeOK, PollerInv
<1> QED
  BY <1>1, <1>2, <1>3, <1>4, <1>5 DEF BridgeInv

-------------------------------------------------------------------------------
(***************************************************************************)
(* Every step of the process.                                              *)
(***************************************************************************)
\* How a process leaves its session (session, finally): what then is retained
\* is what was, or another word on the availability topic, and nothing that
\* is not lingering leaves "online" behind.
LEMMA LeaveStep ==
  ASSUME LifeInv,
         NEW published, published \in {retained, Available("online")},
         LeaveSession(published)
  PROVE  /\ \E payload \in {"online", "offline"} :
              retained' \in {retained, Available(payload)}
         /\ ~lingering' => retained'.available # "online"
         /\ lingering' \in BOOLEAN
BY DEF LeaveSession, LifeInv, LifeTypeOK, SessionsKept, OfflineOnceGone, Available,
       BridgeInv, TypeOK, PollTypes, MqttTypeOK, Retained

\* The end of a process, however it comes about.
LEMMA EndStep ==
  ASSUME LifeInv, Farewell \/ AnnounceFails \/ Crash
  PROVE  /\ Exit
         /\ \E payload \in {"online", "offline"} :
              retained' \in {retained, Available(payload)}
         /\ ~lingering' => retained'.available # "online"
         /\ lingering' \in BOOLEAN
<1>1. CASE Farewell
  BY <1>1, LeaveStep DEF Farewell
<1>2. CASE AnnounceFails
  BY <1>2, LeaveStep DEF AnnounceFails
<1>3. CASE Crash
  BY <1>3
     DEF Crash, LifeInv, LifeTypeOK, SessionsKept, OfflineOnceGone, BridgeInv, TypeOK,
         PollTypes, MqttTypeOK
<1> QED
  BY <1>1, <1>2, <1>3

\* The start, and its announcement.
LEMMA SessionMoves ==
  ASSUME LifeInv, Connect \/ Announce
  PROVE  LifeInv' /\ retained'.state = retained.state
                  /\ UNCHANGED <<pduVars, pollerVars, recent>>
<1>0. /\ BridgeInv /\ LifeTypeOK /\ SessionsKept /\ BornAnew /\ OfflineOnceGone
      /\ retained \in Retained /\ conn \in {"up", "half", "down"}
      /\ lingering \in BOOLEAN /\ MaxLives \in Nat
  BY LifespanAssumption DEF LifeInv, BridgeInv, TypeOK, PollTypes, MqttTypeOK
<1>1. /\ UNCHANGED <<pduVars, pollerVars, call, recent, unconfirmed>>
      /\ conn' \in {"up", "half", "down"} /\ lingering' \in BOOLEAN
      /\ conn' = "up" => conn = "up" \/ NotBegun
  BY <1>0 DEF Connect, Announce, linkVars, BornAnew
<1>2. \E payload \in {"online", "offline"} : retained' \in {retained, Available(payload)}
  BY DEF Connect, Announce, Handed
<1>3. BridgeInv' /\ retained'.state = retained.state
  BY <1>0, <1>1, <1>2, SessionStep
<1>4. LifeTypeOK'
  <2>1. lives \in 0 .. MaxLives
    BY <1>0 DEF LifeTypeOK
  <2>2. lives' \in 0 .. MaxLives
    BY <1>0, <2>1 DEF Connect, Announce
  <2>3. life' \in {"announcing", "serving"}
    BY DEF Connect, Announce
  <2> QED
    BY <1>3, <2>2, <2>3 DEF LifeTypeOK, BridgeInv
<1>5. SessionsKept' /\ BornAnew' /\ OnlineWhileServing' /\ OfflineOnceGone'
  <2>1. CASE Connect
    BY <1>0, <2>1
       DEF Connect, SessionsKept, BornAnew, NotBegun, OnlineWhileServing,
           OfflineOnceGone, pollerVars, loopVars, discoveryVars
  <2>2. CASE Announce
    BY <1>0, <2>2
       DEF Announce, Handed, Available, Retained, SessionsKept, BornAnew,
           OnlineWhileServing, OfflineOnceGone, linkVars
  <2> QED
    BY <2>1, <2>2
<1> QED
  BY <1>1, <1>3, <1>4, <1>5 DEF LifeInv

\* What a step of the process is to the bridge: one of its own, an end, or a
\* move of the session.
LEMMA LifeSteps ==
  ASSUME LifeInv, LifeNext
  PROVE  \/ PollerStep /\ UNCHANGED stop_event /\ life \in {"serving", "stopping"}
              /\ UNCHANGED lifespanVars
         \/ (\E c \in Callers : CallerStep(c)) /\ life = "serving"
              /\ UNCHANGED lifespanVars
         \/ Surroundings /\ UNCHANGED lifespanVars
         \/ Shutdown
         \/ Farewell \/ AnnounceFails \/ Crash
         \/ Connect \/ Announce
BY DEF LifeNext, Serve, LifeSurroundings

\* The server stops: the subscriber is gone, and the poller knows.
LEMMA ShutdownStep ==
  ASSUME BridgeInv, Shutdown
  PROVE  /\ BridgeInv' /\ UNCHANGED <<mqttVars, pduVars, recent>>
         /\ UNCHANGED <<pc, state, last_snapshot>>
<1>0. /\ PollerInv /\ ControllerTypeOK /\ CallsGated /\ StatesVouched
      /\ recent \in [Outlets -> SUBSET OutletState] /\ unconfirmed \in BOOLEAN
  BY DEF BridgeInv, TypeOK
<1>1. PollerInv'
  BY <1>0, PollerNextStep DEF Shutdown, PollerNext
<1>2. ControllerTypeOK' /\ CallsGated'
  BY <1>0, ControllerAssumption, NoCallGated, CallMoves DEF Shutdown
<1>3. /\ UNCHANGED <<recent, unconfirmed, mqttVars, pduVars, pc, state, last_snapshot,
                     readings, at, outlet_count_cached>>
  BY DEF Shutdown, RequestStop, loopVars
<1>4. \A n \in Outlets : RelayState(n)' = RelayState(n)
  BY <1>3 DEF RelayState, pduVars
<1>5. StatesVouched'
  BY <1>0, <1>3, <1>4
     DEF mqttVars, linkVars, StatesVouched, Vouched, AfterSuccess, OutletCount,
         PolledOutlets, Delivered
<1> QED
  BY <1>0, <1>1, <1>2, <1>3, <1>5 DEF BridgeInv, TypeOK, PollerInv

\* Every step keeps LifeInv.
LEMMA NextLifeInv == LifeInv /\ [LifeNext]_allVars => LifeInv'
<1> SUFFICES ASSUME LifeInv, [LifeNext]_allVars PROVE LifeInv'
  OBVIOUS
<1>0. /\ BridgeInv /\ LifeTypeOK /\ SessionsKept /\ BornAnew
      /\ OfflineOnceGone /\ OnlineWhileServing
  BY DEF LifeInv
<1>1. ASSUME PollerStep \/ \E c \in Callers : CallerStep(c),
             life \in {"serving", "stopping"}, UNCHANGED lifespanVars
      PROVE  LifeInv'
  <2>1. BridgeInv'
    BY <1>0, <1>1, NextBridgeInv DEF Next
  <2>2. UNCHANGED linkVars /\ retained'.available = retained.available
    BY <1>0, <1>1, TasksLeaveSession
  <2> QED
    BY <1>0, <1>1, <2>1, <2>2
       DEF LifeInv, LifeTypeOK, BridgeInv, SessionsKept, BornAnew, OfflineOnceGone,
           OnlineWhileServing, lifespanVars, linkVars
<1>2. ASSUME Surroundings, UNCHANGED lifespanVars PROVE LifeInv'
  <2>1. BridgeInv'
    BY <1>0, <1>2, NextBridgeInv DEF Next
  <2>2. LifeTypeOK'
    BY <1>0, <1>2, <2>1 DEF LifeTypeOK, BridgeInv, lifespanVars
  <2>3. BornAnew'
    BY <1>0, <1>2
       DEF BornAnew, NotBegun, Surroundings, lifespanVars, pollerVars, loopVars,
           discoveryVars
  <2>4. SessionsKept' /\ OfflineOnceGone' /\ OnlineWhileServing'
    <3>1. CASE UNCHANGED mqttVars
      BY <1>0, <1>2, <3>1
         DEF SessionsKept, OfflineOnceGone, OnlineWhileServing, lifespanVars, mqttVars,
             linkVars
    <3>2. CASE LoseTouch \/ PingUnanswered
      BY <1>0, <1>2, <3>2
         DEF LoseTouch, PingUnanswered, SessionsKept, OfflineOnceGone,
             OnlineWhileServing, lifespanVars
    <3> QED
      BY <1>0, <1>2, <3>1, <3>2, SurroundingsAndSession
         DEF SessionsKept, OfflineOnceGone, OnlineWhileServing, lifespanVars
  <2> QED
    BY <2>1, <2>2, <2>3, <2>4 DEF LifeInv
<1>3. CASE Shutdown
  BY <1>0, <1>3, ShutdownStep
     DEF Shutdown, LifeInv, LifeTypeOK, BridgeInv, SessionsKept, BornAnew,
         OfflineOnceGone, OnlineWhileServing, mqttVars, linkVars
<1>4. CASE Farewell \/ AnnounceFails \/ Crash
  <2>1. /\ Exit
        /\ ~lingering' => retained'.available # "online"
        /\ lingering' \in BOOLEAN
        /\ BridgeInv'
    BY <1>0, <1>4, EndStep, ExitStep
  <2> QED
    BY <1>0, <2>1
       DEF Exit, LifeInv, LifeTypeOK, BridgeInv, SessionsKept, BornAnew, NotBegun,
           OfflineOnceGone, OnlineWhileServing
<1>5. CASE Connect \/ Announce
  BY <1>5, SessionMoves
<1>6. CASE UNCHANGED allVars
  <2>1. BridgeInv'
    BY <1>0, <1>6, NextBridgeInv DEF allVars
  <2> QED
    BY <1>0, <1>6, <2>1
       DEF LifeInv, LifeTypeOK, BridgeInv, SessionsKept, BornAnew, NotBegun,
           OfflineOnceGone, OnlineWhileServing, allVars, vars, lifespanVars, mqttVars,
           linkVars, pollerVars, loopVars, discoveryVars
<1> QED
  BY <1>1, <1>2, <1>3, <1>4, <1>5, <1>6, LifeSteps

-------------------------------------------------------------------------------
(***************************************************************************)
(* The theorems.                                                           *)
(***************************************************************************)
\* LifeInv holds before the first start.
LEMMA InitLifeInv == LifeInit => LifeInv
<1> SUFFICES ASSUME LifeInit PROVE LifeInv
  OBVIOUS
<1>1. PollerInv
  BY NothingRetainedType, NewPoller DEF LifeInit, MqttTypeOK
<1>2. ControllerTypeOK /\ CallsGated
  BY NoCallGated DEF LifeInit, ControllerInit, ControllerTypeOK, CallsGated
<1>3. recent \in [Outlets -> SUBSET OutletState] /\ unconfirmed \in BOOLEAN
  BY RelayStateType DEF LifeInit
<1>4. StatesVouched
  BY DEF LifeInit, PollerInit, StatesVouched, AfterSuccess, Publishing
<1>5. BridgeInv
  BY <1>1, <1>2, <1>3, <1>4 DEF BridgeInv, TypeOK, PollerInv
<1>6. LifeTypeOK /\ SessionsKept /\ OnlineWhileServing /\ BornAnew
  <2>1. life = "down" /\ lives = 0 /\ lingering = FALSE /\ conn = "down"
    BY DEF LifeInit
  <2>2. 0 \in 0 .. MaxLives
    BY LifespanAssumption
  <2> QED
    BY <1>5, <2>1, <2>2
       DEF LifeTypeOK, BridgeInv, SessionsKept, OnlineWhileServing, BornAnew, NotBegun,
           LifeInit, PollerInit
<1>7. OfflineOnceGone
  BY MqttAssumption DEF LifeInit, NothingRetained, OfflineOnceGone
<1> QED
  BY <1>5, <1>6, <1>7 DEF LifeInv

\* The invariant holds over any number of processes.
THEOREM LifeInvariant == LifeSpec => []LifeInv
<1> QED
  BY InitLifeInv, NextLifeInv, PTL DEF LifeSpec

\* Every variable keeps its type, whatever a process finds at the broker that
\* an earlier one has left there.
THEOREM LifeTypeCorrect == LifeSpec => []LifeTypeOK
<1>1. LifeInv => LifeTypeOK
  BY DEF LifeInv
<1> QED
  BY <1>1, LifeInvariant, PTL

\* A bridge that serves and is connected is shown as available: no will of an
\* earlier process comes after its "online" (session, _new_client).
THEOREM ServesOnline == LifeSpec => []OnlineWhileServing
<1>1. LifeInv => OnlineWhileServing
  BY DEF LifeInv
<1> QED
  BY <1>1, LifeInvariant, PTL

\* However a process ends, "online" does not outlive its session (session).
THEOREM GoneIsOffline == LifeSpec => []OfflineOnceGone
<1>1. LifeInv => OfflineOnceGone
  BY DEF LifeInv
<1> QED
  BY <1>1, LifeInvariant, PTL

\* No process takes what an earlier one has left at the broker for its own:
\* after a successful cycle no retained state is older than that cycle, over
\* any number of restarts.
THEOREM NothingStaleAcrossLives == LifeSpec => []NothingStale
<1>1. LifeInv => NothingStale
  BY DEF LifeInv, BridgeInv, StatesVouched, NothingStale, Vouched, PolledOutlets
<1> QED
  BY <1>1, LifeInvariant, PTL

\* Every process announces discovery whole again, whatever an earlier one has
\* announced (_publish_discovery).
THEOREM DiscoveryWholeAcrossLives == LifeSpec => []AnnouncedWhole
<1>1. LifeInv => AnnouncedWhole
  BY DEF LifeInv, BridgeInv, PollerInv
<1> QED
  BY <1>1, LifeInvariant, PTL

\* The bridge implements OutletMirror over any number of processes: starts,
\* stops and crashes confirm nothing and show nothing.
THEOREM LivesMirror == LifeSpec => MirrorsRelays
<1>1. LifeInit => Mirror!Init
  <2> SUFFICES ASSUME LifeInit PROVE Mirror!Init
    OBVIOUS
  <2>1. \A n \in Outlets : column[n] \in 1 .. 4
    BY InitLifeInv DEF LifeInv, BridgeInv, TypeOK, PollTypes, PduTypeOK
  <2>2. Relay \in [Outlets -> {"ON", "OFF"}]
    BY <2>1, PositionType DEF Relay, RelayState
  <2>3. recent = [n \in Outlets |-> {Relay[n]}]
    BY DEF LifeInit, Relay
  <2>4. Confirmed = {}
    BY DEF LifeInit, PollerInit, Confirmed, AfterSuccess, Delivered, linkVars
  <2> QED
    BY <2>2, <2>3, <2>4 DEF Mirror!Init
<1>2. LifeInv /\ LifeInv' /\ [LifeNext]_allVars => [Mirror!Next]_(Mirror!mirrorVars)
  <2> SUFFICES ASSUME LifeInv, LifeInv', [LifeNext]_allVars
               PROVE  [Mirror!Next]_(Mirror!mirrorVars)
    OBVIOUS
  <2>0. BridgeInv /\ BridgeInv'
    BY DEF LifeInv
  <2>1. CASE PollerStep \/ (\E c \in Callers : CallerStep(c)) \/ Surroundings
    BY <2>0, <2>1, PollerMirrored, CallerMirrored, SurroundingsMirrored
  <2>2. CASE Shutdown
    BY <2>0, <2>2, ShutdownStep
       DEF mqttVars, pduVars, Mirror!mirrorVars, Relay, RelayState, Confirmed,
           AfterSuccess, linkVars, Delivered
  <2>3. CASE \/ Farewell \/ AnnounceFails \/ Crash
             \/ Connect \/ Announce
    <3>1. retained'.state = retained.state /\ UNCHANGED <<pduVars, recent>>
      BY <2>0, <2>3, EndStep, ExitStep, SessionMoves DEF Exit
    <3>2. UNCHANGED Relay
      BY <3>1 DEF Relay, RelayState, pduVars
    <3> QED
      BY <2>0, <3>1, <3>2, ConfirmMirrored
  <2>4. CASE UNCHANGED allVars
    BY <2>4
       DEF allVars, vars, Mirror!mirrorVars, Relay, RelayState, Confirmed,
           AfterSuccess, pollerVars, loopVars, pduVars, mqttVars, linkVars,
           Delivered
  <2> QED
    BY <2>1, <2>2, <2>3, <2>4, LifeSteps
<1> QED
  BY <1>1, <1>2, LifeInvariant, PTL DEF LifeSpec, MirrorsRelays, Mirror!Spec

\* The gate holds over any number of processes: neither a start, nor a stop in
\* the middle of a command, nor a crash moves a relay at rest (_check_allowed,
\* _write_auth), under the provisos of WritesAreGated.
THEOREM GatedAcrossLives ==
  ASSUME "toggle" \notin Faults, UsableList
  PROVE  LifeSpec => GatedWrites
<1>1. ASSUME LifeInv, LifeNext PROVE GatedStep
  <2>0. BridgeInv
    BY <1>1 DEF LifeInv
  <2>1. CASE PollerStep
    BY <2>1, PollerFrame DEF GatedStep, pduVars
  <2>2. ASSUME NEW c \in Callers, CallerStep(c) PROVE GatedStep
    BY <2>0, <2>2, ControlInvWithin, CallersGated DEF CallerStep, GatedStep
  <2>3. CASE Surroundings
    BY <2>0, <2>3, PduAtRest
       DEF Surroundings, BridgeInv, TypeOK, PollTypes, GatedStep, pduVars
  <2>4. CASE \/ Shutdown \/ Farewell \/ AnnounceFails \/ Crash
             \/ Connect \/ Announce
    BY <2>4
       DEF Shutdown, RequestStop, Farewell, AnnounceFails, Crash, Exit, Connect,
           Announce, GatedStep, pduVars
  <2> QED
    BY <1>1, <2>1, <2>2, <2>3, <2>4, LifeSteps
<1>2. LifeInv /\ [LifeNext]_allVars => [GatedStep]_vars
  BY <1>1 DEF allVars
<1> QED
  BY <1>2, LifeInvariant, PTL DEF LifeSpec, GatedWrites

-------------------------------------------------------------------------------
(***************************************************************************)
(* What Home Assistant has been told, over any number of processes.        *)
(***************************************************************************)
LifeAnnouncement == LifeInv /\ AnnouncementInv

\* What a process leaves at the broker tells the next one nothing false.
LEMMA ExitAnnouncement ==
  ASSUME LifeInv, LifeInv', AnnouncementInv, Exit,
         NEW payload \in {"online", "offline"}, retained' \in {retained, Available(payload)}
  PROVE  AnnouncementInv'
<1>1. retained'.config = retained.config /\ retained'.legacy = retained.legacy
  BY DEF Available, LifeInv, BridgeInv, TypeOK, PollTypes, MqttTypeOK, Retained
<1>2. UNCHANGED answering
  BY DEF Exit, pduVars
<1>3. BrokerKnown'
  BY <1>1, <1>2
     DEF AnnouncementInv, IdInv, LegacyInv, BrokerKnown, LegacyReached, IdCertain,
         WalksWhole, TheId, derive_device_id
<1>4. PollerInv' /\ PollerInit'
  BY DEF LifeInv, BridgeInv, Exit, PollerInit
<1> QED
  BY <1>3, <1>4, NewAnnouncement, PTL

\* Every step keeps what is known of the announcements.
LEMMA LifeAnnouncementStep ==
  LifeAnnouncement /\ [LifeNext]_allVars => LifeAnnouncement'
<1> SUFFICES ASSUME LifeAnnouncement, [LifeNext]_allVars PROVE AnnouncementInv'
  BY NextLifeInv DEF LifeAnnouncement
<1>0. /\ LifeInv /\ LifeInv' /\ BridgeInv /\ PollerInv' /\ AnnouncementInv
      /\ BornAnew /\ retained \in Retained
  BY NextLifeInv
     DEF LifeAnnouncement, LifeInv, BridgeInv, TypeOK, PollTypes, MqttTypeOK
<1>1. CASE PollerStep \/ (\E c \in Callers : CallerStep(c)) \/ Surroundings
  BY <1>0, <1>1, TogetherStep DEF Next
<1>2. CASE Shutdown
  BY <1>0, <1>2, AnnouncementStep DEF Shutdown, PollerNext
<1>3. CASE Farewell \/ AnnounceFails \/ Crash
  BY <1>0, <1>3, EndStep, ExitAnnouncement
<1>4. CASE Connect \/ Announce
  <2>1. /\ UNCHANGED <<pduVars, pollerVars>>
        /\ \E payload \in {"online", "offline"} :
             retained' \in {retained, Available(payload)}
    BY <1>4 DEF Connect, Announce, Handed
  <2>2. retained'.config = retained.config /\ retained'.legacy = retained.legacy
    BY <1>0, <2>1 DEF Available, Retained
  <2>3. conn' = "up" => conn = "up" \/ NotBegun
    BY <1>0, <1>4 DEF Connect, Announce, BornAnew, linkVars
  <2>4. UNCHANGED <<pollerOwn, answering>>
    BY <2>1 DEF pollerOwn, pollerVars, loopVars, pduVars
  <2> QED
    BY <1>0, <2>2, <2>3, <2>4, AnnouncementOutside
<1>5. CASE UNCHANGED allVars
  BY <1>0, <1>5, TogetherStep DEF allVars
<1> QED
  BY <1>0, <1>1, <1>2, <1>3, <1>4, <1>5, LifeSteps

\* What the pollers of all processes know of their announcements holds.
THEOREM LifeAnnouncementHolds == LifeSpec => []LifeAnnouncement
<1>1. LifeInit => LifeAnnouncement
  <2> SUFFICES ASSUME LifeInit PROVE LifeAnnouncement
    OBVIOUS
  <2>1. LifeInv /\ PollerInv
    BY InitLifeInv DEF LifeInv, BridgeInv
  <2>2. AnnouncementInv
    BY <2>1, NewAnnouncement, NothingRetainedKnown DEF LifeInit
  <2> QED
    BY <2>1, <2>2 DEF LifeAnnouncement
<1> QED
  BY <1>1, LifeAnnouncementStep, PTL DEF LifeSpec

\* Unless a walk finds no outlets, every process announces every outlet by the
\* end of each of its successful cycles, whatever earlier ones have left.
THEOREM OutletsAnnouncedAcrossLives ==
  ASSUME WalksWhole
  PROVE  LifeSpec => []EveryOutletAnnounced
<1>1. LifeAnnouncement => EveryOutletAnnounced
  BY AllAnnounced DEF LifeAnnouncement
<1> QED
  BY <1>1, LifeAnnouncementHolds, PTL

\* All processes announce one device, unless a lost sysName can change what
\* the id is derived from (derive_device_id).
THEOREM DeviceIsOneAcrossLives ==
  ASSUME IdCertain
  PROVE  LifeSpec => []OneDevice
<1>1. LifeAnnouncement => OneDevice
  BY AllOneDevice DEF LifeAnnouncement
<1> QED
  BY <1>1, LifeAnnouncementHolds, PTL

\* Each process that counts discovery as published has left no entity of
\* v0.1.x behind, wherever the one before it was killed.
THEOREM LegacyGoneAcrossLives ==
  ASSUME LegacyReached
  PROVE  LifeSpec => []LegacyRetired
<1>1. LifeAnnouncement => LegacyRetired
  BY AllLegacyRetired DEF LifeAnnouncement
<1> QED
  BY <1>1, LifeAnnouncementHolds, PTL

\* A process does not take a name an earlier one has announced for the name
\* last polled: after a successful cycle all announced names are current.
THEOREM NamesCurrentAcrossLives ==
  ASSUME WalksWhole, PublishesKnown
  PROVE  LifeSpec => []NamesCurrent
<1>1. LifeAnnouncement => NamesCurrent
  BY AllNamesCurrent DEF LifeAnnouncement, AnnouncementInv
<1> QED
  BY <1>1, LifeAnnouncementHolds, PTL
===============================================================================
