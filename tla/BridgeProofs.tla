----------------------------- MODULE BridgeProofs -----------------------------
(***************************************************************************)
(* What holds of the bridge with outlet control for any number of callers, *)
(* outlets and retries, every configuration and every set of disturbances. *)
(***************************************************************************)
EXTENDS Bridge, ReadingsProofs, ControllerProofs

-------------------------------------------------------------------------------
(***************************************************************************)
(* The callers leave the poller what it knows.                             *)
(***************************************************************************)
\* What the controller's own invariant asks for is part of BridgeInv.
LEMMA ControlInvWithin == BridgeInv => ControlInv
BY DEF BridgeInv, TypeOK, PollTypes, PollerTypeOK, LoopTypeOK, ControlInv, ControlTypes

\* A step of a caller, between two calls or in one.
LEMMA CallerKeeps ==
  ASSUME BridgeInv, NEW c \in Callers, Await(c) \/ Proceed(c), UNCHANGED pollerOwn
  PROVE  PollerInv' /\ ControllerTypeOK' /\ CallsGated'
<1>1. /\ ControlInv' /\ PollerInv /\ conn' = conn
      /\ retained'.sensor = retained.sensor /\ retained'.config = retained.config
  BY ControlInvWithin, AnyCallerStep DEF BridgeInv, linkVars
<1> QED
  BY <1>1, OutsideStep DEF ControlInv, ControlTypes

-------------------------------------------------------------------------------
(***************************************************************************)
(* What has been read and published stays vouched for.                     *)
(***************************************************************************)
\* The column of an outlet always reads as one of the three states.
LEMMA RelayStateType ==
  ASSUME NEW n \in Outlets
  PROVE  RelayState(n) \in OutletState /\ RelayState(n)' \in OutletState
BY ParseType DEF RelayState, parse_outlet_state, OutletState

\* A step outside the poller only adds to what is vouched for, and publishes
\* nothing that is not.
LEMMA OutsideVouched ==
  ASSUME BridgeInv, UNCHANGED pollerOwn,
         conn' = "up" => conn = "up" \/ NotBegun,
         \A n \in Outlets : recent[n] \subseteq recent'[n],
         \A n \in Outlets : RelayState(n)' \in recent'[n],
         \A n \in Outlets : retained'.state[n] \in {retained.state[n]} \cup recent'[n]
  PROVE  StatesVouched'
<1>0. /\ PollerInv /\ StatesVouched /\ PollTypes /\ Cursors
      /\ OutletCount \in 0 .. NOutlets
  BY PduAssumption
     DEF BridgeInv, PollerInv, PollTypes, PollerTypeOK, OutletCount, Outlets
<1>1. \A n \in 1 .. OutletCount : n \in Outlets
  BY <1>0, PduAssumption DEF Outlets
<1>2. /\ OutletCount' = OutletCount /\ PolledOutlets' = PolledOutlets
      /\ AfterSuccess' = AfterSuccess
  BY DEF pollerOwn, OutletCount, PolledOutlets, AfterSuccess
<1>3. \A n \in Outlets : \A s : Vouched(n, s) => Vouched(n, s)'
  BY DEF Vouched
<1>4. \A n \in Outlets :
        Vouched(n, retained.state[n]) => Vouched(n, retained.state[n])'
  BY DEF Vouched
<1>5. pc' = pc /\ at' = at /\ readings' = readings /\ last_snapshot' = last_snapshot
  BY DEF pollerOwn
<1>6. ASSUME pc = "outlets", NEW n \in 1 .. Len(readings.outlets)
      PROVE  Vouched(n, readings.outlets[n].state)'
  <2>1. Len(readings.outlets) \in Nat /\ Len(readings.outlets) <= OutletCount
    BY <1>0, <1>6 DEF Cursors, PollTypes, PollerTypeOK, LoopTypeOK, PollSnapshot
  <2>2. n \in 1 .. OutletCount
    BY <1>0, <2>1
  <2> QED
    BY <1>0, <1>1, <1>3, <1>5, <1>6, <2>2 DEF StatesVouched, Vouched
<1>7. ASSUME pc \in Publishing, NEW n \in 1 .. OutletCount
      PROVE  Vouched(n, PolledOutlets[n].state)'
  BY <1>0, <1>1, <1>2, <1>7 DEF StatesVouched, Vouched
<1> QED
  BY <1>0, <1>1, <1>2, <1>4, <1>5, <1>6, <1>7
     DEF StatesVouched, Delivered, NotBegun, AfterSuccess, Publishing

\* A step of a caller.
LEMMA CallerVouched ==
  ASSUME BridgeInv, NEW c \in Callers, CallerStep(c)
  PROVE  StatesVouched' /\ recent' \in [Outlets -> SUBSET OutletState]
<1>0. /\ recent \in [Outlets -> SUBSET OutletState] /\ UNCHANGED pollerOwn
      /\ Await(c) \/ Proceed(c)
      /\ \A n \in Outlets : RelayState(n) \in recent[n]
      /\ conn' = conn
  BY ControlInvWithin, AnyCallerStep
     DEF BridgeInv, TypeOK, StatesVouched, CallerStep, linkVars
<1>1. CASE call[c].phase = "publish"
  <2>1. /\ call[c].outlet \in Outlets /\ call[c].command \in {"ON", "OFF"}
        /\ recent' = [recent EXCEPT ![call[c].outlet] = @ \cup {call[c].command}]
    BY <1>1 DEF BridgeInv, CallsGated, Gated, CallerStep
  <2>2. retained'.state \in {retained.state,
          [retained.state EXCEPT ![call[c].outlet] = call[c].command]}
    BY <1>0, <1>1, ControlInvWithin, AnyCallerStep, PublishOptimisticStep
  <2>3. UNCHANGED column
    BY <1>0, <1>1, ControlInvWithin, AnyCallerStep DEF PublishOptimistic, pduVars
  <2>4. retained.state \in [Outlets -> OutletState \cup {None}]
    BY DEF BridgeInv, TypeOK, PollTypes, MqttTypeOK, Retained
  <2>5. \A n \in Outlets : RelayState(n)' = RelayState(n)
    BY <2>3 DEF RelayState
  <2>6. \A n \in Outlets : recent[n] \subseteq recent'[n]
    BY <1>0, <2>1
  <2>7. \A n \in Outlets : retained'.state[n] \in {retained.state[n]} \cup recent'[n]
    BY <1>0, <2>1, <2>2, <2>4
  <2>8. recent' \in [Outlets -> SUBSET OutletState]
    BY <1>0, <2>1 DEF OutletState
  <2> QED
    BY <1>0, <2>5, <2>6, <2>7, <2>8, OutsideVouched
<1>2. CASE call[c].phase # "publish"
  <2>1. recent' = [n \in Outlets |-> recent[n] \cup {RelayState(n)'}]
    BY <1>2 DEF CallerStep, KeepRecent
  <2>2. UNCHANGED retained
    BY <1>0, <1>2, ControlInvWithin, AnyCallerStep
  <2> QED
    BY <1>0, <2>1, <2>2, RelayStateType, OutsideVouched
<1> QED
  BY <1>1, <1>2

\* A step of the PDU or of the connection.
LEMMA SurroundingsVouched ==
  ASSUME BridgeInv, Surroundings
  PROVE  StatesVouched' /\ recent' \in [Outlets -> SUBSET OutletState]
<1>0. /\ recent \in [Outlets -> SUBSET OutletState]
      /\ \A n \in Outlets : RelayState(n) \in recent[n]
      /\ retained \in Retained
  BY DEF BridgeInv, TypeOK, StatesVouched, PollTypes, MqttTypeOK
<1>1. /\ retained'.state = retained.state
      /\ conn' = "up" => conn = "up"
  BY LinkFrame DEF Surroundings, BridgeInv, TypeOK, PollTypes, mqttVars, linkVars
<1>2. UNCHANGED pollerOwn
  BY DEF Surroundings, pollerVars, loopVars, pollerOwn
<1> QED
  BY <1>0, <1>1, <1>2, RelayStateType, OutsideVouched DEF Surroundings, KeepRecent

-------------------------------------------------------------------------------
(***************************************************************************)
(* The poller: each of its steps keeps what is known at its awaits.        *)
(***************************************************************************)
\* Every step but the start of a poll leaves the relays and recent alone.
LEMMA PollerFrame ==
  ASSUME PollerStep
  PROVE  /\ UNCHANGED pduVars
         /\ ~Wake => UNCHANGED recent
         /\ \A n \in Outlets : RelayState(n)' = RelayState(n)
<1>1. UNCHANGED pduVars
  BY DEF PollerStep, PollerNext, Run, Wake, PollOnce, PollIdentity,
         DiscoverOutletCount, PollBank, PollOutlet, PollDone, PublishValues,
         PublishState, EndStates, PublishTotal, SkipTotal, NoDiscovery,
         PublishDiscovery, BeginDiscovery, RetireLegacy, EndLegacy, PublishSensor,
         EndSensors, BeginRenames, PublishSwitch, PublishButton, SkipOutlet,
         EndOutlets, RequestStop, Cancel, publishFrame, GetRaises, CycleFails,
         CycleEnds
<1>2. ~Wake => ~PollBegins
  BY DEF PollerStep, PollerNext, Run, Wake, PollOnce, PollIdentity,
         DiscoverOutletCount, PollBank, PollOutlet, PollDone, PublishValues,
         PublishState, EndStates, PublishTotal, SkipTotal, NoDiscovery,
         PublishDiscovery, BeginDiscovery, RetireLegacy, EndLegacy, PublishSensor,
         EndSensors, BeginRenames, PublishSwitch, PublishButton, SkipOutlet,
         EndOutlets, RequestStop, Cancel, TotalsDone, PollBegins, loopVars,
         GetRaises, CycleFails, CycleEnds
<1> QED
  BY <1>1, <1>2 DEF PollerStep, RelayState, pduVars

\* A cycle that ends in failure, or a task that ends, claims nothing.
LEMMA NothingClaimed ==
  ASSUME StatesVouched, UNCHANGED recent,
         \A n \in Outlets : RelayState(n)' = RelayState(n),
         CycleFails \/ pc' \in {"stopped", "walk", "bank"}
  PROVE  StatesVouched'
BY DEF StatesVouched, CycleFails, CycleEnds, AfterSuccess, Publishing

\* A step from one publishing await to another, or to a successful end, that
\* publishes no state: what was vouched for at the first is at the second.
LEMMA StillVouched ==
  ASSUME BridgeInv, UNCHANGED <<recent, last_snapshot, outlet_count_cached>>,
         Delivered' = Delivered,
         \A n \in Outlets : RelayState(n)' = RelayState(n),
         pc \in Publishing,
         pc = "states" => at > OutletCount,
         retained'.state = retained.state,
         pc' \in Publishing \ {"states"} \/ CycleSucceeds
  PROVE  StatesVouched'
<1>0. /\ StatesVouched /\ PollTypes /\ Cursors
      /\ last_snapshot \in PollSnapshot /\ Len(PolledOutlets) = OutletCount
      /\ OutletCount \in 0 .. NOutlets /\ at \in Nat
  BY SnapshotFacts
     DEF BridgeInv, PollerInv, PollTypes, PollerTypeOK, LoopTypeOK, Publishing
<1>1. Delivered => \A n \in 1 .. OutletCount : Vouched(n, retained.state[n])
  BY <1>0 DEF StatesVouched
<1>2. OutletCount' = OutletCount /\ PolledOutlets' = PolledOutlets
  BY DEF OutletCount, PolledOutlets
<1>3. Delivered => \A n \in 1 .. OutletCount : Vouched(n, retained.state[n])'
  BY <1>1 DEF Vouched
<1>4. \A n \in 1 .. OutletCount : Vouched(n, PolledOutlets[n].state)'
  BY <1>0, <1>2 DEF StatesVouched, Vouched
<1>5. pc' \in Publishing \ {"states"} \/ pc' = "sleep"
  BY DEF CycleSucceeds, CycleEnds
<1> QED
  BY <1>0, <1>2, <1>3, <1>4, <1>5 DEF StatesVouched, Publishing

\* A poll begins: only the relays as they are now are vouched for.
LEMMA WakeVouched ==
  ASSUME BridgeInv, PollerStep, Wake
  PROVE  StatesVouched' /\ recent' \in [Outlets -> SUBSET OutletState]
<1>0. /\ recent \in [Outlets -> SUBSET OutletState] /\ StatesVouched
      /\ pc' \in {"identity", "stopped"}
      /\ \A n \in Outlets : RelayState(n)' = RelayState(n)
  BY PollerFrame DEF BridgeInv, TypeOK, Wake, Goto
<1>1. /\ recent' \in [Outlets -> SUBSET OutletState]
      /\ \A n \in Outlets : RelayState(n)' \in recent'[n]
  <2>1. CASE PollBegins
    <3>1. recent' = [n \in Outlets |-> {RelayState(n)}]
      BY <2>1 DEF PollerStep
    <3> QED
      BY <1>0, <3>1, RelayStateType
  <2>2. CASE ~PollBegins
    BY <1>0, <2>2 DEF PollerStep, StatesVouched
  <2> QED
    BY <2>1, <2>2
<1> QED
  BY <1>0, <1>1 DEF StatesVouched, AfterSuccess, Publishing

\* One more outlet is read: its state is the relay's, or unknown.
LEMMA PollOutletVouched ==
  ASSUME BridgeInv, PollerStep, PollOutlet
  PROVE  StatesVouched'
<1>0. /\ PollTypes /\ StatesVouched /\ UNCHANGED recent
      /\ \A n \in Outlets : RelayState(n)' = RelayState(n)
      /\ readings \in PollSnapshot /\ pc = "outlets" /\ pc' = pc
  BY PollerFrame
     DEF BridgeInv, PollerInv, PollTypes, PollerTypeOK, LoopTypeOK, PollOutlet, Wake
<1> DEFINE len == Len(readings.outlets)
<1>1. len \in Nat /\ len < OutletCount /\ OutletCount \in 0 .. NOutlets
  BY <1>0, PduAssumption
     DEF PollOutlet, PollSnapshot, PollTypes, PollerTypeOK, OutletCount, Outlets
<1>2. len + 1 \in Outlets
  BY <1>1, PduAssumption DEF Outlets
<1>3. PICK name \in Replies(outlet_name[len + 1]), raw \in Replies(column[len + 1]) :
        readings' = [readings EXCEPT !.outlets =
          Append(@, [name |-> name, state |-> parse_outlet_state(raw)])]
  BY DEF PollOutlet
<1>4. raw \in {column[len + 1], None}
  BY RepliesType
<1>5. parse_outlet_state(raw) \in {RelayState(len + 1), "UNKNOWN"}
  BY <1>4, NoneAssumption DEF RelayState, parse_outlet_state
<1>6. Vouched(len + 1, parse_outlet_state(raw))
  BY <1>0, <1>2, <1>5 DEF StatesVouched, Vouched
<1>7. ASSUME NEW n \in 1 .. Len(readings'.outlets)
      PROVE  readings'.outlets[n].state \in recent[n] \cup {"UNKNOWN"}
  <2>1. readings.outlets \in Seq(OutletReading)
    BY <1>0 DEF PollSnapshot
  <2>2. readings'.outlets =
          Append(readings.outlets, [name |-> name, state |-> parse_outlet_state(raw)])
    BY <1>0, <1>3 DEF PollSnapshot
  <2>3. CASE n = len + 1
    <3>1. readings'.outlets[n].state = parse_outlet_state(raw)
      BY <2>1, <2>2, <2>3
    <3> QED
      BY <1>6, <2>3, <3>1 DEF Vouched
  <2>4. CASE n # len + 1
    <3>1. n \in 1 .. len /\ readings'.outlets[n] = readings.outlets[n]
      BY <2>1, <2>2, <2>4
    <3> QED
      BY <1>0, <3>1 DEF StatesVouched, Vouched
  <2> QED
    BY <2>3, <2>4
<1>8. \A n \in Outlets : RelayState(n)' \in recent'[n]
  BY <1>0 DEF StatesVouched
<1>9. pc' = "outlets" /\ ~AfterSuccess'
  BY <1>0 DEF AfterSuccess
<1> QED
  BY <1>0, <1>7, <1>8, <1>9 DEF StatesVouched, Vouched, Publishing

\* The snapshot is complete, and every state in it vouched for.
LEMMA PollDoneVouched ==
  ASSUME BridgeInv, PollerStep, PollDone
  PROVE  StatesVouched'
<1>0. /\ StatesVouched /\ UNCHANGED recent
      /\ \A n \in Outlets : RelayState(n)' = RelayState(n)
  BY PollerFrame DEF BridgeInv, PollDone, Wake
<1>1. /\ pc = "outlets" /\ pc' = "states" /\ at' = 1
      /\ Len(readings.outlets) = OutletCount /\ last_snapshot' = readings
      /\ OutletCount' = OutletCount /\ PolledOutlets' = readings.outlets
  BY DEF PollDone, OutletCount, PolledOutlets
<1>2. \A n \in 1 .. OutletCount : Vouched(n, PolledOutlets[n].state)'
  BY <1>0, <1>1 DEF StatesVouched, Vouched
<1>3. OutletCount \in Nat
  BY PduAssumption
     DEF BridgeInv, PollerInv, PollTypes, PollerTypeOK, OutletCount, Outlets
<1>4. ~AfterSuccess' /\ pc' # "outlets" /\ pc' \notin Publishing \ {"states"}
  BY <1>1 DEF AfterSuccess
<1>5. \A n \in 1 .. OutletCount : ~(n < 1)
  BY <1>3
<1> QED
  BY <1>0, <1>1, <1>2, <1>4, <1>5 DEF StatesVouched

\* One more state topic is published, with a state that is vouched for.
LEMMA PublishStateVouched ==
  ASSUME BridgeInv, PollerStep, PublishState
  PROVE  StatesVouched'
<1>0. /\ StatesVouched /\ UNCHANGED recent /\ PollTypes /\ Cursors
      /\ \A n \in Outlets : RelayState(n)' = RelayState(n)
      /\ pc = "states" /\ at <= Len(PolledOutlets) /\ at \in Nat \ {0}
      /\ UNCHANGED publishFrame /\ retained \in Retained
  BY PollerFrame
     DEF BridgeInv, PollerInv, PublishState, Wake, PollTypes, MqttTypeOK,
         PollerTypeOK, LoopTypeOK, OutletLeft
<1>1. CASE CycleFails
  BY <1>0, <1>1, NothingClaimed
<1>3. Delivered' = Delivered
  BY DeliveredKept DEF PollerStep, BridgeInv
<1>2. CASE /\ Delivered =>
                retained' = [retained EXCEPT !.state[at] = PolledOutlets[at].state]
           /\ Goto("states", at + 1)
  <2>1. /\ Len(PolledOutlets) = OutletCount /\ OutletCount \in 0 .. NOutlets
        /\ \A n \in 1 .. OutletCount : n \in Outlets
    BY <1>0, SnapshotFacts
  <2>2. OutletCount' = OutletCount /\ PolledOutlets' = PolledOutlets
    BY <1>0 DEF publishFrame, OutletCount, PolledOutlets
  <2>3. at \in 1 .. OutletCount
    BY <1>0, <2>1
  <2>4. Delivered =>
          /\ retained'.state[at] = PolledOutlets[at].state
          /\ \A n \in Outlets : n # at => retained'.state[n] = retained.state[n]
    BY <1>0, <1>2, <2>1, <2>3 DEF Retained
  <2>5. ASSUME Delivered, NEW n \in 1 .. OutletCount, n < at + 1
        PROVE  retained'.state[n] \in recent[n] \cup {"UNKNOWN"}
    <3>1. CASE n = at
      BY <1>0, <2>3, <2>4, <2>5, <3>1 DEF StatesVouched, Vouched, Publishing
    <3>2. CASE n # at
      <4>1. n < at
        BY <1>0, <2>1, <2>5, <3>2
      <4> QED
        BY <1>0, <2>1, <2>4, <2>5, <3>2, <4>1 DEF StatesVouched, Vouched
    <3> QED
      BY <3>1, <3>2
  <2>6. pc' = "states" /\ at' = at + 1 /\ ~AfterSuccess'
    BY <1>2 DEF Goto, AfterSuccess
  <2>7. \A n \in 1 .. OutletCount : Vouched(n, PolledOutlets[n].state)'
    BY <1>0, <2>2 DEF StatesVouched, Vouched, Publishing
  <2>8. \A n \in Outlets : RelayState(n)' \in recent'[n]
    BY <1>0 DEF StatesVouched
  <2> QED
    BY <1>0, <1>3, <2>2, <2>5, <2>6, <2>7, <2>8 DEF StatesVouched, Vouched
<1> QED
  BY <1>1, <1>2 DEF PublishState, Publish, Handed, Delivered, linkVars

\* The steps after the state topics publish no state.
LEMMA LaterStepsFrame ==
  ASSUME BridgeInv,
         \/ EndStates \/ PublishTotal \/ SkipTotal \/ NoDiscovery \/ PublishDiscovery
  PROVE  /\ UNCHANGED <<last_snapshot, outlet_count_cached>>
         /\ retained'.state = retained.state
         /\ pc \in Publishing
         /\ pc = "states" => at > OutletCount
         /\ pc' \in Publishing \ {"states"} \/ CycleSucceeds \/ CycleFails
<1>0. retained \in Retained
  BY DEF BridgeInv, TypeOK, PollTypes, MqttTypeOK
<1>1. CASE EndStates
  <2>1. Len(PolledOutlets) = OutletCount /\ OutletCount \in Nat /\ at \in Nat
    BY <1>1, SnapshotFacts
       DEF EndStates, BridgeInv, PollerInv, PollTypes, PollerTypeOK, LoopTypeOK
  <2> QED
    BY <1>1, <2>1 DEF EndStates, OutletLeft, Goto, publishFrame, mqttVars, Publishing,
                      linkVars
<1>2. CASE PublishTotal
  BY <1>0, <1>2 DEF PublishTotal, Publish, Goto, publishFrame, Publishing, Retained,
                    Handed, Delivered, linkVars
<1>3. CASE SkipTotal \/ NoDiscovery
  BY <1>3 DEF SkipTotal, NoDiscovery, TotalsDone, Goto, publishFrame, mqttVars,
              Publishing, linkVars
<1>4. CASE BeginDiscovery \/ BeginRenames
  BY <1>4 DEF BeginDiscovery, BeginRenames, TotalsDone, Goto, publishFrame, mqttVars,
              Publishing, linkVars
<1>5. CASE RetireLegacy
  BY <1>0, <1>5 DEF RetireLegacy, Publish, Goto, publishFrame, Publishing, Retained,
                    Handed, Delivered, linkVars
<1>6. CASE EndLegacy \/ EndSensors
  BY <1>6 DEF EndLegacy, EndSensors, Goto, publishFrame, mqttVars, Publishing,
              linkVars
<1>10. CASE SkipOutlet \/ EndOutlets
  BY <1>10 DEF SkipOutlet, EndOutlets, Goto, publishFrame, mqttVars, Publishing,
               linkVars
<1>7. CASE PublishSensor
  BY <1>0, <1>7 DEF PublishSensor, Publish, Goto, publishFrame, Publishing, Retained,
                    Handed, Delivered, linkVars
<1>8. CASE PublishSwitch
  BY <1>0, <1>8
     DEF PublishSwitch, Announced, Publish, Goto, publishFrame, Publishing, Retained,
         Handed, Delivered, linkVars
<1>9. CASE PublishButton
  BY <1>0, <1>9
     DEF PublishButton, Announced, Publish, Goto, publishFrame, Publishing, Retained,
         Handed, Delivered, linkVars
<1> QED
  BY <1>1, <1>2, <1>3, <1>4, <1>5, <1>6, <1>7, <1>8, <1>9, <1>10 DEF PublishDiscovery

\* Any step of the poller.
LEMMA PollerVouched ==
  ASSUME BridgeInv, PollerStep
  PROVE  StatesVouched' /\ recent' \in [Outlets -> SUBSET OutletState]
<1>0. /\ recent \in [Outlets -> SUBSET OutletState] /\ StatesVouched
      /\ \A n \in Outlets : RelayState(n)' = RelayState(n)
      /\ ~Wake => UNCHANGED recent
      /\ Delivered' = Delivered
  BY PollerFrame, DeliveredKept DEF BridgeInv, TypeOK, PollerStep
<1>1. CASE Wake
  BY <1>1, WakeVouched
<1>2. CASE ~Wake /\ PollIdentity
  <2>1. pc' \in {"walk", "bank"}
    BY <1>2 DEF PollIdentity
  <2> QED
    BY <1>0, <1>2, <2>1, NothingClaimed
<1>3. CASE ~Wake /\ DiscoverOutletCount
  <2>1. CycleFails \/ pc' = "bank"
    BY <1>3 DEF DiscoverOutletCount, Goto, GetRaises, CycleFails, CycleEnds
  <2> QED
    BY <1>0, <1>3, <2>1, NothingClaimed
<1>4. CASE ~Wake /\ PollBank
  <2>1. pc' = "outlets" /\ readings'.outlets = <<>>
    BY <1>4
       DEF PollBank, BridgeInv, PollerInv, Cursors, PollTypes, PollerTypeOK,
           LoopTypeOK, PollSnapshot
  <2> QED
    BY <1>0, <1>4, <2>1 DEF StatesVouched, AfterSuccess, Publishing
<1>5. CASE PollOutlet \/ PollDone \/ PublishState
  <2>1. ~Wake
    BY <1>5 DEF PollOutlet, PollDone, PublishState, Wake
  <2> QED
    BY <1>0, <1>5, <2>1, PollOutletVouched, PollDoneVouched, PublishStateVouched
<1>6. CASE /\ ~Wake
           /\ \/ EndStates \/ PublishTotal \/ SkipTotal \/ NoDiscovery
              \/ PublishDiscovery
  BY <1>0, <1>6, LaterStepsFrame, StillVouched, NothingClaimed
<1>7. CASE ~Wake /\ RequestStop
  <2>1. UNCHANGED <<pc, at, readings, state, last_snapshot, outlet_count_cached,
                    retained>>
    BY <1>7 DEF RequestStop, loopVars, mqttVars, linkVars
  <2> QED
    BY <1>0, <1>7, <2>1
       DEF StatesVouched, Vouched, AfterSuccess, OutletCount, PolledOutlets
<1>8. CASE ~Wake /\ Cancel
  <2>1. pc' = "stopped"
    BY <1>8 DEF Cancel
  <2> QED
    BY <1>0, <1>8, <2>1, NothingClaimed
<1>9. CASE ~Wake /\ GetRaises
  BY <1>0, <1>9, NothingClaimed DEF GetRaises
<1> QED
  BY <1>1, <1>2, <1>3, <1>4, <1>5, <1>6, <1>7, <1>8, <1>9
     DEF PollerStep, PollerNext, Run, PollOnce, PublishValues, GetRaises,
         CycleFails, CycleEnds

-------------------------------------------------------------------------------
(***************************************************************************)
(* The theorems.                                                           *)
(***************************************************************************)
\* BridgeInv holds when the bridge has started.
LEMMA InitBridgeInv == Init => BridgeInv
<1> SUFFICES ASSUME Init PROVE BridgeInv
  OBVIOUS
<1>1. PollerInv
  BY InitPollerInv DEF Init
<1>2. ControllerTypeOK /\ CallsGated
  BY NoCallGated DEF Init, ControllerInit, ControllerTypeOK, CallsGated
<1>3. recent \in [Outlets -> SUBSET OutletState] /\ unconfirmed \in BOOLEAN
  BY RelayStateType DEF Init
<1>4. StatesVouched
  BY DEF Init, PollerInit, StatesVouched, AfterSuccess, Publishing
<1> QED
  BY <1>1, <1>2, <1>3, <1>4 DEF BridgeInv, TypeOK, PollerInv

\* Every step keeps BridgeInv.
LEMMA NextBridgeInv == BridgeInv /\ [Next]_vars => BridgeInv'
<1> SUFFICES ASSUME BridgeInv, [Next]_vars PROVE BridgeInv'
  OBVIOUS
<1>0. PollerInv /\ ControllerTypeOK /\ CallsGated /\ unconfirmed \in BOOLEAN
  BY DEF BridgeInv, TypeOK
<1>1. CASE PollerStep
  <2>1. PollerInv'
    BY <1>0, <1>1, PollerNextStep DEF PollerStep
  <2>2. ControllerTypeOK' /\ CallsGated' /\ unconfirmed' \in BOOLEAN
    BY <1>0, <1>1
       DEF PollerStep, ControllerTypeOK, CallsGated, Gated, Allowed, Outlets,
           OutletCommand
  <2> QED
    BY <1>1, <2>1, <2>2, PollerVouched DEF BridgeInv, TypeOK, PollerInv
<1>2. ASSUME NEW c \in Callers, CallerStep(c) PROVE BridgeInv'
  <2>1. UNCHANGED pollerOwn /\ unconfirmed' \in BOOLEAN
    BY <1>0, <1>2 DEF CallerStep
  <2>2. PollerInv' /\ ControllerTypeOK' /\ CallsGated'
    BY <1>2, <2>1, CallerKeeps DEF CallerStep
  <2> QED
    BY <1>2, <2>1, <2>2, CallerVouched DEF BridgeInv, TypeOK, PollerInv
<1>3. CASE Surroundings
  <2>1. PollerInv'
    BY <1>0, <1>3, PduStep, LinkStep DEF Surroundings
  <2>2. ControllerTypeOK' /\ CallsGated' /\ unconfirmed' \in BOOLEAN
    BY <1>0, <1>3
       DEF Surroundings, ControllerTypeOK, CallsGated, Gated, Allowed, Outlets,
           OutletCommand
  <2> QED
    BY <1>3, <2>1, <2>2, SurroundingsVouched DEF BridgeInv, TypeOK, PollerInv
<1>4. CASE UNCHANGED vars
  <2>1. PollerInv' /\ ControllerTypeOK' /\ CallsGated' /\ unconfirmed' \in BOOLEAN
    BY <1>0, <1>4, StutterStep
       DEF vars, ControllerTypeOK, CallsGated, Gated, Allowed, Outlets, OutletCommand
  <2>2. \A n \in Outlets : RelayState(n)' = RelayState(n)
    BY <1>4 DEF vars, pduVars, RelayState
  <2>3. StatesVouched' /\ recent' \in [Outlets -> SUBSET OutletState]
    BY <1>4, <2>2, OutsideVouched
       DEF vars, pollerVars, loopVars, pollerOwn, mqttVars, BridgeInv, TypeOK,
           StatesVouched, linkVars
  <2> QED
    BY <2>1, <2>3 DEF BridgeInv, TypeOK, PollerInv
<1> QED
  BY <1>1, <1>2, <1>3, <1>4 DEF Next

\* The invariant of the composition holds in every state.
THEOREM BridgeInvariant == Spec => []BridgeInv
<1> QED
  BY InitBridgeInv, NextBridgeInv, PTL DEF Spec

\* Every variable keeps its type, whatever the callers do in between: an
\* optimistic publish only ever writes ON or OFF, for an outlet that exists
\* (set_outlet).
THEOREM BridgeTypeCorrect == Spec => []TypeOK
<1>1. BridgeInv => TypeOK
  BY DEF BridgeInv
<1> QED
  BY <1>1, BridgeInvariant, PTL

\* With callers about as well, discovery is announced whole: no command ever
\* disturbs the announcements (_publish_discovery).
THEOREM BridgeDiscoveryIsWhole == Spec => []AnnouncedWhole
<1>1. BridgeInv => AnnouncedWhole
  BY DEF BridgeInv, PollerInv
<1> QED
  BY <1>1, BridgeInvariant, PTL

\* After a successful cycle no retained state is older than that cycle, for
\* any number of callers racing with the poller (_run, set_outlet).
THEOREM NothingIsStale == Spec => []NothingStale
<1>1. BridgeInv => NothingStale
  BY DEF BridgeInv, StatesVouched, NothingStale, Vouched, PolledOutlets
<1> QED
  BY <1>1, BridgeInvariant, PTL

-------------------------------------------------------------------------------
(***************************************************************************)
(* The refinement: every step is one of OutletMirror, or none.             *)
(***************************************************************************)
\* A pending command reads as one of the two positions.
LEMMA PositionType ==
  ASSUME NEW value \in 1 .. 4
  PROVE  parse_outlet_state(value) \in {"ON", "OFF"}
BY DEF parse_outlet_state

LEMMA RelayType ==
  ASSUME PduTypeOK, PduTypeOK'
  PROVE  /\ Relay \in [Outlets -> {"ON", "OFF"}]
         /\ Relay' \in [Outlets -> {"ON", "OFF"}]
<1>1. /\ \A n \in Outlets : column[n] \in 1 .. 4
      /\ \A n \in Outlets : column'[n] \in 1 .. 4
  BY DEF PduTypeOK
<1>2. /\ \A n \in Outlets : RelayState(n) \in {"ON", "OFF"}
      /\ \A n \in Outlets : RelayState(n)' \in {"ON", "OFF"}
  BY <1>1, PositionType DEF RelayState
<1> QED
  BY <1>2 DEF Relay

\* At most one relay moves, and what it moves to is kept.
LEMMA MovesMirrored ==
  ASSUME BridgeInv, BridgeInv', KeepRecent, UNCHANGED <<pollerOwn, linkVars>>,
         retained'.state = retained.state,
         NEW n \in Outlets, \A m \in Outlets : m # n => column'[m] = column[m]
  PROVE  Mirror!Next
<1>0. /\ Relay \in [Outlets -> {"ON", "OFF"}] /\ Relay' \in [Outlets -> {"ON", "OFF"}]
      /\ recent \in [Outlets -> SUBSET OutletState]
      /\ \A m \in Outlets : RelayState(m) \in recent[m]
  BY RelayType DEF BridgeInv, TypeOK, PollTypes, StatesVouched
<1>1. \A m \in Outlets : m # n => RelayState(m)' = RelayState(m)
  BY DEF RelayState
<1>2. Relay' = [Relay EXCEPT ![n] = Relay'[n]]
  BY <1>0, <1>1 DEF Relay
<1>3. recent' = [recent EXCEPT ![n] = @ \cup {Relay'[n]}]
  <2>1. Relay'[n] = RelayState(n)'
    BY DEF Relay
  <2> QED
    BY <1>0, <1>1, <2>1 DEF KeepRecent
<1>4. UNCHANGED Confirmed
  BY DEF pollerOwn, Confirmed, AfterSuccess, Delivered, linkVars
<1>5. Mirror!RelayMoves(n)
  BY <1>0, <1>2, <1>3, <1>4 DEF Mirror!RelayMoves
<1> QED
  BY <1>5 DEF Mirror!Next

\* A step of a caller moves one relay, or claims one state.
LEMMA CallerMirrored ==
  ASSUME BridgeInv, BridgeInv', NEW c \in Callers, CallerStep(c)
  PROVE  [Mirror!Next]_(Mirror!mirrorVars)
<1>0. /\ ControlInv /\ UNCHANGED <<pollerOwn, linkVars>> /\ (Await(c) \/ Proceed(c))
      /\ column \in [Outlets -> 1 .. 4]
  BY ControlInvWithin, AnyCallerStep
     DEF CallerStep, BridgeInv, TypeOK, PollTypes, PduTypeOK
<1>1. CASE call[c].phase = "publish"
  <2>1. /\ PublishOptimistic(c) /\ call[c].outlet \in Outlets
        /\ call[c].command \in {"ON", "OFF"}
        /\ retained'.state \in {retained.state,
             [retained.state EXCEPT ![call[c].outlet] = call[c].command]}
    BY <1>0, <1>1, AnyCallerStep, PublishOptimisticStep
  <2>2. UNCHANGED <<Relay, Confirmed>>
    BY <1>0, <2>1
       DEF PublishOptimistic, Relay, RelayState, Confirmed, AfterSuccess, pollerOwn,
           pduVars, Delivered, linkVars
  <2>3. recent' = [recent EXCEPT ![call[c].outlet] = @ \cup {call[c].command}]
    BY <1>1 DEF CallerStep
  <2>4. Mirror!Claim(call[c].outlet)
    BY <2>1, <2>2, <2>3 DEF Mirror!Claim
  <2> QED
    BY <2>1, <2>4 DEF Mirror!Next
<1>2. CASE call[c].phase # "publish"
  <2>1. KeepRecent /\ UNCHANGED retained
    BY <1>0, <1>2, AnyCallerStep DEF CallerStep
  <2>2. PICK n \in Outlets : \A m \in Outlets : m # n => column'[m] = column[m]
    <3>1. CASE PduExecutes(c)
      BY <1>0, <3>1 DEF PduExecutes
    <3>2. CASE ~PduExecutes(c)
      <4>1. UNCHANGED column
        BY <1>0, <3>2
           DEF Await, Subscribe, SubscriberEnds, Receive, Proceed, SetReturns, SetFails,
               PublishOptimistic, Nudge, pduVars, SetRaises
      <4>2. 1 \in Outlets
        BY PduAssumption DEF Outlets
      <4> QED
        BY <4>1, <4>2
    <3> QED
      BY <3>1, <3>2
  <2> QED
    BY <1>0, <2>1, <2>2, MovesMirrored
<1> QED
  BY <1>1, <1>2

\* Where nothing is shown and nothing moves, outlets may come to be confirmed.
LEMMA ConfirmMirrored ==
  ASSUME BridgeInv, BridgeInv', UNCHANGED <<Relay, recent>>,
         retained'.state = retained.state
  PROVE  Mirror!Next
<1>1. Confirmed' \in SUBSET {n \in Outlets : Mirror!Vouchsafed(n)}
  <2>1. CASE (Delivered /\ AfterSuccess)'
    <3>1. /\ StatesVouched' /\ PollTypes' /\ OutletCount' \in 0 .. NOutlets
      BY PduAssumption
         DEF BridgeInv, PollerInv, PollTypes, PollerTypeOK, OutletCount, Outlets
    <3>2. Len(PolledOutlets)' = OutletCount'
      BY <2>1, <3>1 DEF StatesVouched
    <3>3. Confirmed' = 1 .. OutletCount'
      BY <2>1, <3>2 DEF Confirmed, PolledOutlets
    <3>4. \A n \in 1 .. OutletCount' : n \in Outlets /\ Vouched(n, retained.state[n])'
      BY <2>1, <3>1, PduAssumption DEF StatesVouched, Outlets
    <3> QED
      BY <3>3, <3>4 DEF Vouched, Mirror!Vouchsafed
  <2>2. CASE ~(Delivered /\ AfterSuccess)'
    BY <2>2 DEF Confirmed
  <2> QED
    BY <2>1, <2>2
<1>2. Mirror!Confirm
  BY <1>1 DEF Mirror!Confirm
<1> QED
  BY <1>2 DEF Mirror!Next

\* A step of the PDU moves a relay as well.  With the connection goes, at QoS 0,
\* what was confirmed.
LEMMA SurroundingsMirrored ==
  ASSUME BridgeInv, BridgeInv', Surroundings
  PROVE  [Mirror!Next]_(Mirror!mirrorVars)
<1>0. column \in [Outlets -> 1 .. 4] /\ retained \in Retained
  BY DEF BridgeInv, TypeOK, PollTypes, PduTypeOK, MqttTypeOK
<1>1. CASE PduNext /\ UNCHANGED mqttVars
  <2>1. PICK n \in Outlets : \A m \in Outlets : m # n => column'[m] = column[m]
    <3>1. ASSUME NEW n \in Outlets, Toggle(n) \/ Sequence(n)
          PROVE  \A m \in Outlets : m # n => column'[m] = column[m]
      BY <1>0, <3>1 DEF Toggle, Sequence
    <3>2. CASE UNCHANGED column
      <4>1. 1 \in Outlets
        BY PduAssumption DEF Outlets
      <4> QED
        BY <3>2, <4>1
    <3> QED
      BY <1>1, <3>1, <3>2 DEF PduNext, Rename, GoDark, Settle
  <2>2. UNCHANGED <<pollerOwn, linkVars, retained>>
    BY <1>1 DEF Surroundings, pollerVars, loopVars, pollerOwn, mqttVars,
                linkVars
  <2>3. KeepRecent
    BY DEF Surroundings
  <2> QED
    BY <1>1, <2>1, <2>2, <2>3, MovesMirrored
<1>2. CASE LinkNext /\ UNCHANGED pduVars
  <2>1. retained'.state = retained.state
    BY <1>2, LinkFrame DEF BridgeInv, TypeOK, PollTypes
  <2>2. \A n \in Outlets : RelayState(n)' = RelayState(n)
    BY <1>2 DEF RelayState, pduVars
  <2>3. UNCHANGED recent
    <3>1. recent \in [Outlets -> SUBSET OutletState]
          /\ \A n \in Outlets : RelayState(n) \in recent[n]
      BY DEF BridgeInv, TypeOK, StatesVouched
    <3> QED
      BY <2>2, <3>1 DEF Surroundings, KeepRecent
  <2> QED
    BY <2>1, <2>2, <2>3, ConfirmMirrored DEF Relay
<1> QED
  BY <1>1, <1>2 DEF Surroundings

\* The poller begins rounds, shows what it polled, and confirms.
LEMMA PollerMirrored ==
  ASSUME BridgeInv, BridgeInv', PollerStep
  PROVE  [Mirror!Next]_(Mirror!mirrorVars)
<1>0. /\ UNCHANGED Relay
      /\ ~Wake => UNCHANGED recent
      /\ retained \in Retained
  BY PollerFrame DEF Relay, BridgeInv, TypeOK, PollTypes, MqttTypeOK
<1>1. CASE Wake
  <2>0. UNCHANGED retained
    BY <1>1 DEF Wake, mqttVars, linkVars
  <2>1. CASE PollBegins
    <3>1. recent' = [n \in Outlets |-> {Relay[n]}]
      BY <1>0, <2>1, PollerFrame DEF PollerStep, Relay
    <3>2. Confirmed' = {}
      BY <2>1 DEF PollBegins, Confirmed, AfterSuccess, Delivered, linkVars
    <3>3. Mirror!NewRound
      BY <1>0, <2>0, <3>1, <3>2 DEF Mirror!NewRound
    <3> QED
      BY <3>3 DEF Mirror!Next
  <2>2. CASE ~PollBegins
    BY <1>0, <2>0, <2>2, ConfirmMirrored DEF PollerStep
  <2> QED
    BY <2>1, <2>2
<1>2. CASE PublishState
  <2>1. /\ StatesVouched /\ Len(PolledOutlets) = OutletCount /\ pc = "states"
        /\ at \in 1 .. OutletCount /\ OutletCount \in 0 .. NOutlets
    BY <1>2, SnapshotFacts
       DEF PublishState, OutletLeft, BridgeInv, PollerInv, PollTypes, PollerTypeOK,
           LoopTypeOK
  <2>2. at \in Outlets
    BY <2>1, PduAssumption DEF Outlets
  <2>3. PolledOutlets[at].state \in recent[at] \cup {"UNKNOWN"}
    BY <2>1 DEF StatesVouched, Vouched, Publishing
  <2>4. retained'.state \in {retained.state,
          [retained.state EXCEPT ![at] = PolledOutlets[at].state]}
    BY <1>0, <1>2 DEF PublishState, Publish, Retained, Handed, Delivered,
                      linkVars
  <2>5. UNCHANGED recent
    BY <1>0, <1>2 DEF PublishState, Wake
  <2>6. CASE retained'.state = retained.state
    BY <1>0, <2>5, <2>6, ConfirmMirrored
  <2>7. CASE retained'.state = [retained.state EXCEPT ![at] = PolledOutlets[at].state]
    <3>1. Confirmed = {} /\ Confirmed' = {}
      BY <1>2, <2>1
         DEF PublishState, Publish, Goto, CycleFails, CycleEnds, Confirmed,
             AfterSuccess,
             Handed, Delivered, linkVars
    <3>2. Mirror!Show(at)
      BY <1>0, <2>3, <2>5, <2>7, <3>1 DEF Mirror!Show
    <3> QED
      BY <2>2, <3>2 DEF Mirror!Next
  <2> QED
    BY <2>4, <2>6, <2>7
<1>3. CASE \/ EndStates \/ PublishTotal \/ SkipTotal \/ NoDiscovery \/ PublishDiscovery
  <2>1. ~Wake
    BY <1>3, LaterStepsFrame DEF Wake, Publishing
  <2> QED
    BY <1>0, <1>3, <2>1, LaterStepsFrame, ConfirmMirrored
<1>4. CASE PollOnce \/ RequestStop \/ Cancel
  <2>1. UNCHANGED retained
    BY <1>4
       DEF PollOnce, PollIdentity, DiscoverOutletCount, PollBank, PollOutlet, PollDone,
           RequestStop, Cancel, mqttVars, GetRaises, CycleFails, CycleEnds,
           linkVars
  <2>2. CASE ~Wake
    BY <1>0, <2>1, <2>2, ConfirmMirrored
  <2> QED
    BY <1>1, <2>2
<1> QED
  BY <1>1, <1>2, <1>3, <1>4 DEF PollerStep, PollerNext, Run, PublishValues

\* The bridge implements OutletMirror: at every publish, not only between
\* cycles, what is shown of an outlet comes from the current poll or from a
\* command since (_run, _publish, set_outlet).
THEOREM BridgeMirrors == Spec => MirrorsRelays
<1>1. Init => Mirror!Init
  <2> SUFFICES ASSUME Init PROVE Mirror!Init
    OBVIOUS
  <2>1. \A n \in Outlets : column[n] \in 1 .. 4
    BY InitBridgeInv DEF BridgeInv, TypeOK, PollTypes, PduTypeOK
  <2>4. Relay \in [Outlets -> {"ON", "OFF"}]
    BY <2>1, PositionType DEF Relay, RelayState
  <2>2. recent = [n \in Outlets |-> {Relay[n]}]
    BY DEF Init, Relay
  <2>3. Confirmed = {}
    BY DEF Init, PollerInit, Confirmed, AfterSuccess, Delivered, linkVars
  <2> QED
    BY <2>2, <2>3, <2>4 DEF Mirror!Init
<1>2. BridgeInv /\ BridgeInv' /\ [Next]_vars => [Mirror!Next]_(Mirror!mirrorVars)
  <2> SUFFICES ASSUME BridgeInv, BridgeInv', [Next]_vars
               PROVE  [Mirror!Next]_(Mirror!mirrorVars)
    OBVIOUS
  <2>1. CASE UNCHANGED vars
    BY <2>1
       DEF vars, Mirror!mirrorVars, Relay, RelayState, Confirmed, AfterSuccess,
           pollerVars, loopVars, pduVars, mqttVars, linkVars, Delivered
  <2> QED
    BY <2>1, PollerMirrored, CallerMirrored, SurroundingsMirrored DEF Next
<1> QED
  BY <1>1, <1>2, BridgeInvariant, PTL DEF Spec, MirrorsRelays, Mirror!Spec

\* If nobody touches the PDU itself, a relay at rest only moves when the
\* operator has allowed it (_check_allowed, _write_auth), provided the allow
\* list is left blank or names a number: _parse_allow takes any other list
\* for a blank one.
THEOREM WritesAreGated ==
  ASSUME "toggle" \notin Faults, UsableList
  PROVE  Spec => GatedWrites
<1>1. ASSUME BridgeInv, Next PROVE GatedStep
  <2>1. CASE PollerStep
    BY <2>1, PollerFrame DEF GatedStep, pduVars
  <2>2. ASSUME NEW c \in Callers, CallerStep(c) PROVE GatedStep
    BY <1>1, <2>2, ControlInvWithin, CallersGated DEF CallerStep, GatedStep
  <2>3. CASE Surroundings
    BY <1>1, <2>3, PduAtRest
       DEF Surroundings, BridgeInv, TypeOK, PollTypes, GatedStep, pduVars
  <2> QED
    BY <1>1, <2>1, <2>2, <2>3 DEF Next
<1>2. BridgeInv /\ [Next]_vars => [GatedStep]_vars
  BY <1>1
<1> QED
  BY <1>2, BridgeInvariant, PTL DEF Spec, GatedWrites

-------------------------------------------------------------------------------
(***************************************************************************)
(* What is announced, and the totals: the callers have no part in either.  *)
(***************************************************************************)
\* A caller publishes states only.
LEMMA CallerFrame ==
  ASSUME BridgeInv, NEW c \in Callers, CallerStep(c)
  PROVE  /\ UNCHANGED <<pollerOwn, linkVars, answering>>
         /\ retained'.config = retained.config /\ retained'.legacy = retained.legacy
         /\ retained'.total = retained.total
<1>0. retained \in Retained
  BY DEF BridgeInv, TypeOK, PollTypes, MqttTypeOK
<1>1. CASE PublishOptimistic(c)
  BY <1>0, <1>1 DEF CallerStep, PublishOptimistic, Publish, Retained, pduVars,
                    Handed, Delivered, linkVars
<1>2. CASE ~PublishOptimistic(c)
  BY <1>2
     DEF CallerStep, Await, Subscribe, SubscriberEnds, Receive, Proceed,
         PduExecutes, SetReturns, SetFails, Nudge, mqttVars, pduVars, linkVars,
         SetRaises
<1> QED
  BY <1>1, <1>2

\* What surrounds the tasks may break the connection, and the PDU's agent come
\* back.
LEMMA SurroundingsLeave ==
  ASSUME BridgeInv, Surroundings \/ UNCHANGED vars
  PROVE  /\ UNCHANGED pollerOwn
         /\ retained'.config = retained.config /\ retained'.legacy = retained.legacy
         /\ retained'.total = retained.total
         /\ "dark" \notin Faults /\ answering => answering'
         /\ conn' = "up" => conn = "up"
<1>0. MqttTypeOK
  BY DEF BridgeInv, TypeOK, PollTypes
<1>1. UNCHANGED pollerOwn
  BY DEF Surroundings, vars, pollerVars, loopVars, pollerOwn
<1>2. CASE PduNext /\ UNCHANGED mqttVars
  <2>1. "dark" \notin Faults => UNCHANGED answering \/ answering' = TRUE
    BY <1>2 DEF PduNext, Toggle, Rename, Sequence, GoDark, Settle, Disturbance
  <2> QED
    BY <1>1, <1>2, <2>1 DEF mqttVars, linkVars
<1>3. CASE LinkNext /\ UNCHANGED pduVars
  <2>1. /\ retained'.config = retained.config /\ retained'.legacy = retained.legacy
        /\ retained'.total = retained.total
        /\ conn' = "up" => conn = "up"
    BY <1>0, <1>3, LinkFrame
  <2> QED
    BY <1>1, <1>3, <2>1 DEF pduVars
<1>4. CASE UNCHANGED vars
  BY <1>1, <1>4 DEF vars, mqttVars, pduVars, linkVars
<1> QED
  BY <1>2, <1>3, <1>4 DEF Surroundings

\* The three invariants together.
LEMMA TogetherStep ==
  ASSUME BridgeInv, [Next]_vars
  PROVE  /\ AnnouncementInv => AnnouncementInv'
         /\ ReadingsInv => ReadingsInv'
<1>1. BridgeInv' /\ PollerInv'
  BY NextBridgeInv DEF BridgeInv
<1>2. CASE PollerStep
  BY <1>2, AnnouncementStep, ReadingsStep DEF PollerStep
<1>3. ASSUME NEW c \in Callers, CallerStep(c)
      PROVE  /\ AnnouncementInv => AnnouncementInv'
             /\ ReadingsInv => ReadingsInv'
  BY <1>1, <1>3, CallerFrame, AnnouncementOutside, ReadingsOutside DEF linkVars
<1>4. CASE Surroundings \/ UNCHANGED vars
  BY <1>1, <1>4, SurroundingsLeave, AnnouncementOutside, ReadingsOutside
<1> QED
  BY <1>2, <1>3, <1>4 DEF Next

\* Calls in between leave the totals in agreement as well.
THEOREM BridgeTotalsAgree ==
  ASSUME PublishesKnown \/ LoadsCertain
  PROVE  Spec => []TotalsAgree
<1>1. Init => ReadingsInv
  BY InitBridgeInv, NewReadings DEF Init, BridgeInv, MqttInit, NothingRetained
<1>2. BridgeInv /\ ReadingsInv /\ [Next]_vars => ReadingsInv'
  BY TogetherStep
<1>3. ReadingsInv => TotalsAgree
  BY AllTotalsAgree
<1> QED
  BY <1>1, <1>2, <1>3, BridgeInvariant, PTL DEF Spec
===============================================================================
