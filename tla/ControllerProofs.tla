--------------------------- MODULE ControllerProofs ---------------------------
(***************************************************************************)
(* What holds of the controller on its own, for any number of callers,     *)
(* outlets and retries, every configuration and every set of disturbances: *)
(* its calls stay typed and gated, and outlets are only switched as the    *)
(* operator has allowed.                                                   *)
(***************************************************************************)
EXTENDS Controller, TLAPS

-------------------------------------------------------------------------------
(***************************************************************************)
(* Steps of a caller.                                                      *)
(***************************************************************************)
\* One call moves on, to a request that is typed and gated.
LEMMA CallMoves ==
  ASSUME ControllerTypeOK, CallsGated, NEW c \in Callers, NEW request \in Calls,
         Gated(request), call' = [call EXCEPT ![c] = request]
  PROVE  ControllerTypeOK' /\ CallsGated'
<1>1. call' \in [Callers -> Calls]
  BY DEF ControllerTypeOK
<1>2. ASSUME NEW d \in Callers PROVE Gated(call'[d])
  BY DEF ControllerTypeOK, CallsGated
<1> QED
  BY <1>1, <1>2 DEF ControllerTypeOK, CallsGated, Gated, Allowed, Outlets, OutletCommand

\* The empty call is typed and gated, and so is a task that has just begun.
LEMMA NoCallGated ==
  /\ NoCall \in Calls /\ Gated(NoCall)
  /\ [NoCall EXCEPT !.phase = "dead"] \in Calls
  /\ Gated([NoCall EXCEPT !.phase = "dead"])
  /\ \A c : AtStart(c) \in Calls /\ Gated(AtStart(c))
BY ControllerAssumption DEF NoCall, AtStart, Calls, Phases, Gated

\* What a caller does between two calls: a command that was received has
\* passed _check_allowed.
LEMMA AwaitStep ==
  ASSUME ControlInv, NEW c \in Callers, Await(c)
  PROVE  ControlInv' /\ UNCHANGED retained
<1>0. ControlTypes /\ ControllerTypeOK /\ CallsGated
  BY DEF ControlInv, ControlTypes
<1>1. UNCHANGED <<pduVars, mqttVars, immediate_event>>
  BY DEF Await, Subscribe, SubscriberEnds, Receive
<1>2. PduTypeOK' /\ MqttTypeOK' /\ immediate_event' \in BOOLEAN
  BY <1>0, <1>1
     DEF ControlTypes, PduTypeOK, MqttTypeOK, Retained, Outlets, OutletState, TotalName,
         TotalTopics, ConfigTopics, OutletEntities, pduVars, mqttVars, linkVars
<1>3. CASE Subscribe(c) \/ SubscriberEnds(c)
  <2>1. call[c] \in Calls /\ Gated(call[c]) /\ call[c].phase \in {"subscribe", "idle"}
    BY <1>0, <1>3 DEF Subscribe, SubscriberEnds, ControllerTypeOK, CallsGated
  <2>2. PICK phase \in {"idle", "dead"} : call' = [call EXCEPT ![c].phase = phase]
    BY <1>3 DEF Subscribe, SubscriberEnds
  <2> DEFINE request == [call[c] EXCEPT !.phase = phase]
  <2>3. call' = [call EXCEPT ![c] = request]
    BY <1>0, <2>2 DEF ControllerTypeOK
  <2>4. request \in Calls /\ Gated(request)
    BY <2>1 DEF Calls, Phases, Gated
  <2>5. ControllerTypeOK' /\ CallsGated'
    <3> HIDE DEF request
    <3> QED
      BY <1>0, <2>3, <2>4, CallMoves
  <2> QED
    BY <1>1, <1>2, <2>5 DEF ControlInv, ControlTypes, mqttVars, linkVars
<1>4. CASE Receive(c)
  <2>1. PICK n \in Targets, command \in CommandsOf(c) :
          /\ Allowed(n)
          /\ call' = [call EXCEPT ![c] =
               [phase |-> "set", outlet |-> n, command |-> command, executed |-> 0]]
    BY <1>4 DEF Receive
  <2> DEFINE request ==
        [phase |-> "set", outlet |-> n, command |-> command, executed |-> 0]
  <2>2. command \in OutletCommand
    BY DEF CommandsOf, OutletCommand
  <2>3. request \in Calls /\ Gated(request)
    BY <2>1, <2>2, ControllerAssumption DEF Calls, Phases, Gated
  <2>4. ControllerTypeOK' /\ CallsGated'
    <3> HIDE DEF request
    <3> QED
      BY <1>0, <2>1, <2>3, CallMoves DEF request
  <2> QED
    BY <1>1, <1>2, <2>4 DEF ControlInv, ControlTypes, mqttVars, linkVars
<1> QED
  BY <1>3, <1>4 DEF Await

\* The command value written leaves the column one of the four values.
LEMMA ActuatedType ==
  ASSUME NEW before \in 1 .. 4, NEW command \in OutletCommand
  PROVE  Actuated(before, OUTLET_COMMAND_VALUES[command]) \in 1 .. 4
BY DEF Actuated, OUTLET_COMMAND_VALUES, OutletCommand

\* The PDU carries out a SET of an outlet it has.
LEMMA PduExecutesStep ==
  ASSUME ControlInv, NEW c \in Callers, PduExecutes(c)
  PROVE  ControlInv' /\ UNCHANGED retained
<1>0. ControlTypes /\ PduTypeOK /\ ControllerTypeOK /\ CallsGated
  BY DEF ControlInv, ControlTypes
<1>1. call[c] \in Calls /\ Gated(call[c]) /\ call[c].phase = "set"
  BY <1>0 DEF PduExecutes, ControllerTypeOK, CallsGated
<1> DEFINE request == [call[c] EXCEPT !.executed = @ + 1]
<1>2. call' = [call EXCEPT ![c] = request]
  BY <1>0 DEF PduExecutes, ControllerTypeOK
<1>3. request \in Calls
  BY <1>1, ControllerAssumption DEF PduExecutes, Calls
<1>4. Gated(request)
  BY <1>1 DEF PduExecutes, Gated, Calls
<1>5. ControllerTypeOK' /\ CallsGated'
  <2> HIDE DEF request
  <2> QED
    BY <1>0, <1>2, <1>3, <1>4, CallMoves
<1>6. PduTypeOK'
  <2>1. call[c].outlet \in Outlets /\ call[c].command \in OutletCommand
    BY <1>1 DEF PduExecutes, Gated
  <2> DEFINE value == Actuated(column[call[c].outlet],
                               OUTLET_COMMAND_VALUES[call[c].command])
  <2>2. value \in 1 .. 4
    BY <1>0, <2>1, ActuatedType DEF PduTypeOK
  <2>3. column' \in {column, [column EXCEPT ![call[c].outlet] = value]}
    BY DEF PduExecutes
  <2>4. column' \in [Outlets -> 1 .. 4]
    <3> HIDE DEF value
    <3> QED
      BY <1>0, <2>2, <2>3 DEF PduTypeOK
  <2> QED
    BY <1>0, <2>4 DEF PduExecutes, PduTypeOK
<1>7. UNCHANGED <<mqttVars, immediate_event>>
  BY DEF PduExecutes
<1> QED
  BY <1>0, <1>5, <1>6, <1>7
     DEF ControlInv, ControlTypes, MqttTypeOK, Retained, Outlets, OutletState, TotalName,
         TotalTopics, ConfigTopics, OutletEntities, mqttVars, linkVars

\* The SET has been answered, or has failed.
LEMMA SetEndsStep ==
  ASSUME ControlInv, NEW c \in Callers, SetReturns(c) \/ SetFails(c) \/ SetRaises(c)
  PROVE  ControlInv' /\ UNCHANGED retained
<1>0. ControlTypes /\ ControllerTypeOK /\ CallsGated
  BY DEF ControlInv, ControlTypes
<1>1. UNCHANGED <<pduVars, mqttVars, immediate_event>>
  BY DEF SetReturns, SetFails, SetRaises
<1>2. ASSUME SetReturns(c) PROVE ControllerTypeOK' /\ CallsGated'
  <2>1. call[c] \in Calls /\ Gated(call[c])
    BY <1>0 DEF ControllerTypeOK, CallsGated
  <2> DEFINE phase == IF Optimistic(call[c].command) THEN "publish" ELSE "nudge"
             request == [call[c] EXCEPT !.phase = phase]
  <2>2. call' = [call EXCEPT ![c] = request]
    BY <1>0, <1>2 DEF SetReturns, ControllerTypeOK
  <2>3. request \in Calls
    BY <2>1 DEF Calls, Phases
  <2>4. Gated(request)
    BY <1>2, <2>1 DEF SetReturns, Gated, Calls, Optimistic
  <2> QED
    <3> HIDE DEF request
    <3> QED
      BY <1>0, <2>2, <2>3, <2>4, CallMoves
<1>3. ASSUME SetFails(c) \/ SetRaises(c) PROVE ControllerTypeOK' /\ CallsGated'
  BY <1>0, <1>3, NoCallGated, CallMoves DEF SetFails, SetRaises, CallRaises
<1>4. ControllerTypeOK' /\ CallsGated'
  BY <1>2, <1>3
<1> QED
  BY <1>0, <1>1, <1>4
     DEF ControlInv, ControlTypes, PduTypeOK, MqttTypeOK, Retained, Outlets, OutletState,
         TotalName, TotalTopics, ConfigTopics, OutletEntities, pduVars, mqttVars,
         linkVars

\* The optimistic publish touches one state topic at most.
LEMMA PublishOptimisticStep ==
  ASSUME ControlInv, NEW c \in Callers, PublishOptimistic(c)
  PROVE  /\ ControlInv'
         /\ retained'.sensor = retained.sensor /\ retained'.config = retained.config
         /\ call[c].outlet \in Outlets /\ call[c].command \in {"ON", "OFF"}
         /\ retained'.state \in {retained.state,
              [retained.state EXCEPT ![call[c].outlet] = call[c].command]}
<1>0. ControlTypes /\ MqttTypeOK /\ ControllerTypeOK /\ CallsGated
  BY DEF ControlInv, ControlTypes
<1>1. /\ call[c] \in Calls /\ Gated(call[c]) /\ call[c].phase = "publish"
      /\ call[c].outlet \in Outlets /\ call[c].command \in {"ON", "OFF"}
  BY <1>0 DEF PublishOptimistic, ControllerTypeOK, CallsGated, Gated
<1> DEFINE after == [retained EXCEPT !.state[call[c].outlet] = call[c].command]
           nudge == [call[c] EXCEPT !.phase = "nudge"]
<1>2. /\ after \in Retained
      /\ after.sensor = retained.sensor /\ after.config = retained.config
      /\ after.state = [retained.state EXCEPT ![call[c].outlet] = call[c].command]
  BY <1>0, <1>1 DEF MqttTypeOK, Retained, OutletState
<1>3. /\ retained' \in {retained, after}
      /\ UNCHANGED <<linkVars, pduVars, immediate_event>>
  BY DEF PublishOptimistic, Publish, Handed
<1>4. \/ call' = [call EXCEPT ![c] = nudge]
      \/ call' = [call EXCEPT ![c] = NoCall]
      \/ call' = [call EXCEPT ![c] = [NoCall EXCEPT !.phase = "dead"]]
  BY <1>0 DEF PublishOptimistic, Publish, Handed, CallRaises, ControllerTypeOK
<1>5. nudge \in Calls /\ Gated(nudge)
  BY <1>1 DEF Calls, Phases, Gated
<1>6. ControllerTypeOK' /\ CallsGated'
  <2> HIDE DEF nudge
  <2> QED
    BY <1>0, <1>4, <1>5, NoCallGated, CallMoves
<1>7. MqttTypeOK'
  <2> HIDE DEF after
  <2> QED
    BY <1>0, <1>2, <1>3 DEF MqttTypeOK, linkVars
<1>8. ControlInv'
  BY <1>0, <1>3, <1>6, <1>7 DEF ControlInv, ControlTypes, PduTypeOK, Outlets, pduVars
<1> QED
  <2> HIDE DEF after
  <2> QED
    BY <1>1, <1>2, <1>3, <1>8

\* The call ends by setting the event.
LEMMA NudgeStep ==
  ASSUME ControlInv, NEW c \in Callers, Nudge(c)
  PROVE  ControlInv' /\ UNCHANGED retained
<1>0. ControlTypes /\ ControllerTypeOK /\ CallsGated
  BY DEF ControlInv, ControlTypes
<1>1. ControllerTypeOK' /\ CallsGated'
  BY <1>0, NoCallGated, CallMoves DEF Nudge
<1>2. immediate_event' \in BOOLEAN /\ UNCHANGED <<pduVars, mqttVars>>
  BY DEF Nudge, trigger_immediate_poll
<1> QED
  BY <1>0, <1>1, <1>2
     DEF ControlInv, ControlTypes, PduTypeOK, MqttTypeOK, Retained, Outlets, OutletState,
         TotalName, TotalTopics, ConfigTopics, OutletEntities, pduVars, mqttVars,
         linkVars

\* Any step of a caller: it keeps the invariant and the connection, and touches
\* nothing that has been announced.  Only the optimistic publish touches a
\* state topic.
LEMMA AnyCallerStep ==
  ASSUME ControlInv, NEW c \in Callers, Await(c) \/ Proceed(c)
  PROVE  /\ ControlInv' /\ UNCHANGED linkVars
         /\ retained'.sensor = retained.sensor /\ retained'.config = retained.config
         /\ call[c].phase = "publish" => PublishOptimistic(c)
         /\ call[c].phase # "publish" => UNCHANGED retained
<1>1. /\ call[c].phase = "publish" => PublishOptimistic(c)
      /\ call[c].phase # "publish" => UNCHANGED retained
  BY DEF Await, Subscribe, SubscriberEnds, Receive, Proceed, PduExecutes, SetReturns,
         SetFails, SetRaises, PublishOptimistic, Nudge, mqttVars, linkVars
<1>2. UNCHANGED linkVars
  BY DEF Await, Subscribe, SubscriberEnds, Receive, Proceed, PduExecutes, SetReturns,
         SetFails, SetRaises, PublishOptimistic, Publish, Nudge, mqttVars
<1> QED
  BY <1>1, <1>2, AwaitStep, PduExecutesStep, SetEndsStep, PublishOptimisticStep, NudgeStep
     DEF Proceed

-------------------------------------------------------------------------------
(***************************************************************************)
(* Steps of the surroundings.                                              *)
(***************************************************************************)
\* The PDU changes by itself (Toggle, Rename, GoDark, Sequence, Settle).
LEMMA PduTyped == PduTypeOK /\ PduNext => PduTypeOK'
<1> SUFFICES ASSUME PduTypeOK, PduNext PROVE PduTypeOK'
  OBVIOUS
<1>1. ASSUME NEW n \in Outlets, Toggle(n) PROVE PduTypeOK'
  BY <1>1 DEF Toggle, PduTypeOK
<1>2. ASSUME NEW n \in Outlets, Rename(n) PROVE PduTypeOK'
  BY <1>2 DEF Rename, PduTypeOK
<1>3. ASSUME NEW n \in Outlets, Sequence(n) PROVE PduTypeOK'
  BY <1>3 DEF Sequence, PduTypeOK
<1>4. CASE GoDark \/ Settle
  BY <1>4 DEF GoDark, Settle, PduTypeOK
<1> QED
  BY <1>1, <1>2, <1>3, <1>4 DEF PduNext

\* Whatever the surroundings do, the calls are as they were.
LEMMA ControlSurroundingsStep ==
  ASSUME ControlInv, ControlSurroundings \/ UNCHANGED controlVars
  PROVE  ControlInv'
<1>0. PduTypeOK /\ MqttTypeOK /\ ControlTypes /\ CallsGated
  BY DEF ControlInv, ControlTypes
<1>1. PduTypeOK'
  BY <1>0, PduTyped
     DEF ControlSurroundings, controlVars, PduTypeOK, Outlets, pduVars
<1>2. MqttTypeOK'
  BY <1>0
     DEF ControlSurroundings, LinkNext, Disconnect, LoseTouch, PingUnanswered,
         KeepaliveExpires, Available, controlVars, MqttTypeOK, Retained, mqttVars,
         linkVars
<1>3. UNCHANGED <<call, immediate_event>>
  BY DEF ControlSurroundings, controlVars
<1> QED
  BY <1>0, <1>1, <1>2, <1>3
     DEF ControlInv, ControlTypes, ControllerTypeOK, CallsGated, Gated, Allowed, Outlets,
         OutletCommand

-------------------------------------------------------------------------------
(***************************************************************************)
(* The gate.                                                               *)
(***************************************************************************)
\* An allow list that is left blank, or that names a number.
UsableList ==
  \/ \A k \in DOMAIN AllowCsv : AllowCsv[k] = Blank
  \/ \E k \in DOMAIN AllowCsv : AllowCsv[k] \notin {Word, Blank}

\* A relay that a caller moves is one it may (_check_allowed, _write_auth).
LEMMA CallersGated ==
  ASSUME UsableList, ControlInv, NEW c \in Callers, Await(c) \/ Proceed(c),
         NEW n \in Outlets, column'[n] # column[n]
  PROVE  Permitted(n)
<1>0. column \in [Outlets -> 1 .. 4] /\ CallsGated
  BY DEF ControlInv, ControlTypes, PduTypeOK
<1>1. PduExecutes(c)
  BY DEF Await, Subscribe, SubscriberEnds, Receive, Proceed, SetReturns, SetFails, SetRaises,
         PublishOptimistic, Nudge, pduVars
<1>2. call[c].outlet = n
  BY <1>0, <1>1 DEF PduExecutes
<1>3. Allowed(n) /\ HasWriteCommunity
  BY <1>0, <1>1, <1>2 DEF PduExecutes, CallsGated, Gated
<1> QED
  BY <1>3 DEF UsableList, Allowed, AllowSet, parse_allow, Permitted, Listed

\* If nobody touches the PDU itself, it leaves a relay at rest alone.
LEMMA PduAtRest ==
  ASSUME "toggle" \notin Faults, PduTypeOK, PduNext,
         NEW n \in Outlets, column[n] \in {1, 2}
  PROVE  column'[n] = column[n]
<1>1. ASSUME NEW m \in Outlets, Sequence(m) PROVE column'[n] = column[n]
  BY <1>1 DEF Sequence, PduTypeOK
<1>2. ASSUME NEW m \in Outlets, Toggle(m) PROVE FALSE
  BY <1>2 DEF Toggle, Disturbance
<1> QED
  BY <1>1, <1>2 DEF PduNext, Rename, GoDark, Settle

\* The controller's invariant holds in every state.
THEOREM ControlInvariant == ControlSpec => []ControlInv
<1>1. ControlInit => ControlInv
  <2> SUFFICES ASSUME ControlInit PROVE ControlInv
    OBVIOUS
  <2>1. PduTypeOK
    BY DEF ControlInit, PduInit, PduTypeOK
  <2>2. MqttTypeOK
    <3>1. derive_device_id(SysName) \in DeviceIds
      BY DiscoveryAssumption DEF derive_device_id
    <3> QED
      BY <3>1 DEF ControlInit, MqttInit, NothingRetained, MqttTypeOK, Retained
  <2>3. ControllerTypeOK /\ CallsGated
    BY NoCallGated DEF ControlInit, ControllerInit, ControllerTypeOK, CallsGated
  <2> QED
    BY <2>1, <2>2, <2>3 DEF ControlInit, ControlInv, ControlTypes
<1>2. ControlInv /\ [ControllerNext \/ ControlSurroundings]_controlVars => ControlInv'
  BY AnyCallerStep, ControlSurroundingsStep DEF ControllerNext
<1> QED
  BY <1>1, <1>2, PTL DEF ControlSpec

\* If nobody touches the PDU itself, a relay at rest only moves when the
\* operator has allowed it (_check_allowed, _write_auth), provided the allow
\* list is left blank or names a number: _parse_allow takes any other list
\* for a blank one.
THEOREM ControllerObeys ==
  ASSUME "toggle" \notin Faults, UsableList
  PROVE  ControlSpec => [][GatedStep]_controlVars
<1>1. ASSUME ControlInv, ControllerNext \/ ControlSurroundings PROVE GatedStep
  <2>1. CASE ControllerNext
    BY <1>1, <2>1, CallersGated DEF ControllerNext, GatedStep
  <2>2. CASE ControlSurroundings
    BY <1>1, <2>2, PduAtRest
       DEF ControlSurroundings, ControlInv, ControlTypes, GatedStep, pduVars
  <2> QED
    BY <1>1, <2>1, <2>2
<1>2. ControlInv /\ [ControllerNext \/ ControlSurroundings]_controlVars
        => [GatedStep]_controlVars
  BY <1>1
<1> QED
  BY <1>2, ControlInvariant, PTL DEF ControlSpec
===============================================================================
