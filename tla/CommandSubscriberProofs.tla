------------------------ MODULE CommandSubscriberProofs ------------------------
(***************************************************************************)
(* What holds of the command subscriber for any messages, however many:    *)
(* the queue and the routing are invisible to the controller, so that what *)
(* is proved of the controller holds of a bridge that is sent messages.    *)
(***************************************************************************)
EXTENDS CommandSubscriber, ControllerProofs

\* Every step of the subscriber is a step of the controller, or none.
LEMMA SubscriberStep ==
  ASSUME [Next]_vars
  PROVE  [ControllerNext \/ ControlSurroundings]_controlVars
<1>0. MqttCaller \in Callers
  BY ControllerAssumption
<1>1. CASE Arrive \/ Reject
  BY <1>1 DEF Arrive, Reject
<1>2. CASE Obey
  BY <1>0, <1>2 DEF Obey, Await, ControllerNext
<1>3. CASE Ends
  BY <1>0, <1>3 DEF Ends, Await, ControllerNext
<1>4. CASE Works
  BY <1>0, <1>4 DEF Works, Await, ControllerNext
<1>5. CASE Others
  BY <1>5 DEF Others, ControllerNext
<1>6. CASE UNCHANGED vars
  BY <1>6 DEF vars
<1> QED
  BY <1>1, <1>2, <1>3, <1>4, <1>5, <1>6 DEF Next

\* Hence what is proved of the controller may be used of the subscriber.
LEMMA SubscriberControls == Spec => ControlSpec
<1>1. Init => ControlInit
  BY DEF Init
<1> QED
  BY <1>1, SubscriberStep, PTL DEF Spec, ControlSpec

\* Whatever is sent, every variable keeps its type: only numbers and commands
\* get past the routing.
THEOREM SubscriberTypeCorrect == Spec => []TypeOK
<1> DEFINE Queues == queue \in Seq(Message) /\ arrived \in Seq(Message)
<1>1. Init => Queues
  BY DEF Init
<1>2. Queues /\ [Next]_vars => Queues'
  <2> SUFFICES ASSUME Queues, [Next]_vars PROVE Queues'
    OBVIOUS
  <2>1. CASE Arrive
    BY <2>1 DEF Arrive, Message
  <2>2. CASE Obey \/ Reject
    BY <2>2 DEF Obey, Reject
  <2>3. CASE Ends \/ Works \/ Others \/ UNCHANGED vars
    BY <2>3 DEF Ends, Works, Others, vars, Message
  <2> QED
    BY <2>1, <2>2, <2>3 DEF Next
<1>3. ControlInv /\ Queues => TypeOK
  BY DEF ControlInv, TypeOK
<1> HIDE DEF Queues
<1> QED
  BY <1>1, <1>2, <1>3, SubscriberControls, ControlInvariant, PTL DEF Spec

\* If nobody touches the PDU itself, whatever messages are sent, a relay at
\* rest only moves when the operator has allowed it, provided the allow list
\* is left blank or names a number (_parse_allow, _check_allowed).
THEOREM MessagesObey ==
  ASSUME "toggle" \notin Faults, UsableList
  PROVE  Spec => GatedWrites
<1>1. [GatedStep]_controlVars => [GatedStep]_vars
  BY DEF GatedStep, vars, controlVars, pduVars
<1> QED
  BY <1>1, SubscriberControls, ControllerObeys, PTL DEF GatedWrites

-------------------------------------------------------------------------------
(***************************************************************************)
(* The order of the commands.                                              *)
(***************************************************************************)
\* The subscriber is the only one who switches, and the PDU does as it is told;
\* its messages have a prefix of one level.
Obedient ==
  /\ PrefixLevels = 1
  /\ Callers = {MqttCaller}
  /\ {"toggle", "noop", "set_loss", "dark"} \cap Faults = {}

\* The messages the task has taken.
Taken == Len(arrived) - Len(queue)

\* The queue is what has arrived after them.
QueueInv ==
  /\ queue \in Seq(Message) /\ arrived \in Seq(Message)
  /\ Taken >= 0
  /\ \A k \in 1 .. Len(queue) : queue[k] = arrived[Taken + k]

\* The call under way has yet to be carried out.
Pending(n) ==
  /\ call[MqttCaller].phase = "set" /\ call[MqttCaller].executed = 0
  /\ call[MqttCaller].outlet = n

\* As long as the task lives, the latest command taken for an outlet is carried
\* out or pending, and no other is.
OrdersInv ==
  /\ answering
  /\ call[MqttCaller].phase # "dead" =>
       \A n \in Outlets, i \in Nat :
         Permitted(n) /\ LatestOf(Taken, i, n) =>
           IF Pending(n) THEN call[MqttCaller].command = arrived[i].payload
                         ELSE CarriedOut(arrived[i].payload, n)

SubscriberInv == ControlInv /\ QueueInv /\ (Obedient => OrdersInv)

\* Messages are taken in the order in which they have arrived.
LEMMA QueueStep ==
  ASSUME QueueInv, [Next]_vars
  PROVE  QueueInv'
<1>0. /\ queue \in Seq(Message) /\ arrived \in Seq(Message)
      /\ Len(queue) \in Nat /\ Len(arrived) \in Nat
      /\ Len(arrived) - Len(queue) >= 0
  BY DEF QueueInv, Taken
<1>1. CASE Arrive
  <2>1. PICK m \in Message : queue' = Append(queue, m) /\ arrived' = Append(arrived, m)
    BY <1>1 DEF Arrive
  <2>2. /\ queue' \in Seq(Message) /\ arrived' \in Seq(Message)
        /\ Len(queue') = Len(queue) + 1 /\ Len(arrived') = Len(arrived) + 1
        /\ Taken' = Taken
    BY <1>0, <2>1 DEF Taken
  <2>3. ASSUME NEW k \in 1 .. Len(queue') PROVE queue'[k] = arrived'[Taken + k]
    <3>1. CASE k = Len(queue) + 1
      BY <1>0, <2>1, <3>1 DEF Taken
    <3>2. CASE k # Len(queue) + 1
      <4>1. k \in 1 .. Len(queue) /\ Taken + k \in 1 .. Len(arrived)
        BY <1>0, <2>2, <3>2 DEF Taken
      <4>2. queue'[k] = queue[k] /\ arrived'[Taken + k] = arrived[Taken + k]
        BY <1>0, <2>1, <4>1
      <4> QED
        BY <4>1, <4>2 DEF QueueInv
    <3> QED
      BY <3>1, <3>2
  <2> QED
    BY <2>2, <2>3 DEF QueueInv
<1>2. CASE Obey \/ Reject
  <2>1. queue # <<>> /\ queue' = Tail(queue) /\ UNCHANGED arrived
    BY <1>2 DEF Obey, Reject
  <2>2. /\ queue' \in Seq(Message) /\ Len(queue) > 0 /\ Len(queue') = Len(queue) - 1
        /\ Taken' = Taken + 1
    BY <1>0, <2>1 DEF Taken
  <2>3. ASSUME NEW k \in 1 .. Len(queue') PROVE queue'[k] = arrived'[Taken' + k]
    <3>1. queue'[k] = queue[k + 1] /\ k + 1 \in 1 .. Len(queue)
      BY <1>0, <2>1, <2>2
    <3>2. Taken' + k = Taken + (k + 1)
      BY <1>0, <2>2 DEF Taken
    <3> QED
      BY <2>1, <3>1, <3>2 DEF QueueInv
  <2> QED
    BY <1>0, <2>1, <2>2, <2>3 DEF QueueInv, Taken
<1>3. CASE Ends \/ Works \/ Others \/ UNCHANGED vars
  BY <1>3 DEF Ends, Works, Others, vars, QueueInv, Taken, Message
<1> QED
  BY <1>1, <1>2, <1>3 DEF Next

\* A step of the task's call, or of what surrounds it, carries out what is
\* pending, or leaves it pending, and undoes nothing, or it ends the task.
LEMMA NothingUndone ==
  ASSUME ControlInv, Obedient, answering, NEW n \in Outlets, Permitted(n),
         \/ Subscribe(MqttCaller) \/ SubscriberEnds(MqttCaller) \/ Proceed(MqttCaller)
         \/ ControlSurroundings,
         call'[MqttCaller].phase # "dead"
  PROVE  /\ answering'
         /\ Pending(n)' => Pending(n) /\ UNCHANGED call
         /\ \A command \in OutletCommand :
              IF Pending(n) THEN \/ Pending(n)'
                                 \/ call[MqttCaller].command # command
                                 \/ CarriedOut(command, n)'
                            ELSE CarriedOut(command, n) => CarriedOut(command, n)'
<1> DEFINE it == call[MqttCaller]
<1>0. /\ call \in [Callers -> Calls] /\ MqttCaller \in Callers
      /\ column \in [Outlets -> 1 .. 4] /\ it \in Calls
  BY ControllerAssumption DEF ControlInv, ControlTypes, ControllerTypeOK, PduTypeOK
<1>1. CASE PduExecutes(MqttCaller)
  <2>1. /\ it.phase = "set" /\ it.executed = 0 /\ it.outlet \in Outlets
        /\ call' = [call EXCEPT ![MqttCaller].executed = @ + 1]
        /\ column' = [column EXCEPT ![it.outlet] =
                        Actuated(@, OUTLET_COMMAND_VALUES[it.command])]
        /\ UNCHANGED answering
    BY <1>1 DEF PduExecutes, Obedient, Disturbance
  <2>2. call'[MqttCaller].executed = 1 /\ ~Pending(n)'
    BY <1>0, <2>1 DEF Calls, Pending
  <2>3. CASE n = it.outlet
    <3>1. /\ it.command = "ON" => column'[n] = 1
          /\ it.command = "OFF" => column'[n] = 2
      BY <1>0, <2>1, <2>3 DEF Actuated, OUTLET_COMMAND_VALUES
    <3> QED
      BY <2>1, <2>2, <2>3, <3>1 DEF Pending, CarriedOut
  <2>4. CASE n # it.outlet
    <3>1. column'[n] = column[n] /\ ~Pending(n)
      BY <1>0, <2>1, <2>4 DEF Pending
    <3> QED
      BY <2>1, <2>2, <3>1 DEF CarriedOut
  <2> QED
    BY <2>3, <2>4
<1>2. CASE SetFails(MqttCaller)
  <2>1. ~Pending(n) /\ call' = [call EXCEPT ![MqttCaller] = NoCall] /\ UNCHANGED pduVars
    BY <1>2 DEF SetFails, Pending, Permitted, Obedient, Disturbance, SetRaises
  <2>2. ~Pending(n)'
    BY <1>0, <2>1 DEF NoCall, Pending
  <2> QED
    BY <2>1, <2>2 DEF pduVars, CarriedOut
<1>3. CASE SetReturns(MqttCaller)
  <2>1. ~Pending(n) /\ UNCHANGED pduVars
    BY <1>3 DEF SetReturns, Pending
  <2>2. call'[MqttCaller].phase \in {"publish", "nudge"}
    BY <1>0, <1>3 DEF SetReturns, Calls
  <2> QED
    BY <2>1, <2>2 DEF Pending, pduVars, CarriedOut
<1>4. CASE PublishOptimistic(MqttCaller)
  <2>1. it.phase = "publish" /\ UNCHANGED pduVars
    BY <1>4 DEF PublishOptimistic
  <2>2. call'[MqttCaller].phase \in {"nudge", "dead"}
    BY <1>0, <1>4 DEF PublishOptimistic, Publish, CallRaises, NoCall, Calls,
                      Handed, linkVars
  <2> QED
    BY <2>1, <2>2 DEF Pending, pduVars, CarriedOut
<1>5. CASE Nudge(MqttCaller) \/ Subscribe(MqttCaller) \/ SubscriberEnds(MqttCaller)
  <2>1. it.phase # "set" /\ UNCHANGED pduVars
    BY <1>5 DEF Nudge, Subscribe, SubscriberEnds
  <2>2. call'[MqttCaller].phase \in {"idle", "dead"}
    BY <1>0, <1>5 DEF Nudge, Subscribe, SubscriberEnds, NoCall, Calls
  <2> QED
    BY <2>1, <2>2 DEF Pending, pduVars, CarriedOut
<1>6. CASE ControlSurroundings
  <2>1. UNCHANGED call /\ (UNCHANGED pduVars \/ PduNext)
    BY <1>6 DEF ControlSurroundings
  <2>2. answering' /\ (column[n] \in {1, 2} => column'[n] = column[n])
    <3>1. CASE UNCHANGED pduVars
      BY <3>1 DEF pduVars
    <3>2. CASE PduNext
      <4>1. column[n] \in {1, 2} => column'[n] = column[n]
        BY <1>0, <3>2, PduAtRest DEF Obedient, ControlInv, ControlTypes
      <4>2. answering'
        BY <3>2 DEF PduNext, Toggle, Rename, Sequence, GoDark, Settle, Disturbance,
                    Obedient
      <4> QED
        BY <4>1, <4>2
    <3> QED
      BY <2>1, <3>1, <3>2
  <2> QED
    BY <2>1, <2>2 DEF Pending, CarriedOut
<1>7. ~SetRaises(MqttCaller)
  BY <1>0 DEF SetRaises, CallRaises, NoCall
<1> QED
  BY <1>1, <1>2, <1>3, <1>4, <1>5, <1>6, <1>7 DEF Proceed

\* A command to an outlet the operator permits is accepted (_check_allowed).
LEMMA PermittedAccepted ==
  ASSUME Obedient, NEW n \in Outlets, Permitted(n), NEW m, WellFormed(m), m.level = n
  PROVE  Accepted(m)
<1>1. n # Word /\ n # Blank
  BY ControllerAssumption, PduAssumption DEF Outlets
<1>2. Allowed(n)
  <2>1. CASE \A k \in DOMAIN AllowCsv : AllowCsv[k] = Blank
    BY <2>1 DEF Permitted, Allowed, AllowSet, parse_allow
  <2>2. CASE \E k \in DOMAIN AllowCsv : AllowCsv[k] = n
    BY <1>1, <2>2 DEF Permitted, Allowed, AllowSet, parse_allow
  <2> QED
    BY <2>1, <2>2 DEF Permitted, Listed
<1> QED
  BY <1>1, <1>2 DEF Accepted, Routed, WellFormed, Obedient

\* Every step keeps what is known of the orders.
LEMMA OrdersStep ==
  ASSUME ControlInv, QueueInv, Obedient, OrdersInv, [Next]_vars
  PROVE  OrdersInv'
<1>0. /\ answering /\ Taken \in Nat /\ Len(arrived) \in Nat /\ Len(queue) \in Nat
      /\ Taken + Len(queue) = Len(arrived)
      /\ queue \in Seq(Message) /\ arrived \in Seq(Message)
      /\ call \in [Callers -> Calls] /\ MqttCaller \in Callers
  BY ControllerAssumption
     DEF OrdersInv, QueueInv, Taken, ControlInv, ControlTypes, ControllerTypeOK
<1>1. CASE Arrive
  <2>1. PICK m \in Message : queue' = Append(queue, m) /\ arrived' = Append(arrived, m)
    BY <1>1 DEF Arrive
  <2>2. /\ Taken' = Taken /\ UNCHANGED <<call, column, answering>>
        /\ \A j \in 1 .. Taken : arrived'[j] = arrived[j]
    BY <1>0, <1>1, <2>1 DEF Arrive, Taken, controlVars, pduVars
  <2>3. \A i, n : LatestOf(Taken, i, n)' => /\ LatestOf(Taken, i, n)
                                            /\ arrived'[i] = arrived[i]
    BY <2>2 DEF LatestOf, Order
  <2> QED
    BY <1>0, <2>2, <2>3 DEF OrdersInv, Pending, CarriedOut
<1>2. CASE Obey \/ Reject
  <2>1. /\ Taken' = Taken + 1 /\ UNCHANGED <<arrived, column, answering>>
        /\ Head(queue) = arrived[Taken + 1]
        /\ call[MqttCaller].phase = "idle"
    <3>1. /\ queue # <<>> /\ queue' = Tail(queue)
          /\ UNCHANGED <<arrived, column, answering>>
          /\ call[MqttCaller].phase = "idle"
      BY <1>2 DEF Obey, Reject, Receive, controlVars, pduVars
    <3>2. Head(queue) = queue[1] /\ Len(queue) > 0
      BY <1>0, <3>1
    <3>3. queue[1] = arrived[Taken + 1]
      BY <1>0, <3>2 DEF QueueInv
    <3> QED
      BY <1>0, <3>1, <3>2, <3>3 DEF Taken
  <2>2. ASSUME NEW n \in Outlets, NEW i \in Nat, LatestOf(Taken, i, n)'
        PROVE  \/ i = Taken + 1 /\ Order(i, n)
               \/ ~Order(Taken + 1, n) /\ LatestOf(Taken, i, n)
    <3>1. /\ i \in 1 .. (Taken + 1) /\ Order(i, n)
          /\ \A j \in 1 .. (Taken + 1) : j > i => ~Order(j, n)
      BY <2>1, <2>2 DEF LatestOf, Order
    <3>2. CASE i = Taken + 1
      BY <3>1, <3>2
    <3>3. CASE i # Taken + 1
      <4>1. i \in 1 .. Taken /\ Taken + 1 > i /\ Taken + 1 \in 1 .. (Taken + 1)
        BY <1>0, <3>1, <3>3
      <4>2. \A j \in 1 .. Taken : j \in 1 .. (Taken + 1)
        BY <1>0
      <4> QED
        BY <3>1, <4>1, <4>2 DEF LatestOf
    <3> QED
      BY <3>2, <3>3
  <2>3. CASE Obey
    <3>1. PICK m \in Targets, command \in CommandsOf(MqttCaller) :
            call' = [call EXCEPT ![MqttCaller] =
              [phase |-> "set", outlet |-> m, command |-> command, executed |-> 0]]
      BY <2>3 DEF Obey, Receive
    <3>2. /\ call'[MqttCaller] =
               [phase |-> "set", outlet |-> m, command |-> command, executed |-> 0]
          /\ m = arrived[Taken + 1].level /\ command = arrived[Taken + 1].payload
      BY <1>0, <2>1, <2>3, <3>1 DEF Obey
    <3>3. \A n : Pending(n)' <=> n = m
      BY <3>2 DEF Pending
    <3>4. ASSUME NEW n \in Outlets, NEW i \in Nat, Permitted(n), LatestOf(Taken, i, n)'
          PROVE  IF Pending(n)' THEN call'[MqttCaller].command = arrived'[i].payload
                                ELSE CarriedOut(arrived[i].payload, n)'
      <4>1. CASE i = Taken + 1 /\ Order(i, n)
        BY <2>1, <3>2, <3>3, <4>1 DEF Order
      <4>2. CASE ~Order(Taken + 1, n) /\ LatestOf(Taken, i, n)
        <5>1. n # m
          BY <2>1, <2>3, <3>2, <4>2
             DEF Obey, Accepted, Routed, Order, WellFormed
        <5>2. ~Pending(n) /\ CarriedOut(arrived[i].payload, n)
          BY <2>1, <3>4, <4>2 DEF OrdersInv, Pending
        <5> QED
          BY <2>1, <3>3, <5>1, <5>2 DEF CarriedOut
      <4> QED
        BY <2>2, <3>4, <4>1, <4>2
    <3> QED
      BY <1>0, <2>1, <3>4 DEF OrdersInv, Permitted, Listed
  <2>4. CASE Reject
    <3>1. UNCHANGED call
      BY <2>4 DEF Reject, controlVars
    <3>2. ASSUME NEW n \in Outlets, NEW i \in Nat, Permitted(n), LatestOf(Taken, i, n)'
          PROVE  ~Pending(n)' /\ CarriedOut(arrived[i].payload, n)'
      <4>1. ~Order(Taken + 1, n)
        BY <2>1, <2>4, <3>2, PermittedAccepted DEF Reject, Order
      <4>2. LatestOf(Taken, i, n)
        BY <2>2, <3>2, <4>1
      <4>3. ~Pending(n) /\ CarriedOut(arrived[i].payload, n)
        BY <2>1, <3>2, <4>2 DEF OrdersInv, Pending
      <4> QED
        BY <2>1, <3>1, <4>3 DEF CarriedOut, Pending
    <3> QED
      BY <1>0, <2>1, <3>2 DEF OrdersInv, Permitted, Listed
  <2> QED
    BY <1>2, <2>3, <2>4
<1>3. CASE Ends \/ Works \/ Others
  <2>1. /\ UNCHANGED <<queue, arrived, Taken>>
        /\ \/ Subscribe(MqttCaller) \/ SubscriberEnds(MqttCaller) \/ Proceed(MqttCaller)
           \/ ControlSurroundings
    BY <1>3 DEF Ends, Works, Others, Taken, Obedient
  <2>0. call'[MqttCaller].phase # "dead" => call[MqttCaller].phase # "dead"
    BY <1>0, <2>1
       DEF Subscribe, SubscriberEnds, Proceed, PduExecutes, SetReturns, SetFails,
           SetRaises, CallRaises, PublishOptimistic, Nudge, ControlSurroundings
  <2>2. ASSUME NEW n \in Outlets, NEW i \in Nat, Permitted(n), LatestOf(Taken, i, n)',
               call'[MqttCaller].phase # "dead"
        PROVE  IF Pending(n)' THEN call'[MqttCaller].command = arrived'[i].payload
                              ELSE CarriedOut(arrived[i].payload, n)'
    <3>1. LatestOf(Taken, i, n) /\ arrived[i].payload \in OutletCommand
      BY <2>1, <2>2 DEF LatestOf, Order, WellFormed
    <3>2. /\ Pending(n)' => Pending(n) /\ UNCHANGED call
          /\ \A command \in OutletCommand :
               IF Pending(n) THEN \/ Pending(n)'
                                  \/ call[MqttCaller].command # command
                                  \/ CarriedOut(command, n)'
                             ELSE CarriedOut(command, n) => CarriedOut(command, n)'
      BY <1>0, <2>1, <2>2, NothingUndone
    <3>3. IF Pending(n) THEN call[MqttCaller].command = arrived[i].payload
                        ELSE CarriedOut(arrived[i].payload, n)
      BY <2>0, <2>2, <3>1 DEF OrdersInv
    <3> DEFINE command == arrived[i].payload
    <3>4. \E word \in OutletCommand : word = command
      BY <3>1
    <3>5. PICK word \in OutletCommand : word = command
      BY <3>4
    <3>6. arrived'[i].payload = word
      BY <2>1, <3>5
    <3>7. Pending(n)' \/ CarriedOut(word, n)'
      BY <3>2, <3>3, <3>5 DEF CarriedOut
    <3>8. Pending(n)' => call'[MqttCaller].command = word
      BY <3>2, <3>3, <3>5
    <3> QED
      BY <3>5, <3>6, <3>7, <3>8 DEF CarriedOut
  <2>3. answering'
    <3>1. CASE ControlSurroundings
      BY <1>0, <3>1
         DEF ControlSurroundings, PduNext, Toggle, Rename, Sequence, GoDark, Settle,
             Disturbance, Obedient, pduVars
    <3>2. CASE ~ControlSurroundings
      BY <1>0, <2>1, <3>2
         DEF Subscribe, SubscriberEnds, Proceed, PduExecutes, SetReturns, SetFails,
             PublishOptimistic, Nudge, pduVars, SetRaises
    <3> QED
      BY <3>1, <3>2
  <2> QED
    BY <2>1, <2>2, <2>3 DEF OrdersInv, Permitted, Listed
<1>4. CASE UNCHANGED vars
  BY <1>4
     DEF vars, controlVars, pduVars, OrdersInv, Taken, LatestOf, Order, Permitted, Listed,
         Pending, CarriedOut
<1> QED
  BY <1>1, <1>2, <1>3, <1>4 DEF Next

\* The queue is in order, and while the subscriber alone switches an obedient
\* PDU, the latest command it took for an outlet is carried out or pending.
THEOREM SubscriberInvariant == Spec => []SubscriberInv
<1>1. Init => QueueInv /\ (Obedient => OrdersInv)
  <2> SUFFICES ASSUME Init PROVE QueueInv /\ OrdersInv
    OBVIOUS
  <2>1. queue = <<>> /\ arrived = <<>> /\ answering
    BY DEF Init, ControlInit, PduInit
  <2>2. Taken = 0 /\ QueueInv
    BY <2>1 DEF Taken, QueueInv
  <2>3. \A i, n : ~LatestOf(Taken, i, n)
    BY <2>2 DEF LatestOf
  <2> QED
    BY <2>1, <2>2, <2>3 DEF OrdersInv
<1>2. /\ QueueInv /\ (Obedient => OrdersInv) /\ ControlInv /\ [Next]_vars
      => QueueInv' /\ (Obedient' => OrdersInv')
  BY QueueStep, OrdersStep DEF Obedient
<1>3. QueueInv /\ (Obedient => OrdersInv) /\ ControlInv => SubscriberInv
  BY DEF SubscriberInv
<1> QED
  BY <1>1, <1>2, <1>3, SubscriberControls, ControlInvariant, PTL DEF Spec

\* However many messages are sent, in whatever order, and whatever else comes
\* between them: with none left and no call under way, each relay is where the
\* latest command for its outlet put it (_command_subscriber, one call at a
\* time), if nobody else switches it and the PDU does as it is told.
THEOREM LastCommandHolds ==
  ASSUME Obedient
  PROVE  Spec => []LastCommandWins
<1>1. SubscriberInv => LastCommandWins
  <2> SUFFICES ASSUME SubscriberInv, call[MqttCaller].phase = "idle", queue = <<>>,
                      NEW n \in Outlets, NEW i \in 1 .. Len(arrived),
                      Permitted(n), LatestOf(Len(arrived), i, n)
               PROVE  CarriedOut(arrived[i].payload, n)
    BY DEF LastCommandWins
  <2>1. Taken = Len(arrived) /\ i \in Nat
    BY DEF SubscriberInv, QueueInv, Taken
  <2> QED
    BY <2>1 DEF SubscriberInv, OrdersInv, Pending
<1> QED
  BY <1>1, SubscriberInvariant, PTL
===============================================================================
