----------------------------- MODULE ReadingsProofs -----------------------------
(***************************************************************************)
(* What the retained values say after a cycle, for any number of outlets   *)
(* and any loads: they are those of the snapshot, and the totals belong    *)
(* together.                                                               *)
(***************************************************************************)
EXTENDS AnnouncementProofs

\* No request is ever left unanswered.
LoadsCertain == {"loss", "dark"} \cap Faults = {}

-------------------------------------------------------------------------------
(***************************************************************************)
(* The invariants.                                                         *)
(***************************************************************************)
\* Total k is at the broker as it was polled, if it was.
TotalPublished(k) ==
  BankTotal(k) # None => retained.total[TotalTopics[k]] = BankTotal(k)

\* The awaits after the totals.
Afterwards == {"legacy", "sensors", "switch", "button"}

\* The totals are published as far as the loop over them has come.
TotalsInv ==
  Delivered =>
    /\ pc = "totals" => \A k \in 1 .. 3 : k < at => TotalPublished(k)
    /\ pc \in Afterwards \/ AfterSuccess => \A k \in 1 .. 3 : TotalPublished(k)

\* Outlet n is at the broker as it was polled.
StatePublished(n) == retained.state[n] = PolledOutlets[n].state

\* So are the states: as long as nobody else publishes any.
StatesInv ==
  Delivered =>
    /\ pc = "states" => \A n \in 1 .. OutletCount : n < at => StatePublished(n)
    /\ pc \in Publishing \ {"states"} \/ AfterSuccess =>
         \A n \in 1 .. OutletCount : StatePublished(n)

\* The retained watts are those of the retained amps.
Agree ==
  retained.total["load_watts"] =
    watts_from_amps_volts(retained.total["load_amps"], MainsVoltage)

\* The amps are out, and the watts are not yet.
Between == pc = "totals" /\ at = 2 /\ BankTotal(1) # None

\* The totals agree but for the moment between the two publishes: a publish
\* that fails there is the end of the connection.
AgreeInv == Delivered /\ Sound /\ ~Between => Agree

\* Where no request is left unanswered every poll has read the load.
LoadsRead ==
  /\ answering
  /\ pc = "outlets" => readings.amps # None
  /\ pc \in Publishing \/ AfterSuccess => last_snapshot.amps # None

ReadingsInv ==
  /\ PollerInv /\ CycleComplete /\ TotalsInv
  /\ PublishesKnown => AgreeInv
  /\ LoadsCertain => LoadsRead

-------------------------------------------------------------------------------
(***************************************************************************)
(* The steps of the poller.                                                *)
(***************************************************************************)
\* Only two steps of the poller publish a value.
LEMMA ValuesFrame ==
  ASSUME PollerInv, PollerNext
  PROVE  /\ ~PublishTotal => retained'.total = retained.total
         /\ ~PublishState => retained'.state = retained.state
<1>0. retained \in Retained
  BY DEF PollerInv, PollTypes, MqttTypeOK
<1>1. CASE PublishState \/ PublishTotal
  BY <1>0, <1>1 DEF PublishState, PublishTotal, Publish, Retained, Handed,
                    Delivered, linkVars
<1>2. CASE RetireLegacy \/ PublishSensor
  BY <1>0, <1>2 DEF RetireLegacy, PublishSensor, Publish, Retained, Handed,
                    Delivered, linkVars
<1>3. CASE PublishSwitch \/ PublishButton
  BY <1>0, <1>3 DEF PublishSwitch, PublishButton, Announced, Publish, Retained,
                    Handed, Delivered, linkVars
<1>4. CASE UNCHANGED mqttVars
  BY <1>4 DEF mqttVars, linkVars
<1> QED
  BY <1>1, <1>2, <1>3, <1>4
     DEF PollerNext, Run, Wake, PollOnce, PollIdentity, DiscoverOutletCount,
         PollBank, PollOutlet, PollDone, PublishValues, EndStates, SkipTotal,
         NoDiscovery, PublishDiscovery, BeginDiscovery, EndLegacy, EndSensors,
         BeginRenames, SkipOutlet, EndOutlets, RequestStop, Cancel, GetRaises,
         CycleFails, CycleEnds

\* From the first value on, the cycle goes its way from await to await, with
\* the snapshot it began with, or it fails.
LEMMA ValuesFlow ==
  ASSUME PollerInv, PublishValues \/ PublishDiscovery
  PROVE  /\ UNCHANGED <<last_snapshot, outlet_count_cached>>
         /\ \/ ~AfterSuccess' /\ pc' = "sleep"
            \/ PublishState /\ pc' = "states" /\ at' = at + 1
            \/ EndStates /\ pc' = "totals" /\ at' = 1
            \/ (PublishTotal \/ SkipTotal) /\ pc' = "totals" /\ at' = at + 1
            \/ TotalsDone /\ (pc' \in Afterwards \/ AfterSuccess')
            \/ pc \in Afterwards /\ (pc' \in Afterwards \/ AfterSuccess')
<1>1. CASE PublishValues
  BY <1>1
     DEF PublishValues, PublishState, EndStates, PublishTotal, SkipTotal, NoDiscovery,
         Publish, Goto, CycleFails, CycleSucceeds, CycleEnds, AfterSuccess,
         publishFrame, Afterwards, Handed, Delivered, linkVars
<1>2. CASE BeginDiscovery \/ BeginRenames
  BY <1>2 DEF BeginDiscovery, BeginRenames, Goto, publishFrame, Afterwards
<1>3. CASE \/ RetireLegacy \/ EndLegacy \/ PublishSensor \/ EndSensors
  BY <1>3
     DEF RetireLegacy, EndLegacy, PublishSensor, EndSensors, Publish, Goto,
         CycleFails, CycleEnds, AfterSuccess, publishFrame, Afterwards, Handed,
         Delivered, linkVars
<1>4. CASE \/ PublishSwitch \/ PublishButton \/ SkipOutlet \/ EndOutlets
  BY <1>4
     DEF PublishSwitch, PublishButton, SkipOutlet, EndOutlets, Publish, Goto,
         CycleFails, CycleSucceeds, CycleEnds, AfterSuccess, publishFrame, Afterwards,
         Handed, Delivered, linkVars
<1> QED
  BY <1>1, <1>2, <1>3, <1>4 DEF PublishDiscovery

\* The other steps lead to no await at which values are published.
LEMMA OtherFlow ==
  ASSUME Wake \/ PollOnce \/ Cancel
  PROVE  /\ ~AfterSuccess'
         /\ pc' \in Publishing => PollDone /\ pc' = "states" /\ at' = 1
BY DEF Wake, PollOnce, PollIdentity, DiscoverOutletCount, PollBank, PollOutlet,
       PollDone, Cancel, Goto, CycleFails, CycleEnds, AfterSuccess, Publishing,
       GetRaises

\* A call of stop() leaves all of it.
LEMMA StopFrame ==
  ASSUME RequestStop
  PROVE  UNCHANGED <<pduVars, linkVars, retained, pc, at, readings, state, last_snapshot,
                     outlet_count_cached>>
BY DEF RequestStop, loopVars, mqttVars, linkVars

\* The poller keeps TotalsInv.
LEMMA TotalsStep ==
  ASSUME PollerInv, TotalsInv, PollerNext
  PROVE  TotalsInv'
<1> SUFFICES ASSUME Delivered' PROVE TotalsInv'
  BY DEF TotalsInv
<1>a. Delivered
  BY DeliveredKept
<1>0. /\ retained \in Retained /\ at \in Nat \ {0}
      /\ Afterwards \subseteq Publishing /\ "totals" \in Publishing \ Afterwards
  BY DEF PollerInv, PollTypes, MqttTypeOK, PollerTypeOK, LoopTypeOK, Afterwards, Publishing
<1>1. CASE Wake \/ PollOnce \/ Cancel
  BY <1>a, <1>1, OtherFlow DEF TotalsInv, Afterwards, Publishing
<1>2. CASE RequestStop
  BY <1>a, <1>2, StopFrame
     DEF TotalsInv, TotalPublished, BankTotal, AfterSuccess
<1>3. CASE PublishValues \/ PublishDiscovery
  <2>0. \A k \in 1 .. 3 : BankTotal(k)' = BankTotal(k)
    BY <1>3, ValuesFlow DEF BankTotal
  <2>1. CASE PublishTotal /\ pc' = "totals" /\ at' = at + 1
    <3>1. /\ at \in 1 .. 3
          /\ retained' = [retained EXCEPT !.total[TotalTopics[at]] = BankTotal(at)]
      BY <1>a, <1>0, <2>1 DEF PublishTotal, Publish, CycleFails, CycleEnds, TotalTopics,
                              Handed, Delivered, linkVars
    <3>2. /\ retained.total \in [TotalName -> Nat \cup {None}]
          /\ retained'.total = [retained.total EXCEPT ![TotalTopics[at]] = BankTotal(at)]
      BY <1>0, <3>1 DEF Retained
    <3>3. ASSUME NEW k \in 1 .. 3, k < at + 1 PROVE TotalPublished(k)'
      <4>1. CASE k = at
        BY <2>0, <3>1, <3>2, <4>1 DEF TotalPublished, TotalName
      <4>2. CASE k # at
        <5>1. k < at /\ TotalTopics[k] # TotalTopics[at]
          BY <1>0, <3>1, <3>3, <4>2 DEF TotalTopics
        <5>2. TotalPublished(k) /\ retained'.total[TotalTopics[k]] = retained.total[TotalTopics[k]]
          BY <1>a, <2>1, <3>1, <3>2, <5>1 DEF TotalsInv, PublishTotal, TotalName
        <5> QED
          BY <2>0, <5>2 DEF TotalPublished
      <4> QED
        BY <4>1, <4>2
    <3> QED
      BY <1>a, <1>0, <2>1, <3>3 DEF TotalsInv, AfterSuccess
  <2>2. CASE ~PublishTotal
    <3>1. \A k \in 1 .. 3 : TotalPublished(k) => TotalPublished(k)'
      BY <2>0, <2>2, ValuesFrame DEF TotalPublished
    <3>2. CASE SkipTotal /\ pc' = "totals" /\ at' = at + 1
      <4>1. ASSUME NEW k \in 1 .. 3, k < at + 1 PROVE TotalPublished(k)'
        <5>1. CASE k = at
          BY <2>0, <3>2, <5>1 DEF TotalPublished, SkipTotal
        <5>2. CASE k < at
          BY <1>a, <3>1, <3>2, <5>2 DEF TotalsInv, SkipTotal
        <5> QED
          BY <1>0, <4>1, <5>1, <5>2
      <4> QED
        BY <1>a, <1>0, <3>2, <4>1 DEF TotalsInv, AfterSuccess
    <3>3. CASE TotalsDone \/ pc \in Afterwards
      <4>1. \A k \in 1 .. 3 : TotalPublished(k)
        BY <1>a, <1>0, <3>3 DEF TotalsDone, TotalTopics, TotalsInv
      <4> QED
        BY <1>a, <3>1, <4>1 DEF TotalsInv
    <3>4. CASE EndStates /\ pc' = "totals" /\ at' = 1
      BY <1>a, <1>0, <3>4 DEF TotalsInv, AfterSuccess
    <3>5. CASE pc' = "states" \/ (~AfterSuccess' /\ pc' = "sleep")
      BY <1>a, <3>5 DEF TotalsInv, AfterSuccess, Afterwards
    <3> QED
      BY <1>3, <2>2, <3>2, <3>3, <3>4, <3>5, ValuesFlow
  <2>3. CASE ~AfterSuccess' /\ pc' = "sleep"
    BY <1>a, <2>3 DEF TotalsInv, Afterwards
  <2> QED
    BY <1>a, <2>1, <2>2, <2>3
       DEF PublishTotal, Publish, Goto, CycleFails, CycleEnds, AfterSuccess,
           Handed, Delivered, linkVars
<1> QED
  BY <1>1, <1>2, <1>3 DEF PollerNext, Run

\* The poller alone keeps StatesInv.
LEMMA StatesStep ==
  ASSUME PollerInv, CycleComplete, StatesInv, PollerNext
  PROVE  StatesInv'
<1> SUFFICES ASSUME Delivered' PROVE StatesInv'
  BY DEF StatesInv
<1>a. Delivered
  BY DeliveredKept
<1>0. /\ retained \in Retained /\ at \in Nat \ {0}
      /\ Afterwards \subseteq Publishing \ {"states", "totals"}
  BY DEF PollerInv, PollTypes, MqttTypeOK, PollerTypeOK, LoopTypeOK, Afterwards, Publishing
<1>1. CASE Wake \/ PollOnce \/ Cancel
  <2>1. OutletCount' \in Nat => \A n \in 1 .. OutletCount' : ~(n < 1)
    OBVIOUS
  <2>2. PollerInv'
    BY PollerNextStep
  <2>3. OutletCount' \in Nat
    BY <2>2, PduAssumption
       DEF PollerInv, PollTypes, PollerTypeOK, OutletCount, Outlets
  <2> QED
    BY <1>a, <1>1, <2>1, <2>3, OtherFlow DEF StatesInv, Publishing
<1>2. CASE RequestStop
  BY <1>a, <1>2, StopFrame
     DEF StatesInv, StatePublished, AfterSuccess, PolledOutlets, OutletCount
<1>3. CASE PublishValues \/ PublishDiscovery
  <2>0. /\ pc \in Publishing /\ Len(PolledOutlets) = OutletCount
        /\ OutletCount \in 0 .. NOutlets
        /\ \A n \in 1 .. OutletCount : n \in Outlets /\ n \in Nat
        /\ OutletCount' = OutletCount /\ PolledOutlets' = PolledOutlets
    <3>1. pc \in {"states", "totals", "legacy", "sensors", "switch", "button"}
      BY <1>3
         DEF PublishValues, PublishState, EndStates, PublishTotal, SkipTotal,
             NoDiscovery, PublishDiscovery, BeginDiscovery, RetireLegacy, EndLegacy,
             PublishSensor, EndSensors, BeginRenames, PublishSwitch, PublishButton,
             SkipOutlet, EndOutlets, TotalsDone
    <3>2. OutletCount' = OutletCount /\ PolledOutlets' = PolledOutlets
      BY <1>3, ValuesFlow DEF OutletCount, PolledOutlets
    <3>3. \A n \in Outlets : n \in Nat
      BY PduAssumption DEF Outlets
    <3> QED
      BY <3>1, <3>2, <3>3, SnapshotFacts DEF PollerInv, Publishing
  <2>1. CASE PublishState
    <3>1. CASE CycleFails
      BY <1>a, <3>1 DEF StatesInv, CycleFails, CycleEnds, AfterSuccess, Publishing
    <3>2. CASE /\ retained' = [retained EXCEPT !.state[at] = PolledOutlets[at].state]
               /\ Goto("states", at + 1)
      <4>1. at \in Outlets
        BY <1>0, <2>0, <2>1, PduAssumption DEF PublishState, OutletLeft
      <4>2. retained'.state = [retained.state EXCEPT ![at] = PolledOutlets[at].state]
            /\ retained.state \in [Outlets -> OutletState \cup {None}]
        BY <1>0, <3>2 DEF Retained
      <4>3. ASSUME NEW n \in 1 .. OutletCount, n < at + 1 PROVE StatePublished(n)'
        <5>1. CASE n = at
          BY <2>0, <4>1, <4>2, <5>1 DEF StatePublished
        <5>2. CASE n # at
          <6>1. n < at
            BY <1>0, <2>0, <4>3, <5>2
          <6>2. StatePublished(n)
            BY <1>a, <2>1, <6>1 DEF StatesInv, PublishState
          <6> QED
            BY <2>0, <4>2, <5>2, <6>2 DEF StatePublished
        <5> QED
          BY <5>1, <5>2
      <4> QED
        BY <1>a, <2>0, <3>2, <4>3 DEF StatesInv, Goto, AfterSuccess, Publishing
    <3> QED
      BY <2>1, <3>1, <3>2 DEF PublishState, Publish, Handed, Delivered, linkVars
  <2>2. CASE ~PublishState
    <3>1. \A n : StatePublished(n) => StatePublished(n)'
      BY <2>0, <2>2, ValuesFrame DEF StatePublished
    <3>2. CASE ~AfterSuccess' /\ pc' = "sleep"
      BY <1>a, <3>2 DEF StatesInv, Publishing
    <3>3. CASE pc # "states"
      <4>1. \A n \in 1 .. OutletCount : StatePublished(n)
        BY <1>a, <2>0, <3>3 DEF StatesInv
      <4>2. pc' # "states" \/ (~AfterSuccess' /\ pc' = "sleep")
        BY <1>0, <1>3, <2>2, <3>3, ValuesFlow DEF EndStates, AfterSuccess
      <4> QED
        BY <1>a, <2>0, <3>1, <4>1, <4>2 DEF StatesInv, AfterSuccess
    <3>4. CASE EndStates
      <4>1. \A n \in 1 .. OutletCount : StatePublished(n)
        BY <1>a, <1>0, <2>0, <3>4 DEF StatesInv, EndStates, OutletLeft
      <4>2. pc' = "totals"
        BY <3>4 DEF EndStates, Goto
      <4> QED
        BY <1>a, <2>0, <3>1, <4>1, <4>2 DEF StatesInv
    <3> QED
      BY <1>3, <2>2, <3>2, <3>3, <3>4
         DEF PublishValues, PublishTotal, SkipTotal, NoDiscovery, TotalsDone,
             PublishDiscovery, BeginDiscovery, RetireLegacy, EndLegacy, PublishSensor,
             EndSensors, BeginRenames, PublishSwitch, PublishButton, SkipOutlet,
             EndOutlets
  <2> QED
    BY <2>1, <2>2
<1> QED
  BY <1>1, <1>2, <1>3 DEF PollerNext, Run

\* Without a lost confirmation the totals only disagree in between.
LEMMA AgreeStep ==
  ASSUME PollerInv, TotalsInv, PublishesKnown, AgreeInv, PollerNext
  PROVE  AgreeInv'
<1> SUFFICES ASSUME Delivered' PROVE AgreeInv'
  BY DEF AgreeInv
<1>a. Delivered
  BY DeliveredKept
<1>0. /\ retained \in Retained /\ at \in Nat \ {0}
      /\ Sound' => Sound
  BY <1>a, SoundBefore DEF PollerInv, PollTypes, MqttTypeOK, PollerTypeOK, LoopTypeOK
<1>1. CASE PublishTotal
  <2>1. CASE CycleFails
    <3>1. conn # "up" /\ UNCHANGED conn
      BY <1>a, <1>0, <1>1, <2>1
         DEF PublishTotal, Publish, PublishMayRaise, PublishesKnown, Disturbance,
             CycleFails, CycleEnds, Goto, Handed, Delivered, linkVars
    <3> QED
      BY <1>a, <2>1, <3>1 DEF AgreeInv, Sound, AfterSuccess, CycleFails, CycleEnds
  <2>2. CASE Goto("totals", at + 1)
    <3>1. /\ at \in 1 .. 3 /\ pc = "totals" /\ BankTotal(at) # None
          /\ retained' = [retained EXCEPT !.total[TotalTopics[at]] = BankTotal(at)]
      BY <1>a, <1>0, <1>1, <2>2
         DEF PublishTotal, Publish, CycleFails, CycleEnds, TotalTopics, Goto,
             Handed, Delivered, linkVars
    <3>2. /\ retained.total \in [TotalName -> Nat \cup {None}]
          /\ retained'.total = [retained.total EXCEPT ![TotalTopics[at]] = BankTotal(at)]
          /\ "load_amps" \in TotalName /\ "load_watts" \in TotalName
      BY <1>0, <3>1 DEF Retained, TotalName, TotalTopics
    <3>3. CASE at = 1
      <4>1. BankTotal(1)' = BankTotal(1) /\ BankTotal(1) # None
        BY <1>1, <3>1, <3>3 DEF PublishTotal, publishFrame, BankTotal
      <4>2. Between'
        BY <2>2, <3>3, <4>1 DEF Between, Goto
      <4> QED
        BY <1>a, <4>2 DEF AgreeInv
    <3>4. CASE at = 2
      <4>1. BankTotal(2) = watts_from_amps_volts(last_snapshot.amps, MainsVoltage)
            /\ BankTotal(1) = last_snapshot.amps
        BY DEF BankTotal, TotalTopics
      <4>2. BankTotal(1) # None
        BY <3>1, <3>4, <4>1 DEF watts_from_amps_volts
      <4>3. retained.total["load_amps"] = last_snapshot.amps
        BY <1>a, <3>1, <3>4, <4>1, <4>2 DEF TotalsInv, TotalPublished, TotalTopics
      <4>4. /\ retained'.total["load_amps"] = last_snapshot.amps
            /\ retained'.total["load_watts"] = BankTotal(2)
        BY <3>2, <3>4, <4>3 DEF TotalTopics
      <4> QED
        BY <1>a, <4>1, <4>4 DEF AgreeInv, Agree
    <3>5. CASE at = 3
      <4>1. /\ retained'.total["load_amps"] = retained.total["load_amps"]
            /\ retained'.total["load_watts"] = retained.total["load_watts"]
        BY <3>2, <3>5 DEF TotalTopics
      <4> QED
        BY <1>a, <1>0, <3>5, <4>1 DEF AgreeInv, Between, Agree
    <3> QED
      BY <3>1, <3>3, <3>4, <3>5
  <2> QED
    BY <1>1, <2>1, <2>2 DEF PublishTotal, Publish, Handed, Delivered, linkVars
<1>2. CASE ~PublishTotal
  <2>1. retained'.total = retained.total
    BY <1>2, ValuesFrame
  <2>2. CASE ~Between
    BY <1>a, <1>0, <2>1, <2>2 DEF AgreeInv, Agree
  <2>3. CASE Between
    <3>0. ~SkipTotal
      <4>1. last_snapshot.amps \in Nat
        BY <2>3, PduAssumption
           DEF Between, BankTotal, TotalTopics, PollerInv, Cursors, PollSnapshot
      <4>2. BankTotal(2) \in Nat
        BY <4>1, PollerAssumption, NoneAssumption
           DEF BankTotal, TotalTopics, watts_from_amps_volts
      <4> QED
        BY <2>3, <4>2, NoneAssumption DEF SkipTotal, Between
    <3>1. RequestStop \/ Cancel
      BY <1>2, <2>3, <3>0
         DEF Between, PollerNext, Run, Wake, PollOnce, PollIdentity, DiscoverOutletCount,
             PollBank, PollOutlet, PollDone, PublishValues, PublishState, EndStates,
             NoDiscovery, PublishDiscovery, BeginDiscovery, RetireLegacy, EndLegacy,
             PublishSensor, EndSensors, BeginRenames, PublishSwitch, PublishButton,
             SkipOutlet, EndOutlets, TotalsDone, TotalTopics, GetRaises, AtGet
    <3>2. CASE RequestStop
      BY <1>a, <2>3, <3>2, StopFrame DEF AgreeInv, Between, BankTotal
    <3>3. CASE Cancel
      BY <1>a, <3>3 DEF Cancel, AgreeInv, Sound, AfterSuccess
    <3> QED
      BY <3>1, <3>2, <3>3
  <2> QED
    BY <2>2, <2>3
<1> QED
  BY <1>1, <1>2

\* Where every request is answered, every poll reads the load.
LEMMA LoadsStep ==
  ASSUME PollerInv, LoadsCertain, LoadsRead, PollerNext
  PROVE  LoadsRead'
<1>0. readings \in PollSnapshot /\ UNCHANGED pduVars
  BY StepKinds, UnannouncedFrame, AnnouncingFrame
     DEF PollerInv, PollTypes, PollerTypeOK, LoopTypeOK
<1>1. CASE PollBank
  <2>0. PICK load \in Loads :
          \E reply \in Replies(load) : readings' = [readings EXCEPT !.amps = reply]
    BY <1>1 DEF PollBank
  <2>1. PICK reply \in Replies(load) : readings' = [readings EXCEPT !.amps = reply]
    BY <2>0
  <2>2. reply # None
    BY PduAssumption, NoneAssumption
       DEF Replies, LoadsRead, LoadsCertain, Disturbance
  <2>3. readings'.amps = reply
    BY <1>0, <2>1 DEF PollSnapshot
  <2> QED
    BY <1>0, <1>1, <2>2, <2>3
       DEF LoadsRead, PollBank, pduVars, Publishing, AfterSuccess
<1>2. CASE PollOutlet
  BY <1>0, <1>2
     DEF PollOutlet, LoadsRead, PollSnapshot, pduVars, Publishing, AfterSuccess
<1>3. CASE PollDone
  BY <1>0, <1>3 DEF PollDone, LoadsRead, pduVars, AfterSuccess
<1>4. CASE PollIdentity \/ DiscoverOutletCount \/ GetRaises \/ Wake \/ Cancel
  BY <1>0, <1>4
     DEF PollIdentity, DiscoverOutletCount, Wake, Cancel, Goto, CycleFails, CycleEnds,
         LoadsRead, pduVars, Publishing, AfterSuccess, GetRaises
<1>5. CASE RequestStop
  BY <1>5, StopFrame DEF LoadsRead, pduVars, AfterSuccess
<1>6. CASE PublishValues \/ PublishDiscovery
  <2>1. pc \in Publishing /\ UNCHANGED last_snapshot /\ pc' # "outlets"
    BY <1>6
       DEF PublishValues, PublishState, EndStates, PublishTotal, SkipTotal,
           NoDiscovery, PublishDiscovery, BeginDiscovery, RetireLegacy, EndLegacy,
           PublishSensor, EndSensors, BeginRenames, PublishSwitch, PublishButton,
           SkipOutlet, EndOutlets, TotalsDone, Publish, Goto, CycleFails,
           CycleSucceeds, CycleEnds, publishFrame, Publishing, Handed, Delivered,
           linkVars
  <2> QED
    BY <1>0, <2>1 DEF LoadsRead, pduVars
<1> QED
  BY <1>1, <1>2, <1>3, <1>4, <1>5, <1>6 DEF PollerNext, Run, PollOnce

-------------------------------------------------------------------------------
(***************************************************************************)
(* All of it.                                                              *)
(***************************************************************************)
\* Every step of the poller, its stop and its cancellation keep it.
LEMMA ReadingsStep == ReadingsInv /\ PollerNext => ReadingsInv'
<1> SUFFICES ASSUME ReadingsInv, PollerNext PROVE ReadingsInv'
  OBVIOUS
<1>1. PollerInv' /\ CycleComplete' /\ TotalsInv'
  BY PollerNextStep, CycleCompleteStep, TotalsStep DEF ReadingsInv
<1>2. PublishesKnown => AgreeInv'
  BY AgreeStep DEF ReadingsInv
<1>3. LoadsCertain => LoadsRead'
  BY LoadsStep DEF ReadingsInv
<1> QED
  BY <1>1, <1>2, <1>3 DEF ReadingsInv, PublishesKnown, LoadsCertain

\* So does a step of anybody else who leaves the totals alone, and makes no
\* connection.
LEMMA ReadingsOutside ==
  ASSUME ReadingsInv, PollerInv', UNCHANGED pollerOwn,
         retained'.total = retained.total,
         "dark" \notin Faults /\ answering => answering',
         conn' = "up" => conn = "up"
  PROVE  ReadingsInv'
<1>1. /\ UNCHANGED <<pc, at, readings, state, last_snapshot, discovery_published,
                     outlet_count_cached>>
      /\ OutletCount' = OutletCount /\ PolledOutlets' = PolledOutlets
      /\ \A k : BankTotal(k)' = BankTotal(k)
  BY DEF pollerOwn, discoveryVars, OutletCount, PolledOutlets, BankTotal
<1>2. CycleComplete'
  BY <1>1 DEF ReadingsInv, CycleComplete, AfterSuccess
<1>3. TotalsInv'
  BY <1>1 DEF ReadingsInv, TotalsInv, TotalPublished, AfterSuccess, Delivered
<1>4. PublishesKnown => AgreeInv'
  BY <1>1
     DEF ReadingsInv, AgreeInv, Sound, AfterSuccess, Between, Agree, Delivered
<1>5. LoadsCertain => LoadsRead'
  BY <1>1 DEF ReadingsInv, LoadsRead, LoadsCertain, AfterSuccess
<1> QED
  BY <1>2, <1>3, <1>4, <1>5 DEF ReadingsInv, PublishesKnown, LoadsCertain

\* It holds of a new poller at a broker that holds no totals.
LEMMA NewReadings ==
  ASSUME PollerInv, PduInit, PollerInit, retained.total = NothingRetained.total
  PROVE  ReadingsInv /\ StatesInv
<1>1. /\ retained.total["load_amps"] = None /\ retained.total["load_watts"] = None
  BY DEF NothingRetained, TotalName, TotalTopics
<1>2. Agree
  BY <1>1 DEF Agree, watts_from_amps_volts
<1>3. CycleComplete /\ TotalsInv /\ StatesInv
  BY DEF PollerInit, CycleComplete, TotalsInv, StatesInv, AfterSuccess, Afterwards,
         Publishing
<1>4. LoadsRead
  BY DEF PollerInit, PduInit, LoadsRead, AfterSuccess, Publishing
<1> QED
  BY <1>2, <1>3, <1>4 DEF ReadingsInv, AgreeInv

\* What it says of the totals.
LEMMA AllTotalsAgree ==
  ReadingsInv /\ (PublishesKnown \/ LoadsCertain) => TotalsAgree
<1> SUFFICES ASSUME ReadingsInv, PublishesKnown \/ LoadsCertain, Delivered, AfterSuccess
             PROVE  Agree
  BY DEF TotalsAgree, Agree
<1>1. CASE PublishesKnown
  BY <1>1 DEF ReadingsInv, AgreeInv, Sound, AfterSuccess, Between
<1>2. CASE LoadsCertain
  <2>1. last_snapshot.amps \in Nat
    BY <1>2, PduAssumption
       DEF ReadingsInv, LoadsRead, CycleComplete, PollSnapshot
  <2>2. /\ BankTotal(1) = last_snapshot.amps
        /\ BankTotal(2) = last_snapshot.amps * MainsVoltage
        /\ BankTotal(1) # None /\ BankTotal(2) # None
    BY <2>1, PollerAssumption, NoneAssumption
       DEF BankTotal, TotalTopics, watts_from_amps_volts
  <2>3. TotalPublished(1) /\ TotalPublished(2)
    BY DEF ReadingsInv, TotalsInv
  <2> QED
    BY <2>1, <2>2, <2>3, NoneAssumption
       DEF TotalPublished, TotalTopics, Agree, watts_from_amps_volts
<1> QED
  BY <1>1, <1>2
===============================================================================
