----------------------------- MODULE PollerProofs -----------------------------
(***************************************************************************)
(* The steps of the poller, and of its surroundings, keep PollerInv: for   *)
(* any number of outlets, any names, loads and ids, and any disturbances.  *)
(***************************************************************************)
EXTENDS Poller, TLAPS

-------------------------------------------------------------------------------
(***************************************************************************)
(* What the operators the poller is built from return.                     *)
(***************************************************************************)
\* A GET returns the value or None (get_many).
LEMMA RepliesType ==
  ASSUME NEW value, NEW reply \in Replies(value)
  PROVE  reply \in {value, None}
BY DEF Replies

\* Any reply is read as one of the three outlet states (parse_outlet_state).
LEMMA ParseType ==
  ASSUME NEW raw
  PROVE  parse_outlet_state(raw) \in OutletState
BY DEF parse_outlet_state, OutletState

\* A walk finds no more rows than the PDU has outlets (walk).
LEMMA WalkType ==
  ASSUME NEW rows \in WalkReplies
  PROVE  rows \in 0 .. NOutlets
BY PduAssumption, MaxRowsAssumption DEF WalkReplies, AllRows

\* The id derived from a polled sysName is a device id (derive_device_id).
LEMMA DeriveType ==
  ASSUME NEW sys_name \in {SysName, None}
  PROVE  derive_device_id(sys_name) \in DeviceIds
BY DiscoveryAssumption DEF derive_device_id

\* A display name is never None (outlet_switch_payload).
LEMMA DisplayNameType ==
  ASSUME NEW name \in Names \cup {None}
  PROVE  DisplayName(name) \in (Names \cup {Unnamed}) /\ DisplayName(name) # None
BY PduAssumption, DiscoveryAssumption DEF DisplayName

\* The totals published are numbers (_publish).
LEMMA BankTotalType ==
  ASSUME last_snapshot \in PollSnapshot, NEW k \in 1 .. 3
  PROVE  BankTotal(k) \in Nat \cup {None} /\ TotalTopics[k] \in TotalName
<1>1. last_snapshot.amps \in Nat \cup {None}
  BY PduAssumption DEF PollSnapshot
<1>2. watts_from_amps_volts(last_snapshot.amps, MainsVoltage) \in Nat \cup {None}
  BY <1>1, PollerAssumption DEF watts_from_amps_volts
<1>3. BankTotal(k) \in Nat \cup {None}
  BY <1>1, <1>2, PollerAssumption DEF BankTotal, TotalTopics
<1> QED
  BY <1>3 DEF TotalName

-------------------------------------------------------------------------------
(***************************************************************************)
(* Each step of the task preserves the inductive invariant.                *)
(***************************************************************************)
\* The readings a poll starts from.
LEMMA NoReadingsType == NoReadings \in PollSnapshot /\ NoReadings.outlets = <<>>
BY DEF NoReadings, PollSnapshot

\* A publishing step works on a complete snapshot of outlets the PDU has.
LEMMA SnapshotFacts ==
  ASSUME PollTypes, Cursors,
         pc \in {"states", "totals", "legacy", "sensors", "switch", "button"}
  PROVE  /\ last_snapshot \in PollSnapshot
         /\ Len(PolledOutlets) = OutletCount
         /\ OutletCount \in 0 .. NOutlets
         /\ \A n \in 1 .. OutletCount :
              n \in Outlets /\ PolledOutlets[n] \in OutletReading
<1>1. OutletCount \in 0 .. NOutlets
  BY PduAssumption DEF PollTypes, PollerTypeOK, OutletCount, Outlets
<1>2. last_snapshot \in PollSnapshot /\ Len(PolledOutlets) = OutletCount
  BY DEF PollTypes, PollerTypeOK, Cursors, PolledOutlets
<1>3. PolledOutlets \in Seq(OutletReading)
  BY <1>2 DEF PollSnapshot, PolledOutlets
<1>4. ASSUME NEW n \in 1 .. OutletCount
      PROVE  n \in Outlets /\ PolledOutlets[n] \in OutletReading
  <2>1. n \in Outlets
    BY <1>1, PduAssumption DEF Outlets
  <2>2. PolledOutlets[n] \in OutletReading
    BY <1>2, <1>3
  <2> QED
    BY <2>1, <2>2
<1> QED
  BY <1>1, <1>2, <1>4

\* Going on with a loop, or ending the cycle, keeps the loop's variables typed.
LEMMA LoopType ==
  ASSUME PollTypes, NEW label \in Labels, NEW n \in Nat \ {0},
         Goto(label, n) \/ CycleFails \/ CycleSucceeds
  PROVE  LoopTypeOK'
<1>1. CASE Goto(label, n)
  BY <1>1 DEF Goto, PollTypes, PollerTypeOK, LoopTypeOK
<1>2. CASE CycleFails \/ CycleSucceeds
  <2>1. pc' = "sleep" /\ at' = 1 /\ readings' = NoReadings /\ immediate_event' = FALSE
    BY <1>2 DEF CycleFails, CycleSucceeds, CycleEnds
  <2>2. state' \in {"connected", "unreachable"}
    BY <1>2 DEF CycleFails, CycleSucceeds, CycleEnds
  <2>3. readings' \in PollSnapshot
    BY <2>1, NoReadingsType
  <2>4. pc' \in Labels
    BY <2>1 DEF Labels
  <2>5. state' \in BridgeState
    BY <2>2 DEF BridgeState
  <2>6. at' \in Nat \ {0}
    BY <2>1
  <2>7. immediate_event' \in BOOLEAN
    BY <2>1
  <2> QED
    BY <2>3, <2>4, <2>5, <2>6, <2>7 DEF LoopTypeOK
<1> QED
  BY <1>1, <1>2

\* A step that touches neither the PDU nor the broker keeps both typed.
LEMMA OthersTyped ==
  ASSUME PollTypes
  PROVE  /\ UNCHANGED pduVars => PduTypeOK'
         /\ UNCHANGED mqttVars => MqttTypeOK'
<1>1. ASSUME UNCHANGED pduVars PROVE PduTypeOK'
  BY <1>1 DEF PollTypes, pduVars, PduTypeOK
<1>2. ASSUME UNCHANGED mqttVars PROVE MqttTypeOK'
  BY <1>2 DEF PollTypes, mqttVars, MqttTypeOK, linkVars
<1> QED
  BY <1>1, <1>2

\* The end of a sleep.
LEMMA WakeStep == PollerInv /\ Wake => PollerInv'
<1> SUFFICES ASSUME PollerInv, Wake PROVE PollerInv'
  OBVIOUS
<1>0. PollTypes /\ Cursors /\ NamesWithin /\ PassProgress /\ AnnouncedWhole
  BY DEF PollerInv
<1>1. PollTypes'
  <2>1. PduTypeOK' /\ MqttTypeOK'
    BY <1>0, OthersTyped DEF Wake, publishFrame
  <2>2. PollerTypeOK'
    BY <1>0, LoopType
       DEF Wake, Goto, discoveryVars, publishFrame, PollTypes, PollerTypeOK,
           LoopTypeOK, Labels
  <2> QED
    BY <2>1, <2>2 DEF PollTypes
<1>2. Cursors'
  BY <1>0 DEF Cursors, Wake, Goto, publishFrame, discoveryVars, OutletCount
<1>3. NamesWithin'
  BY <1>0 DEF NamesWithin, Wake, Goto, publishFrame, discoveryVars, OutletCount
<1>4. PassProgress'
  BY <1>0 DEF PassProgress, Wake, Goto, mqttVars, discoveryVars, Entity,
              linkVars, Delivered
<1>5. AnnouncedWhole'
  BY <1>0 DEF AnnouncedWhole, Wake, Goto, mqttVars, discoveryVars, Entity,
              linkVars, Delivered
<1> QED
  BY <1>1, <1>2, <1>3, <1>4, <1>5 DEF PollerInv

\* The GET of sysName.
LEMMA PollIdentityStep == PollerInv /\ PollIdentity => PollerInv'
<1> SUFFICES ASSUME PollerInv, PollIdentity PROVE PollerInv'
  OBVIOUS
<1>0. PollTypes /\ Cursors /\ NamesWithin /\ PassProgress /\ AnnouncedWhole
  BY DEF PollerInv
<1>1. PollTypes'
  <2>1. PduTypeOK' /\ MqttTypeOK'
    BY <1>0, OthersTyped DEF PollIdentity, publishFrame
  <2>2. PollerTypeOK'
    <3>1. readings' \in PollSnapshot
      BY <1>0, RepliesType
         DEF PollIdentity, PollSnapshot, PollTypes, PollerTypeOK, LoopTypeOK
    <3> QED
      BY <1>0, <3>1
         DEF PollIdentity, discoveryVars, PollTypes, PollerTypeOK, LoopTypeOK,
             Labels
  <2> QED
    BY <2>1, <2>2 DEF PollTypes
<1>2. Cursors'
  <2>1. readings'.outlets = readings.outlets
    BY <1>0 DEF PollIdentity, PollSnapshot, PollTypes, PollerTypeOK, LoopTypeOK
  <2> QED
    BY <1>0, <2>1 DEF Cursors, PollIdentity, discoveryVars, OutletCount
<1>3. NamesWithin'
  BY <1>0
     DEF NamesWithin, PollIdentity, Replies, publishFrame, discoveryVars,
         OutletCount
<1>4. PassProgress'
  BY <1>0
     DEF PassProgress, PollIdentity, Replies, mqttVars, discoveryVars, Entity,
         linkVars, Delivered
<1>5. AnnouncedWhole'
  BY <1>0
     DEF AnnouncedWhole, PollIdentity, Replies, mqttVars, discoveryVars, Entity,
         linkVars, Delivered
<1> QED
  BY <1>1, <1>2, <1>3, <1>4, <1>5 DEF PollerInv

\* The GET of the bank load.
LEMMA PollBankStep == PollerInv /\ PollBank => PollerInv'
<1> SUFFICES ASSUME PollerInv, PollBank PROVE PollerInv'
  OBVIOUS
<1>0. PollTypes /\ Cursors /\ NamesWithin /\ PassProgress /\ AnnouncedWhole
  BY DEF PollerInv
<1>1. PollTypes'
  <2>1. PduTypeOK' /\ MqttTypeOK'
    BY <1>0, OthersTyped DEF PollBank, publishFrame
  <2>2. PollerTypeOK'
    <3>1. readings' \in PollSnapshot
      BY <1>0, RepliesType
         DEF PollBank, PollSnapshot, PollTypes, PollerTypeOK, LoopTypeOK
    <3> QED
      BY <1>0, <3>1
         DEF PollBank, discoveryVars, PollTypes, PollerTypeOK, LoopTypeOK, Labels
  <2> QED
    BY <2>1, <2>2 DEF PollTypes
<1>2. Cursors'
  <2>1. readings'.outlets = <<>>
    BY <1>0
       DEF PollBank, PollSnapshot, PollTypes, PollerTypeOK, LoopTypeOK, Cursors
  <2>2. OutletCount \in Nat
    BY <1>0, PduAssumption DEF OutletCount, PollTypes, PollerTypeOK, Outlets
  <2>3. Len(readings'.outlets) <= OutletCount
    BY <2>1, <2>2
  <2> QED
    BY <1>0, <2>3 DEF Cursors, PollBank, discoveryVars, OutletCount
<1>3. NamesWithin'
  BY <1>0
     DEF NamesWithin, PollBank, Replies, publishFrame, discoveryVars,
         OutletCount
<1>4. PassProgress'
  BY <1>0 DEF PassProgress, PollBank, Replies, mqttVars, discoveryVars, Entity,
              linkVars, Delivered
<1>5. AnnouncedWhole'
  BY <1>0 DEF AnnouncedWhole, PollBank, Replies, mqttVars, discoveryVars, Entity,
              linkVars, Delivered
<1> QED
  BY <1>1, <1>2, <1>3, <1>4, <1>5 DEF PollerInv

\* The GETs of one outlet.
LEMMA PollOutletStep == PollerInv /\ PollOutlet => PollerInv'
<1> SUFFICES ASSUME PollerInv, PollOutlet PROVE PollerInv'
  OBVIOUS
<1>0. PollTypes /\ Cursors /\ NamesWithin /\ PassProgress /\ AnnouncedWhole
  BY DEF PollerInv
<1>1. PollTypes'
  <2>1. PduTypeOK' /\ MqttTypeOK'
    BY <1>0, OthersTyped DEF PollOutlet, publishFrame
  <2>2. PollerTypeOK'
    <3>1. readings' \in PollSnapshot
      <4> DEFINE n == Len(readings.outlets) + 1
      <4>1. n \in Outlets
        BY <1>0, PduAssumption
           DEF PollOutlet, OutletCount, Outlets, PollTypes, PollerTypeOK,
               LoopTypeOK, PollSnapshot
      <4>2. PICK name \in Replies(outlet_name[n]), raw \in Replies(column[n]) :
              readings' = [readings EXCEPT !.outlets =
                Append(@, [name |-> name, state |-> parse_outlet_state(raw)])]
        BY DEF PollOutlet
      <4>3. [name |-> name, state |-> parse_outlet_state(raw)] \in OutletReading
        BY <1>0, <4>1, RepliesType, ParseType
           DEF OutletReading, PollTypes, PduTypeOK
      <4>4. readings \in PollSnapshot /\ readings.outlets \in Seq(OutletReading)
        BY <1>0 DEF PollSnapshot, PollTypes, PollerTypeOK, LoopTypeOK
      <4>5. Append(readings.outlets, [name |-> name, state |-> parse_outlet_state(raw)])
              \in Seq(OutletReading)
        BY <4>3, <4>4
      <4> QED
        BY <4>2, <4>4, <4>5 DEF PollSnapshot
    <3> QED
      BY <1>0, <3>1
         DEF PollOutlet, discoveryVars, PollTypes, PollerTypeOK, LoopTypeOK
  <2> QED
    BY <2>1, <2>2 DEF PollTypes
<1>2. Cursors'
  <2>1. Len(readings'.outlets) = Len(readings.outlets) + 1
    BY <1>0 DEF PollOutlet, PollSnapshot, PollTypes, PollerTypeOK, LoopTypeOK
  <2>2. OutletCount \in Nat /\ Len(readings.outlets) \in Nat
    BY <1>0, PduAssumption
       DEF OutletCount, PollTypes, PollerTypeOK, LoopTypeOK, Outlets, PollSnapshot
  <2>3. Len(readings'.outlets) <= OutletCount
    BY <2>1, <2>2 DEF PollOutlet
  <2> QED
    BY <1>0, <2>3 DEF Cursors, PollOutlet, discoveryVars, OutletCount
<1>3. NamesWithin'
  BY <1>0
     DEF NamesWithin, PollOutlet, Replies, publishFrame, discoveryVars,
         OutletCount
<1>4. PassProgress'
  BY <1>0 DEF PassProgress, PollOutlet, Replies, mqttVars, discoveryVars, Entity,
              linkVars, Delivered
<1>5. AnnouncedWhole'
  BY <1>0
     DEF AnnouncedWhole, PollOutlet, Replies, mqttVars, discoveryVars, Entity,
         linkVars, Delivered
<1> QED
  BY <1>1, <1>2, <1>3, <1>4, <1>5 DEF PollerInv

\* A GET raises.
LEMMA GetRaisesStep == PollerInv /\ GetRaises => PollerInv'
<1> SUFFICES ASSUME PollerInv, GetRaises PROVE PollerInv'
  OBVIOUS
<1>0. PollTypes /\ Cursors /\ NamesWithin /\ PassProgress /\ AnnouncedWhole
  BY DEF PollerInv
<1>1. PollTypes'
  <2>1. PduTypeOK' /\ MqttTypeOK'
    BY <1>0, OthersTyped DEF GetRaises
  <2>2. PollerTypeOK'
    BY <1>0, LoopType
       DEF GetRaises, discoveryVars, PollTypes, PollerTypeOK, Labels
  <2> QED
    BY <2>1, <2>2 DEF PollTypes
<1>2. Cursors'
  BY <1>0
     DEF Cursors, GetRaises, CycleFails, CycleEnds, NoReadings, discoveryVars,
         OutletCount
<1>3. NamesWithin'
  BY <1>0 DEF NamesWithin, GetRaises, discoveryVars, OutletCount
<1>4. PassProgress'
  BY <1>0 DEF PassProgress, GetRaises, CycleFails, CycleEnds, Delivered
<1>5. AnnouncedWhole'
  BY <1>0 DEF AnnouncedWhole, GetRaises, mqttVars, discoveryVars, Entity,
              linkVars, Delivered
<1> QED
  BY <1>1, <1>2, <1>3, <1>4, <1>5 DEF PollerInv

\* The snapshot is taken.
LEMMA PollDoneStep == PollerInv /\ PollDone => PollerInv'
<1> SUFFICES ASSUME PollerInv, PollDone PROVE PollerInv'
  OBVIOUS
<1>0. PollTypes /\ Cursors /\ NamesWithin /\ PassProgress /\ AnnouncedWhole
  BY DEF PollerInv
<1>1. PollTypes'
  <2>1. PduTypeOK' /\ MqttTypeOK'
    BY <1>0, OthersTyped DEF PollDone, publishFrame
  <2>2. PollerTypeOK'
    BY <1>0, NoReadingsType
       DEF PollDone, discoveryVars, PollTypes, PollerTypeOK, LoopTypeOK, Labels
  <2> QED
    BY <2>1, <2>2 DEF PollTypes
<1>2. Cursors'
  <2>1. last_snapshot' \in PollSnapshot /\ Len(last_snapshot'.outlets) = OutletCount
    BY <1>0 DEF PollDone, PollTypes, PollerTypeOK, LoopTypeOK
  <2> QED
    BY <1>0, <2>1 DEF Cursors, PollDone, discoveryVars, OutletCount
<1>3. NamesWithin'
  BY <1>0
     DEF NamesWithin, PollDone, NoReadings, publishFrame, discoveryVars,
         OutletCount
<1>4. PassProgress'
  BY <1>0
     DEF PassProgress, PollDone, NoReadings, mqttVars, discoveryVars, Entity,
         linkVars, Delivered
<1>5. AnnouncedWhole'
  BY <1>0
     DEF AnnouncedWhole, PollDone, NoReadings, mqttVars, discoveryVars, Entity,
         linkVars, Delivered
<1> QED
  BY <1>1, <1>2, <1>3, <1>4, <1>5 DEF PollerInv

\* The last outlet state is published.
LEMMA EndStatesStep == PollerInv /\ EndStates => PollerInv'
<1> SUFFICES ASSUME PollerInv, EndStates PROVE PollerInv'
  OBVIOUS
<1>0. PollTypes /\ Cursors /\ NamesWithin /\ PassProgress /\ AnnouncedWhole
  BY DEF PollerInv
<1>1. PollTypes'
  <2>1. PduTypeOK' /\ MqttTypeOK'
    BY <1>0, OthersTyped DEF EndStates, publishFrame
  <2>2. PollerTypeOK'
    BY <1>0, LoopType
       DEF EndStates, Goto, discoveryVars, publishFrame, PollTypes, PollerTypeOK,
           LoopTypeOK, Labels
  <2> QED
    BY <2>1, <2>2 DEF PollTypes
<1>2. Cursors'
  BY <1>0 DEF Cursors, EndStates, Goto, publishFrame, discoveryVars, OutletCount
<1>3. NamesWithin'
  BY <1>0
     DEF NamesWithin, EndStates, Goto, publishFrame, discoveryVars, OutletCount
<1>4. PassProgress'
  BY <1>0 DEF PassProgress, EndStates, Goto, mqttVars, discoveryVars, Entity,
              linkVars, Delivered
<1>5. AnnouncedWhole'
  BY <1>0 DEF AnnouncedWhole, EndStates, Goto, mqttVars, discoveryVars, Entity,
              linkVars, Delivered
<1> QED
  BY <1>1, <1>2, <1>3, <1>4, <1>5 DEF PollerInv

\* A total that was not read.
LEMMA SkipTotalStep == PollerInv /\ SkipTotal => PollerInv'
<1> SUFFICES ASSUME PollerInv, SkipTotal PROVE PollerInv'
  OBVIOUS
<1>0. PollTypes /\ Cursors /\ NamesWithin /\ PassProgress /\ AnnouncedWhole
  BY DEF PollerInv
<1>1. PollTypes'
  <2>1. PduTypeOK' /\ MqttTypeOK'
    BY <1>0, OthersTyped DEF SkipTotal, publishFrame
  <2>2. PollerTypeOK'
    BY <1>0, LoopType
       DEF SkipTotal, Goto, discoveryVars, publishFrame, PollTypes, PollerTypeOK,
           LoopTypeOK, Labels
  <2> QED
    BY <2>1, <2>2 DEF PollTypes
<1>2. Cursors'
  BY <1>0 DEF Cursors, SkipTotal, Goto, publishFrame, discoveryVars, OutletCount
<1>3. NamesWithin'
  BY <1>0
     DEF NamesWithin, SkipTotal, Goto, publishFrame, discoveryVars, OutletCount
<1>4. PassProgress'
  BY <1>0 DEF PassProgress, SkipTotal, Goto, mqttVars, discoveryVars, Entity,
              linkVars, Delivered
<1>5. AnnouncedWhole'
  BY <1>0 DEF AnnouncedWhole, SkipTotal, Goto, mqttVars, discoveryVars, Entity,
              linkVars, Delivered
<1> QED
  BY <1>1, <1>2, <1>3, <1>4, <1>5 DEF PollerInv

\* The last sensor is announced.
LEMMA EndSensorsStep == PollerInv /\ EndSensors => PollerInv'
<1> SUFFICES ASSUME PollerInv, EndSensors PROVE PollerInv'
  OBVIOUS
<1>0. PollTypes /\ Cursors /\ NamesWithin /\ PassProgress /\ AnnouncedWhole
  BY DEF PollerInv
<1>1. PollTypes'
  <2>1. PduTypeOK' /\ MqttTypeOK'
    BY <1>0, OthersTyped DEF EndSensors, publishFrame
  <2>2. PollerTypeOK'
    BY <1>0, LoopType
       DEF EndSensors, Goto, discoveryVars, publishFrame, PollTypes, PollerTypeOK,
           LoopTypeOK, Labels
  <2> QED
    BY <2>1, <2>2 DEF PollTypes
<1>2. Cursors'
  BY <1>0
     DEF Cursors, EndSensors, Goto, publishFrame, discoveryVars, OutletCount
<1>3. NamesWithin'
  BY <1>0
     DEF NamesWithin, EndSensors, Goto, publishFrame, discoveryVars, OutletCount
<1>4. PassProgress'
  <2> SUFFICES ASSUME Delivered' PROVE PassProgress'
    BY DEF PassProgress
  <2>0. Delivered
    BY DEF EndSensors, mqttVars, Delivered, linkVars
  <2>1. \A k \in 1 .. 3 : <<device_id, TotalTopics[k]>> \in retained.sensor
    BY <1>0, <2>0
       DEF PassProgress, EndSensors, TotalTopics, PollTypes, PollerTypeOK,
           LoopTypeOK, Delivered
  <2> QED
    BY <1>0, <2>1
       DEF PassProgress, EndSensors, Goto, mqttVars, discoveryVars, Entity,
           TotalName, Outlets, linkVars, Delivered
<1>5. AnnouncedWhole'
  BY <1>0 DEF AnnouncedWhole, EndSensors, Goto, mqttVars, discoveryVars, Entity,
              linkVars, Delivered
<1> QED
  BY <1>1, <1>2, <1>3, <1>4, <1>5 DEF PollerInv

\* An outlet whose name has not changed.
LEMMA SkipOutletStep == PollerInv /\ SkipOutlet => PollerInv'
<1> SUFFICES ASSUME PollerInv, SkipOutlet PROVE PollerInv'
  OBVIOUS
<1>0. PollTypes /\ Cursors /\ NamesWithin /\ PassProgress /\ AnnouncedWhole
  BY DEF PollerInv
<1>1. PollTypes'
  <2>1. PduTypeOK' /\ MqttTypeOK'
    BY <1>0, OthersTyped DEF SkipOutlet, publishFrame
  <2>2. PollerTypeOK'
    BY <1>0, LoopType
       DEF SkipOutlet, Goto, Due, discoveryVars, publishFrame, PollTypes,
           PollerTypeOK, LoopTypeOK, Labels
  <2> QED
    BY <2>1, <2>2 DEF PollTypes
<1>2. Cursors'
  BY <1>0
     DEF Cursors, SkipOutlet, Goto, Due, publishFrame, discoveryVars,
         OutletCount
<1>3. NamesWithin'
  BY <1>0
     DEF NamesWithin, SkipOutlet, Goto, Due, publishFrame, discoveryVars,
         OutletCount
<1>4. PassProgress'
  BY <1>0
     DEF PassProgress, SkipOutlet, Goto, Due, mqttVars, discoveryVars, Entity,
         linkVars, Delivered
<1>5. AnnouncedWhole'
  BY <1>0
     DEF AnnouncedWhole, SkipOutlet, Goto, Due, mqttVars, discoveryVars, Entity,
         linkVars, Delivered
<1> QED
  BY <1>1, <1>2, <1>3, <1>4, <1>5 DEF PollerInv

\* The rename pass begins.
LEMMA BeginRenamesStep == PollerInv /\ BeginRenames => PollerInv'
<1> SUFFICES ASSUME PollerInv, BeginRenames PROVE PollerInv'
  OBVIOUS
<1>0. PollTypes /\ Cursors /\ NamesWithin /\ PassProgress /\ AnnouncedWhole
  BY DEF PollerInv
<1>1. PollTypes'
  <2>1. PduTypeOK' /\ MqttTypeOK'
    BY <1>0, OthersTyped DEF BeginRenames, publishFrame
  <2>2. PollerTypeOK'
    BY <1>0, LoopType
       DEF BeginRenames, Goto, TotalsDone, discoveryVars, publishFrame, PollTypes,
           PollerTypeOK, LoopTypeOK, Labels
  <2> QED
    BY <2>1, <2>2 DEF PollTypes
<1>2. Cursors'
  BY <1>0
     DEF Cursors, BeginRenames, Goto, TotalsDone, publishFrame, discoveryVars,
         OutletCount
<1>3. NamesWithin'
  BY <1>0
     DEF NamesWithin, BeginRenames, Goto, TotalsDone, publishFrame,
         discoveryVars, OutletCount
<1>4. PassProgress'
  BY <1>0
     DEF PassProgress, AnnouncedWhole, BeginRenames, Goto, TotalsDone, mqttVars,
         discoveryVars, Entity, linkVars, Delivered
<1>5. AnnouncedWhole'
  BY <1>0
     DEF AnnouncedWhole, BeginRenames, Goto, TotalsDone, mqttVars,
         discoveryVars, Entity, linkVars, Delivered
<1> QED
  BY <1>1, <1>2, <1>3, <1>4, <1>5 DEF PollerInv

\* The cycle ends without discovery.
LEMMA NoDiscoveryStep == PollerInv /\ NoDiscovery => PollerInv'
<1> SUFFICES ASSUME PollerInv, NoDiscovery PROVE PollerInv'
  OBVIOUS
<1>0. PollTypes /\ Cursors /\ NamesWithin /\ PassProgress /\ AnnouncedWhole
  BY DEF PollerInv
<1>1. PollTypes'
  <2>1. PduTypeOK' /\ MqttTypeOK'
    BY <1>0, OthersTyped DEF NoDiscovery, publishFrame
  <2>2. PollerTypeOK'
    BY <1>0, LoopType
       DEF NoDiscovery, CycleSucceeds, CycleEnds, TotalsDone, NoReadings,
           discoveryVars, publishFrame, PollTypes, PollerTypeOK, LoopTypeOK, Labels
  <2> QED
    BY <2>1, <2>2 DEF PollTypes
<1>2. Cursors'
  BY <1>0
     DEF Cursors, NoDiscovery, CycleSucceeds, CycleEnds, TotalsDone, NoReadings,
         publishFrame, discoveryVars, OutletCount
<1>3. NamesWithin'
  BY <1>0
     DEF NamesWithin, NoDiscovery, CycleSucceeds, CycleEnds, TotalsDone,
         NoReadings, publishFrame, discoveryVars, OutletCount
<1>4. PassProgress'
  BY <1>0
     DEF PassProgress, NoDiscovery, CycleSucceeds, CycleEnds, TotalsDone,
         NoReadings, mqttVars, discoveryVars, Entity, linkVars, Delivered
<1>5. AnnouncedWhole'
  BY <1>0
     DEF AnnouncedWhole, NoDiscovery, CycleSucceeds, CycleEnds, TotalsDone,
         NoReadings, mqttVars, discoveryVars, Entity, linkVars, Delivered
<1> QED
  BY <1>1, <1>2, <1>3, <1>4, <1>5 DEF PollerInv

\* The full pass begins under the id derived from this poll.
LEMMA BeginDiscoveryStep == PollerInv /\ BeginDiscovery => PollerInv'
<1> SUFFICES ASSUME PollerInv, BeginDiscovery PROVE PollerInv'
  OBVIOUS
<1>0. PollTypes /\ Cursors /\ NamesWithin /\ PassProgress /\ AnnouncedWhole
  BY DEF PollerInv
<1>1. PollTypes'
  <2>1. PduTypeOK' /\ MqttTypeOK'
    BY <1>0, OthersTyped DEF BeginDiscovery, publishFrame
  <2>2. PollerTypeOK'
    <3>1. device_id' \in DeviceIds
      BY <1>0, SnapshotFacts, DeriveType
         DEF BeginDiscovery, TotalsDone, PollSnapshot
    <3> QED
      BY <1>0, <3>1, LoopType
         DEF BeginDiscovery, TotalsDone, publishFrame, PollTypes, PollerTypeOK,
             LoopTypeOK, Labels
  <2> QED
    BY <2>1, <2>2 DEF PollTypes
<1>2. Cursors'
  <2>1. device_id' # None
    BY <1>0, SnapshotFacts, DeriveType, DiscoveryAssumption
       DEF BeginDiscovery, TotalsDone, PollSnapshot
  <2> QED
    BY <1>0, <2>1
       DEF Cursors, BeginDiscovery, TotalsDone, Goto, publishFrame, OutletCount
<1>3. NamesWithin'
  BY <1>0
     DEF NamesWithin, BeginDiscovery, Goto, TotalsDone, publishFrame,
         discoveryVars, OutletCount
<1>4. PassProgress'
  BY <1>0
     DEF PassProgress, BeginDiscovery, Goto, PollTypes, PollerTypeOK, LoopTypeOK,
         Delivered
<1>5. AnnouncedWhole'
  BY DEF AnnouncedWhole, BeginDiscovery, Delivered
<1> QED
  BY <1>1, <1>2, <1>3, <1>4, <1>5 DEF PollerInv

\* The last legacy topic is emptied.
LEMMA EndLegacyStep == PollerInv /\ EndLegacy => PollerInv'
<1> SUFFICES ASSUME PollerInv, EndLegacy PROVE PollerInv'
  OBVIOUS
<1>0. PollTypes /\ Cursors /\ NamesWithin /\ PassProgress /\ AnnouncedWhole
  BY DEF PollerInv
<1>1. PollTypes'
  <2>1. PduTypeOK' /\ MqttTypeOK'
    BY <1>0, OthersTyped DEF EndLegacy, publishFrame
  <2>2. PollerTypeOK'
    BY <1>0, LoopType
       DEF EndLegacy, publishFrame, PollTypes, PollerTypeOK, LoopTypeOK, Labels
  <2> QED
    BY <2>1, <2>2 DEF PollTypes
<1>2. Cursors'
  BY <1>0 DEF Cursors, EndLegacy, Goto, publishFrame, discoveryVars, OutletCount
<1>3. NamesWithin'
  BY <1>0
     DEF NamesWithin, EndLegacy, Goto, publishFrame, discoveryVars, OutletCount
<1>4. PassProgress'
  BY <1>0 DEF PassProgress, EndLegacy, Goto, mqttVars, discoveryVars, Entity,
              linkVars, Delivered
<1>5. AnnouncedWhole'
  BY <1>0 DEF AnnouncedWhole, EndLegacy, mqttVars, Entity, linkVars, Delivered
<1> QED
  BY <1>1, <1>2, <1>3, <1>4, <1>5 DEF PollerInv

\* The pass over the outlets is complete.
LEMMA EndOutletsStep == PollerInv /\ EndOutlets => PollerInv'
<1> SUFFICES ASSUME PollerInv, EndOutlets PROVE PollerInv'
  OBVIOUS
<1>0. PollTypes /\ Cursors /\ NamesWithin /\ PassProgress /\ AnnouncedWhole
  BY DEF PollerInv
<1>1. PollTypes'
  <2>1. PduTypeOK' /\ MqttTypeOK'
    BY <1>0, OthersTyped DEF EndOutlets, publishFrame
  <2>2. PollerTypeOK'
    BY <1>0, LoopType
       DEF EndOutlets, publishFrame, PollTypes, PollerTypeOK, LoopTypeOK, Labels
  <2> QED
    BY <2>1, <2>2 DEF PollTypes
<1>2. Cursors'
  BY <1>0
     DEF Cursors, EndOutlets, CycleSucceeds, CycleEnds, NoReadings,
         publishFrame, OutletCount
<1>3. NamesWithin'
  BY <1>0
     DEF NamesWithin, EndOutlets, CycleSucceeds, CycleEnds, NoReadings,
         publishFrame, discoveryVars, OutletCount
<1>4. PassProgress'
  BY DEF PassProgress, EndOutlets, CycleSucceeds, CycleEnds, Delivered
<1>5. AnnouncedWhole'
  <2>1. at > OutletCount
    BY <1>0, SnapshotFacts
       DEF EndOutlets, OutletLeft, PollTypes, PollerTypeOK, LoopTypeOK
  <2>2. ASSUME Delivered, NEW n \in Outlets, NEW e \in OutletEntities,
               published_names[n] # None
        PROVE  Entity(e, n)
    <3>1. n < at
      BY <1>0, <2>1, <2>2, SnapshotFacts
         DEF NamesWithin, EndOutlets, Outlets, PollTypes, PollerTypeOK, LoopTypeOK
    <3> QED
      BY <1>0, <2>2, <3>1 DEF PassProgress, AnnouncedWhole, EndOutlets,
                              Delivered
  <2>3. device_id \in DeviceIds
    BY <1>0 DEF Cursors, EndOutlets, PollTypes, PollerTypeOK
  <2> QED
    BY <1>0, <2>2, <2>3
       DEF AnnouncedWhole, PassProgress, EndOutlets, mqttVars, Entity, linkVars,
           Delivered
<1> QED
  BY <1>1, <1>2, <1>3, <1>4, <1>5 DEF PollerInv

\* The walk.
LEMMA DiscoverOutletCountStep == PollerInv /\ DiscoverOutletCount => PollerInv'
<1> SUFFICES ASSUME PollerInv, DiscoverOutletCount PROVE PollerInv'
  OBVIOUS
<1>0. PollTypes /\ Cursors /\ NamesWithin /\ PassProgress /\ AnnouncedWhole
  BY DEF PollerInv
<1>1. PollTypes'
  <2>1. PduTypeOK' /\ MqttTypeOK'
    BY <1>0, OthersTyped DEF DiscoverOutletCount, publishFrame
  <2>2. PollerTypeOK'
    <3>1. outlet_count_cached' \in Outlets \cup {None}
      BY <1>0, WalkType, PduAssumption
         DEF DiscoverOutletCount, Outlets, PollTypes, PollerTypeOK
    <3> QED
      BY <1>0, <3>1, LoopType
         DEF DiscoverOutletCount, discoveryVars, PollTypes, PollerTypeOK,
             LoopTypeOK, Labels
  <2> QED
    BY <2>1, <2>2 DEF PollTypes
<1>2. Cursors'
  BY <1>0
     DEF Cursors, DiscoverOutletCount, Goto, CycleFails, CycleEnds, NoReadings,
         publishFrame, discoveryVars, OutletCount
<1>3. NamesWithin'
  <2>1. outlet_count_cached = None
    BY <1>0 DEF DiscoverOutletCount, Cursors
  <2>2. \A n \in Outlets : published_names[n] = None
    BY <1>0, <2>1, PduAssumption DEF NamesWithin, OutletCount, Outlets
  <2> QED
    BY <2>2 DEF NamesWithin, DiscoverOutletCount, discoveryVars
<1>4. PassProgress'
  BY <1>0
     DEF PassProgress, DiscoverOutletCount, Goto, CycleFails, CycleEnds,
         NoReadings, mqttVars, discoveryVars, Entity, linkVars, Delivered
<1>5. AnnouncedWhole'
  BY <1>0
     DEF AnnouncedWhole, DiscoverOutletCount, Goto, CycleFails, CycleEnds,
         NoReadings, mqttVars, discoveryVars, Entity, linkVars, Delivered
<1> QED
  BY <1>1, <1>2, <1>3, <1>4, <1>5 DEF PollerInv

\* An outlet state is published.
LEMMA PublishStateStep == PollerInv /\ PublishState => PollerInv'
<1> SUFFICES ASSUME PollerInv, PublishState PROVE PollerInv'
  OBVIOUS
<1>0. PollTypes /\ Cursors /\ NamesWithin /\ PassProgress /\ AnnouncedWhole
  BY DEF PollerInv
<1>1. PollTypes'
  <2>1. PduTypeOK'
    BY <1>0, OthersTyped DEF PublishState, publishFrame
  <2>2. MqttTypeOK'
    <3> DEFINE after == [retained EXCEPT !.state[at] = PolledOutlets[at].state]
    <3>1. at \in 1 .. OutletCount
      BY <1>0, SnapshotFacts
         DEF PublishState, OutletLeft, PollTypes, PollerTypeOK, LoopTypeOK
    <3>2. at \in Outlets /\ PolledOutlets[at].state \in OutletState
      BY <1>0, <3>1, SnapshotFacts DEF PublishState, OutletReading
    <3>7. after \in Retained
      BY <1>0, <3>2 DEF PollTypes, MqttTypeOK, Retained
    <3>8. retained' \in {retained, after} /\ UNCHANGED linkVars
      BY DEF PublishState, Publish, Handed, linkVars
    <3> QED
      BY <1>0, <3>7, <3>8 DEF MqttTypeOK, PollTypes, linkVars
  <2>3. PollerTypeOK'
    <3>1. at + 1 \in Nat \ {0}
      BY <1>0 DEF PollTypes, PollerTypeOK, LoopTypeOK
    <3>2. Goto("states", at + 1) \/ CycleFails
      BY DEF PublishState, Publish, Handed, linkVars
    <3> QED
      BY <1>0, <3>1, <3>2, LoopType
         DEF PublishState, publishFrame, discoveryVars, PollerTypeOK, PollTypes,
             Labels
  <2> QED
    BY <2>1, <2>2, <2>3 DEF PollTypes
<1>2. Cursors'
  BY <1>0
     DEF Cursors, PublishState, Publish, Goto, CycleFails, CycleEnds,
         publishFrame, discoveryVars, OutletCount, NoReadings, Handed, linkVars
<1>3. NamesWithin'
  BY <1>0
     DEF NamesWithin, PublishState, publishFrame, discoveryVars, OutletCount
<1>4. PassProgress'
  BY <1>0
     DEF PassProgress, PublishState, Publish, Goto, CycleFails, CycleEnds,
         discoveryVars, Entity, PollTypes, MqttTypeOK, Retained, Handed,
         linkVars, Delivered
<1>5. AnnouncedWhole'
  BY <1>0
     DEF AnnouncedWhole, PublishState, Publish, discoveryVars, Entity, PollTypes,
         MqttTypeOK, Retained, Handed, linkVars, Delivered
<1> QED
  BY <1>1, <1>2, <1>3, <1>4, <1>5 DEF PollerInv

\* A total is published.
LEMMA PublishTotalStep == PollerInv /\ PublishTotal => PollerInv'
<1> SUFFICES ASSUME PollerInv, PublishTotal PROVE PollerInv'
  OBVIOUS
<1>0. PollTypes /\ Cursors /\ NamesWithin /\ PassProgress /\ AnnouncedWhole
  BY DEF PollerInv
<1>1. PollTypes'
  <2>1. PduTypeOK'
    BY <1>0, OthersTyped DEF PublishTotal, publishFrame
  <2>2. MqttTypeOK'
    <3> DEFINE after == [retained EXCEPT !.total[TotalTopics[at]] = BankTotal(at)]
    <3>1. at \in 1 .. 3
      BY <1>0 DEF PublishTotal, TotalTopics, PollTypes, PollerTypeOK, LoopTypeOK
    <3>2. BankTotal(at) \in Nat \cup {None} /\ TotalTopics[at] \in TotalName
      BY <1>0, <3>1, SnapshotFacts, BankTotalType DEF PublishTotal
    <3>7. after \in Retained
      BY <1>0, <3>2 DEF PollTypes, MqttTypeOK, Retained
    <3>8. retained' \in {retained, after} /\ UNCHANGED linkVars
      BY DEF PublishTotal, Publish, Handed, linkVars
    <3> QED
      BY <1>0, <3>7, <3>8 DEF MqttTypeOK, PollTypes, linkVars
  <2>3. PollerTypeOK'
    <3>1. at + 1 \in Nat \ {0}
      BY <1>0 DEF PollTypes, PollerTypeOK, LoopTypeOK
    <3>2. Goto("totals", at + 1) \/ CycleFails
      BY DEF PublishTotal, Publish, Handed, linkVars
    <3> QED
      BY <1>0, <3>1, <3>2, LoopType
         DEF PublishTotal, publishFrame, discoveryVars, PollerTypeOK, PollTypes,
             Labels
  <2> QED
    BY <2>1, <2>2, <2>3 DEF PollTypes
<1>2. Cursors'
  BY <1>0
     DEF Cursors, PublishTotal, Publish, Goto, CycleFails, CycleEnds,
         publishFrame, discoveryVars, OutletCount, NoReadings, Handed, linkVars
<1>3. NamesWithin'
  BY <1>0
     DEF NamesWithin, PublishTotal, publishFrame, discoveryVars, OutletCount
<1>4. PassProgress'
  BY <1>0
     DEF PassProgress, PublishTotal, Publish, Goto, CycleFails, CycleEnds,
         discoveryVars, Entity, PollTypes, MqttTypeOK, Retained, Handed,
         linkVars, Delivered
<1>5. AnnouncedWhole'
  BY <1>0
     DEF AnnouncedWhole, PublishTotal, Publish, discoveryVars, Entity, PollTypes,
         MqttTypeOK, Retained, Handed, linkVars, Delivered
<1> QED
  BY <1>1, <1>2, <1>3, <1>4, <1>5 DEF PollerInv

\* A legacy topic is emptied.
LEMMA RetireLegacyStep == PollerInv /\ RetireLegacy => PollerInv'
<1> SUFFICES ASSUME PollerInv, RetireLegacy PROVE PollerInv'
  OBVIOUS
<1>0. PollTypes /\ Cursors /\ NamesWithin /\ PassProgress /\ AnnouncedWhole
  BY DEF PollerInv
<1>1. PollTypes'
  <2>1. PduTypeOK'
    BY <1>0, OthersTyped DEF RetireLegacy, publishFrame
  <2>2. MqttTypeOK'
    <3> DEFINE after == [retained EXCEPT !.legacy = @ \ {<<device_id, at>>}]
    <3>7. after \in Retained
      BY <1>0 DEF PollTypes, MqttTypeOK, Retained
    <3>8. retained' \in {retained, after} /\ UNCHANGED linkVars
      BY DEF RetireLegacy, Publish, Handed, linkVars
    <3> QED
      BY <1>0, <3>7, <3>8 DEF MqttTypeOK, PollTypes, linkVars
  <2>3. PollerTypeOK'
    <3>1. at + 1 \in Nat \ {0}
      BY <1>0 DEF PollTypes, PollerTypeOK, LoopTypeOK
    <3>2. Goto("legacy", at + 1) \/ CycleFails
      BY DEF RetireLegacy, Publish, Handed, linkVars
    <3> QED
      BY <1>0, <3>1, <3>2, LoopType
         DEF RetireLegacy, publishFrame, discoveryVars, PollerTypeOK, PollTypes,
             Labels
  <2> QED
    BY <2>1, <2>2, <2>3 DEF PollTypes
<1>2. Cursors'
  BY <1>0
     DEF Cursors, RetireLegacy, Publish, Goto, CycleFails, CycleEnds,
         publishFrame, discoveryVars, OutletCount, NoReadings, Handed, linkVars
<1>3. NamesWithin'
  BY <1>0
     DEF NamesWithin, RetireLegacy, publishFrame, discoveryVars, OutletCount
<1>4. PassProgress'
  BY <1>0
     DEF PassProgress, RetireLegacy, Publish, Goto, CycleFails, CycleEnds,
         discoveryVars, Entity, PollTypes, MqttTypeOK, Retained, Handed,
         linkVars, Delivered
<1>5. AnnouncedWhole'
  BY <1>0
     DEF AnnouncedWhole, RetireLegacy, Publish, discoveryVars, Entity, PollTypes,
         MqttTypeOK, Retained, Handed, linkVars, Delivered
<1> QED
  BY <1>1, <1>2, <1>3, <1>4, <1>5 DEF PollerInv

\* A sensor is announced.
LEMMA PublishSensorStep == PollerInv /\ PublishSensor => PollerInv'
<1> SUFFICES ASSUME PollerInv, PublishSensor PROVE PollerInv'
  OBVIOUS
<1>0. PollTypes /\ Cursors /\ NamesWithin /\ PassProgress /\ AnnouncedWhole
  BY DEF PollerInv
<1>1. PollTypes'
  <2>1. PduTypeOK'
    BY <1>0, OthersTyped DEF PublishSensor, publishFrame
  <2>2. MqttTypeOK'
    <3> DEFINE after ==
          [retained EXCEPT !.sensor = @ \cup {<<device_id, TotalTopics[at]>>}]
    <3>1. at \in 1 .. 3
      BY <1>0 DEF PublishSensor, TotalTopics, PollTypes, PollerTypeOK, LoopTypeOK
    <3>2. TotalTopics[at] \in TotalName /\ device_id \in DeviceIds
      BY <1>0, <3>1 DEF PublishSensor, TotalName, Cursors, PollTypes, PollerTypeOK
    <3>7. after \in Retained
      BY <1>0, <3>2 DEF PollTypes, MqttTypeOK, Retained
    <3>8. retained' \in {retained, after} /\ UNCHANGED linkVars
      BY DEF PublishSensor, Publish, Handed, linkVars
    <3> QED
      BY <1>0, <3>7, <3>8 DEF MqttTypeOK, PollTypes, linkVars
  <2>3. PollerTypeOK'
    <3>1. at + 1 \in Nat \ {0}
      BY <1>0 DEF PollTypes, PollerTypeOK, LoopTypeOK
    <3>2. Goto("sensors", at + 1) \/ CycleFails
      BY DEF PublishSensor, Publish, Handed, linkVars
    <3> QED
      BY <1>0, <3>1, <3>2, LoopType
         DEF PublishSensor, publishFrame, discoveryVars, PollerTypeOK, PollTypes,
             Labels
  <2> QED
    BY <2>1, <2>2, <2>3 DEF PollTypes
<1>2. Cursors'
  BY <1>0
     DEF Cursors, PublishSensor, Publish, Goto, CycleFails, CycleEnds,
         publishFrame, discoveryVars, OutletCount, NoReadings, Handed, linkVars
<1>3. NamesWithin'
  BY <1>0
     DEF NamesWithin, PublishSensor, publishFrame, discoveryVars, OutletCount
<1>4. PassProgress'
  <2> SUFFICES ASSUME Delivered' PROVE PassProgress'
    BY DEF PassProgress
  <2>0. Delivered
    BY DEF PublishSensor, Publish, Delivered, linkVars
  <2>2. CASE CycleFails
    BY <2>2 DEF CycleFails, CycleEnds, PassProgress, Delivered
  <2>3. CASE /\ Goto("sensors", at + 1)
             /\ retained' =
                  [retained EXCEPT !.sensor = @ \cup {<<device_id, TotalTopics[at]>>}]
    <3>1. retained'.sensor = retained.sensor \cup {<<device_id, TotalTopics[at]>>}
      BY <1>0, <2>3 DEF PollTypes, MqttTypeOK, Retained
    <3>2. ASSUME NEW k \in 1 .. 3, k < at + 1
          PROVE  <<device_id, TotalTopics[k]>> \in retained'.sensor
      <4>1. CASE k = at
        BY <3>1, <4>1
      <4>2. CASE k < at
        BY <1>0, <2>0, <3>1, <4>2 DEF PassProgress, PublishSensor
      <4> QED
        BY <1>0, <3>2, <4>1, <4>2 DEF PollTypes, PollerTypeOK, LoopTypeOK
    <3> QED
      BY <2>3, <3>2 DEF PassProgress, PublishSensor, Goto, discoveryVars,
                        Delivered
  <2> QED
    BY <2>0, <2>2, <2>3 DEF PublishSensor, Publish, Handed, Delivered
<1>5. AnnouncedWhole'
  BY <1>0
     DEF AnnouncedWhole, PublishSensor, Publish, discoveryVars, Entity, PollTypes,
         MqttTypeOK, Retained, Handed, linkVars, Delivered
<1> QED
  BY <1>1, <1>2, <1>3, <1>4, <1>5 DEF PollerInv

\* Announcing entity e of the outlet the loop is at adds it and takes nothing
\* else away.
LEMMA AnnouncedEffect ==
  ASSUME PollerInv, pc \in {"switch", "button"}, at \in 1 .. OutletCount,
         NEW e \in OutletEntities
  PROVE  /\ Announced(e, at) \in Retained
         /\ Announced(e, at).sensor = retained.sensor
         /\ Announced(e, at).config[<<device_id, e, at>>] # None
         /\ \A t \in ConfigTopics :
              retained.config[t] # None => Announced(e, at).config[t] # None
         /\ <<device_id, e, at>> \in ConfigTopics
<1>1. PollTypes /\ Cursors
  BY DEF PollerInv
<1>2. at \in Outlets /\ PolledOutlets[at] \in OutletReading
  BY <1>1, SnapshotFacts
<1>3. DisplayName(PolledOutlets[at].name) \in Names \cup {Unnamed}
      /\ DisplayName(PolledOutlets[at].name) # None
  BY <1>2, DisplayNameType DEF OutletReading
<1>4. <<device_id, e, at>> \in ConfigTopics
  BY <1>1, <1>2 DEF ConfigTopics, Cursors, PollTypes, PollerTypeOK
<1>5. retained \in Retained
  BY <1>1 DEF PollTypes, MqttTypeOK
<1>6. Announced(e, at).config =
        [retained.config EXCEPT ![<<device_id, e, at>>] =
           DisplayName(PolledOutlets[at].name)]
      /\ Announced(e, at).sensor = retained.sensor
  BY <1>5 DEF Announced, Retained
<1>7. Announced(e, at) \in Retained
  BY <1>3, <1>4, <1>5 DEF Announced, Retained
<1>8. retained.config \in [ConfigTopics -> Names \cup {Unnamed, None}]
  BY <1>5 DEF Retained
<1> QED
  BY <1>3, <1>4, <1>6, <1>7, <1>8

\* The switch of an outlet is announced.
LEMMA PublishSwitchStep == PollerInv /\ PublishSwitch => PollerInv'
<1> SUFFICES ASSUME PollerInv, PublishSwitch PROVE PollerInv'
  OBVIOUS
<1>0. PollTypes /\ Cursors /\ NamesWithin /\ PassProgress /\ AnnouncedWhole
  BY DEF PollerInv
<1>a. at \in 1 .. OutletCount /\ "switch" \in OutletEntities
  BY <1>0, SnapshotFacts
     DEF PublishSwitch, OutletLeft, Cursors, OutletEntities, PollTypes,
         PollerTypeOK, LoopTypeOK
<1>b. /\ Announced("switch", at) \in Retained
      /\ Announced("switch", at).sensor = retained.sensor
      /\ Announced("switch", at).config[<<device_id, "switch", at>>] # None
      /\ \A t \in ConfigTopics :
           retained.config[t] # None => Announced("switch", at).config[t] # None
  BY <1>0, <1>a, AnnouncedEffect DEF PublishSwitch, PollerInv
<1>c. /\ retained' \in {retained, Announced("switch", at)}
      /\ UNCHANGED <<linkVars, device_id, discovery_published>>
  BY DEF PublishSwitch, Publish, discoveryVars, Handed, linkVars
<1>d. ASSUME NEW d \in OutletEntities, NEW n \in Outlets, Entity(d, n),
             device_id \in DeviceIds
      PROVE  Entity(d, n)'
  BY <1>b, <1>c, <1>d DEF Entity, ConfigTopics
<1>e. retained'.sensor = retained.sensor
  BY <1>b, <1>c
<1>1. PollTypes'
  <2>1. PduTypeOK'
    BY <1>0, OthersTyped DEF PublishSwitch, publishFrame
  <2>2. MqttTypeOK'
    BY <1>0, <1>b, <1>c DEF MqttTypeOK, PollTypes, linkVars
  <2>3. PollerTypeOK'
    <3>2. Goto("button", at) \/ CycleFails
      BY DEF PublishSwitch, Publish, Handed, linkVars
    <3> QED
      BY <1>0, <3>2, LoopType
         DEF PublishSwitch, publishFrame, discoveryVars, PollerTypeOK,
             LoopTypeOK, PollTypes, Labels
  <2> QED
    BY <2>1, <2>2, <2>3 DEF PollTypes
<1>2. Cursors'
  BY <1>0, <1>a
     DEF Cursors, PublishSwitch, Publish, Goto, CycleFails, CycleEnds,
         publishFrame, discoveryVars, OutletCount, NoReadings, Handed, linkVars
<1>3. NamesWithin'
  BY <1>0
     DEF NamesWithin, PublishSwitch, publishFrame, discoveryVars, OutletCount
<1>4. PassProgress'
  <2> SUFFICES ASSUME Delivered' PROVE PassProgress'
    BY DEF PassProgress
  <2>0. Delivered
    BY DEF PublishSwitch, Publish, Delivered, linkVars
  <2>1. CASE CycleFails
    BY <2>1 DEF CycleFails, CycleEnds, PassProgress, Delivered
  <2>2. CASE Goto("button", at) /\ retained' = Announced("switch", at)
    <3>1. Entity("switch", at)'
      BY <1>b, <1>c, <2>2 DEF Entity, Goto
    <3>2. device_id \in DeviceIds
      BY <1>0 DEF Cursors, PublishSwitch, PollTypes, PollerTypeOK
    <3> QED
      BY <1>0, <1>c, <1>d, <1>e, <2>0, <2>2, <3>1, <3>2
         DEF PassProgress, PublishSwitch, Goto
  <2> QED
    BY <2>0, <2>1, <2>2 DEF PublishSwitch, Publish, Handed, Delivered
<1>5. AnnouncedWhole'
  BY <1>0, <1>c, <1>d, <1>e DEF AnnouncedWhole, PublishSwitch, discoveryVars,
                                Delivered, linkVars
<1> QED
  BY <1>1, <1>2, <1>3, <1>4, <1>5 DEF PollerInv

\* The button of an outlet is announced.
LEMMA PublishButtonStep == PollerInv /\ PublishButton => PollerInv'
<1> SUFFICES ASSUME PollerInv, PublishButton PROVE PollerInv'
  OBVIOUS
<1>0. PollTypes /\ Cursors /\ NamesWithin /\ PassProgress /\ AnnouncedWhole
  BY DEF PollerInv
<1>a. at \in 1 .. OutletCount /\ "button" \in OutletEntities
  BY <1>0, SnapshotFacts
     DEF PublishButton, OutletLeft, Cursors, OutletEntities, PollTypes,
         PollerTypeOK, LoopTypeOK
<1>b. /\ Announced("button", at) \in Retained
      /\ Announced("button", at).sensor = retained.sensor
      /\ Announced("button", at).config[<<device_id, "button", at>>] # None
      /\ \A t \in ConfigTopics :
           retained.config[t] # None => Announced("button", at).config[t] # None
  BY <1>0, <1>a, AnnouncedEffect DEF PublishButton, PollerInv
<1>c. /\ retained' \in {retained, Announced("button", at)}
      /\ UNCHANGED <<linkVars, device_id, discovery_published>>
  BY DEF PublishButton, Publish, discoveryVars, Handed, linkVars
<1>d. ASSUME NEW d \in OutletEntities, NEW n \in Outlets, Entity(d, n),
             device_id \in DeviceIds
      PROVE  Entity(d, n)'
  BY <1>b, <1>c, <1>d DEF Entity, ConfigTopics
<1>e. retained'.sensor = retained.sensor
  BY <1>b, <1>c
<1>f. ASSUME Delivered, NEW n \in Outlets, n = at, NEW d \in OutletEntities,
             retained' = Announced("button", at)
      PROVE  Entity(d, n)'
  <2>1. device_id \in DeviceIds
    BY <1>0 DEF Cursors, PublishButton, PollTypes, PollerTypeOK
  <2>2. CASE d = "button"
    BY <1>b, <1>c, <1>f, <2>2 DEF Entity
  <2>3. CASE d = "switch"
    BY <1>0, <1>d, <1>f, <2>1, <2>3 DEF PassProgress, PublishButton, Delivered
  <2> QED
    BY <2>2, <2>3 DEF OutletEntities
<1>1. PollTypes'
  <2>1. PduTypeOK'
    BY <1>0, OthersTyped DEF PublishButton, publishFrame
  <2>2. MqttTypeOK'
    BY <1>0, <1>b, <1>c DEF MqttTypeOK, PollTypes, linkVars
  <2>3. PollerTypeOK'
    <3>1. at + 1 \in Nat \ {0}
      BY <1>0 DEF PollTypes, PollerTypeOK, LoopTypeOK
    <3>2. Goto("switch", at + 1) \/ CycleFails
      BY DEF PublishButton, Publish, Handed, linkVars
    <3>3. published_names' \in [Outlets -> Names \cup {None}]
      BY <1>0, <1>a, SnapshotFacts
         DEF PublishButton, Publish, OutletReading, PollTypes, PollerTypeOK,
             Handed, linkVars
    <3> QED
      BY <1>0, <3>1, <3>2, <3>3, LoopType
         DEF PublishButton, publishFrame, discoveryVars, PollerTypeOK, PollTypes,
             Labels
  <2> QED
    BY <2>1, <2>2, <2>3 DEF PollTypes
<1>2. Cursors'
  BY <1>0, <1>a
     DEF Cursors, PublishButton, Publish, Goto, CycleFails, CycleEnds,
         publishFrame, discoveryVars, OutletCount, NoReadings, Handed, linkVars
<1>3. NamesWithin'
  BY <1>0, <1>a
     DEF NamesWithin, PublishButton, Publish, publishFrame, discoveryVars,
         OutletCount, PollTypes, PollerTypeOK, Handed, linkVars
<1>4. PassProgress'
  <2> SUFFICES ASSUME Delivered' PROVE PassProgress'
    BY DEF PassProgress
  <2>0. Delivered
    BY DEF PublishButton, Publish, Delivered, linkVars
  <2>1. CASE CycleFails
    BY <2>1 DEF CycleFails, CycleEnds, PassProgress, Delivered
  <2>2. CASE Goto("switch", at + 1) /\ retained' = Announced("button", at)
    <3>1. device_id \in DeviceIds
      BY <1>0 DEF Cursors, PublishButton, PollTypes, PollerTypeOK
    <3>2. ASSUME ~discovery_published, NEW n \in Outlets, NEW d \in OutletEntities,
                 n < at + 1
          PROVE  Entity(d, n)'
      <4>1. CASE n = at
        BY <1>f, <2>0, <2>2, <4>1
      <4>2. CASE n < at
        BY <1>0, <1>d, <2>0, <3>1, <3>2, <4>2 DEF PassProgress, PublishButton
      <4> QED
        BY <1>0, <3>2, <4>1, <4>2 DEF Outlets, PollTypes, PollerTypeOK, LoopTypeOK
    <3> QED
      BY <1>0, <1>c, <1>e, <2>0, <2>2, <3>2 DEF PassProgress, PublishButton, Goto
  <2> QED
    BY <2>0, <2>1, <2>2 DEF PublishButton, Publish, Handed, Delivered
<1>5. AnnouncedWhole'
  <2>0. device_id \in DeviceIds
    BY <1>0 DEF Cursors, PublishButton, PollTypes, PollerTypeOK
  <2>1. CASE UNCHANGED published_names
    BY <1>0, <1>c, <1>d, <1>e, <2>1 DEF AnnouncedWhole, Delivered, linkVars
  <2>2. CASE /\ retained' = Announced("button", at)
             /\ published_names' =
                  [published_names EXCEPT ![at] = PolledOutlets[at].name]
    <3>1. ASSUME Delivered, discovery_published,
                 NEW n \in Outlets, NEW d \in OutletEntities,
                 published_names'[n] # None
          PROVE  Entity(d, n)'
      <4>1. CASE n = at
        BY <1>f, <2>2, <3>1, <4>1
      <4>2. CASE n # at
        <5>1. published_names[n] # None
          BY <1>0, <2>2, <3>1, <4>2 DEF PollTypes, PollerTypeOK
        <5> QED
          BY <1>0, <1>d, <3>1, <5>1 DEF AnnouncedWhole
      <4> QED
        BY <4>1, <4>2
    <3> QED
      BY <1>0, <1>c, <1>e, <2>0, <3>1 DEF AnnouncedWhole, Delivered, linkVars
  <2>3. CASE ~Delivered /\ UNCHANGED retained
    BY <1>c, <2>0, <2>3 DEF AnnouncedWhole, Delivered, linkVars
  <2> QED
    BY <2>1, <2>2, <2>3 DEF PublishButton, Publish, Handed, Delivered
<1> QED
  BY <1>1, <1>2, <1>3, <1>4, <1>5 DEF PollerInv

\* stop() is called.
LEMMA RequestStopStep == PollerInv /\ RequestStop => PollerInv'
<1> SUFFICES ASSUME PollerInv, RequestStop PROVE PollerInv'
  OBVIOUS
<1>1. UNCHANGED <<pduVars, mqttVars, loopVars, discoveryVars, last_snapshot,
                  outlet_count_cached>>
      /\ stop_event' \in BOOLEAN
  BY DEF RequestStop
<1>2. PollTypes'
  BY <1>1, OthersTyped
     DEF PollerInv, PollTypes, PollerTypeOK, LoopTypeOK, loopVars, discoveryVars
<1> QED
  BY <1>1, <1>2
     DEF PollerInv, Cursors, NamesWithin, PassProgress, AnnouncedWhole, OutletCount,
         Entity,
         loopVars, discoveryVars, mqttVars, linkVars, Delivered

\* The task is cancelled.
LEMMA CancelStep == PollerInv /\ Cancel => PollerInv'
<1> SUFFICES ASSUME PollerInv, Cancel PROVE PollerInv'
  OBVIOUS
<1>1. PollTypes'
  BY OthersTyped
     DEF PollerInv, Cancel, PollTypes, PollerTypeOK, LoopTypeOK, Labels, discoveryVars
<1> QED
  BY <1>1
     DEF Cancel, PollerInv, Cursors, NamesWithin, PassProgress, AnnouncedWhole,
         OutletCount,
         Entity, discoveryVars, mqttVars, linkVars, Delivered

-------------------------------------------------------------------------------
(***************************************************************************)
(* Each step of the others preserves it: they may touch the PDU, the state *)
(* topics and the shared event, but not what the poller has announced.     *)
(***************************************************************************)
\* A poller that has not begun its first cycle.
NotBegun == pc = "jitter" /\ ~discovery_published /\ ~legacy_discovery_retired

\* A step outside the poller, of whatever kind.
LEMMA OutsideStep ==
  ASSUME PollerInv, PduTypeOK', MqttTypeOK', immediate_event' \in BOOLEAN,
         UNCHANGED pollerOwn,
         conn' = "up" => conn = "up" \/ NotBegun,
         retained'.sensor = retained.sensor, retained'.config = retained.config
  PROVE  PollerInv'
<1>1. PollTypes'
  BY DEF PollerInv, PollTypes, PollerTypeOK, LoopTypeOK, pollerOwn, discoveryVars
<1> QED
  BY <1>1
     DEF PollerInv, Cursors, NamesWithin, PassProgress, AnnouncedWhole, OutletCount,
         Entity, pollerOwn, discoveryVars, Delivered, NotBegun

\* The PDU changes by itself (Toggle, Rename, GoDark, Sequence, Settle).
LEMMA PduStep ==
  PollerInv /\ PduNext /\ UNCHANGED <<mqttVars, pollerVars>> => PollerInv'
<1> SUFFICES ASSUME PollerInv, PduNext, UNCHANGED <<mqttVars, pollerVars>>
             PROVE  PollerInv'
  OBVIOUS
<1>0. PollTypes /\ PduTypeOK /\ immediate_event \in BOOLEAN
  BY DEF PollerInv, PollTypes, PollerTypeOK, LoopTypeOK
<1>1. PduTypeOK'
  <2>1. ASSUME NEW n \in Outlets, Toggle(n) PROVE PduTypeOK'
    BY <1>0, <2>1 DEF Toggle, PduTypeOK
  <2>2. ASSUME NEW n \in Outlets, Rename(n) PROVE PduTypeOK'
    BY <1>0, <2>2 DEF Rename, PduTypeOK
  <2>3. ASSUME NEW n \in Outlets, Sequence(n) PROVE PduTypeOK'
    BY <1>0, <2>3 DEF Sequence, PduTypeOK
  <2>4. CASE GoDark \/ Settle
    BY <1>0, <2>4 DEF GoDark, Settle, PduTypeOK
  <2> QED
    BY <2>1, <2>2, <2>3, <2>4 DEF PduNext
<1> QED
  BY <1>0, <1>1, OthersTyped, OutsideStep
     DEF pollerVars, loopVars, pollerOwn, mqttVars, linkVars

\* What becomes of the connection touches the availability topic only.
LEMMA LinkFrame ==
  ASSUME MqttTypeOK, LinkNext
  PROVE  /\ MqttTypeOK'
         /\ conn' = "up" => conn = "up"
         /\ \A field \in {"state", "total", "sensor", "config", "legacy"} :
              retained'[field] = retained[field]
BY DEF LinkNext, Disconnect, LoseTouch, PingUnanswered, KeepaliveExpires, Available,
       MqttTypeOK, Retained

\* The connection breaks, or one of its sides finds out.
LEMMA LinkStep ==
  PollerInv /\ LinkNext /\ UNCHANGED <<pduVars, pollerVars>> => PollerInv'
<1> SUFFICES ASSUME PollerInv, LinkNext, UNCHANGED <<pduVars, pollerVars>>
             PROVE  PollerInv'
  OBVIOUS
<1>0. PollTypes /\ MqttTypeOK /\ immediate_event \in BOOLEAN
  BY DEF PollerInv, PollTypes, PollerTypeOK, LoopTypeOK
<1>1. /\ MqttTypeOK' /\ (conn' = "up" => conn = "up")
      /\ retained'.sensor = retained.sensor /\ retained'.config = retained.config
  BY <1>0, LinkFrame
<1> QED
  BY <1>0, <1>1, OthersTyped, OutsideStep
     DEF pollerVars, loopVars, pollerOwn

\* Nothing the invariant speaks of changes.
LEMMA StutterStep ==
  PollerInv /\ UNCHANGED <<pduVars, mqttVars, pollerVars>> => PollerInv'
<1> SUFFICES ASSUME PollerInv, UNCHANGED <<pduVars, mqttVars, pollerVars>>
             PROVE  PollerInv'
  OBVIOUS
<1>1. PollTypes /\ immediate_event \in BOOLEAN
  BY DEF PollerInv, PollTypes, PollerTypeOK, LoopTypeOK
<1> QED
  BY <1>1, OthersTyped, OutsideStep DEF pollerVars, loopVars, pollerOwn, mqttVars,
                                        linkVars

-------------------------------------------------------------------------------
(***************************************************************************)
(* The two facts every composition builds on.                              *)
(***************************************************************************)
\* The invariant holds of a new poller (Poller.__init__), whatever an earlier
\* one has left at the broker.
LEMMA NewPoller == PduTypeOK /\ MqttTypeOK /\ PollerInit => PollerInv
<1> SUFFICES ASSUME PduTypeOK, MqttTypeOK, PollerInit PROVE PollerInv
  OBVIOUS
<1>1. PollerTypeOK
  <2>1. readings \in PollSnapshot
    BY NoReadingsType DEF PollerInit
  <2>2. pc \in Labels /\ state \in BridgeState
    BY DEF PollerInit, Labels, BridgeState
  <2>3. at = 1 /\ immediate_event = FALSE
    BY DEF PollerInit
  <2>4. at \in Nat \ {0}
    BY <2>3
  <2>5. immediate_event \in BOOLEAN
    BY <2>3
  <2>6. LoopTypeOK
    BY <2>1, <2>2, <2>4, <2>5 DEF LoopTypeOK
  <2> QED
    BY <2>6 DEF PollerInit, PollerTypeOK
<1>2. PollTypes
  BY <1>1 DEF PollTypes
<1> QED
  BY <1>2, NoReadingsType
     DEF PollerInit, PollerInv, Cursors, NamesWithin, PassProgress, AnnouncedWhole,
         Delivered

\* A PDU and an empty broker are of their types.
LEMMA NothingRetainedType == PduInit => PduTypeOK /\ NothingRetained \in Retained
BY DeriveType DEF PduInit, PduTypeOK, NothingRetained, Retained

\* So it holds when the bridge has started.
LEMMA InitPollerInv == PduInit /\ MqttInit /\ PollerInit => PollerInv
<1> SUFFICES ASSUME PduInit, MqttInit, PollerInit PROVE PollerInv
  OBVIOUS
<1>1. MqttTypeOK
  BY NothingRetainedType DEF MqttInit, MqttTypeOK, Retained
<1> QED
  BY <1>1, NothingRetainedType, NewPoller

\* Every step of the poller, its stop and its cancellation keep it.
LEMMA PollerNextStep == PollerInv /\ PollerNext => PollerInv'
<1> SUFFICES ASSUME PollerInv, PollerNext PROVE PollerInv'
  OBVIOUS
<1>1. CASE Wake
  BY <1>1, WakeStep
<1>2. CASE PollOnce
  BY <1>2, PollIdentityStep, DiscoverOutletCountStep, PollBankStep, PollOutletStep,
     PollDoneStep, GetRaisesStep
     DEF PollOnce
<1>3. CASE PublishValues
  BY <1>3, PublishStateStep, EndStatesStep, PublishTotalStep, SkipTotalStep,
     NoDiscoveryStep
     DEF PublishValues
<1>4. CASE PublishDiscovery
  BY <1>4, BeginDiscoveryStep, RetireLegacyStep, EndLegacyStep, PublishSensorStep,
     EndSensorsStep, BeginRenamesStep, PublishSwitchStep, PublishButtonStep,
     SkipOutletStep, EndOutletsStep
     DEF PublishDiscovery
<1>5. CASE RequestStop \/ Cancel
  BY <1>5, RequestStopStep, CancelStep
<1> QED
  BY <1>1, <1>2, <1>3, <1>4, <1>5 DEF PollerNext, Run
===============================================================================
