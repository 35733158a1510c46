------------------------------ MODULE MqttClient ------------------------------
(***************************************************************************)
(* app/mqtt_client.py and the broker behind it.  Everything the bridge     *)
(* publishes is retained, so the broker is the last payload per topic:     *)
(*   state[n]         {prefix}/outlet/n/state                              *)
(*   total[k]         {prefix}/total/k                                     *)
(*   sensor           announced bank sensors, as <<device id, k>>          *)
(*   config[d, e, n]  the name in the config topic of entity e, outlet n   *)
(*   legacy           the binary_sensor configs v0.1.x left, not retired   *)
(*   available        the availability topic                               *)
(* aiomqtt does not reconnect: a lost session stays lost.  A connection    *)
(* may be half open for a while: nothing gets through, and either side     *)
(* finds out by its own keepalive.                                         *)
(***************************************************************************)
EXTENDS Discovery

CONSTANT Qos    \* MQTT_QOS

ASSUME MqttAssumption == /\ Qos \in 0 .. 2
                         /\ None \notin {"online", "offline"}

VARIABLES
  conn,         \* "up", "half" while only the bridge takes it for open, "down"
  lingering,    \* the broker keeps a session that has lost its other end
  retained      \* the broker's retained messages

linkVars == <<conn, lingering>>

mqttVars == <<linkVars, retained>>

TotalName == {TotalTopics[k] : k \in 1 .. 3}

ConfigTopics == DeviceIds \X OutletEntities \X Outlets

Retained ==
  [state     : [Outlets -> OutletState \cup {None}],
   total     : [TotalName -> Nat \cup {None}],
   sensor    : SUBSET (DeviceIds \X TotalName),
   config    : [ConfigTopics -> Names \cup {Unnamed, None}],
   legacy    : SUBSET (DeviceIds \X Outlets),
   available : {"online", "offline", None}]

MqttTypeOK ==
  /\ conn \in {"up", "half", "down"}
  /\ lingering \in BOOLEAN
  /\ retained \in Retained

NothingRetained ==
  [state     |-> [n \in Outlets |-> None],
   total     |-> [k \in TotalName |-> None],
   sensor    |-> {},
   config    |-> [t \in ConfigTopics |-> None],
   legacy    |-> {derive_device_id(SysName)} \X Outlets,
   available |-> None]

\* The session has been entered: connected, and announced as online.
MqttInit ==
  /\ conn = "up"
  /\ lingering = FALSE
  /\ retained = [NothingRetained EXCEPT !.available = "online"]

PublishMayRaise == conn # "up" \/ Disturbance("stall")

\* What a publish that returns has done at the broker.  With QoS 0 it returns
\* once the packet is written, also to a connection that is half open.
Handed(after) ==
  \/ conn = "up" /\ retained' = after
  \/ conn = "half" /\ Qos = 0 /\ UNCHANGED retained

\* Variant with a fault: a publish that fails is passed over.
PublishBestEffort(after, Return, Raise) ==
  /\ UNCHANGED linkVars
  /\ Handed(after) \/ (PublishMayRaise /\ UNCHANGED retained)
  /\ Return

\* One publish whose effect at the broker is after.  It returns (Return), or
\* it raises (Raise): without a connection, or when it is not written or not
\* confirmed in time, in which case the broker may have the message or not.
Publish(after, Return, Raise) ==
  /\ UNCHANGED linkVars
  /\ \/ Handed(after) /\ Return
     \/ /\ PublishMayRaise
        /\ retained' \in IF conn = "up" THEN {retained, after} ELSE {retained}
        /\ Raise

\* The broker has every message that publish has returned for.  With QoS 0
\* nobody can tell any more once the connection has failed.
Delivered == Qos > 0 \/ conn = "up"

Available(payload) == [retained EXCEPT !.available = payload]

\* The connection breaks, and both sides see it: the broker publishes the will.
Disconnect ==
  /\ Disturbance("drop")
  /\ conn = "up"
  /\ conn' = "down"
  /\ retained' = Available("offline")
  /\ UNCHANGED lingering

\* The connection breaks, and neither side sees it.
LoseTouch ==
  /\ Disturbance("half_open")
  /\ conn = "up"
  /\ conn' = "half"
  /\ lingering' = TRUE
  /\ UNCHANGED retained

\* The bridge's keepalive is not answered.
PingUnanswered ==
  /\ conn = "half"
  /\ conn' = "down"
  /\ UNCHANGED <<lingering, retained>>

\* The broker gives up a session that has lost its other end: the will.
KeepaliveExpires ==
  /\ lingering
  /\ lingering' = FALSE
  /\ retained' = Available("offline")
  /\ UNCHANGED conn

LinkNext == Disconnect \/ LoseTouch \/ PingUnanswered \/ KeepaliveExpires
===============================================================================
