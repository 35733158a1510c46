-------------------------------- MODULE Lifespan --------------------------------
(***************************************************************************)
(* lifespan of app/main.py and session of app/mqtt_client.py: the bridge   *)
(* as a process that is started, stopped, killed and started again, with   *)
(* the availability topic by which Home Assistant learns of it.  A process *)
(* keeps nothing: each begins from the initial state of its poller and its *)
(* controller, while the broker still holds what earlier ones published.   *)
(*                                                                         *)
(*   down -> announcing -> serving -> stopping -> down                     *)
(*                                                                         *)
(* A process that cannot connect ends where it began, and is left out.     *)
(***************************************************************************)
EXTENDS Bridge

CONSTANT MaxLives   \* bound: processes that are started

ASSUME LifespanAssumption == MaxLives \in Nat

VARIABLES
  life,       \* where the process has come to in lifespan
  lives       \* processes started so far

lifespanVars == <<life, lives>>

allVars == <<vars, lifespanVars>>

LifeTypeOK ==
  /\ TypeOK
  /\ life \in {"down", "announcing", "serving", "stopping"}
  /\ lives \in 0 .. MaxLives

LifeInit ==
  /\ PduInit /\ PollerInit /\ ControllerInit
  /\ conn = "down"
  /\ lingering = FALSE
  /\ retained = NothingRetained
  /\ recent = [n \in Outlets |-> {RelayState(n)}]
  /\ unconfirmed = FALSE
  /\ life = "down"
  /\ lives = 0

\* The process is gone, and all it knew; the next one starts anew.
Exit ==
  /\ life' = "down"
  /\ conn' = "down"
  /\ pc' = "jitter"
  /\ at' = 1
  /\ readings' = NoReadings
  /\ last_snapshot' = None
  /\ state' = "initializing"
  /\ immediate_event' = FALSE
  /\ outlet_count_cached' = None
  /\ discovery_published' = FALSE
  /\ legacy_discovery_retired' = FALSE
  /\ device_id' = None
  /\ published_names' = [n \in Outlets |-> None]
  /\ stop_event' = FALSE
  /\ call' = [c \in Callers |-> AtStart(c)]
  /\ unconfirmed' = FALSE
  /\ UNCHANGED <<pduVars, recent, lives>>

\* Variant with a fault: every process connects under an id of its own.
ConnectAnew ==
  /\ life = "down"
  /\ lives < MaxLives
  /\ life' = "announcing"
  /\ lives' = lives + 1
  /\ conn' = "up"
  /\ UNCHANGED <<pduVars, pollerVars, call, recent, unconfirmed, retained, lingering>>

\* The session is opened under mqtt_client_id.  A session that the broker
\* still keeps under this id ends first, and its will is published.
Connect ==
  /\ life = "down"
  /\ lives < MaxLives
  /\ life' = "announcing"
  /\ lives' = lives + 1
  /\ conn' = "up"
  /\ retained' = IF lingering THEN Available("offline") ELSE retained
  /\ lingering' = FALSE
  /\ UNCHANGED <<pduVars, pollerVars, call, recent, unconfirmed>>

\* "online" is handed over; the poller and the command subscriber are started.
Announce ==
  /\ life = "announcing"
  /\ Handed(Available("online"))
  /\ life' = "serving"
  /\ UNCHANGED <<pduVars, linkVars, pollerVars, call, recent, unconfirmed, lives>>

\* Variant with a fault: the session is left without a word.
LeaveSilently(published) ==
  /\ retained' = published
  /\ UNCHANGED lingering

\* The session is left with "offline" and a clean DISCONNECT, which discards
\* the will.  If the connection is gone, the will is out already or the session
\* lingers; if it stalls, less may arrive of what was published, and the session
\* stays.
LeaveSession(published) ==
  \/ conn = "up" /\ retained' = Available("offline") /\ UNCHANGED lingering
  \/ conn # "up" /\ UNCHANGED <<retained, lingering>>
  \/ /\ conn = "up" /\ Disturbance("stall")
     /\ retained' \in {retained, published, Available("offline")}
     /\ lingering' = TRUE

\* "online" cannot be published: the start has failed.
AnnounceFails ==
  /\ life = "announcing"
  /\ PublishMayRaise
  /\ LeaveSession(Available("online"))
  /\ Exit

\* The tasks run; when they have been told to stop, only the poller does.
Serve ==
  /\ \/ life \in {"serving", "stopping"} /\ PollerStep /\ UNCHANGED stop_event
     \/ life = "serving" /\ \E c \in Callers : CallerStep(c)
  /\ UNCHANGED lifespanVars

\* The server has answered the last request.  The subscriber is cancelled at
\* whatever await it is, and the poller is asked to stop.
Shutdown ==
  /\ life = "serving"
  /\ \A c \in Callers \ {MqttCaller} : call[c].phase = "idle"
  /\ RequestStop
  /\ call' = [call EXCEPT ![MqttCaller] = [NoCall EXCEPT !.phase = "dead"]]
  /\ life' = "stopping"
  /\ UNCHANGED <<recent, unconfirmed, lives>>

Farewell ==
  /\ life = "stopping"
  /\ pc = "stopped"
  /\ LeaveSession(retained)
  /\ Exit

\* The process is killed, or its host is lost.  The broker notices when it
\* sees the connection closed, or misses the keepalives.
Crash ==
  /\ Disturbance("crash")
  /\ life # "down"
  /\ lingering' = (lingering \/ conn = "up")
  /\ UNCHANGED retained
  /\ Exit

LifeSurroundings == Surroundings /\ UNCHANGED lifespanVars

LifeNext ==
  \/ Connect \/ Announce \/ AnnounceFails \/ Serve \/ Shutdown \/ Farewell
  \/ Crash \/ LifeSurroundings

LifeSpec == LifeInit /\ [][LifeNext]_allVars

\* A process that was started comes to serve or fails, its tasks are run, and
\* one that has stopped ends.  Nobody has to start another.
FairLifeSpec ==
  /\ LifeSpec
  /\ WF_allVars(Announce \/ AnnounceFails)
  /\ WF_allVars(Serve /\ PollerStep /\ Run)
  /\ \A c \in Callers : WF_allVars(Serve /\ CallerStep(c) /\ Proceed(c))
  /\ WF_allVars(Farewell)

-------------------------------------------------------------------------------
(***************************************************************************)
(* Properties.                                                             *)
(***************************************************************************)
\* While the bridge serves and is connected, it is shown as available: the
\* will of a process that is gone never comes after the "online" of the next
\* (session, _new_client).
OnlineWhileServing ==
  life = "serving" /\ conn = "up" => retained.available = "online"

\* Without a connection, nothing stays shown as available but for as long as
\* the broker takes to notice, whether the bridge was stopped, killed, failed
\* to start, or lost its connection, seen by it or not (the will, and the
\* farewell of session).
OfflineOnceGone ==
  conn # "up" /\ ~lingering => retained.available # "online"

\* No failure ends the loop, or leaves it inside a cycle: as long as the
\* process serves, the poller comes back to its sleep.
KeepsLooping == life = "serving" ~> pc = "sleep" \/ life # "serving"

\* A bridge that is told to stop does end, wherever its poller is, and even
\* if it is never cancelled (stop, _run).
ShutdownEnds == life = "stopping" ~> life = "down"
===============================================================================
