-------------------------------- MODULE Guide --------------------------------
(***************************************************************************)
(* The guide session of one NPC: GuideState.java, written by the thread    *)
(* that hears the orchestrator's replies (PlayIntentState.java and the     *)
(* reply callbacks), and by SeekLandmarkSensor.matches on the world's      *)
(* thread, which looks the session up anew for every question it asks.     *)
(* Between two of these look-ups a reply may replace the session.          *)
(*                                                                         *)
(* The sensor's distance to its target is whatever the world makes it: the *)
(* NPC walks, flees, is moved.  Of the clocks only what is asked of them   *)
(* is kept: whether they have run out.                                     *)
(***************************************************************************)
EXTENDS Naturals, FiniteSets

CONSTANTS
  Places,     \* what a guide can be asked for: a Target with its keyword
  Markers,    \* identifiers of map markers (a bound on those on the map)
  Far,        \* distances are 0 .. Far; 0 is within ARRIVED_DISTANCE
  None,       \* null: no session, no marker tried yet
  Failed      \* "": the marker could not be created

\* Where something that happens once stands to the arrival.
Moment == {"no", "before", "since"}

\* An object Guiding: what was asked for, its marker, and its clocks: near and
\* shown are when the player was first near, and when the linger from then ran
\* out.  overtook is history: the session began after the sensor had found its
\* predecessor arrived, and before it looked for the player.
Session ==
  [place : Places, closest : 0 .. Far + 1, marker : Markers \cup {None, Failed},
   stuck : BOOLEAN, arrived : BOOLEAN, waited : BOOLEAN,
   near : Moment, shown : Moment, overtook : BOOLEAN]

ASSUME GuideAssumption ==
  /\ Far \in Nat
  /\ None \notin Session
  /\ None \notin Markers /\ Failed \notin Markers /\ None # Failed

VARIABLES
  session,    \* GUIDING.get(npc)
  markers,    \* the guide markers on the map, and where they stand
  tick,       \* where the sensor is in matches, and what it has read
  abandoned   \* history: markers on the map that no session refers to

vars == <<session, markers, tick, abandoned>>

Fresh(p) ==
  [place |-> p, closest |-> Far + 1, marker |-> None,
   stuck |-> FALSE, arrived |-> FALSE, waited |-> FALSE,
   near |-> "no", shown |-> "no", overtook |-> tick.step = "arrived"]

Idle == [step |-> "idle"]

\* The present, for a session that is there.
Now == IF session.arrived THEN "since" ELSE "before"

OnMap == {m.id : m \in markers}

\* The session's marker, as long as it is on the map.
Marked == IF session = None THEN {} ELSE {session.marker} \cap OnMap

Init ==
  /\ session = None
  /\ markers = {}
  /\ tick = Idle
  /\ abandoned = {}

-----------------------------------------------------------------------------
(* Replies                                                                 *)

\* Mutant: without the comparison with the session there is.
StartGuidingAnew(p) ==
  /\ session' = Fresh(p)
  /\ abandoned' = abandoned \cup Marked
  /\ UNCHANGED <<markers, tick>>

\* A request for the place the NPC is guiding to already changes nothing.
StartGuiding(p) ==
  /\ session # None => session.place # p
  /\ session' = Fresh(p)
  /\ abandoned' = abandoned \cup Marked
  /\ UNCHANGED <<markers, tick>>

\* The play intent "rest".
StopGuiding ==
  /\ session # None
  /\ session' = None
  /\ abandoned' = abandoned \cup Marked
  /\ UNCHANGED <<markers, tick>>

Reply == (\E p \in Places : StartGuiding(p)) \/ StopGuiding

-----------------------------------------------------------------------------
(* A tick of the sensor                                                    *)

TickBegins ==
  /\ tick = Idle
  /\ session # None
  /\ tick' = [step |-> "check", place |-> session.place]
  /\ UNCHANGED <<session, markers, abandoned>>

Check ==
  /\ tick.step = "check"
  /\ tick' = IF session # None /\ session.arrived
             THEN [step |-> "arrived"]
             ELSE [step |-> "resolve", place |-> tick.place]
  /\ UNCHANGED <<session, markers, abandoned>>

\* At the target: the player is near for the first time.  The session that is
\* marked may be another than the one that was found to have arrived.
PlayerCatchesUp ==
  /\ tick.step = "arrived"
  /\ session # None /\ session.near = "no"
  /\ session' = [session EXCEPT !.near = Now]
  /\ tick' = Idle
  /\ UNCHANGED <<markers, abandoned>>

\* Mutant: the wait is cut short although the player has not come.
LingersImpatiently ==
  /\ tick.step = "arrived"
  /\ tick' = IF session # None /\ (session.near = "no" \/ session.shown # "no")
             THEN [step |-> "remove"] ELSE Idle
  /\ UNCHANGED <<session, markers, abandoned>>

Lingers ==
  /\ tick.step = "arrived"
  /\ tick' = IF /\ session # None
                /\ IF session.near = "no" THEN session.waited ELSE session.shown # "no"
             THEN [step |-> "remove"] ELSE Idle
  /\ UNCHANGED <<session, markers, abandoned>>

\* Mutant: a marker is created at every tick.
ResolvesUngated ==
  /\ tick.step = "resolve"
  /\ \/ tick' = [step |-> "remove"]
     \/ \E d \in 0 .. Far :
          tick' = [step |-> "mark", place |-> tick.place, dist |-> d]
  /\ UNCHANGED <<session, markers, abandoned>>

\* On the way: nothing is found to guide to, or a target some way off.  The
\* target was read before, its keyword is read now.
Resolves ==
  /\ tick.step = "resolve"
  /\ \/ tick' = [step |-> "remove"]
     \/ \E d \in 0 .. Far :
          IF session # None /\ session.marker # None
          THEN tick' = [step |-> "progress", dist |-> d]
          ELSE \E p \in {tick.place}
                          \cup (IF session = None THEN {} ELSE {session.place}) :
                 tick' = [step |-> "mark", place |-> p, dist |-> d]
  /\ UNCHANGED <<session, markers, abandoned>>

CreatesMarker ==
  /\ tick.step = "mark"
  /\ \/ \E id \in Markers \ OnMap :
          /\ markers' = markers \cup {[id |-> id, place |-> tick.place]}
          /\ tick' = [step |-> "record", marker |-> id, dist |-> tick.dist]
     \/ /\ UNCHANGED markers
        /\ tick' = [step |-> "record", marker |-> Failed, dist |-> tick.dist]
  /\ UNCHANGED <<session, abandoned>>

\* Kept in whatever session there is by now.
RecordsMarker ==
  /\ tick.step = "record"
  /\ tick' = [step |-> "progress", dist |-> tick.dist]
  /\ IF session = None
     THEN /\ abandoned' = abandoned \cup ({tick.marker} \ {Failed})
          /\ UNCHANGED session
     ELSE /\ session' = [session EXCEPT !.marker = tick.marker]
          /\ UNCHANGED abandoned
  /\ UNCHANGED markers

Closer == tick.dist < session.closest
Progressed ==
  IF Closer THEN [session EXCEPT !.closest = tick.dist, !.stuck = FALSE]
            ELSE session

\* recordProgress, hasTimedOut, markArrived.
Walks ==
  /\ tick.step = "progress"
  /\ IF session = None
     THEN tick' = Idle /\ UNCHANGED session
     ELSE IF Progressed.stuck
     THEN tick' = [step |-> "remove"] /\ UNCHANGED session
     ELSE /\ tick' = Idle
          /\ session' = IF tick.dist = 0 THEN [Progressed EXCEPT !.arrived = TRUE]
                                         ELSE Progressed
  /\ UNCHANGED <<markers, abandoned>>

\* Mutant: the guide is given up without removing its marker.
RemovesNothing ==
  /\ tick.step = "remove"
  /\ tick' = [step |-> "drop"]
  /\ UNCHANGED <<session, markers, abandoned>>

\* removeGuideMarker may fail, and says so to nobody.
RemovesMarker ==
  /\ tick.step = "remove"
  /\ tick' = [step |-> "drop"]
  /\ \/ /\ markers' = {m \in markers : m.id \notin Marked}
        /\ UNCHANGED abandoned
     \/ /\ abandoned' = abandoned \cup Marked
        /\ UNCHANGED markers
  /\ UNCHANGED session

\* Whatever session there is by now.
Drops ==
  /\ tick.step = "drop"
  /\ session' = None
  /\ tick' = Idle
  /\ UNCHANGED <<markers, abandoned>>

Tick ==
  \/ TickBegins \/ Check
  \/ PlayerCatchesUp \/ Lingers
  \/ Resolves \/ CreatesMarker \/ RecordsMarker \/ Walks
  \/ RemovesMarker \/ Drops

-----------------------------------------------------------------------------
(* Clocks                                                                  *)

\* MAX_STUCK_MILLIS since the NPC was last closer to its target.
StuckRunsOut ==
  /\ session # None /\ ~session.stuck /\ ~session.arrived
  /\ session' = [session EXCEPT !.stuck = TRUE]
  /\ UNCHANGED <<markers, tick, abandoned>>

\* MAX_ARRIVED_WAIT_MILLIS since the arrival.
WaitRunsOut ==
  /\ session # None /\ session.arrived /\ ~session.waited
  /\ session' = [session EXCEPT !.waited = TRUE]
  /\ UNCHANGED <<markers, tick, abandoned>>

\* ARRIVAL_LINGER_MILLIS since the player was first near.
LingerRunsOut ==
  /\ session # None /\ session.near # "no" /\ session.shown = "no"
  /\ session' = [session EXCEPT !.shown = Now]
  /\ UNCHANGED <<markers, tick, abandoned>>

Clock == StuckRunsOut \/ WaitRunsOut \/ LingerRunsOut

Next == Reply \/ Tick \/ Clock

Spec == Init /\ [][Next]_vars

\* The NPC's role goes on asking its sensor, and time passes.
FairSpec ==
  /\ Spec
  /\ WF_vars(Tick)
  /\ WF_vars(StuckRunsOut) /\ WF_vars(WaitRunsOut) /\ WF_vars(LingerRunsOut)

-----------------------------------------------------------------------------
(* Properties                                                              *)

TickState ==
  [step : {"idle", "arrived", "remove", "drop"}]
    \cup [step : {"check", "resolve"}, place : Places]
    \cup [step : {"mark"}, place : Places, dist : 0 .. Far]
    \cup [step : {"record"}, marker : Markers \cup {Failed}, dist : 0 .. Far]
    \cup [step : {"progress"}, dist : 0 .. Far]

\* Every variable keeps its type.
GuideTypeOK ==
  /\ session \in Session \cup {None}
  /\ markers \subseteq [id : Markers, place : Places]
  /\ tick \in TickState
  /\ abandoned \subseteq Markers

\* Every marker on the map is the session's, about to become a session's, or
\* one whose session was replaced or stopped by a reply or whose removal
\* failed: a guide that runs its course leaves none (NearbyLandmarks.java:519).
MarkersAccounted ==
  OnMap \subseteq
    Marked \cup abandoned \cup (IF tick.step = "record" THEN {tick.marker} ELSE {})

\* A session is given a marker "exactly once" (GuideState.java:352), also by a
\* tick that began with another session.
MarkedOnce ==
  [][session # None /\ session.marker # None /\ session' # None
       /\ session'.place = session.place
     => session'.marker = session.marker]_vars

\* Having arrived, the NPC leaves only when it has waited for the player as long
\* as it ever does, or has lingered with him from when he was near at the place
\* (GuideState.java:88-118): it does not turn back as soon as it is there.  A
\* session that overtook the sensor is excepted (see below); one that a reply
\* starts at any other point of a tick is not.
ShowsThePlace ==
  [][Drops /\ session # None /\ session.arrived /\ ~session.overtook
     => IF session.near = "no" THEN session.waited
        ELSE session.near = "since" /\ session.shown = "since"]_vars

\* "Once arrived AND the requesting player has caught up [...] stand at the
\* landmark this long before resuming normal behavior" (GuideState.java:88-91).
\* Does not hold: a session that overtakes the sensor is marked near at its
\* start, its linger runs out on the way, and the NPC turns back on the first
\* tick after it arrives.
LingersAfterArrival ==
  [][Drops /\ session # None /\ session.arrived => session.shown # "before"]_vars

\* No guide to one place goes on for ever, however often the player asks for it
\* again and whether or not the place can be reached (GuideState.java:21-35).
EveryGuideEnds ==
  \A p \in Places :
    (session # None /\ session.place = p) ~> ~(session # None /\ session.place = p)

\* A session's marker is the one "dropped at this guide's target"
\* (GuideState.java:158).  Does not hold: a reply that replaces the session
\* while the sensor resolves the old target is given that target's marker.
MarkerAtTarget ==
  \A m \in markers :
    session # None /\ session.marker = m.id => m.place = session.place
=============================================================================
