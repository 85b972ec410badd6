----------------------------- MODULE PluginProofs -----------------------------
(***************************************************************************)
(* What holds of two states of the plugin that several threads and timers  *)
(* share.  Guide sessions, for any places and markers: the sensor depends  *)
(* on what it has read of a session that may be gone; what saves it is     *)
(* that a session put in its place starts without a marker, and not        *)
(* arrived.  And the tables of callbacks and thinking marks (Patience),    *)
(* for any times: a callback's age and the time to the next sweep never    *)
(* make more than two times to live.                                       *)
(***************************************************************************)
EXTENDS Guide, Patience, TLAPS

\* About to record a marker, the sensor has found none.
Unmarked ==
  tick.step \in {"mark", "record"} => session = None \/ session.marker = None

\* About to drop a session, the sensor has dealt with its marker.
LetGo == tick.step = "drop" => Marked \subseteq abandoned

\* On the way, the session has not arrived.
OnTheWay ==
  tick.step \in {"resolve", "mark", "record", "progress"} =>
    session = None \/ ~session.arrived

Shown == IF session.near = "no" THEN session.waited ELSE session.shown # "no"

\* About to end a guide that has arrived, it has been shown or waited for.
Justified ==
  tick.step \in {"remove", "drop"} => session = None \/ ~session.arrived \/ Shown

\* Found to have arrived, the session is still there, or another has overtaken.
StillThere ==
  tick.step = "arrived" => session = None \/ session.arrived \/ session.overtook

\* Only a session that overtook the sensor has its player marked near, or its
\* linger run out, before it arrives.
Timely ==
  session # None =>
    /\ session.near = "since" => session.arrived
    /\ session.near = "before" => session.overtook
    /\ session.shown = "before" => session.near = "before"

IInv ==
  /\ GuideTypeOK /\ MarkersAccounted
  /\ Unmarked /\ LetGo /\ OnTheWay /\ Justified
  /\ StillThere /\ Timely

-----------------------------------------------------------------------------
LEMMA FreshTyped ==
  ASSUME NEW p \in Places
  PROVE  /\ Fresh(p) \in Session
         /\ Fresh(p).place = p /\ Fresh(p).marker = None /\ ~Fresh(p).arrived
         /\ Fresh(p).near = "no" /\ Fresh(p).shown = "no"
         /\ tick.step = "arrived" => Fresh(p).overtook
<1>1. \A b \in BOOLEAN :
        [place |-> p, closest |-> Far + 1, marker |-> None,
         stuck |-> FALSE, arrived |-> FALSE, waited |-> FALSE,
         near |-> "no", shown |-> "no", overtook |-> b] \in Session
  BY GuideAssumption DEF Session, Moment
<1>2. (tick.step = "arrived") \in BOOLEAN
  OBVIOUS
<1>3. Fresh(p) \in Session
  BY <1>1, <1>2, Zenon DEF Fresh
<1> QED
  BY <1>3 DEF Fresh

\* A session that starts, or none, has no marker on the map.
LEMMA NoMarker ==
  ASSUME GuideTypeOK, session = None \/ session.marker = None
  PROVE  Marked = {}
BY GuideAssumption DEF Marked, OnMap, GuideTypeOK

\* A clock runs out, and nothing else of the session changes.
LEMMA ClockTyped ==
  ASSUME GuideTypeOK, Clock
  PROVE  /\ session # None /\ session' \in Session
         /\ session'.place = session.place /\ session'.marker = session.marker
         /\ session'.arrived = session.arrived /\ session'.near = session.near
         /\ session'.overtook = session.overtook
         /\ \/ session'.shown = session.shown
            \/ session.near # "no" /\ session'.shown = Now
         /\ session.waited => session'.waited
<1>1. session # None /\ session \in Session
  BY DEF Clock, StuckRunsOut, WaitRunsOut, LingerRunsOut, GuideTypeOK
<1>2. CASE StuckRunsOut
  BY <1>1, <1>2 DEF StuckRunsOut, Session, Moment
<1>3. CASE WaitRunsOut
  BY <1>1, <1>3 DEF WaitRunsOut, Session, Moment
<1>4. CASE LingerRunsOut
  BY <1>1, <1>4 DEF LingerRunsOut, Session, Moment, Now
<1> QED
  BY <1>2, <1>3, <1>4 DEF Clock

LEMMA Initially == Init => IInv
BY DEF Init, IInv, GuideTypeOK, MarkersAccounted, Unmarked, LetGo, OnTheWay,
       Justified, StillThere, Timely, OnMap, Marked, Idle, TickState

LEMMA ReplyKeeps ==
  ASSUME IInv, Reply
  PROVE  IInv'
<1>1. markers' = markers /\ tick' = tick /\ abandoned' = abandoned \cup Marked
  BY DEF Reply, StartGuiding, StopGuiding
<1>2. \/ session' = None
      \/ \E p \in Places : session' = Fresh(p)
  BY DEF Reply, StartGuiding, StopGuiding
<1>3. /\ session' \in Session \cup {None}
      /\ session' = None \/ (session'.marker = None /\ ~session'.arrived)
      /\ session' = None \/ tick.step # "arrived" \/ session'.overtook
      /\ session' = None \/ (session'.near = "no" /\ session'.shown = "no")
  BY <1>2, FreshTyped
<1>4. GuideTypeOK'
  BY <1>1, <1>3 DEF IInv, GuideTypeOK, Marked, OnMap
<1>5. Marked' = {}
  BY <1>1, <1>3, GuideAssumption DEF Marked, OnMap, IInv, GuideTypeOK
<1>6. MarkersAccounted'
  BY <1>1, <1>5 DEF IInv, MarkersAccounted, OnMap
<1>7. Unmarked' /\ LetGo' /\ OnTheWay' /\ Justified' /\ StillThere' /\ Timely'
  BY <1>1, <1>3, <1>5 DEF Unmarked, LetGo, OnTheWay, Justified, StillThere, Timely
<1> QED
  BY <1>4, <1>6, <1>7 DEF IInv

LEMMA ClockKeeps ==
  ASSUME IInv, Clock
  PROVE  IInv'
<1>1. markers' = markers /\ tick' = tick /\ abandoned' = abandoned
  BY DEF Clock, StuckRunsOut, WaitRunsOut, LingerRunsOut
<1>2. GuideTypeOK /\ session # None
  BY ClockTyped DEF IInv
<1>3. GuideTypeOK'
  BY <1>1, <1>2, ClockTyped DEF GuideTypeOK
<1>4. Marked' \subseteq Marked /\ (session' # None => Marked' = Marked)
  BY <1>1, <1>2, ClockTyped DEF Marked, OnMap
<1>5. MarkersAccounted' /\ LetGo'
  <2>1. CASE session' # None
    BY <1>1, <1>4, <2>1 DEF IInv, MarkersAccounted, LetGo, OnMap
  <2>2. session' # None
    BY <1>2, ClockTyped, GuideAssumption
  <2> QED
    BY <2>1, <2>2
<1>6. Unmarked' /\ OnTheWay' /\ StillThere'
  BY <1>1, <1>2, ClockTyped DEF IInv, Unmarked, OnTheWay, StillThere
<1>7. Justified'
  BY <1>1, <1>2, ClockTyped DEF IInv, Justified, Shown, Now
<1>8. Timely'
  <2>1. /\ session.near = "since" => session.arrived
        /\ session.near = "before" => session.overtook
        /\ session.shown = "before" => session.near = "before"
    BY <1>2 DEF IInv, Timely
  <2>2. session.near \in Moment
    BY <1>2 DEF GuideTypeOK, Session
  <2>3. session'.shown = "before" => session'.near = "before"
    BY <1>2, <2>1, <2>2, ClockTyped DEF Now, Moment
  <2> QED
    BY <1>2, <2>1, <2>3, ClockTyped DEF Timely
<1> QED
  BY <1>3, <1>5, <1>6, <1>7, <1>8 DEF IInv

-----------------------------------------------------------------------------
(* The steps of a tick                                                     *)

\* A step of the sensor that reads only.
Reads == UNCHANGED <<session, markers, abandoned>>

LEMMA TickBeginsKeeps ==
  ASSUME IInv, TickBegins
  PROVE  IInv'
<1>1. tick.step = "idle" /\ tick'.step = "check" /\ Reads
  BY DEF TickBegins, Idle, Reads
<1>2. tick' \in TickState
  BY DEF TickBegins, IInv, GuideTypeOK, Session, TickState
<1> QED
  BY <1>1, <1>2 DEF Reads, IInv, GuideTypeOK, MarkersAccounted, Marked, OnMap,
                    Unmarked, LetGo, OnTheWay, Justified, StillThere, Timely, Shown

LEMMA CheckKeeps ==
  ASSUME IInv, Check
  PROVE  IInv'
<1>1. tick.step = "check" /\ Reads
  BY DEF Check, Reads
<1>2. tick.place \in Places
  BY <1>1 DEF IInv, GuideTypeOK, TickState
<1>3. \/ tick' = [step |-> "arrived"] /\ session # None /\ session.arrived
      \/ /\ tick' = [step |-> "resolve", place |-> tick.place]
         /\ session = None \/ ~session.arrived
  BY DEF Check
<1>4. tick' \in TickState
  BY <1>2, <1>3 DEF TickState
<1> QED
  BY <1>1, <1>3, <1>4 DEF Reads, IInv, GuideTypeOK, MarkersAccounted, Marked, OnMap,
                          Unmarked, LetGo, OnTheWay, Justified, StillThere, Timely, Shown

LEMMA PlayerCatchesUpKeeps ==
  ASSUME IInv, PlayerCatchesUp
  PROVE  IInv'
<1>1. /\ tick.step = "arrived" /\ tick' = Idle /\ session # None
      /\ session.near = "no"
      /\ session' = [session EXCEPT !.near = Now]
      /\ UNCHANGED <<markers, abandoned>>
  BY DEF PlayerCatchesUp
<1>2. session \in Session
  BY <1>1 DEF IInv, GuideTypeOK
<1>3. /\ session' \in Session /\ session'.marker = session.marker
      /\ session'.near = Now /\ session'.shown = session.shown
      /\ session'.arrived = session.arrived /\ session'.overtook = session.overtook
  BY <1>1, <1>2 DEF Session, Moment, Now
<1>4. GuideTypeOK'
  BY <1>1, <1>3 DEF IInv, GuideTypeOK, TickState, Idle
<1>5. Marked' = Marked
  BY <1>1, <1>3, GuideAssumption DEF Marked, OnMap
<1>6. Timely'
  BY <1>1, <1>3 DEF IInv, StillThere, Timely, Now
<1> QED
  BY <1>1, <1>4, <1>5, <1>6 DEF IInv, MarkersAccounted, OnMap, Idle, Unmarked, LetGo,
                                OnTheWay, Justified, StillThere

LEMMA LingersKeeps ==
  ASSUME IInv, Lingers
  PROVE  IInv'
<1>1. tick.step = "arrived" /\ Reads
  BY DEF Lingers, Reads
<1>2. \/ tick' = Idle
      \/ tick' = [step |-> "remove"] /\ Shown
  BY DEF Lingers, Shown
<1>3. tick' \in TickState
  BY <1>2 DEF TickState, Idle
<1> QED
  BY <1>1, <1>2, <1>3 DEF Reads, Idle, IInv, GuideTypeOK, MarkersAccounted, Marked,
                          OnMap, Unmarked, LetGo, OnTheWay, Justified, StillThere, Timely, Shown

LEMMA ResolvesKeeps ==
  ASSUME IInv, Resolves
  PROVE  IInv'
<1>1. tick.step = "resolve" /\ Reads
  BY DEF Resolves, Reads
<1>2. tick.place \in Places /\ (session # None => session.place \in Places)
  BY <1>1 DEF IInv, GuideTypeOK, TickState, Session
<1>3. \/ tick' = [step |-> "remove"]
      \/ \E d \in 0 .. Far : tick' = [step |-> "progress", dist |-> d]
      \/ /\ session = None \/ session.marker = None
         /\ \E d \in 0 .. Far : \E p \in Places :
              tick' = [step |-> "mark", place |-> p, dist |-> d]
  BY <1>2 DEF Resolves
<1>4. tick' \in TickState
  BY <1>3 DEF TickState
<1>5. session = None \/ ~session.arrived
  BY <1>1 DEF IInv, OnTheWay
<1> QED
  BY <1>1, <1>3, <1>4, <1>5 DEF Reads, IInv, GuideTypeOK, MarkersAccounted, Marked,
                                OnMap, Unmarked, LetGo, OnTheWay, Justified, StillThere, Timely

LEMMA CreatesMarkerKeeps ==
  ASSUME IInv, CreatesMarker
  PROVE  IInv'
<1>1. /\ tick.step = "mark" /\ session' = session /\ abandoned' = abandoned
      /\ session = None \/ (session.marker = None /\ ~session.arrived)
  BY DEF CreatesMarker, IInv, Unmarked, OnTheWay
<1>2. tick.place \in Places /\ tick.dist \in 0 .. Far
  BY <1>1 DEF IInv, GuideTypeOK, TickState
<1>3. PICK id \in Markers \cup {Failed} :
        /\ tick' = [step |-> "record", marker |-> id, dist |-> tick.dist]
        /\ \/ id \in Markers /\ markers' = markers \cup {[id |-> id, place |-> tick.place]}
           \/ markers' = markers
  BY DEF CreatesMarker
<1>4. tick' \in TickState
  BY <1>2, <1>3 DEF TickState
<1>5. markers' \subseteq [id : Markers, place : Places]
  BY <1>2, <1>3 DEF IInv, GuideTypeOK
<1>6. GuideTypeOK'
  BY <1>1, <1>4, <1>5 DEF IInv, GuideTypeOK
<1>7. OnMap' \subseteq OnMap \cup {tick'.marker}
  BY <1>3 DEF OnMap
<1>8. Marked = {}
  BY <1>1, NoMarker DEF IInv
<1>9. MarkersAccounted'
  BY <1>1, <1>3, <1>7, <1>8 DEF IInv, MarkersAccounted
<1> QED
  BY <1>1, <1>3, <1>6, <1>9 DEF IInv, Unmarked, LetGo, OnTheWay, Justified, StillThere, Timely

LEMMA RecordsMarkerKeeps ==
  ASSUME IInv, RecordsMarker
  PROVE  IInv'
<1>1. /\ tick.step = "record" /\ markers' = markers
      /\ tick' = [step |-> "progress", dist |-> tick.dist]
      /\ session = None \/ (session.marker = None /\ ~session.arrived)
  BY DEF RecordsMarker, IInv, Unmarked, OnTheWay
<1>2. tick.marker \in Markers \cup {Failed} /\ tick.dist \in 0 .. Far
  BY <1>1 DEF IInv, GuideTypeOK, TickState
<1>3. tick' \in TickState
  BY <1>1, <1>2 DEF TickState
<1>4. Marked = {} /\ OnMap' = OnMap /\ OnMap \subseteq Markers
  BY <1>1, NoMarker DEF IInv, OnMap, GuideTypeOK
<1>5. OnMap \subseteq abandoned \cup {tick.marker}
  BY <1>1, <1>4 DEF IInv, MarkersAccounted
<1>6. CASE session = None
  <2>1. /\ session' = None
        /\ abandoned' = abandoned \cup ({tick.marker} \ {Failed})
    BY <1>6 DEF RecordsMarker
  <2>2. GuideTypeOK'
    BY <1>1, <1>2, <1>3, <2>1 DEF IInv, GuideTypeOK
  <2>3. MarkersAccounted'
    BY <1>4, <1>5, <2>1, GuideAssumption DEF MarkersAccounted
  <2> QED
    BY <1>1, <2>1, <2>2, <2>3 DEF IInv, Unmarked, LetGo, OnTheWay, Justified, StillThere, Timely
<1>7. CASE session # None
  <2>1. /\ session' = [session EXCEPT !.marker = tick.marker]
        /\ abandoned' = abandoned /\ session \in Session
    BY <1>7 DEF RecordsMarker, IInv, GuideTypeOK
  <2>2. /\ session' \in Session /\ session'.marker = tick.marker
        /\ session'.arrived = session.arrived /\ session'.near = session.near
        /\ session'.shown = session.shown /\ session'.overtook = session.overtook
    BY <1>2, <2>1 DEF Session
  <2>3. GuideTypeOK'
    BY <1>1, <1>3, <2>1, <2>2 DEF IInv, GuideTypeOK
  <2>4. Marked' = {tick.marker} \cap OnMap
    BY <1>4, <2>2, GuideAssumption DEF Marked
  <2>5. MarkersAccounted'
    BY <1>4, <1>5, <2>1, <2>4 DEF MarkersAccounted
  <2> QED
    BY <1>1, <1>7, <2>2, <2>3, <2>5 DEF IInv, Unmarked, LetGo, OnTheWay, Justified, StillThere, Timely
<1> QED
  BY <1>6, <1>7

LEMMA WalksKeeps ==
  ASSUME IInv, Walks
  PROVE  IInv'
<1>1. /\ tick.step = "progress" /\ UNCHANGED <<markers, abandoned>>
      /\ session = None \/ ~session.arrived
  BY DEF Walks, IInv, OnTheWay
<1>2. tick.dist \in 0 .. Far
  BY <1>1 DEF IInv, GuideTypeOK, TickState
<1>3. CASE session' = session
  <2>1. tick' = Idle \/ tick' = [step |-> "remove"]
    BY DEF Walks
  <2>2. tick' \in TickState
    BY <2>1 DEF TickState, Idle
  <2> QED
    BY <1>1, <1>3, <2>1, <2>2 DEF Idle, IInv, GuideTypeOK, MarkersAccounted, Marked,
                                  OnMap, Unmarked, LetGo, OnTheWay, Justified, StillThere, Timely
<1>4. CASE session' # session
  <2>1. /\ tick' = Idle /\ session \in Session
        /\ session' \in {Progressed, [Progressed EXCEPT !.arrived = TRUE]}
    BY <1>4 DEF Walks, IInv, GuideTypeOK
  <2> DEFINE Same(s) == /\ s.marker = session.marker /\ s.near = session.near
                        /\ s.shown = session.shown /\ s.overtook = session.overtook
                        /\ session.arrived => s.arrived
  <2>2. Progressed \in Session /\ Same(Progressed)
    <3>1. tick.dist \in 0 .. Far + 1
      BY <1>2, GuideAssumption
    <3>2. \A d \in 0 .. Far + 1 :
            /\ [session EXCEPT !.closest = d, !.stuck = FALSE] \in Session
            /\ Same([session EXCEPT !.closest = d, !.stuck = FALSE])
      BY <2>1 DEF Session
    <3> QED
      BY <2>1, <3>1, <3>2 DEF Progressed
  <2>3. session' \in Session /\ Same(session')
    <3> HIDE DEF Progressed
    <3> DEFINE p == Progressed
    <3>1. p \in Session /\ Same(p)
      BY <2>2
    <3> HIDE DEF p
    <3>2. /\ [p EXCEPT !.arrived = TRUE] \in Session
          /\ Same([p EXCEPT !.arrived = TRUE])
      BY <3>1 DEF Session
    <3> QED
      BY <2>1, <3>1, <3>2 DEF p
  <2>4. GuideTypeOK'
    BY <1>1, <2>1, <2>3 DEF IInv, GuideTypeOK, TickState, Idle
  <2>5. Marked' = Marked /\ OnMap' = OnMap
    BY <1>1, <2>1, <2>3, GuideAssumption DEF Marked, OnMap
  <2>6. Timely'
    BY <1>4, <2>1, <2>3, GuideAssumption DEF Walks, IInv, Timely
  <2> QED
    BY <1>1, <2>1, <2>4, <2>5, <2>6
       DEF IInv, MarkersAccounted, Idle, Unmarked, LetGo, OnTheWay, Justified, StillThere
<1> QED
  BY <1>3, <1>4

LEMMA RemovesMarkerKeeps ==
  ASSUME IInv, RemovesMarker
  PROVE  IInv'
<1>1. /\ tick.step = "remove" /\ tick' = [step |-> "drop"] /\ session' = session
  BY DEF RemovesMarker
<1>2. OnMap \subseteq Marked \cup abandoned /\ Marked \subseteq OnMap
  BY <1>1 DEF IInv, MarkersAccounted, Marked
<1>3. CASE /\ markers' = {m \in markers : m.id \notin Marked}
           /\ abandoned' = abandoned
  <2>1. OnMap' = OnMap \ Marked
    BY <1>3 DEF OnMap
  <2>2. Marked' = {}
    BY <1>1, <2>1 DEF Marked
  <2>3. GuideTypeOK'
    BY <1>1, <1>3 DEF IInv, GuideTypeOK, TickState
  <2> QED
    BY <1>1, <1>2, <1>3, <2>1, <2>2, <2>3
       DEF IInv, MarkersAccounted, Unmarked, LetGo, OnTheWay, Justified, StillThere, Timely, Shown
<1>4. CASE /\ abandoned' = abandoned \cup Marked
           /\ markers' = markers
  <2>1. OnMap' = OnMap /\ Marked' = Marked
    BY <1>1, <1>4 DEF OnMap, Marked
  <2>2. OnMap \subseteq Markers
    BY DEF OnMap, IInv, GuideTypeOK
  <2>3. GuideTypeOK'
    BY <1>1, <1>2, <1>4, <2>2 DEF IInv, GuideTypeOK, TickState
  <2> QED
    BY <1>1, <1>2, <1>4, <2>1, <2>3
       DEF IInv, MarkersAccounted, Unmarked, LetGo, OnTheWay, Justified, StillThere, Timely, Shown
<1> QED
  BY <1>3, <1>4 DEF RemovesMarker

LEMMA DropsKeeps ==
  ASSUME IInv, Drops
  PROVE  IInv'
<1>1. /\ tick.step = "drop" /\ tick' = Idle /\ session' = None
      /\ markers' = markers /\ abandoned' = abandoned
  BY DEF Drops
<1>2. OnMap \subseteq abandoned /\ OnMap' = OnMap
  BY <1>1 DEF IInv, MarkersAccounted, LetGo, OnMap
<1>3. GuideTypeOK'
  BY <1>1 DEF IInv, GuideTypeOK, TickState, Idle
<1> QED
  BY <1>1, <1>2, <1>3 DEF IInv, MarkersAccounted, Marked, Idle, Unmarked, LetGo,
                          OnTheWay, Justified, StillThere, Timely

-----------------------------------------------------------------------------
LEMMA Inductive ==
  ASSUME IInv, [Next]_vars
  PROVE  IInv'
<1>1. CASE UNCHANGED vars
  BY <1>1 DEF vars, IInv, GuideTypeOK, MarkersAccounted, Marked, OnMap, Unmarked,
              LetGo, OnTheWay, Justified, StillThere, Timely, Shown
<1>2. CASE Reply
  BY <1>2, ReplyKeeps
<1>3. CASE Clock
  BY <1>3, ClockKeeps
<1>4. CASE Tick
  BY <1>4, TickBeginsKeeps, CheckKeeps, PlayerCatchesUpKeeps, LingersKeeps,
     ResolvesKeeps, CreatesMarkerKeeps, RecordsMarkerKeeps, WalksKeeps,
     RemovesMarkerKeeps, DropsKeeps DEF Tick
<1> QED
  BY <1>1, <1>2, <1>3, <1>4 DEF Next

LEMMA Invariant == Spec => []IInv
<1>1. IInv /\ [Next]_vars => IInv'
  BY Inductive
<1> QED
  BY <1>1, Initially, PTL DEF Spec

\* The session, the sensor and the map keep their types at every look-up.
THEOREM GuideTypeCorrect == Spec => []GuideTypeOK
<1>1. IInv => GuideTypeOK
  BY DEF IInv
<1> QED
  BY <1>1, Invariant, PTL

\* Only a reply that replaces or stops a guide, or a removal that fails, leaves
\* a marker on the map without a session (GuideState.java:203, 232).
THEOREM MarkersAreAccounted == Spec => []MarkersAccounted
<1>1. IInv => MarkersAccounted
  BY DEF IInv
<1> QED
  BY <1>1, Invariant, PTL

\* A session is given a marker once, also by a tick that began with another.
THEOREM MarkedOnlyOnce == Spec => MarkedOnce
<1> DEFINE Once == session # None /\ session.marker # None /\ session' # None
                     /\ session'.place = session.place
                   => session'.marker = session.marker
<1>1. ASSUME IInv, [Next]_vars PROVE [Once]_vars
  <2>1. CASE UNCHANGED vars
    BY <2>1
  <2>2. CASE Reply
    BY <2>2, FreshTyped DEF Reply, StartGuiding, StopGuiding
  <2>3. CASE Clock
    BY <1>1, <2>3, ClockTyped DEF IInv
  <2>4. CASE Tick
    <3>1. CASE UNCHANGED session
      BY <3>1
    <3>2. CASE PlayerCatchesUp
      BY <1>1, <3>2 DEF PlayerCatchesUp, IInv, GuideTypeOK, Session
    <3>3. CASE RecordsMarker
      BY <1>1, <3>3 DEF RecordsMarker, IInv, Unmarked
    <3>4. CASE Walks
      BY <1>1, <3>4 DEF Walks, Progressed, IInv, GuideTypeOK, Session
    <3>5. CASE Drops
      BY <3>5 DEF Drops
    <3> QED
      BY <2>4, <3>1, <3>2, <3>3, <3>4, <3>5 DEF Tick, TickBegins, Check, Lingers,
         Resolves, CreatesMarker, RemovesMarker
  <2> QED
    BY <1>1, <2>1, <2>2, <2>3, <2>4 DEF Next
<1>2. Spec => [][Once]_vars
  BY <1>1, Invariant, PTL DEF Spec
<1> QED
  BY <1>2 DEF MarkedOnce

\* An NPC that has arrived stays until it has lingered with the player, from
\* when he was near at the place, or has waited for him in vain; a reply that
\* comes while the sensor has just found it arrived is the only exception.
THEOREM PlaceIsShown == Spec => ShowsThePlace
<1> DEFINE Stays == Drops /\ session # None /\ session.arrived /\ ~session.overtook
                    => IF session.near = "no" THEN session.waited
                       ELSE session.near = "since" /\ session.shown = "since"
<1>1. ASSUME IInv, [Next]_vars PROVE [Stays]_vars
  <2> SUFFICES ASSUME Drops, session # None, session.arrived, ~session.overtook,
                      session.near # "no" \/ ~session.waited
               PROVE  session.near = "since" /\ session.shown = "since"
    OBVIOUS
  <2>1. session.near \in Moment /\ session.shown \in Moment
    BY <1>1 DEF IInv, GuideTypeOK, Session
  <2>2. Shown
    BY <1>1 DEF IInv, Justified, Drops
  <2>3. session.near = "since"
    BY <1>1, <2>1, <2>2 DEF IInv, Timely, Shown, Moment
  <2> QED
    BY <1>1, <2>1, <2>2, <2>3 DEF IInv, Timely, Shown, Moment
<1>2. Spec => [][Stays]_vars
  BY <1>1, Invariant, PTL DEF Spec
<1> QED
  BY <1>2 DEF ShowsThePlace

-----------------------------------------------------------------------------
(* Callbacks and thinking marks                                            *)

\* A callback is removed before it is twice as old as it may be.
CallbacksTimely ==
  \A r \in Requests : pending[r] # Absent => pending[r] + sweepIn <= 2 * Ttl

\* So is a mark, which may be older while the timer has still to look at it, or
\* is about to remove it.
MarksTimely ==
  \A n \in Npcs :
    mark[n] # Absent =>
      /\ mark[n] <= 2 * Ttl
      /\ \/ mark[n] + purgeIn <= 2 * Ttl
         \/ n \in purge.todo
         \/ n = purge.npc /\ mark[n] = purge.age

\* What the timer is about to remove was too old.
PurgesStale == purge.npc # Absent => purge.age > Ttl

\* A mark's age is the time since the NPC was asked.
AgesTrue ==
  \A n \in Npcs : \/ waited[n] # Absent /\ mark[n] = waited[n]
                  \/ waited[n] = Absent /\ (mark[n] # Absent => mark[n] > Ttl)

PatienceInv ==
  PatienceTypeOK /\ CallbacksTimely /\ MarksTimely /\ PurgesStale /\ AgesTrue

LEMMA PatienceInitially == PatienceInit => PatienceInv
BY PatienceAssumption
DEF PatienceInit, PatienceInv, PatienceTypeOK, CallbacksTimely, MarksTimely,
    PurgesStale, AgesTrue, Ages, Done

LEMMA StartsKeeps ==
  ASSUME PatienceInv, NEW r \in Requests, Starts(r)
  PROVE  PatienceInv'
<1>1. /\ npcOf[r] \in Npcs
      /\ mark' = [mark EXCEPT ![npcOf[r]] = 0]
      /\ waited' = [waited EXCEPT ![npcOf[r]] = 0]
      /\ asking' = asking \cup {r}
      /\ UNCHANGED <<pending, owed, sweepIn, purgeIn, purge>>
  BY PatienceAssumption DEF Starts
<1>2. PatienceTypeOK'
  BY <1>1, PatienceAssumption DEF PatienceInv, PatienceTypeOK, Ages
<1>3. CallbacksTimely' /\ PurgesStale'
  BY <1>1 DEF PatienceInv, CallbacksTimely, PurgesStale
<1>4. MarksTimely'
  BY <1>1, PatienceAssumption DEF PatienceInv, PatienceTypeOK, MarksTimely
<1>5. AgesTrue'
  BY <1>1, PatienceAssumption DEF PatienceInv, PatienceTypeOK, AgesTrue
<1> QED
  BY <1>2, <1>3, <1>4, <1>5 DEF PatienceInv

LEMMA SendsDialogueKeeps ==
  ASSUME PatienceInv, NEW r \in Requests, SendsDialogue(r)
  PROVE  PatienceInv'
<1>1. PatienceTypeOK'
  BY PatienceAssumption DEF SendsDialogue, PatienceInv, PatienceTypeOK, Ages
<1>2. CallbacksTimely'
  BY PatienceAssumption DEF SendsDialogue, PatienceInv, PatienceTypeOK, CallbacksTimely
<1> QED
  BY <1>1, <1>2
  DEF SendsDialogue, PatienceInv, MarksTimely, PurgesStale, AgesTrue

LEMMA AnswersKeeps ==
  ASSUME PatienceInv, NEW r \in Requests, Answers(r) \/ LosesAnswer(r)
  PROVE  PatienceInv'
<1>1. /\ npcOf[r] \in Npcs
      /\ owed' = [owed EXCEPT ![r] = Absent]
      /\ UNCHANGED <<asking, sweepIn, purgeIn, purge>>
  BY PatienceAssumption DEF Answers, LosesAnswer
<1>2. \/ UNCHANGED <<pending, mark, waited>>
      \/ /\ pending' = [pending EXCEPT ![r] = Absent]
         /\ mark' = [mark EXCEPT ![npcOf[r]] = Absent]
         /\ waited' = [waited EXCEPT ![npcOf[r]] = Absent]
  BY DEF Answers, LosesAnswer
<1>3. PatienceTypeOK'
  BY <1>1, <1>2, PatienceAssumption DEF PatienceInv, PatienceTypeOK, Ages
<1>4. CallbacksTimely' /\ PurgesStale'
  BY <1>1, <1>2 DEF PatienceInv, PatienceTypeOK, CallbacksTimely, PurgesStale
<1>5. MarksTimely'
  BY <1>1, <1>2 DEF PatienceInv, PatienceTypeOK, MarksTimely
<1>6. AgesTrue'
  BY <1>1, <1>2 DEF PatienceInv, PatienceTypeOK, AgesTrue
<1> QED
  BY <1>3, <1>4, <1>5, <1>6 DEF PatienceInv

\* What a sweep leaves is no older than a time to live, and the next sweep is
\* a time to live away.
LEMMA SweepsKeeps ==
  ASSUME PatienceInv, Sweeps
  PROVE  PatienceInv'
<1>1. PatienceTypeOK'
  BY PatienceAssumption DEF Sweeps, PatienceInv, PatienceTypeOK, Ages
<1>2. CallbacksTimely'
  BY PatienceAssumption
  DEF Sweeps, Stale, PatienceInv, PatienceTypeOK, CallbacksTimely, Ages
<1> QED
  BY <1>1, <1>2 DEF Sweeps, PatienceInv, MarksTimely, PurgesStale, AgesTrue

LEMMA PurgeKeeps ==
  ASSUME PatienceInv, Purge
  PROVE  PatienceInv'
<1>0. UNCHANGED <<asking, pending, owed, sweepIn, waited>>
  BY DEF Purge, PurgeBegins, PurgeLooksAt, PurgeRemoves
<1>1. CASE PurgeBegins
  <2>1. /\ mark' = mark /\ purgeIn' = Ttl
        /\ purge' = [todo |-> {n \in Npcs : mark[n] # Absent}, npc |-> Absent, age |-> 0]
    BY <1>1 DEF PurgeBegins, Done
  <2>2. PatienceTypeOK'
    BY <1>0, <2>1, PatienceAssumption DEF PatienceInv, PatienceTypeOK
  <2> QED
    BY <1>0, <2>1, <2>2 DEF PatienceInv, CallbacksTimely, MarksTimely, PurgesStale, AgesTrue
<1>2. ASSUME NEW n \in Npcs, PurgeLooksAt(n) PROVE PatienceInv'
  <2>1. /\ purge.npc = Absent /\ UNCHANGED <<mark, purgeIn>>
        /\ mark[n] \in Ages
    BY <1>2 DEF PurgeLooksAt, PatienceInv, PatienceTypeOK
  <2>2. CASE Stale(mark[n])
    <3>1. purge' = [todo |-> purge.todo \ {n}, npc |-> n, age |-> mark[n]]
      BY <1>2, <2>2 DEF PurgeLooksAt
    <3>2. mark[n] \in Nat /\ mark[n] > Ttl
      BY <2>1, <2>2 DEF Stale, Ages
    <3>3. PatienceTypeOK'
      BY <1>0, <2>1, <3>1, <3>2 DEF PatienceInv, PatienceTypeOK
    <3>4. /\ purge'.todo = purge.todo \ {n} /\ purge'.npc = n /\ purge'.age = mark[n]
      BY <3>1
    <3>5. MarksTimely'
      BY <2>1, <3>4, PatienceAssumption DEF PatienceInv, MarksTimely
    <3> QED
      BY <1>0, <2>1, <3>2, <3>3, <3>4, <3>5
      DEF PatienceInv, CallbacksTimely, PurgesStale, AgesTrue
  <2>3. CASE ~Stale(mark[n])
    <3>1. purge' = [purge EXCEPT !.todo = @ \ {n}]
      BY <1>2, <2>3 DEF PurgeLooksAt
    <3>2. /\ purge'.todo = purge.todo \ {n} /\ purge'.npc = Absent
          /\ purge' \in [todo : SUBSET Npcs, npc : Npcs \cup {Absent}, age : Nat]
      BY <2>1, <3>1 DEF PatienceInv, PatienceTypeOK
    <3>3. PatienceTypeOK'
      BY <1>0, <2>1, <3>2 DEF PatienceInv, PatienceTypeOK
    <3>4. mark[n] # Absent => mark[n] + purgeIn <= 2 * Ttl
      BY <2>1, <2>3, PatienceAssumption DEF Stale, Ages, PatienceInv, PatienceTypeOK
    <3>5. MarksTimely'
      BY <2>1, <3>2, <3>4, PatienceAssumption DEF PatienceInv, MarksTimely
    <3> QED
      BY <1>0, <2>1, <3>2, <3>3, <3>5
      DEF PatienceInv, CallbacksTimely, PurgesStale, AgesTrue
  <2> QED
    BY <2>2, <2>3
<1>3. CASE PurgeRemoves
  <2>1. /\ purge.npc \in Npcs /\ purgeIn' = purgeIn /\ purge.age > Ttl
        /\ purge' = [todo |-> purge.todo, npc |-> Absent, age |-> 0]
    BY <1>3 DEF PurgeRemoves, Done, PatienceInv, PatienceTypeOK, PurgesStale
  <2>2. /\ mark' \in [Npcs -> Ages]
        /\ \A n \in Npcs : \/ mark'[n] = mark[n] /\ ~(n = purge.npc /\ mark[n] = purge.age)
                           \/ mark'[n] = Absent /\ mark[n] = purge.age
    BY <1>3, <2>1 DEF PurgeRemoves, PatienceInv, PatienceTypeOK, Ages
  <2>3. PatienceTypeOK'
    BY <1>0, <2>1, <2>2 DEF PatienceInv, PatienceTypeOK
  <2>4. MarksTimely'
    BY <2>1, <2>2 DEF PatienceInv, MarksTimely
  <2>5. AgesTrue'
    <3> SUFFICES ASSUME NEW n \in Npcs, mark'[n] = Absent, mark[n] = purge.age
                 PROVE  waited[n] = Absent
      BY <1>0, <2>2 DEF PatienceInv, AgesTrue
    <3>1. purge.age \in Nat /\ waited[n] \in 0 .. Ttl \cup {Absent}
      BY DEF PatienceInv, PatienceTypeOK
    <3> QED
      BY <2>1, <3>1, PatienceAssumption DEF PatienceInv, AgesTrue
  <2> QED
    BY <1>0, <2>1, <2>3, <2>4, <2>5 DEF PatienceInv, CallbacksTimely, PurgesStale
<1> QED
  BY <1>1, <1>2, <1>3 DEF Purge

\* Everything is a second older, and everything is due a second sooner.
LEMMA TimePassesKeeps ==
  ASSUME PatienceInv, TimePasses
  PROVE  PatienceInv'
<1>1. /\ sweepIn \in 1 .. Ttl /\ purgeIn \in 1 .. Ttl /\ Ttl \in Nat
      /\ sweepIn' = sweepIn - 1 /\ purgeIn' = purgeIn - 1
      /\ purge = Done /\ UNCHANGED <<asking, purge>>
  BY PatienceAssumption DEF TimePasses, PatienceInv, PatienceTypeOK
<1>2. \A a \in Ages : /\ Older(a) \in Ages
                      /\ Older(a) = Absent <=> a = Absent
                      /\ a # Absent => Older(a) = a + 1
  BY PatienceAssumption DEF Older, Ages
<1>3. /\ pending' = [r \in Requests |-> Older(pending[r])]
      /\ owed' = [r \in Requests |-> Older(owed[r])]
      /\ mark' = [n \in Npcs |-> Older(mark[n])]
      /\ waited' = [n \in Npcs |-> IF waited[n] = Ttl THEN Absent ELSE Older(waited[n])]
  BY DEF TimePasses
<1>4. PatienceTypeOK'
  <2>1. ASSUME NEW n \in Npcs PROVE waited'[n] \in 0 .. Ttl \cup {Absent}
    <3>1. waited'[n] = IF waited[n] = Ttl THEN Absent ELSE Older(waited[n])
      BY <1>3
    <3>2. waited[n] \in 0 .. Ttl \cup {Absent}
      BY DEF PatienceInv, PatienceTypeOK
    <3>3. CASE waited[n] = Absent
      BY <1>1, <3>1, <3>3, PatienceAssumption DEF Older
    <3>4. CASE waited[n] \in 0 .. Ttl
      BY <1>1, <3>1, <3>4, PatienceAssumption DEF Older
    <3> QED
      BY <3>2, <3>3, <3>4
  <2> QED
    BY <1>1, <1>2, <1>3, <2>1 DEF PatienceInv, PatienceTypeOK
<1>5. CallbacksTimely'
  <2> SUFFICES ASSUME NEW r \in Requests, pending'[r] # Absent
               PROVE  pending'[r] + sweepIn' <= 2 * Ttl
    BY <1>1 DEF CallbacksTimely
  <2>1. pending[r] \in Ages /\ pending'[r] = Older(pending[r])
    BY <1>3 DEF PatienceInv, PatienceTypeOK
  <2>2. pending[r] \in Nat /\ pending'[r] = pending[r] + 1
    BY <1>2, <2>1 DEF Ages
  <2>3. pending[r] + sweepIn <= 2 * Ttl
    BY <2>2, PatienceAssumption DEF PatienceInv, CallbacksTimely
  <2> QED
    BY <1>1, <2>2, <2>3
<1>6. MarksTimely'
  <2> SUFFICES ASSUME NEW n \in Npcs, mark'[n] # Absent
               PROVE  mark'[n] <= 2 * Ttl /\ mark'[n] + purgeIn' <= 2 * Ttl
    BY <1>1 DEF MarksTimely
  <2>1. mark[n] \in Ages /\ mark'[n] = Older(mark[n])
    BY <1>3 DEF PatienceInv, PatienceTypeOK
  <2>2. mark[n] \in Nat /\ mark'[n] = mark[n] + 1
    BY <1>2, <2>1 DEF Ages
  <2>3. mark[n] + purgeIn <= 2 * Ttl
    BY <1>1, <2>2, PatienceAssumption DEF PatienceInv, MarksTimely, Done
  <2> QED
    BY <1>1, <2>2, <2>3
<1>7. AgesTrue'
  <2> SUFFICES ASSUME NEW n \in Npcs
               PROVE  \/ waited'[n] # Absent /\ mark'[n] = waited'[n]
                      \/ waited'[n] = Absent /\ (mark'[n] # Absent => mark'[n] > Ttl)
    BY DEF AgesTrue
  <2>1. /\ mark[n] \in Ages /\ mark'[n] = Older(mark[n])
        /\ waited'[n] = IF waited[n] = Ttl THEN Absent ELSE Older(waited[n])
        /\ waited[n] \in Ages
    BY <1>1, <1>3, PatienceAssumption DEF PatienceInv, PatienceTypeOK, Ages
  <2>2. CASE waited[n] # Absent /\ mark[n] = waited[n]
    <3>1. mark[n] \in Nat /\ mark'[n] = mark[n] + 1
      BY <1>2, <2>1, <2>2 DEF Ages
    <3>2. CASE waited[n] = Ttl
      BY <1>1, <2>1, <2>2, <3>1, <3>2
    <3>3. CASE waited[n] # Ttl
      BY <1>2, <2>1, <2>2, <3>1, <3>3
    <3> QED
      BY <3>2, <3>3
  <2>3. CASE waited[n] = Absent /\ (mark[n] # Absent => mark[n] > Ttl)
    <3>1. waited'[n] = Absent
      BY <1>1, <1>2, <2>1, <2>3, PatienceAssumption
    <3>2. ASSUME mark'[n] # Absent PROVE mark'[n] > Ttl
      <4>1. mark[n] \in Nat /\ mark'[n] = mark[n] + 1 /\ mark[n] > Ttl
        BY <1>2, <2>1, <2>3, <3>2 DEF Ages
      <4> QED
        BY <1>1, <4>1
    <3> QED
      BY <3>1, <3>2
  <2> QED
    BY <2>2, <2>3 DEF PatienceInv, AgesTrue
<1> QED
  BY <1>1, <1>4, <1>5, <1>6, <1>7 DEF PatienceInv, PurgesStale

LEMMA PatienceInvariant == PatienceSpec => []PatienceInv
<1>1. PatienceInv /\ [PatienceNext]_patienceVars => PatienceInv'
  <2> SUFFICES ASSUME PatienceInv, [PatienceNext]_patienceVars PROVE PatienceInv'
    OBVIOUS
  <2>1. CASE UNCHANGED patienceVars
    BY <2>1 DEF patienceVars, PatienceInv, PatienceTypeOK, CallbacksTimely,
                MarksTimely, PurgesStale, AgesTrue
  <2> QED
    BY <2>1, StartsKeeps, SendsDialogueKeeps, AnswersKeeps, SweepsKeeps, PurgeKeeps,
       TimePassesKeeps DEF PatienceNext
<1> QED
  BY <1>1, PatienceInitially, PTL DEF PatienceSpec

\* The tables of callbacks and marks, and what their timers hold of them, keep
\* their types.
THEOREM PatienceTypeCorrect == PatienceSpec => []PatienceTypeOK
<1>1. PatienceInv => PatienceTypeOK
  BY DEF PatienceInv
<1> QED
  BY <1>1, PatienceInvariant, PTL

\* Whatever is lost, no callback and no mark is kept for longer than twice its
\* time to live.
THEOREM StaleIsRemoved == PatienceSpec => []StaleRemoved
<1>1. PatienceInv => StaleRemoved
  BY PatienceAssumption
  DEF PatienceInv, PatienceTypeOK, CallbacksTimely, MarksTimely, StaleRemoved, Ages
<1> QED
  BY <1>1, PatienceInvariant, PTL

\* An NPC is seen to think exactly while it has been asked within the time to
\* live and not answered since, whatever the timer does meanwhile.
THEOREM ThinkingIsTrue == PatienceSpec => []ThinksWhileAsked
<1>1. PatienceInv => ThinksWhileAsked
  BY PatienceAssumption
  DEF PatienceInv, PatienceTypeOK, AgesTrue, ThinksWhileAsked, IsAwaiting, Stale, Ages
<1> QED
  BY <1>1, PatienceInvariant, PTL
=============================================================================
