-------------------------- MODULE OfflineDataProofs --------------------------
(***************************************************************************)
(* Proofs about OfflineData, for any number of launches, kills and clears: *)
(* every variable keeps its type, and a stored bus has its route and its   *)
(* stops as long as no load and no clear have been under way at once.      *)
(***************************************************************************)
EXTENDS OfflineData, TLAPS

-----------------------------------------------------------------------------
(* Types.                                                                  *)

\* The stops still to insert are the last ones of the sample route, and the
\* tables still to clear the last ones of clearAllData's list.
StopsAreSuffix ==
  /\ stopsLeft \in {<< >>, <<"stop3">>, <<"stop2", "stop3">>, SampleStops}
  /\ startup = "stops" => stopsLeft # << >>
ClearIsSuffix ==
  clear \in {<< >>, <<"trip_logs">>, <<"stops", "trip_logs">>,
             <<"routes", "stops", "trip_logs">>, ClearOrder}

Tabled == db = [t \in Tables |-> db[t]]

Rows ==
  /\ Tabled
  /\ db["buses"] \subseteq {SampleBus} /\ db["routes"] \subseteq {SampleRoute}
  /\ db["stops"] \subseteq SampleStopRows /\ db["trip_logs"] = {}
  /\ readBuses \subseteq {SampleBus} /\ result \subseteq {SampleBus}

Places ==
  /\ startup \in {"off", "initialize", "location", "noLocation", "check",
                  "decode", "threw", "route", "stops", "bus", "done"}
  /\ load \in {"idle", "position", "buses", "routes"}
  /\ launches \in 0..MaxLaunches /\ clears \in 0..MaxClears
  /\ overlapped \in BOOLEAN

TypeInv == StopsAreSuffix /\ ClearIsSuffix /\ Rows /\ Places

LEMMA HeadsAndTails ==
  /\ Head(ClearOrder) = "buses"
  /\ Tail(ClearOrder) = <<"routes", "stops", "trip_logs">>
  /\ \A a, b, c : /\ Head(<<a, b, c>>) = a /\ Tail(<<a, b, c>>) = <<b, c>>
                  /\ Head(<<a, b>>) = a /\ Tail(<<a, b>>) = <<b>>
                  /\ Head(<<a>>) = a /\ Tail(<<a>>) = << >>
BY DEF ClearOrder

LEMMA Lengths ==
  /\ Len(ClearOrder) = 4 /\ Len(<< >>) = 0
  /\ Len(<<"routes", "stops", "trip_logs">>) = 3
  /\ Len(<<"stops", "trip_logs">>) = 2
BY DEF ClearOrder

LEMMA StopHeads ==
  /\ Head(SampleStops) = "stop1" /\ Tail(SampleStops) = <<"stop2", "stop3">>
  /\ Len(SampleStops) = 3 /\ SampleStops # << >>
  /\ SampleStops[1] = "stop1" /\ SampleStops[2] = "stop2" /\ SampleStops[3] = "stop3"
BY DEF SampleStops

LEMMA StopsStep ==
  ASSUME TypeInv, [Next]_vars
  PROVE  StopsAreSuffix'
<1> USE DEF TypeInv, StopsAreSuffix
<1>1. CASE InsertStopRow
  <2>1. /\ stopsLeft' = IF Len(stopsLeft) = 1 THEN << >> ELSE Tail(stopsLeft)
        /\ startup' = IF Len(stopsLeft) = 1 THEN "bus" ELSE "stops"
        /\ stopsLeft # << >>
    BY <1>1 DEF InsertStopRow, NoStopAfter
  <2>2. CASE stopsLeft = <<"stop3">>
    BY <2>1, <2>2
  <2>3. CASE stopsLeft = <<"stop2", "stop3">>
    BY <2>1, <2>3
  <2>4. CASE stopsLeft = SampleStops
    BY <2>1, <2>4, StopHeads
  <2> QED
    BY <2>1, <2>2, <2>3, <2>4
<1>2. CASE InsertRouteRow
  BY <1>2, StopHeads DEF InsertRouteRow
<1>3. CASE Kill
  BY <1>3 DEF Kill
<1>4. CASE ~InsertStopRow /\ ~InsertRouteRow /\ ~Kill
  <2>1. stopsLeft' = stopsLeft /\ (startup' = "stops" => startup = "stops")
    BY <1>4 DEF Next, StartupStep, LoadStep, Launch, OpenDatabase, InitLocation,
       CheckRoutes, DecodeRoutes, InsertBusRow, StartLoad, GetPosition,
       GetAllBuses, GetAllRoutes, StartClear, DeleteTable, vars, appVars, clearVars
  <2> QED
    BY <2>1
<1> QED
  BY <1>1, <1>2, <1>3, <1>4

LEMMA ClearStep ==
  ASSUME TypeInv, [Next]_vars
  PROVE  ClearIsSuffix'
<1> USE DEF TypeInv, ClearIsSuffix
<1>1. CASE DeleteTable
  <2>1. clear' = Tail(clear) /\ clear # << >>
    BY <1>1 DEF DeleteTable
  <2>2. CASE clear = <<"trip_logs">>
    BY <2>1, <2>2, HeadsAndTails
  <2>3. CASE clear = <<"stops", "trip_logs">>
    BY <2>1, <2>3, HeadsAndTails
  <2>4. CASE clear = <<"routes", "stops", "trip_logs">>
    BY <2>1, <2>4, HeadsAndTails
  <2>5. CASE clear = ClearOrder
    BY <2>1, <2>5, HeadsAndTails
  <2> QED
    BY <2>1, <2>2, <2>3, <2>4, <2>5
<1>2. CASE StartClear \/ Kill
  BY <1>2 DEF StartClear, Kill
<1>3. CASE ~DeleteTable /\ ~StartClear /\ ~Kill
  <2>1. clear' = clear
    BY <1>3 DEF Next, StartupStep, LoadStep, Launch, OpenDatabase, InitLocation,
       CheckRoutes, DecodeRoutes, InsertRouteRow, InsertStopRow, InsertBusRow,
       StartLoad, GetPosition, GetAllBuses, GetAllRoutes, vars, clearVars
  <2> QED
    BY <2>1
<1> QED
  BY <1>1, <1>2, <1>3

\* Only the sample's rows are stored, each in its table.
LEMMA RowsStep ==
  ASSUME TypeInv, [Next]_vars
  PROVE  Rows'
<1> USE DEF TypeInv, Rows, Tabled, Tables
<1>1. CASE InsertRouteRow
  BY <1>1 DEF InsertRouteRow, loadVars
<1>2. CASE InsertStopRow
  <2>1. Head(stopsLeft) \in {"stop1", "stop2", "stop3"}
    BY <1>2, StopHeads DEF InsertStopRow, StopsAreSuffix
  <2>2. StopRow(Head(stopsLeft)) \in SampleStopRows
    BY <2>1, StopHeads DEF SampleStopRows
  <2> QED
    BY <1>2, <2>2 DEF InsertStopRow, loadVars
<1>3. CASE InsertBusRow
  BY <1>3 DEF InsertBusRow, BusTable, loadVars
<1>4. CASE DeleteTable
  <2>1. UNCHANGED <<readBuses, result>> /\ db' = [db EXCEPT ![Head(clear)] = {}]
    BY <1>4 DEF DeleteTable, loadVars
  <2>2. Tabled'
    BY <2>1
  <2>3. \A t \in Tables : db'[t] \subseteq db[t]
    BY <2>1
  <2> QED
    BY <2>1, <2>2, <2>3
<1>5. CASE GetAllRoutes
  <2>1. db' = db /\ readBuses' = {} /\ result' \subseteq readBuses
    BY <1>5 DEF GetAllRoutes, NextBuses
  <2> QED
    BY <2>1
<1>6. CASE Kill \/ GetPosition \/ GetAllBuses
  BY <1>6 DEF Kill, GetPosition, GetAllBuses
<1>7. CASE \/ Launch \/ OpenDatabase \/ InitLocation \/ CheckRoutes
           \/ DecodeRoutes \/ StartLoad \/ StartClear \/ UNCHANGED vars
  <2>1. UNCHANGED <<db, readBuses, result>>
    BY <1>7 DEF Launch, OpenDatabase, InitLocation, CheckRoutes, DecodeRoutes,
       StartLoad, StartClear, loadVars, vars
  <2> QED
    BY <2>1
<1> QED
  BY <1>1, <1>2, <1>3, <1>4, <1>5, <1>6, <1>7 DEF Next, StartupStep, LoadStep

LEMMA PlacesStep ==
  ASSUME TypeInv, [Next]_vars
  PROVE  Places'
<1> USE BoundsAssumption DEF TypeInv, Places, appVars, loadVars, clearVars
<1>1. CASE StartupStep
  BY <1>1 DEF StartupStep, OpenDatabase, InitLocation, CheckRoutes,
     DecodeRoutes, InsertRouteRow, InsertStopRow, InsertBusRow
<1>2. CASE StartLoad \/ LoadStep
  BY <1>2 DEF StartLoad, LoadStep, GetPosition, GetAllBuses, GetAllRoutes
<1>3. CASE Launch \/ Kill
  BY <1>3 DEF Launch, Kill
<1>4. CASE StartClear
  <2>1. /\ UNCHANGED <<startup, load, launches>>
        /\ clears < MaxClears /\ clears' = clears + 1
    BY <1>4 DEF StartClear
  <2>2. overlapped' \in BOOLEAN
    BY <1>4, Zenon DEF StartClear
  <2> QED
    BY <2>1, <2>2
<1>5. CASE DeleteTable
  BY <1>5 DEF DeleteTable
<1>6. CASE UNCHANGED vars
  BY <1>6 DEF vars
<1> QED
  BY <1>1, <1>2, <1>3, <1>4, <1>5, <1>6 DEF Next

LEMMA InitTypes == Init => TypeInv
<1> SUFFICES ASSUME Init PROVE TypeInv
  OBVIOUS
<1>1. overlapped \in BOOLEAN
  BY Zenon DEF Init
<1>2. Places
  BY <1>1, BoundsAssumption DEF Init, Places
<1>3. StopsAreSuffix /\ ClearIsSuffix
  BY DEF Init, StopsAreSuffix, ClearIsSuffix
<1>4. Rows
  BY DEF Init, Rows, Tabled, Tables
<1> QED
  BY <1>2, <1>3, <1>4 DEF TypeInv

LEMMA StepTypes == TypeInv /\ [Next]_vars => TypeInv'
BY StopsStep, ClearStep, RowsStep, PlacesStep DEF TypeInv

\* Every table holds rows of its own kind and every caller is where its code
\* can be.
THEOREM TypeCorrect == Spec => []TypeOK
<1>1. Init => TypeInv
  BY InitTypes
<1>2. TypeInv /\ [Next]_vars => TypeInv'
  BY StepTypes
<1>3. TypeInv => TypeOK
  <2> SUFFICES ASSUME TypeInv PROVE TypeOK
    OBVIOUS
  <2>1. Len(stopsLeft) \in 0..3
    BY StopHeads DEF TypeInv, StopsAreSuffix
  <2>2. Len(clear) \in 0..4
    BY Lengths DEF TypeInv, ClearIsSuffix
  <2> QED
    BY <2>1, <2>2 DEF TypeInv, Rows, Places, TypeOK
<1> QED
  BY <1>1, <1>2, <1>3, PTL DEF Spec

-----------------------------------------------------------------------------
(* What the loader has stored and the clearing has deleted, until a load   *)
(* and a clear have been under way at once.                                *)

Loading == startup \in {"route", "stops", "bus"}

\* clearAllData and the loader are not both at work.
Apart == clear # << >> => ~Loading

\* The buses are the first to be deleted.
BusesGoFirst == clear \notin {<< >>, ClearOrder} => db["buses"] = {}

\* From insertRoute's first statement to the end of the loader the route is
\* there.
RouteFirst == startup \in {"stops", "bus"} => SampleRoute \in db["routes"]

\* The stops inserted so far are there.
StopsSoFar ==
  /\ startup = "stops" /\ stopsLeft = <<"stop2", "stop3">>
       => StopRow("stop1") \in db["stops"]
  /\ startup = "stops" /\ stopsLeft = <<"stop3">>
       => {StopRow("stop1"), StopRow("stop2")} \subseteq db["stops"]
  /\ startup = "bus" => SampleStopRows \subseteq db["stops"]

BusLast == db["buses"] # {} => SampleStored

Sound == Apart /\ BusesGoFirst /\ RouteFirst /\ StopsSoFar /\ BusLast

\* The inductive invariant.
IInv == TypeInv /\ (~overlapped => Sound)

LEMMA SampleRows ==
  SampleStopRows = {StopRow("stop1"), StopRow("stop2"), StopRow("stop3")}
<1>1. {i \in Nat : i \in 1..3} = {1, 2, 3}
  OBVIOUS
<1> QED
  BY <1>1, StopHeads DEF SampleStopRows

LEMMA OverlapStays == [Next]_vars => (overlapped => overlapped')
BY DEF Next, StartupStep, LoadStep, Launch, Kill, OpenDatabase, InitLocation,
   CheckRoutes, DecodeRoutes, InsertRouteRow, InsertStopRow, InsertBusRow,
   StartLoad, GetPosition, GetAllBuses, GetAllRoutes, StartClear, DeleteTable,
   vars, clearVars

LEMMA SoundStep ==
  ASSUME TypeInv, Sound, ~overlapped', [Next]_vars
  PROVE  Sound'
<1> USE DEF Sound, Loading
<1>0. db = [t \in Tables |-> db[t]]
  BY DEF TypeInv, Rows, Tabled
<1>1. CASE InsertRouteRow
  <2>1. /\ startup = "route" /\ startup' = "stops" /\ stopsLeft' = SampleStops
        /\ clear' = clear /\ clear = << >>
    BY <1>1 DEF InsertRouteRow, clearVars, Apart
  <2>2. /\ db'["routes"] = db["routes"] \cup {SampleRoute}
        /\ db'["stops"] = db["stops"] /\ db'["buses"] = db["buses"]
    BY <1>0, <1>1 DEF InsertRouteRow, Tables
  <2>3. SampleStops # <<"stop3">> /\ SampleStops # <<"stop2", "stop3">>
    BY StopHeads
  <2>4. Apart' /\ BusesGoFirst' /\ RouteFirst'
    BY <2>1, <2>2 DEF Apart, BusesGoFirst, RouteFirst
  <2>5. StopsSoFar'
    BY <2>1, <2>3 DEF StopsSoFar
  <2>6. BusLast'
    BY <2>2 DEF BusLast, SampleStored
  <2> QED
    BY <2>4, <2>5, <2>6
<1>2. CASE InsertStopRow
  <2>1. /\ startup = "stops" /\ stopsLeft # << >>
        /\ stopsLeft' = IF Len(stopsLeft) = 1 THEN << >> ELSE Tail(stopsLeft)
        /\ startup' = IF Len(stopsLeft) = 1 THEN "bus" ELSE "stops"
        /\ clear' = clear /\ clear = << >>
    BY <1>2 DEF InsertStopRow, NoStopAfter, clearVars, Apart, TypeInv,
       StopsAreSuffix
  <2>2. /\ db'["stops"] = db["stops"] \cup {StopRow(Head(stopsLeft))}
        /\ db'["routes"] = db["routes"] /\ db'["buses"] = db["buses"]
    BY <1>0, <1>2 DEF InsertStopRow, Tables
  <2>3. Apart' /\ BusesGoFirst' /\ RouteFirst'
    BY <2>1, <2>2 DEF Apart, BusesGoFirst, RouteFirst
  <2>4. BusLast'
    BY <2>2 DEF BusLast, SampleStored
  <2>5. StopsSoFar'
    <3> USE DEF StopsSoFar
    <3>1. CASE stopsLeft = <<"stop3">>
      <4>1. Head(stopsLeft) = "stop3" /\ Len(stopsLeft) = 1
        BY <3>1
      <4>2. startup' = "bus" /\ stopsLeft' = << >>
        BY <2>1, <4>1
      <4>3. SampleStopRows \subseteq db'["stops"]
        BY <2>1, <2>2, <3>1, <4>1, SampleRows
      <4> QED
        BY <4>2, <4>3
    <3>2. CASE stopsLeft = <<"stop2", "stop3">>
      <4>1. Head(stopsLeft) = "stop2" /\ Len(stopsLeft) = 2
            /\ Tail(stopsLeft) = <<"stop3">>
        BY <3>2
      <4>2. startup' = "stops" /\ stopsLeft' = <<"stop3">>
        BY <2>1, <4>1
      <4>3. {StopRow("stop1"), StopRow("stop2")} \subseteq db'["stops"]
        BY <2>1, <2>2, <3>2, <4>1
      <4> QED
        BY <4>2, <4>3
    <3>3. CASE stopsLeft = SampleStops
      <4>1. startup' = "stops" /\ stopsLeft' = <<"stop2", "stop3">>
        BY <2>1, <3>3, StopHeads
      <4>2. StopRow("stop1") \in db'["stops"]
        BY <2>2, <3>3, StopHeads
      <4> QED
        BY <4>1, <4>2
    <3> QED
      BY <2>1, <3>1, <3>2, <3>3 DEF TypeInv, StopsAreSuffix
  <2> QED
    BY <2>3, <2>4, <2>5
<1>3. CASE InsertBusRow
  <2>1. /\ startup = "bus" /\ startup' = "done"
        /\ clear' = clear /\ clear = << >>
    BY <1>3 DEF InsertBusRow, clearVars, Apart
  <2>2. db'["routes"] = db["routes"] /\ db'["stops"] = db["stops"]
        /\ db'["buses"] = db["buses"] \cup {SampleBus}
    BY <1>0, <1>3 DEF InsertBusRow, BusTable, Tables
  <2>3. SampleStored'
    BY <2>1, <2>2 DEF SampleStored, RouteFirst, StopsSoFar
  <2> QED
    BY <2>1, <2>3 DEF Apart, BusesGoFirst, RouteFirst, StopsSoFar, BusLast
<1>4. CASE DeleteTable
  <2>1. /\ startup' = startup /\ ~Loading /\ clear # << >>
        /\ clear' = Tail(clear)
    BY <1>4 DEF DeleteTable, appVars, Apart
  <2>2. Head(clear) = "buses" \/ db["buses"] = {}
    BY <2>1, HeadsAndTails DEF BusesGoFirst
  <2>3. db'["buses"] = {}
    BY <1>0, <1>4, <2>2 DEF DeleteTable, Tables
  <2> QED
    BY <2>1, <2>3 DEF Apart, BusesGoFirst, RouteFirst, StopsSoFar, BusLast
<1>5. CASE StartClear
  <2>1. ~Loading /\ UNCHANGED <<db, startup, stopsLeft>> /\ clear' = ClearOrder
    BY <1>5 DEF StartClear, appVars
  <2> QED
    BY <2>1 DEF Apart, BusesGoFirst, RouteFirst, StopsSoFar, BusLast, SampleStored
<1>6. CASE CheckRoutes
  <2>1. UNCHANGED <<db, clear>> /\ startup' \in {"route", "done", "decode"}
        /\ (startup' = "route" => clear = << >>)
    BY <1>6 DEF CheckRoutes
  <2> QED
    BY <2>1 DEF Apart, BusesGoFirst, RouteFirst, StopsSoFar, BusLast, SampleStored
<1>7. CASE \/ Launch \/ Kill \/ OpenDatabase \/ InitLocation \/ DecodeRoutes
           \/ StartLoad \/ LoadStep \/ UNCHANGED vars
  <2>1. /\ db' = db /\ clear' \in {clear, << >>}
        /\ \/ UNCHANGED <<startup, stopsLeft>>
           \/ startup' \notin {"route", "stops", "bus"}
    BY <1>7 DEF Launch, Kill, OpenDatabase, InitLocation, DecodeRoutes, StartLoad,
       LoadStep, GetPosition, GetAllBuses, GetAllRoutes, appVars, clearVars, vars
  <2> QED
    BY <2>1 DEF Apart, BusesGoFirst, RouteFirst, StopsSoFar, BusLast, SampleStored
<1> QED
  BY <1>1, <1>2, <1>3, <1>4, <1>5, <1>6, <1>7 DEF Next, StartupStep

\* A stored bus has its route and every stop of it, whatever statement a kill
\* comes before: the bus is inserted last (_loadSampleData) and deleted first
\* (clearAllData).  A load and a clear that are under way at once break it.
THEOREM StoredBusHasSample == Spec => []BusHasSample
<1>1. Init => IInv
  <2>1. Init => Sound
    BY DEF Init, Sound, Apart, BusesGoFirst, RouteFirst, StopsSoFar, BusLast, Tables
  <2> QED
    BY <2>1, InitTypes DEF IInv
<1>2. IInv /\ [Next]_vars => IInv'
  BY StepTypes, SoundStep, OverlapStays DEF IInv
<1>3. IInv => BusHasSample
  BY DEF IInv, Sound, BusLast, BusHasSample
<1> QED
  BY <1>1, <1>2, <1>3, PTL DEF Spec
=============================================================================
