----------------------------- MODULE OfflineData -----------------------------
(***************************************************************************)
(* The app's offline data: DatabaseService, OfflineService and the three   *)
(* callers they have (the startup of AppScreen, the load of HomeScreen,    *)
(* "clear cache" of SettingsScreen).                                       *)
(*                                                                         *)
(* Dart runs them on one isolate: a step below is what happens between two *)
(* awaits, which is one SQLite statement at most.  Each statement is       *)
(* atomic and durable (sqflite and SQLite are external); nothing groups    *)
(* several of them.  The process may be killed between any two steps.      *)
(***************************************************************************)
EXTENDS Naturals, Sequences, FiniteSets

CONSTANTS
  MaxLaunches,     \* bound: launches of the app
  MaxClears,       \* bound: taps on "clear cache"
  Today            \* "weekday" or "weekend"

ASSUME BoundsAssumption ==
  /\ MaxLaunches \in Nat /\ MaxClears \in Nat
  /\ Today \in {"weekday", "weekend"}

VARIABLES
  db,         \* table name -> rows on disk
  startup,    \* where _initializeServices is
  stopsLeft,  \* stops insertRoute still has to insert
  launches,   \* launches so far
  load,       \* where getNextBuses is, for HomeScreen
  readBuses,  \* what getAllBuses returned to it
  result,     \* what it returned last
  clear,      \* statements clearAllData has still to run, in order
  clears,     \* taps so far
  overlapped  \* history, read by properties alone: a load of the sample data
              \* and a clearAllData have been under way at once

appVars  == <<startup, stopsLeft, launches>>
loadVars == <<load, readBuses, result>>
clearVars == <<clear, clears, overlapped>>
vars     == <<db, appVars, loadVars, clearVars>>

Tables == {"buses", "routes", "stops", "trip_logs"}

(* The sample data, reduced to the fields that decide anything.            *)
SampleStops == <<"stop1", "stop2", "stop3">>
SampleRoute ==
  [id       |-> "amritsar-ludhiana",
   path     |-> <<"amritsar", "jandiala", "ludhiana">>,
   schedule |-> [weekday |-> {"08:00", "10:00", "14:00", "18:00"},
                 weekend |-> {"09:00", "13:00", "17:00"}]]
SampleBus ==
  [id |-> "BUS-PN01-1234", routeId |-> "amritsar-ludhiana",
   departureTime |-> "08:00"]
StopRow(stop) == [id |-> stop, routeId |-> SampleRoute.id]
SampleStopRows == {StopRow(SampleStops[i]) : i \in 1..Len(SampleStops)}

SampleStored ==
  /\ SampleBus \in db["buses"]
  /\ SampleRoute \in db["routes"]
  /\ SampleStopRows \subseteq db["stops"]

(* getAllRoutes rebuilds a Route from its row.  json.decode yields         *)
(* List<dynamic> and Map<String, dynamic>; List<Map<String, double>>.from  *)
(* and Map<String, List<String>>.from cast every element and throw on the  *)
(* first one: only an empty path and an empty schedule can be read back.   *)
Decodes(row) == row.path = << >> /\ DOMAIN row.schedule = {}

\* firstWhere throws when a bus has no route, and the catch of getNextBuses
\* turns every exception into an empty list.
NextBuses(busRows, routeRows) ==
  LET RoutesOf(bus) == {r \in routeRows : r.id = bus.routeId}
  IN  IF \E bus \in busRows : RoutesOf(bus) = {}
        THEN {}
        ELSE {bus \in busRows : \E r \in RoutesOf(bus) :
                Today \in DOMAIN r.schedule
                /\ bus.departureTime \in r.schedule[Today]}

Init ==
  /\ db = [t \in Tables |-> {}]
  /\ startup = "off" /\ stopsLeft = << >> /\ launches = 0
  /\ load = "idle" /\ readBuses = {} /\ result = {}
  /\ clear = << >> /\ clears = 0 /\ overlapped = FALSE

-----------------------------------------------------------------------------
(* Launch, and the end of the process.                                     *)

Launch ==
  /\ startup = "off" /\ launches < MaxLaunches
  /\ launches' = launches + 1
  /\ startup' = "initialize"
  /\ UNCHANGED <<db, stopsLeft, loadVars, clearVars>>

\* The process dies: memory is lost, the tables stay as they are.
Kill ==
  /\ startup # "off"
  /\ startup' = "off" /\ stopsLeft' = << >>
  /\ load' = "idle" /\ readBuses' = {} /\ result' = {}
  /\ clear' = << >>
  /\ UNCHANGED <<db, launches, clears, overlapped>>

-----------------------------------------------------------------------------
(* _initializeServices and loadSampleDataIfNeeded.                         *)

\* DatabaseService.initialize opens the database; onCreate makes the tables.
OpenDatabase ==
  /\ startup = "initialize"
  /\ startup' = "location"
  /\ UNCHANGED <<db, stopsLeft, launches, loadVars, clearVars>>

\* LocationService.initialize ignores the permission, but a platform
\* exception ends _initializeServices.
InitLocation ==
  /\ startup = "location"
  /\ startup' \in {"check", "noLocation"}
  /\ UNCHANGED <<db, stopsLeft, launches, loadVars, clearVars>>

\* loadSampleDataIfNeeded loads when there is no route.
\* Fault: the condition is inverted.
NeededWhenStored(routeRows) == routeRows # {}
Needed(routeRows) == routeRows = {}

\* The query of table routes.  No row: getAllRoutes returns an empty list.
CheckRoutes ==
  /\ startup = "check"
  /\ startup' = IF Needed(db["routes"]) THEN "route"
                ELSE IF db["routes"] = {} THEN "done" ELSE "decode"
  /\ overlapped' = (overlapped \/ (startup' = "route" /\ clear # << >>))
  /\ UNCHANGED <<db, stopsLeft, launches, loadVars, clear, clears>>

\* The stops of the first row read are queried, then the row is decoded (the
\* sample route is the only one ever stored); an exception ends
\* _initializeServices.
DecodeRoutes ==
  /\ startup = "decode"
  /\ startup' = IF Decodes(SampleRoute) THEN "done" ELSE "threw"
  /\ UNCHANGED <<db, stopsLeft, launches, loadVars, clearVars>>

\* insertRoute: the route's row first.
InsertRouteRow ==
  /\ startup = "route"
  /\ db' = [db EXCEPT !["routes"] = @ \cup {SampleRoute}]
  /\ stopsLeft' = SampleStops
  /\ startup' = "stops"
  /\ UNCHANGED <<launches, loadVars, clearVars>>

NoStopAfter(left) == Len(left) = 1

\* insertRoute: then one row per stop.
InsertStopRow ==
  /\ startup = "stops"
  /\ db' = [db EXCEPT !["stops"] = @ \cup {StopRow(Head(stopsLeft))}]
  /\ stopsLeft' = IF NoStopAfter(stopsLeft) THEN << >> ELSE Tail(stopsLeft)
  /\ startup' = IF NoStopAfter(stopsLeft) THEN "bus" ELSE "stops"
  /\ UNCHANGED <<launches, loadVars, clearVars>>

\* Fault: insertBus writes to the table of routes.
BusTableMistaken == "routes"
BusTable == "buses"

InsertBusRow ==
  /\ startup = "bus"
  /\ db' = [db EXCEPT ![BusTable] = @ \cup {SampleBus}]
  /\ startup' = "done"
  /\ UNCHANGED <<stopsLeft, launches, loadVars, clearVars>>

-----------------------------------------------------------------------------
(* getNextBuses.  The OfflineService exists once the location is ready;    *)
(* AppStartup is about how HomeScreen gets at it.                          *)

StartLoad ==
  /\ startup \notin {"off", "initialize", "location", "noLocation"}
  /\ load = "idle"
  /\ load' = "position"
  /\ UNCHANGED <<db, appVars, readBuses, result, clearVars>>

\* getCurrentPosition answers, or throws and the list is empty.
GetPosition ==
  /\ load = "position"
  /\ \/ load' = "buses" /\ UNCHANGED result
     \/ load' = "idle"  /\ result' = {}
  /\ UNCHANGED <<db, appVars, readBuses, clearVars>>

GetAllBuses ==
  /\ load = "buses"
  /\ readBuses' = db["buses"]
  /\ load' = "routes"
  /\ UNCHANGED <<db, appVars, result, clearVars>>

\* getAllRoutes (its query and its decoding) and the filter.
GetAllRoutes ==
  /\ load = "routes"
  /\ load' = "idle" /\ readBuses' = {}
  /\ result' = IF \A r \in db["routes"] : Decodes(r)
                 THEN NextBuses(readBuses, db["routes"])
                 ELSE {}
  /\ UNCHANGED <<db, appVars, clearVars>>

-----------------------------------------------------------------------------
(* clearAllData, from _clearCache: nothing keeps the user from tapping     *)
(* while the startup is still loading the sample data.                     *)

\* Fault: the routes go first.
ClearRoutesFirst == <<"routes", "buses", "stops", "trip_logs">>
ClearOrder == <<"buses", "routes", "stops", "trip_logs">>

StartClear ==
  /\ startup # "off" /\ clear = << >> /\ clears < MaxClears
  /\ clear' = ClearOrder
  /\ clears' = clears + 1
  /\ overlapped' = (overlapped \/ startup \in {"route", "stops", "bus"})
  /\ UNCHANGED <<db, appVars, loadVars>>

DeleteTable ==
  /\ clear # << >>
  /\ db' = [db EXCEPT ![Head(clear)] = {}]
  /\ clear' = Tail(clear)
  /\ UNCHANGED <<appVars, loadVars, clears, overlapped>>

-----------------------------------------------------------------------------
StartupStep ==
  \/ OpenDatabase \/ InitLocation \/ CheckRoutes \/ DecodeRoutes
  \/ InsertRouteRow \/ InsertStopRow \/ InsertBusRow

LoadStep == GetPosition \/ GetAllBuses \/ GetAllRoutes

Next ==
  \/ Launch \/ Kill
  \/ StartupStep
  \/ StartLoad \/ LoadStep
  \/ StartClear \/ DeleteTable

Spec == Init /\ [][Next]_vars

\* The isolate goes on with the statements it has issued.  Permission
\* dialogs and position fixes may take for ever.
FairSpec ==
  /\ Spec
  /\ WF_vars(StartupStep /\ startup # "location")
  /\ WF_vars(DeleteTable)

-----------------------------------------------------------------------------
(* Properties.                                                             *)

\* Every table holds rows of its own kind, and every caller is where its
\* code can be.
TypeOK ==
  /\ db["buses"] \subseteq {SampleBus} /\ db["routes"] \subseteq {SampleRoute}
  /\ db["stops"] \subseteq SampleStopRows /\ db["trip_logs"] = {}
  /\ startup \in {"off", "initialize", "location", "noLocation", "check",
                  "decode", "threw", "route", "stops", "bus", "done"}
  /\ Len(stopsLeft) \in 0..3 /\ launches \in 0..MaxLaunches
  /\ load \in {"idle", "position", "buses", "routes"}
  /\ readBuses \subseteq {SampleBus} /\ result \subseteq {SampleBus}
  /\ Len(clear) \in 0..4 /\ clears \in 0..MaxClears /\ overlapped \in BOOLEAN

\* A stored bus has its route and every stop of it, wherever the process was
\* killed, as long as no load and no clear have been under way at once: the
\* loader writes the bus last and clearAllData deletes the buses first.  A bus
\* without its route makes firstWhere throw, and no bus is listed.
BusHasSample == ~overlapped /\ db["buses"] # {} => SampleStored

\* A launch that finds no route stores the sample data ("Load sample data if
\* database is empty", app.dart:34), unless the process is killed or the
\* cache is cleared meanwhile.
SampleArrives ==
  (startup = "check" /\ db["routes"] = {})
    ~> (SampleStored \/ startup = "off" \/ overlapped)

\* settings_screen.dart:110 tells the user "Cache cleared successfully" when
\* clearAllData returns: the tables should be empty then.
ClearReturns == Len(clear) = 1 /\ DeleteTable
ClearedMeansEmpty == [][ClearReturns => \A t \in Tables : db'[t] = {}]_vars

\* getNextBuses keeps the buses "scheduled to run today"
\* (offline_service.dart:94): the sample bus is among them when it was read,
\* its route is stored and the route's schedule of the day has its departure.
ScheduledBusOffered ==
  [][GetAllRoutes /\ SampleBus \in readBuses /\ SampleRoute \in db["routes"]
       /\ SampleBus.departureTime \in SampleRoute.schedule[Today]
     => SampleBus \in result']_vars
=============================================================================
