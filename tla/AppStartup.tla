----------------------------- MODULE AppStartup ------------------------------
(***************************************************************************)
(* How HomeScreen gets its OfflineService.  AppScreen keeps the services   *)
(* in three late fields that _initializeServices assigns between awaits;   *)
(* its build puts a lazy Provider over each field.  Building is            *)
(* synchronous: AppScreen's initState runs _initializeServices up to its   *)
(* first await, and the same frame mounts HomeScreen, whose initState      *)
(* looks the OfflineService up.                                            *)
(***************************************************************************)
EXTENDS Naturals

CONSTANT MaxRefreshes  \* bound: taps on the refresh button

VARIABLES
  step,       \* where _initializeServices is suspended
  fields,     \* the late fields that have been assigned
  provider,   \* Provider<OfflineService>: "lazy", "value" or "error"
  home,       \* HomeScreen: "unmounted", "spinner", "loading" or "list"
  refreshes   \* taps so far

vars == <<step, fields, provider, home, refreshes>>

Init ==
  /\ step = "notStarted" /\ fields = {}
  /\ provider = "lazy" /\ home = "unmounted" /\ refreshes = 0

\* AppScreen.initState, up to the await of DatabaseService.initialize.
InitState ==
  /\ step = "notStarted"
  /\ fields' = {"databaseService"}
  /\ step' = "opening"
  /\ UNCHANGED <<provider, home, refreshes>>

\* Reading an unassigned late field throws LateInitializationError.  The
\* provider package creates its value once and keeps an error as it keeps a
\* value.
Created ==
  IF provider # "lazy" THEN provider
  ELSE IF "offlineService" \in fields THEN "value" ELSE "error"

\* _loadNextBuses: Provider.of, then getNextBuses.  A throw leaves the
\* screen as it is.
LoadNextBuses ==
  /\ provider' = Created
  /\ home' = IF Created = "value" THEN "loading"
             ELSE IF home = "unmounted" THEN "spinner" ELSE home

\* AppScreen.build and HomeScreen.initState, in the frame of InitState.
BuildHome ==
  /\ step = "opening" /\ home = "unmounted"
  /\ LoadNextBuses
  /\ UNCHANGED <<step, fields, refreshes>>

Refresh ==
  /\ home \in {"spinner", "list"} /\ refreshes < MaxRefreshes
  /\ LoadNextBuses
  /\ refreshes' = refreshes + 1
  /\ UNCHANGED <<step, fields>>

\* getNextBuses answers: setState.
ShowBuses ==
  /\ home = "loading"
  /\ home' = "list"
  /\ UNCHANGED <<step, fields, provider, refreshes>>

\* The awaits of _initializeServices return, once the frame is over.
DatabaseReady ==
  /\ step = "opening" /\ home # "unmounted"
  /\ fields' = fields \cup {"locationService"}
  /\ step' = "locating"
  /\ UNCHANGED <<provider, home, refreshes>>

LocationReady ==
  /\ step = "locating"
  /\ \/ fields' = fields \cup {"offlineService"} /\ step' = "storing"
     \/ step' = "threw" /\ UNCHANGED fields
  /\ UNCHANGED <<provider, home, refreshes>>

Next ==
  \/ InitState \/ BuildHome \/ Refresh \/ ShowBuses
  \/ DatabaseReady \/ LocationReady

Spec == Init /\ [][Next]_vars

\* "late OfflineService _offlineService;" (app.dart:17) promises that the
\* field is assigned before anything reads it: no reader finds it unset.
LateFieldSetBeforeRead ==
  [][provider = "lazy" /\ provider' # "lazy" => "offlineService" \in fields]_vars
=============================================================================
