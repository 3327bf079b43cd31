------------------------------- MODULE Request -------------------------------
(***************************************************************************)
(* A request on its way from the client's JSON to the objects that the     *)
(* solver works on: the backend binds it to a Go struct and marshals that  *)
(* again (main.go, structs.go), and the library's JsonParser reads the     *)
(* result (json_parser.cpp), one zone, vehicle or task after the other.    *)
(* The tests and the console hand their text to JsonParser directly.       *)
(***************************************************************************)
EXTENDS JsonAccess

CONSTANTS
    Bodies,      \* what clients post to the backend
    Texts,       \* what JsonParser is given directly
    Samples,     \* those of the Bodies that have the SampleForm
    Int32Max     \* 2^31 - 1

VARIABLES
    body,       \* what was posted or given; history
    posted,     \* whether it was posted to the backend
    root,       \* the argument of JsonParser
    pc,         \* "bind", "zones", "vehicles", "tasks", "settings", and at the
                \* end "done", "refused", "thrown" or "undefined"
    zones, vehicles, tasks,    \* m_zones, m_venchiles, m_tasks
    settings    \* the other members, by the names of the settings

vars == <<body, posted, root, pc, zones, vehicles, tasks, settings>>

-----------------------------------------------------------------------------
(* The backend.                                                             *)

\* RequestSettings: the Go type of each setting, and the value that the
\* handler puts there before it binds
GoSettings == [
    mean_track_speed_km_in_hour |-> [type |-> "int32", preset |-> [num |-> 90]],
    colony_size_limit |-> [type |-> "int32", preset |-> [num |-> 100]],
    trial_count_max_limit |-> [type |-> "int32", preset |-> [num |-> 50]],
    max_time_in_sec |-> [type |-> "int64", preset |-> [num |-> 300]],
    max_inactive_time_in_sec |-> [type |-> "int64", preset |-> [num |-> 30]],
    log_level |-> [type |-> "string", preset |-> [str |-> "debug"]],
    partial_solution_enabled |-> [type |-> "bool", preset |-> [bool |-> FALSE]],
    multi_threaded |-> [type |-> "bool", preset |-> [bool |-> FALSE]]]

GoTakes(type, j) ==
    \/ type = "int32" /\ Is("num", j) /\ j.num \in -Int32Max - 1 .. Int32Max
    \/ type = "int64" /\ Is("num", j)
    \/ type = "string" /\ Is("str", j)
    \/ type = "bool" /\ Is("bool", j)
    \/ type = "slice" /\ Is("arr", j)

\* a member that is absent, or null, is left as it was
Given(j, key) == Is("obj", j) /\ key \in DOMAIN j.obj /\ ~Is("nul", j.obj[key])
Member(j, key, otherwise) == IF Given(j, key) THEN j.obj[key] ELSE otherwise
Null == [nul |-> 0]

\* whether json.Unmarshal takes it
Binds(j) ==
    /\ Is("obj", j) \/ Is("nul", j)
    /\ Given(j, "account_id") => GoTakes("int32", j.obj.account_id)
    /\ \A key \in {"vehicles", "zones", "zones_", "tasks"} : Given(j, key) => GoTakes("slice", j.obj[key])
    /\ Given(j, "zones_") => \A item \in Range(j.obj.zones_.arr) : GoTakes("int32", item) \/ Is("nul", item)
    /\ Given(j, "settings") =>
          /\ Is("obj", j.obj.settings)
          /\ \A key \in DOMAIN GoSettings :
                Given(j.obj.settings, key) => GoTakes(GoSettings[key].type, j.obj.settings.obj[key])

\* mutation: members that the client left out are left out ("omitempty")
Marshalled_OmitEmpty(j) ==
    LET keys == {key \in {"account_id", "vehicles", "zones", "tasks", "settings"} : Given(j, key)}
    IN  [obj |-> [key \in keys |-> j.obj[key]]]

\* mutation: the handler does not set its variable before it binds to it
Marshalled_NoPresets(j) ==
    LET given == Member(j, "settings", [obj |-> << >>])
        Zero == [int32 |-> [num |-> 0], int64 |-> [num |-> 0], string |-> [str |-> ""], bool |-> [bool |-> FALSE]]
    IN  [obj |-> [account_id |-> Member(j, "account_id", [num |-> 0]),
                  vehicles |-> Member(j, "vehicles", Null),
                  zones |-> Member(j, "zones", Null),
                  tasks |-> Member(j, "tasks", Null),
                  settings |-> [obj |-> [key \in DOMAIN GoSettings |->
                                    Member(given, key, Zero[GoSettings[key].type])]]]]

\* what json.Marshal makes of the struct: every member is there (zones_ too,
\* which nothing reads)
Marshalled(j) ==
    LET given == Member(j, "settings", [obj |-> << >>])
        SettingOf(key) == Member(given, key, GoSettings[key].preset)
    IN  [obj |-> [account_id |-> Member(j, "account_id", [num |-> 0]),
                  vehicles |-> Member(j, "vehicles", Null),
                  zones |-> Member(j, "zones", Null),
                  tasks |-> Member(j, "tasks", Null),
                  settings |-> [obj |-> [key \in DOMAIN GoSettings |-> SettingOf(key)]]]]

Bind ==
    /\ pc = "bind"
    /\ IF Binds(body)
       THEN pc' = "zones" /\ root' = Marshalled(body)
       ELSE pc' = "refused" /\ UNCHANGED root
    /\ UNCHANGED <<body, posted, zones, vehicles, tasks, settings>>

-----------------------------------------------------------------------------
(* The objects.  What a function reads of one is a sequence of sets: the    *)
(* sets in order, the fields of one set, arguments of one call, in any.     *)
(* A field is the keys that lead to it and the type it is converted to; a   *)
(* list is converted element by element.                                    *)

F(path, as) == [path |-> path, as |-> as, list |-> FALSE]
L(path, as) == [path |-> path, as |-> as, list |-> TRUE]

\* mutation: the number of tasks is read as a number
VehicleFields_Number == <<
    {F(<<"id">>, "uint32")}, {F(<<"capacity">>, "lexical float")}, {F(<<"length">>, "lexical float")},
    {F(<<"height">>, "lexical float")}, {F(<<"width">>, "lexical float")},
    {F(<<"trip_duration">>, "double")}, {F(<<"trip_length">>, "double")},
    {F(<<"cost_of_using">>, "lexical float")}, {F(<<"cost_per_km">>, "bool")},
    {F(<<"trip_max_tasks">>, "uint32")},
    {L(<<"working_zone">>, "uint32")}, {L(<<"restricted_zone">>, "uint32")}>>

\* vehicleFromJson
VehicleFields == <<
    {F(<<"id">>, "uint32")}, {F(<<"capacity">>, "lexical float")}, {F(<<"length">>, "lexical float")},
    {F(<<"height">>, "lexical float")}, {F(<<"width">>, "lexical float")},
    {F(<<"trip_duration">>, "double")}, {F(<<"trip_length">>, "double")},
    {F(<<"cost_of_using">>, "lexical float")}, {F(<<"cost_per_km">>, "bool")},
    {F(<<"trip_max_tasks">>, "lexical uint32")},
    {L(<<"working_zone">>, "uint32")}, {L(<<"restricted_zone">>, "uint32")}>>

\* taskPointFromJson
PointFields(end) ==
    {F(<<end, "lat">>, "double"), F(<<end, "lon">>, "double"),
     F(<<end, "ts">>, "size_t"), F(<<end, "te">>, "size_t"), F(<<end, "dur">>, "size_t")}

\* mutation: the id is read like the types
TaskFields_Id16 == <<
    {F(<<"id">>, "uint16")}, {F(<<"capacity">>, "float")}, {F(<<"volume">>, "float")},
    {F(<<"maxsize">>, "float")}, PointFields("start"), PointFields("end"),
    {F(<<"vip">>, "int")}, {L(<<"types">>, "uint16")}>>

\* taskFromJson
TaskFields == <<
    {F(<<"id">>, "uint32")}, {F(<<"capacity">>, "float")}, {F(<<"volume">>, "float")},
    {F(<<"maxsize">>, "float")}, PointFields("start"), PointFields("end"),
    {F(<<"vip">>, "int")}, {L(<<"types">>, "uint16")}>>

\* zoneFromJson, up to its switch
ZoneFields == <<{F(<<"id">>, "uint32")}, {F(<<"zonetype">>, "int")}>>

\* the end of reading one field of j
Reading(j, f) ==
    LET inner == IF Len(f.path) = 1 THEN j ELSE j.obj[f.path[1]]
        key == f.path[Len(f.path)]
    IN  IF Lookup(j, f.path[1]) # "ok" THEN Lookup(j, f.path[1])
        ELSE IF Lookup(inner, key) # "ok" THEN Lookup(inner, key)
        ELSE IF (IF f.list THEN AllConverted(f.as, inner.obj[key])
                 ELSE Converted(f.as, inner.obj[key]) # {})
        THEN "ok" ELSE "thrown"

\* the ways in which reading j can fail: those of the first set with one
Failures(j, fields) ==
    LET failing(i) == {Reading(j, f) : f \in fields[i]} \ {"ok"}
        bad == {i \in DOMAIN fields : failing(i) # {}}
    IN  IF bad = {} THEN {} ELSE failing(CHOOSE i \in bad : \A k \in bad : i <= k)

\* what has been read, field by field
Fields(j, fields) ==
    [path \in {f.path : f \in UNION Range(fields)} |->
        LET f == CHOOSE f \in UNION Range(fields) : f.path = path
            raw == IF Len(path) = 1 THEN j.obj[path[1]] ELSE j.obj[path[1]].obj[path[2]]
        IN  IF f.list THEN List(f.as, raw) ELSE ConvertedTo(f.as, raw)]

\* mutation: a list of corners is not closed
Closed_Open(points) == points

\* the last corner of a polygon is its first one again
Closed(points) == IF Len(points) > 1 THEN Append(points, points[1]) ELSE points

\* setZonePolygonPoints: a corner with fewer than two numbers is at 0
PolygonFailures(j) ==
    LET corners == Items(j.obj.points)
    IN  IF Lookup(j, "points") # "ok" THEN {Lookup(j, "points")}
        ELSE IF \A i \in DOMAIN corners :
                    Len(Items(corners[i])) <= 2 /\ AllConverted("float", corners[i])
        THEN {} ELSE {"thrown"}

Polygon(j) ==
    LET Corner(c) == LET l == List("float", c)
                     IN  [lat |-> IF Len(l) > 0 THEN l[1] ELSE 0, lon |-> IF Len(l) > 1 THEN l[2] ELSE 0]
        corners == Items(j.obj.points)
    IN  Closed([i \in DOMAIN corners |-> Corner(corners[i])])

\* setZoneCircle reads three numbers of a vector that may be shorter
CircleFailures(j) ==
    IF Lookup(j, "points") # "ok" THEN {Lookup(j, "points")}
    ELSE IF ~AllConverted("double", j.obj.points) THEN {"thrown"}
    ELSE IF Len(Items(j.obj.points)) < 3 THEN {"undefined"}
    ELSE {}

ZoneFailures(j) ==
    IF Failures(j, ZoneFields) # {} THEN Failures(j, ZoneFields)
    ELSE CASE ConvertedTo("int", j.obj.zonetype) = 1 -> PolygonFailures(j)
           [] ConvertedTo("int", j.obj.zonetype) = 2 -> CircleFailures(j)
           [] OTHER -> {"thrown"}

\* mutation: the external id is narrower than what refers to it
Zone_Id16(j) ==
    [externalId |-> ConvertedTo("uint16", j.obj.id),
     polygon |-> ConvertedTo("int", j.obj.zonetype) = 1,
     points |-> IF ConvertedTo("int", j.obj.zonetype) = 1 THEN Polygon(j) ELSE << >>]

Zone(j) ==
    [externalId |-> ConvertedTo("uint32", j.obj.id),
     polygon |-> ConvertedTo("int", j.obj.zonetype) = 1,
     points |-> IF ConvertedTo("int", j.obj.zonetype) = 1 THEN Polygon(j) ELSE << >>]

-----------------------------------------------------------------------------
(* JsonParser::JsonParser.                                                  *)

Fail(ends) == pc' \in ends /\ UNCHANGED <<body, posted, root, zones, vehicles, tasks, settings>>

\* the range of root[key], when there is one
Parsing(key) == pc = key /\ Lookup(root, key) = "ok"
RangeOf(key) == Items(root.obj[key])

NoRange == pc \in {"zones", "vehicles", "tasks"} /\ Lookup(root, pc) # "ok" /\ Fail({Lookup(root, pc)})

ParseZone ==
    /\ Parsing("zones") /\ Len(zones) < Len(RangeOf("zones"))
    /\ LET j == RangeOf("zones")[Len(zones) + 1]
       IN  IF ZoneFailures(j) # {} THEN Fail(ZoneFailures(j))
           ELSE /\ zones' = Append(zones, Zone(j))
                /\ UNCHANGED <<body, posted, root, pc, vehicles, tasks, settings>>

ParseVehicle ==
    /\ Parsing("vehicles") /\ Len(vehicles) < Len(RangeOf("vehicles"))
    /\ LET j == RangeOf("vehicles")[Len(vehicles) + 1]
       IN  IF Failures(j, VehicleFields) # {} THEN Fail(Failures(j, VehicleFields))
           ELSE /\ vehicles' = Append(vehicles, Fields(j, VehicleFields))
                /\ UNCHANGED <<body, posted, root, pc, zones, tasks, settings>>

\* taskFromJson keeps whether the number vip is 0, and sorts the types.
Task(j) == [Fields(j, TaskFields) EXCEPT ![<<"vip">>] = @ # 0, ![<<"types">>] = SortSeq(@, <)]

ParseTask ==
    /\ Parsing("tasks") /\ Len(tasks) < Len(RangeOf("tasks"))
    /\ LET j == RangeOf("tasks")[Len(tasks) + 1]
       IN  IF Failures(j, TaskFields) # {} THEN Fail(Failures(j, TaskFields))
           ELSE /\ tasks' = Append(tasks, Task(j))
                /\ UNCHANGED <<body, posted, root, pc, zones, vehicles, settings>>

NextRange ==
    /\ \/ Parsing("zones") /\ Len(zones) = Len(RangeOf("zones")) /\ pc' = "vehicles"
       \/ Parsing("vehicles") /\ Len(vehicles) = Len(RangeOf("vehicles")) /\ pc' = "tasks"
       \/ Parsing("tasks") /\ Len(tasks) = Len(RangeOf("tasks")) /\ pc' = "settings"
    /\ UNCHANGED <<body, posted, root, zones, vehicles, tasks, settings>>

\* the types of the members that get_if_found assigns to
SettingTypes == [
    mean_track_speed_km_in_hour |-> "double", colony_size_limit |-> "size_t",
    trial_count_max_limit |-> "size_t", max_time_in_sec |-> "size_t",
    max_inactive_time_in_sec |-> "size_t", log_level |-> "string",
    partial_solution_enabled |-> "bool", multi_threaded |-> "bool"]

\* the members' initial values; a speed is given in km/h and kept in m/s,
\* in the model in units of 1/18 m/s, so that km/h are 5 of them
Defaults == [
    mean_track_speed_km_in_hour |-> 90 * 18, colony_size_limit |-> 100,
    trial_count_max_limit |-> 50, max_time_in_sec |-> 300,
    max_inactive_time_in_sec |-> 30, log_level |-> "",
    partial_solution_enabled |-> FALSE, multi_threaded |-> FALSE, account_id |-> 0]

Found(s) == {key \in DOMAIN SettingTypes : Lookup(s, key) = "ok"}
SpeedOf(km_in_hour) == 5 * km_in_hour

AfterSettings(s) ==
    [key \in DOMAIN settings |->
        CASE key = "mean_track_speed_km_in_hour" ->
                SpeedOf(IF key \in Found(s) THEN ConvertedTo("double", s.obj[key]) ELSE settings[key] \div 18)
          [] key = "account_id" -> ConvertedTo("uint32", root.obj.account_id)
          [] key \in Found(s) \ {"mean_track_speed_km_in_hour"} -> ConvertedTo(SettingTypes[key], s.obj[key])
          [] OTHER -> settings[key]]

SettingsFailures(s) ==
    IF \E key \in Found(s) : Converted(SettingTypes[key], s.obj[key]) = {} THEN {"thrown"}
    ELSE IF Lookup(root, "account_id") # "ok" THEN {Lookup(root, "account_id")}
    ELSE IF Converted("uint32", root.obj.account_id) = {} THEN {"thrown"}
    ELSE {}

\* Without settings the constructor returns at once: the speed stays in km/h,
\* and no account is read.
ParseSettings ==
    /\ pc = "settings"
    /\ IF Lookup(root, "settings") # "ok" THEN Fail({Lookup(root, "settings")})
       ELSE LET s == root.obj.settings
            IN  IF IsEmpty(s)
                THEN pc' = "done" /\ UNCHANGED <<body, posted, root, zones, vehicles, tasks, settings>>
                ELSE IF SettingsFailures(s) # {} THEN Fail(SettingsFailures(s))
                ELSE /\ settings' = AfterSettings(s)
                     /\ pc' = "done" /\ UNCHANGED <<body, posted, root, zones, vehicles, tasks>>

Init ==
    /\ \/ body \in Bodies /\ posted = TRUE /\ pc = "bind" /\ root = Null
       \/ body \in Texts /\ posted = FALSE /\ pc = "zones" /\ root = body
    /\ zones = << >> /\ vehicles = << >> /\ tasks = << >>
    /\ settings = Defaults

Next == Bind \/ NoRange \/ ParseZone \/ ParseVehicle \/ ParseTask \/ NextRange \/ ParseSettings

Spec == Init /\ [][Next]_vars

-----------------------------------------------------------------------------
(* Properties.                                                              *)

InRange(j) == Is("num", j) /\ j.num \in 0 .. Modulus.uint32 - 1
Elements(key) == Items(Member(body, key, Null))

\* Objects are only read in the order zones, vehicles, tasks; what was read
\* has exactly the fields that the solver uses.
TypeOK ==
    /\ pc \in {"bind", "zones", "vehicles", "tasks", "settings", "done", "refused", "thrown", "undefined"}
    /\ vehicles # << >> => pc \notin {"bind", "zones", "refused"}
    /\ tasks # << >> => pc \notin {"bind", "zones", "vehicles", "refused"}
    /\ \A i \in DOMAIN zones : zones[i].externalId \in 0 .. Modulus.uint32 - 1
    /\ \A i \in DOMAIN vehicles : vehicles[i][<<"trip_max_tasks">>] \in 0 .. Modulus.uint32 - 1
    /\ \A i \in DOMAIN tasks : \A f \in {"ts", "te", "dur"} :
          tasks[i][<<"start", f>>] \in 0 .. Modulus.size_t - 1

\* A request that is solved is solved whole: for every object that the client
\* has sent there is one, with that id, at the same place.
WholeRequest ==
    posted /\ pc = "done" =>
        /\ Len(zones) = Len(Elements("zones"))
        /\ Len(vehicles) = Len(Elements("vehicles"))
        /\ Len(tasks) = Len(Elements("tasks"))
        /\ \A i \in DOMAIN tasks :
              InRange(Elements("tasks")[i].obj.id) => tasks[i][<<"id">>] = Elements("tasks")[i].obj.id.num

\* The ids by which a vehicle names its zones and the ids of the zones are
\* converted apart; as long as they fit, a vehicle names a zone afterwards if
\* and only if the client's does.
ReferencesKept ==
    posted /\ pc = "done" =>
        \A v \in DOMAIN vehicles, z \in DOMAIN zones :
            LET named == Items(Elements("vehicles")[v].obj.working_zone)
                id == Elements("zones")[z].obj.id
            IN  InRange(id) /\ (\A i \in DOMAIN named : InRange(named[i])) =>
                    (zones[z].externalId \in Range(vehicles[v][<<"working_zone">>])
                        <=> \E i \in DOMAIN named : named[i].num = id.num)

\* What the checker of zones relies on: a polygon of more than one corner
\* ends where it began.
PolygonsClosed ==
    \A i \in DOMAIN zones : zones[i].polygon /\ Len(zones[i].points) > 1 =>
        /\ zones[i].points[1] = zones[i].points[Len(zones[i].points)]
        /\ Len(zones[i].points) > 2

\* The handler and the library each have their defaults for settings that a
\* client leaves out; what is solved with is what the library alone would
\* take, but for the log level.
DefaultsAgree ==
    posted /\ pc = "done" =>
        \A key \in DOMAIN GoSettings \ {"log_level"} :
            ~Given(Member(body, "settings", Null), key) =>
                settings[key] = IF key = "mean_track_speed_km_in_hour"
                                THEN SpeedOf(Defaults[key] \div 18) ELSE Defaults[key]

\* Whatever the client posts, no member of the outermost object is missing
\* when the library reads it; what can be missing is inside the objects.
RootComplete ==
    posted /\ pc = "undefined" =>
        \/ \E z \in Range(Elements("zones")) : "undefined" \in ZoneFailures(z)
        \/ \E v \in Range(Elements("vehicles")) : "undefined" \in Failures(v, VehicleFields)
        \/ \E t \in Range(Elements("tasks")) : "undefined" \in Failures(t, TaskFields)

\* The form of the requests in data/, of those where the limits of a trip are
\* numbers and not texts as in task.json.
NumbersAt(j, keys) == \A key \in keys : key \in DOMAIN j.obj /\ Is("num", j.obj[key])
NumeralsAt(j, keys) ==
    \A key \in keys : key \in DOMAIN j.obj /\ Is("str", j.obj[key]) /\ j.obj[key].str \in DOMAIN Numerals
ListOf(j, key, n) ==
    /\ key \in DOMAIN j.obj /\ Is("arr", j.obj[key])
    /\ Len(j.obj[key].arr) \in n /\ \A item \in Range(j.obj[key].arr) : Is("num", item)

SampleZone(j) ==
    /\ Is("obj", j) /\ NumbersAt(j, {"id", "zonetype"})
    /\ \/ j.obj.zonetype.num = 2 /\ ListOf(j, "points", {3})
       \/ /\ j.obj.zonetype.num = 1 /\ "points" \in DOMAIN j.obj /\ Is("arr", j.obj.points)
          /\ \A corner \in Range(j.obj.points.arr) : ListOf([obj |-> [corner |-> corner]], "corner", {2})
SampleVehicle(j) ==
    /\ Is("obj", j) /\ NumbersAt(j, {"id", "trip_duration", "trip_length"})
    /\ NumeralsAt(j, {"capacity", "length", "height", "width", "cost_of_using", "trip_max_tasks"})
    /\ Numerals[j.obj.trip_max_tasks.str].whole
    /\ "cost_per_km" \in DOMAIN j.obj /\ Is("bool", j.obj.cost_per_km)
    /\ \A key \in {"working_zone", "restricted_zone"} : ListOf(j, key, Nat) \/ (key \in DOMAIN j.obj /\ Is("nul", j.obj[key]))
SampleTask(j) ==
    /\ Is("obj", j) /\ NumbersAt(j, {"id", "capacity", "volume", "maxsize", "vip"}) /\ ListOf(j, "types", Nat)
    /\ \A end \in {"start", "end"} :
          /\ end \in DOMAIN j.obj /\ Is("obj", j.obj[end])
          /\ NumbersAt(j.obj[end], {"lat", "lon", "ts", "te", "dur"})
SampleForm(j) ==
    /\ Binds(j)
    /\ \A z \in Range(Items(Member(j, "zones", Null))) : SampleZone(z)
    /\ \A v \in Range(Items(Member(j, "vehicles", Null))) : SampleVehicle(v)
    /\ \A t \in Range(Items(Member(j, "tasks", Null))) : SampleTask(t)

\* Requests of the form of the files in data/ are accepted.
SamplesAccepted == posted /\ body \in Samples => pc \notin {"refused", "thrown", "undefined"}

\* What the solver is handed is what the client has asked for: every object,
\* with the zones that it names, polygons closed and what is left out filled in
\* alike by the backend and the library; and requests like the samples get
\* that far.
AskedIsSolved ==
    /\ WholeRequest
    /\ ReferencesKept
    /\ PolygonsClosed
    /\ DefaultsAgree
    /\ RootComplete
    /\ SamplesAccepted
=============================================================================
