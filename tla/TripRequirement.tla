--------------------------- MODULE TripRequirement ---------------------------
(***************************************************************************)
(* What a traveller's text says of a trip, and the rules that decide       *)
(* whether a trip can be made of it.                                       *)
(*                                                                         *)
(* A draft gives each field a value or None; the fields are those that an  *)
(* issue can name, under the names the issues use.  Dates are days, times  *)
(* are half days (time t lies on day t \div 2), hours are hours of the     *)
(* day, all in the time zone of the request.                               *)
(***************************************************************************)
EXTENDS Integers, FiniteSets

CONSTANT None

Fields == {"destination", "start_date", "end_date", "arrival.name", "arrival.at",
           "departure.name", "departure.at", "accommodation_name", "travelers",
           "total_budget", "daily_start", "daily_end"}

Dated == {"start_date", "end_date", "arrival.at", "departure.at", "daily_start",
          "daily_end"}

Blank == [f \in Fields |-> None]
Day(time) == time \div 2

Issue(code, field) == [code |-> code, field |-> field]

RequiredFields == {"destination", "start_date", "end_date", "arrival.name",
                   "arrival.at", "departure.name", "departure.at"}
Given(draft, fields) == \A f \in fields : draft[f] # None

\* The conflicts between fields that are given, by the field of their issue.
Conflicts_Slip(draft) ==
    {f \in {"date_range", "arrival.at", "departure.at", "daily_window"} :
        \/ /\ f = "date_range" /\ Given(draft, {"start_date", "end_date"})
           /\ draft["end_date"] < draft["start_date"]
        \/ /\ f = "arrival.at" /\ Given(draft, {"arrival.at", "start_date"})
           /\ Day(draft["arrival.at"]) < draft["start_date"]
        \/ /\ f = "departure.at" /\ Given(draft, {"departure.at", "end_date"})
           /\ Day(draft["departure.at"]) > draft["end_date"]
        \/ /\ f = "daily_window" /\ Given(draft, {"daily_start", "daily_end"})
           /\ draft["daily_end"] <= draft["daily_start"]}

Conflicts(draft) ==
    {f \in {"date_range", "transport_time", "arrival.at", "departure.at", "daily_window"} :
        \/ /\ f = "date_range" /\ Given(draft, {"start_date", "end_date"})
           /\ draft["end_date"] < draft["start_date"]
        \/ /\ f = "transport_time" /\ Given(draft, {"arrival.at", "departure.at"})
           /\ draft["departure.at"] <= draft["arrival.at"]
        \/ /\ f = "arrival.at" /\ Given(draft, {"arrival.at", "start_date"})
           /\ Day(draft["arrival.at"]) < draft["start_date"]
        \/ /\ f = "departure.at" /\ Given(draft, {"departure.at", "end_date"})
           /\ Day(draft["departure.at"]) > draft["end_date"]
        \/ /\ f = "daily_window" /\ Given(draft, {"daily_start", "daily_end"})
           /\ draft["daily_end"] <= draft["daily_start"]}

Invalid(draft) ==
    {f \in {"travelers", "total_budget"} :
        \/ f = "travelers" /\ draft[f] # None /\ draft[f] \notin 1..20
        \/ f = "total_budget" /\ draft[f] # None /\ draft[f] <= 0}

\* validate_requirement; every issue is blocking.
IssuesOf(draft) ==
    {Issue("missing", f) : f \in {g \in RequiredFields : draft[g] = None}}
        \cup {Issue("conflict", f) : f \in Conflicts(draft)}
        \cup {Issue("invalid", f) : f \in Invalid(draft)}

\* The fields that an answer to an issue may change.
TargetFields(issue) ==
    CASE issue.field = "date_range" -> {"start_date", "end_date"}
      [] issue.field = "transport_time" -> {"arrival.at", "departure.at"}
      [] issue.field = "daily_window" -> {"daily_start", "daily_end"}
      [] issue = Issue("conflict", "arrival.at") -> {"start_date", "arrival.at"}
      [] issue = Issue("conflict", "departure.at") -> {"end_date", "departure.at"}
      [] OTHER -> {issue.field}

Targets(issues) == UNION {TargetFields(i) : i \in issues}

\* The fields that a patch gives a new value, of those it may change: a patch
\* cannot take a value away.
Changed_Slip(draft, patch, allowed) ==
    {f \in Fields : patch[f] # None /\ patch[f] # draft[f]}
Changed(draft, patch, allowed) ==
    {f \in allowed : patch[f] # None /\ patch[f] # draft[f]}

Merged(draft, patch, allowed) ==
    [f \in Fields |-> IF f \in Changed(draft, patch, allowed) THEN patch[f] ELSE draft[f]]

-----------------------------------------------------------------------------
(* The places of a trip. *)

Roles == {"arrival", "departure", "accommodation"}
NameOf == [arrival |-> "arrival.name", departure |-> "departure.name",
           accommodation |-> "accommodation_name"]

RequiredRoles(draft) == {r \in Roles : draft[NameOf[r]] # None}

\* What a place is looked up by, and what its resolution stands for.
Query(draft, role) == [city |-> draft["destination"], name |-> draft[NameOf[role]]]

InvalidatedRoles(changed) ==
    IF "destination" \in changed THEN Roles ELSE {r \in Roles : NameOf[r] \in changed}

AnchorIssues(roles) == {Issue("not_found", NameOf[r]) : r \in roles}

-----------------------------------------------------------------------------
(* The trip: TripSpec and the exceptions of assemble_trip_spec. *)

Start(draft) == IF draft["daily_start"] = None THEN 9 ELSE draft["daily_start"]
End(draft) == IF draft["daily_end"] = None THEN 20 ELSE draft["daily_end"]

Assembles(draft, resolutions) ==
    /\ IssuesOf(draft) = {}
    /\ resolutions["arrival"] # None /\ resolutions["departure"] # None
    /\ draft["accommodation_name"] # None => resolutions["accommodation"] # None
    /\ draft["end_date"] >= draft["start_date"]
    /\ Day(draft["arrival.at"]) >= draft["start_date"]
    /\ Day(draft["departure.at"]) <= draft["end_date"]
    /\ draft["departure.at"] > draft["arrival.at"]
    /\ End(draft) > Start(draft)
=============================================================================
