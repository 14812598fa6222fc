----------------------------- MODULE SourceSettings -----------------------------
(***************************************************************************)
(* How the settings of a source reach the table source_site: two ways to   *)
(* create a source and four to change it, each with its own validation of  *)
(* what was typed or posted.  Every operator returns the set of settings   *)
(* the request leads to: one element, or none where it is refused.         *)
(*                                                                         *)
(* A request is a record of raw values.  A switch is "true", "false",      *)
(* "absent", "null" (JSON only) or "other" text; a number that is absent,  *)
(* null or no number has a value of its own.  Names and addresses matter   *)
(* here only for being acceptable ("rest").                                *)
(***************************************************************************)
EXTENDS Integers

CONSTANT DayOptions     \* SCHEDULE_DAY_OPTIONS

ASSUME DayOptionsAssumption == DayOptions \subseteq Nat \ {0} /\ 1 \in DayOptions

NoNumber == -1
NullNumber == -2
AbsentNumber == -3

Switch == {"true", "false", "absent", "null", "other"}

Settings == [active : BOOLEAN, enabled : BOOLEAN, days : DayOptions]

Should(s) == s.active /\ s.enabled /\ s.days \in DayOptions

----------------------------------------------------------------------------
(* Single fields *)

\* _parse_form_bool: a missing field arrives as "" and is refused.
FormBool(v) == v \in {"true", "false"}

\* _parse_form_positive_int
FormCount(n) == n >= 1

\* _safe_parse_schedule_days: the options are checked after the parsing.
FormDays(n) == n \in DayOptions

\* A field of a JSON model with a default: null is no boolean.
JsonBool(v) == v \in {"true", "false", "absent"}

\* An optional field of a PATCH model takes null as a value.
PatchBool(v) == JsonBool(v) \/ v = "null"

PatchDays(n) == n \in DayOptions \cup {NullNumber, AbsentNumber}

\* NOT NULL columns: an explicit null passes the model and fails the commit.
Storable(v) == v # "null"

Given(v, old) == IF v = "absent" THEN old ELSE v = "true"

GivenDays(n, old) == IF n = AbsentNumber THEN old ELSE n

----------------------------------------------------------------------------
(* Creating a source *)

\* SourceSiteCreateRequest and its defaults, then the checks of create_source.
CreateByApi(f) ==
    {s \in {[active  |-> Given(f.active, TRUE),
             enabled |-> Given(f.enabled, FALSE),
             days    |-> GivenDays(f.days, 1)]} :
        JsonBool(f.active) /\ JsonBool(f.enabled) /\ f.rest /\ s.days \in DayOptions}

\* The form falls back on its defaults for what is missing, collects the errors
\* of all fields and validates the same model again.
FilledIn(f) ==
    [f EXCEPT !.active  = IF @ = "absent" THEN "true" ELSE @,
              !.enabled = IF @ = "absent" THEN "false" ELSE @,
              !.days    = IF @ = AbsentNumber THEN 1 ELSE @]

CreateByForm(f) ==
    LET g == FilledIn(f)
    IN  IF FormBool(g.active) /\ FormBool(g.enabled) /\ FormDays(g.days)
        THEN CreateByApi(g) ELSE {}

----------------------------------------------------------------------------
(* Changing a source whose settings are s *)

\* PATCH /sources/{code}
PatchSource(p, s) ==
    {t \in {[s EXCEPT !.active = Given(p.active, @)]} :
        PatchBool(p.active) /\ Storable(p.active) /\ p.rest}

\* It follows the schedule only when the activity was part of the request.
PatchFollows(p) == p.active # "absent"

\* PATCH /sources/{code}/schedule
PatchSchedule(p, s) ==
    {t \in {[s EXCEPT !.enabled = Given(p.enabled, @), !.days = GivenDays(p.days, @)]} :
        /\ PatchBool(p.enabled) /\ PatchDays(p.days)
        /\ Storable(p.enabled) /\ p.days # NullNumber}

\* POST /admin/sources/{code}/config: every field is sent, a blank name is stored
\* as NULL and refused by the table.
ConfigForm(p, s) ==
    {t \in {[s EXCEPT !.active = (p.active = "true")]} : FormBool(p.active) /\ p.rest}

\* POST /admin/sources/{code}/schedule
ScheduleForm(p, s) ==
    {t \in {[s EXCEPT !.enabled = (p.enabled = "true"), !.days = p.days]} :
        FormBool(p.enabled) /\ FormCount(p.days) /\ p.days \in DayOptions}
================================================================================
