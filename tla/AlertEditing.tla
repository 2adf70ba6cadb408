--------------------------- MODULE AlertEditing ---------------------------
(***************************************************************************)
(* What the owner's edits do to the settings record: the forms of the      *)
(* administration site (device/web/settings_post.py, alert_route.py,       *)
(* postpone_route.py and their validators), the ON/OFF control of the      *)
(* touch screen, the set-up, and the whole-record validation of            *)
(* provisioning/validation.py that every commit and every load passes.     *)
(*                                                                         *)
(* A commit is one step: it succeeds, or it fails leaving the old or the   *)
(* new record on flash (SettingsStore).  Of the record the network, the    *)
(* administrator and the colour scheme are left out: every commit but the  *)
(* set-up's copies them.                                                   *)
(***************************************************************************)
EXTENDS Naturals, Sequences, SequencesExt

CONSTANTS
    Limit,      \* the most alerts a record may hold (10)
    Times,      \* valid times of day
    Recurrence, \* valid sets of weekdays
    Delays,     \* valid postpone delays in minutes
    Bad,        \* a field that is there and does not parse
    Nothing     \* a field that is missing; no record; no pending occurrence

ASSUME EditingAssumption ==
    /\ Limit \in Nat \ {0}
    /\ Bad # Nothing
    /\ Bad \notin Times \union Recurrence \union Delays \union 1 .. Limit
    /\ Nothing \notin Times \union Recurrence \union Delays \union 1 .. Limit

\* Alert ids are "alert-1", "alert-2" and so on: their numbers.
AlertIds == 1 .. Limit
Alerts == [id : AlertIds, time : Times, enabled : BOOLEAN, days : Recurrence]

VARIABLES
    flash,      \* the record on flash, or Nothing
    served,     \* the record store.load() returns, or Nothing
    answer,     \* how the last request of the site was answered
    site,       \* whether the device is in config mode
    deleted     \* observed: an alert of this record has ever been deleted

editingVars == <<flash, served, answer, site, deleted>>

DefaultDelay == 10
Fresh == [alerts |-> <<>>, delay |-> DefaultDelay, pending |-> Nothing]

-----------------------------------------------------------------------------
(***************************************************************************)
(* Validation.                                                             *)
(***************************************************************************)
\* validate_settings_object: what a record must be to be written and read.
\* Duplicate ids are not looked for; the pending occurrence is not looked at.
ValidRecord(r) ==
    /\ Len(r.alerts) <= Limit
    /\ r.delay \in Delays \union {DefaultDelay}
    /\ \A i \in DOMAIN r.alerts : r.alerts[i] \in Alerts

\* The forms a browser may send, with the fields the handlers look at.
AlertForms == [action : {"add", "edit"}, id : AlertIds \union {Nothing, Bad},
               time : Times \union {Nothing, Bad}, enabled : {"on", Bad, Nothing},
               days : Recurrence \union {Bad}, extra : BOOLEAN]
DeleteForms == [action : {"delete"}, id : AlertIds \union {Nothing, Bad}, extra : BOOLEAN]
DelayForms == [action : {"postpone"}, delay : Delays \union {Nothing, Bad}, extra : BOOLEAN]
Forms == AlertForms \union DeleteForms \union DelayForms

\* validate_alert_form_fields for the alert `id' in a record of `count' alerts.
\* Mutant of ValidForm: the limit is off by one.
ValidFormLoose(f, id, count) ==
    /\ f.action = "add" => count <= Limit
    /\ ~f.extra
    /\ f.time \in Times
    /\ f.enabled # Bad /\ f.days # Bad
    /\ f.id = (IF f.action = "edit" THEN id ELSE Nothing)

ValidForm(f, id, count) ==
    /\ f.action = "add" => count < Limit
    /\ ~f.extra
    /\ f.time \in Times
    /\ f.enabled # Bad /\ f.days # Bad
    /\ f.id = (IF f.action = "edit" THEN id ELSE Nothing)

\* Mutant of AlertOf: the box's text is stored.
AlertUnchecked(f, id) == [id |-> id, time |-> f.time, enabled |-> f.enabled, days |-> f.days]

AlertOf(f, id) == [id |-> id, time |-> f.time, enabled |-> f.enabled = "on", days |-> f.days]

\* The handlers take the first alert with the id.
Matches(r, id) == {i \in DOMAIN r.alerts : r.alerts[i].id = id}
First(r, id) == CHOOSE i \in Matches(r, id) : \A j \in Matches(r, id) : i <= j

-----------------------------------------------------------------------------
(***************************************************************************)
(* commit: validation again, then the files.  `done' is what the caller    *)
(* makes of success, `failing' of an exception.                            *)
(***************************************************************************)
CommitSucceeds(r) == ValidRecord(r) /\ flash' = r /\ served' = r
CommitFails(r) ==
    /\ flash' \in IF ValidRecord(r) THEN {flash, r} ELSE {flash}
    /\ UNCHANGED served

\* The site's commits name every field of the record but the pending occurrence.
SiteRecord(alerts, delay) == [Fresh EXCEPT !.alerts = alerts, !.delay = delay]

SiteCommit(r) ==
    \/ CommitSucceeds(r) /\ answer' = "saved"
    \/ /\ CommitFails(r)
       /\ answer' = IF ValidRecord(r) THEN "not saved" ELSE "cannot be stored"

Rejected == answer' = "rejected" /\ UNCHANGED <<flash, served>>

\* Mutant of AddAlert: ids are counted from zero, so an id may be repeated.
AddCounted(f) ==
    /\ f.action = "add"
    /\ LET count == Len(served.alerts)
           id == IF count = 0 THEN 1 ELSE count
       IN  IF ValidForm(f, id, count)
           THEN SiteCommit(SiteRecord(Append(served.alerts, AlertOf(f, id)), served.delay))
           ELSE Rejected
    /\ UNCHANGED deleted

AddAlert(f) ==
    /\ f.action = "add"
    /\ LET count == Len(served.alerts)
           id == count + 1
       IN  IF ValidForm(f, id, count)
           THEN SiteCommit(SiteRecord(Append(served.alerts, AlertOf(f, id)), served.delay))
           ELSE Rejected
    /\ UNCHANGED deleted

\* Mutant of EditAlert: the delay is left to commit's default.
EditDefaults(f) ==
    /\ f.action = "edit"
    /\ IF Matches(served, f.id) # {} /\ ValidForm(f, f.id, Len(served.alerts))
       THEN SiteCommit(SiteRecord(
                [served.alerts EXCEPT ![First(served, f.id)] = AlertOf(f, f.id)], DefaultDelay))
       ELSE Rejected
    /\ UNCHANGED deleted

EditAlert(f) ==
    /\ f.action = "edit"
    /\ IF Matches(served, f.id) # {} /\ ValidForm(f, f.id, Len(served.alerts))
       THEN SiteCommit(SiteRecord(
                [served.alerts EXCEPT ![First(served, f.id)] = AlertOf(f, f.id)], served.delay))
       ELSE Rejected
    /\ UNCHANGED deleted

DeleteAlert(f) ==
    /\ f.action = "delete"
    /\ IF ~f.extra /\ Matches(served, f.id) # {}
       THEN /\ SiteCommit(SiteRecord(RemoveAt(served.alerts, First(served, f.id)), served.delay))
            /\ deleted' = (deleted \/ flash' # flash)
       ELSE Rejected /\ UNCHANGED deleted

SaveDelay(f) ==
    /\ f.action = "postpone"
    /\ IF ~f.extra /\ f.delay \in Delays
       THEN SiteCommit(SiteRecord(served.alerts, f.delay))
       ELSE Rejected
    /\ UNCHANGED deleted

\* settings_post.route with a record to change.  Requests that are refused
\* before (no session, a derivation running, not a form) change nothing; the
\* password's form is AdminSite's, its commit copies the rest in the same way.
Request ==
    /\ site /\ served # Nothing
    /\ \E f \in Forms : AddAlert(f) \/ EditAlert(f) \/ DeleteAlert(f) \/ SaveDelay(f)
    /\ UNCHANGED site

\* The commit of a changed password: the same fields, to the same effect.
ChangePassword ==
    /\ site /\ served # Nothing
    /\ LET r == SiteRecord(served.alerts, served.delay)
       IN  CommitSucceeds(r) \/ CommitFails(r)
    /\ answer' = "none"
    /\ UNCHANGED <<site, deleted>>

\* A set-up, in either mode, writes a record of its own.
SetUp ==
    /\ \/ CommitSucceeds(Fresh) /\ deleted' = FALSE
       \/ CommitFails(Fresh) /\ UNCHANGED deleted
    /\ answer' = "none"
    /\ UNCHANGED site

-----------------------------------------------------------------------------
(***************************************************************************)
(* Clock mode: alert/runtime.py.                                           *)
(***************************************************************************)
Keep(r) == CommitSucceeds(r) \/ CommitFails(r)

\* toggle_enabled
Toggle ==
    /\ ~site /\ served # Nothing
    /\ \E id \in {served.alerts[i].id : i \in DOMAIN served.alerts} :
          LET i == First(served, id)
          IN  Keep([served EXCEPT !.alerts[i].enabled = ~@])
    /\ answer' = "none"
    /\ UNCHANGED <<site, deleted>>

\* POSTPONE, and the end of the postponed occurrence (AlertRuntime).
Postpone ==
    /\ ~site /\ served # Nothing
    /\ \E id \in {served.alerts[i].id : i \in DOMAIN served.alerts} \union {Nothing} :
          Keep([served EXCEPT !.pending = id])
    /\ answer' = "none"
    /\ UNCHANGED <<site, deleted>>

\* A reset into the other mode, or power lost: the record is read again.
Reload ==
    /\ served' = flash
    /\ site' \in BOOLEAN
    /\ answer' = "none"
    /\ UNCHANGED <<flash, deleted>>

EditingInit ==
    /\ flash = Nothing /\ served = Nothing
    /\ answer = "none"
    /\ site = FALSE
    /\ deleted = FALSE

EditingNext == Request \/ ChangePassword \/ SetUp \/ Toggle \/ Postpone \/ Reload

EditingSpec == EditingInit /\ [][EditingNext]_editingVars

-----------------------------------------------------------------------------
(***************************************************************************)
(* Properties.                                                             *)
(***************************************************************************)
\* The form validator and the record validator agree: no form is accepted whose
\* record the store then refuses to write (an error the owner could not act on).
FormsFit == answer # "cannot be stored"

Without(s, i) == RemoveAt(s, i)

\* A saved form changes one thing.  Either the delay is as it was, and one alert
\* was added at the end, one was removed, or one was replaced under its id; or
\* the alerts are as they were (story 1.5: "modify alert records" never; story
\* 1.4: "Preserve all remaining alert ids and values").
OneChange ==
    [][answer' = "saved" /\ site =>
        LET old == served.alerts
            new == served'.alerts
        IN  \/ new = old
            \/ /\ served'.delay = served.delay
               /\ \/ Len(new) = Len(old) + 1 /\ Front(new) = old
                  \/ \E i \in DOMAIN old : new = Without(old, i)
                  \/ \E i \in DOMAIN old :
                        /\ new = [old EXCEPT ![i] = new[i]]
                        /\ new[i].id = old[i].id]_editingVars

Distinct(r) == r # Nothing => \A i, j \in DOMAIN r.alerts : r.alerts[i].id = r.alerts[j].id => i = j

\* New ids are counted, not chosen: they are distinct as long as nothing was
\* deleted since the record was set up, whatever else fails or restarts.
DistinctUntilDeleted == ~deleted => Distinct(flash) /\ Distinct(served)

\* Violated.  A postponed occurrence "completes through Stop, Postpone, or
\* Auto-stop": an edit that is saved on the site leaves it pending.
EditsKeepPending == [][answer' = "saved" => served'.pending = served.pending]_editingVars
=============================================================================
