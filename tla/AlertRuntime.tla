---------------------------- MODULE AlertRuntime ----------------------------
(***************************************************************************)
(* The life of an alert in clock mode: src/src/alert/runtime.py evaluates  *)
(* it once per App step, src/src/alert/scheduler.py says which alerts are  *)
(* due, src/src/alert/terminal.py retires one-time alerts, and every       *)
(* change that must survive a power loss is a SettingsStore commit.        *)
(*                                                                         *)
(* Minutes of civil time are numbers; a minute belongs to day              *)
(* local \div DayLength.  The device may restart at any time, its clock    *)
(* may be set to any minute by a sync, and any commit may fail.            *)
(***************************************************************************)
EXTENDS Integers

CONSTANTS
    Alerts,          \* ids of the stored alerts
    Schedule,        \* their [minute, days]; days = {} for a one-time alert
    DayLength,       \* minutes in a day
    DayCount,        \* days in a week
    Horizon,         \* bound: the last minute of civil time
    Delay,           \* postpone_delay_minutes, already normalized
    AutoStop,        \* ALERT_AUTO_STOP_MS, in minutes
    CommitMayFail,   \* whether store.commit() may raise
    ClockMayBeLost,  \* whether the RTC may come up invalid
    MaxRestarts,     \* bound: restarts of the device
    MaxSyncs,        \* bound: times a sync sets the clock
    None

Minutes == 0..Horizon
Occurrences == [members : SUBSET Alerts, due : Minutes]
Records == [enabled : SUBSET Alerts, pending : Occurrences \union {None}]
Actives == [members : SUBSET Alerts, at : Minutes, stop : BOOLEAN, postpone : BOOLEAN]
Postponements == [members : SUBSET Alerts, due : Minutes, confirmation : BOOLEAN,
                  restored : BOOLEAN, cancel : BOOLEAN]

ASSUME TimeAssumption ==
    /\ DayLength \in Nat \ {0} /\ DayCount \in Nat \ {0} /\ Horizon \in Nat
    /\ Delay \in Nat \ {0} /\ AutoStop \in Nat \ {0}
    /\ None \notin Int \union Occurrences \union Actives \union Postponements
ASSUME ScheduleAssumption ==
    Schedule \in [Alerts -> [minute : 0..(DayLength - 1), days : SUBSET (0..(DayCount - 1))]]
ASSUME SwitchAssumption ==
    CommitMayFail \in BOOLEAN /\ ClockMayBeLost \in BOOLEAN
    /\ MaxRestarts \in Nat /\ MaxSyncs \in Nat

VARIABLES
    local,       \* snapshot.local to the minute, None while the RTC is invalid
    flash,       \* the record on flash: [enabled, pending]
    settings,    \* the record store.load() returns
    baseline,    \* AlertScheduler: first minute it observed, None before
    raised,      \* AlertScheduler._raised_keys
    active,      \* App._active_alert
    postponed,   \* App._postponed_alert
    rung,        \* minutes since App._alert_started_ticks
    sounding,    \* whether the last word to the buzzer was to sound
    polled,      \* an App step ran in this minute
    restarts, syncs,   \* counters for the bounds
    retired      \* observer: one-time alerts ended and stored as disabled

scheduler == <<baseline, raised>>
world == <<restarts, syncs>>
vars == <<local, flash, settings, baseline, raised, active, postponed, rung,
          sounding, polled, restarts, syncs, retired>>

OneTime == {a \in Alerts : Schedule[a].days = {}}

Later(m, n) == IF m + n > Horizon THEN Horizon ELSE m + n   \* add_minutes

----------------------------------------------------------------------------
(* AlertScheduler *)

Matches(a) ==
    /\ a \in settings.enabled
    /\ Schedule[a].minute = local % DayLength
    /\ \/ a \in OneTime
       \/ (local \div DayLength) % DayCount \in Schedule[a].days

\* What scheduler.evaluate returns: nothing on its first observation.
Due == IF local = None \/ baseline = None THEN {}
       ELSE {a \in Alerts : Matches(a) /\ <<a, local>> \notin raised}

SchedulerEvaluates ==
    /\ baseline' = IF baseline = None THEN local ELSE baseline
    /\ raised' = raised \union {<<a, local>> : a \in Due}

----------------------------------------------------------------------------
(* SettingsStore.commit: whole, or an error with the flash old or new. *)

Committed(record) == flash' = record /\ settings' = record

CommitFails(record) ==
    /\ CommitMayFail
    /\ flash' \in {flash, record}
    /\ UNCHANGED settings

Cleared == [settings EXCEPT !.pending = None]

----------------------------------------------------------------------------
(* evaluate(): a postponed occurrence goes before everything else. *)

Restored(pending) ==
    [members |-> pending.members, due |-> pending.due,
     confirmation |-> FALSE, restored |-> TRUE, cancel |-> FALSE]

\* The occurrence in memory, else the one the settings hold.
Pending ==
    IF postponed # None THEN postponed
    ELSE IF settings.pending # None THEN Restored(settings.pending) ELSE None

\* Mutant of Reached: a minute that was skipped is never seen.
ReachedExactly(p) == local # None /\ local = p.due

Reached(p) == local # None /\ local >= p.due

Ring(members, at) ==
    /\ active' = [members |-> members, at |-> at, stop |-> FALSE, postpone |-> FALSE]
    /\ rung' = 0
    /\ sounding' = TRUE

\* An occurrence that became due while the device was off is dropped.
DiscardOverdue ==
    /\ Pending # None /\ Reached(Pending) /\ Pending.restored
    /\ \/ Committed(Cleared) /\ postponed' = None
       \/ CommitFails(Cleared) /\ postponed' = Pending
    /\ UNCHANGED <<scheduler, active, rung, sounding, retired>>

\* Mutant of Rering: the occurrence rings even if the clear was not stored.
ReringFirst ==
    /\ Pending # None /\ Reached(Pending) /\ ~Pending.restored
    /\ Committed(Cleared) \/ CommitFails(Cleared)
    /\ postponed' = None
    /\ Ring(Pending.members, Pending.due)
    /\ UNCHANGED <<scheduler, retired>>

\* Storage is cleared before the occurrence rings again.
Rering ==
    /\ Pending # None /\ Reached(Pending) /\ ~Pending.restored
    /\ \/ Committed(Cleared) /\ postponed' = None /\ Ring(Pending.members, Pending.due)
       \/ CommitFails(Cleared) /\ postponed' = Pending /\ UNCHANGED <<active, rung, sounding>>
    /\ UNCHANGED <<scheduler, retired>>

\* The confirmation is shown for one step, then the clock view returns.
EndConfirmation ==
    /\ Pending # None /\ ~Reached(Pending) /\ Pending.confirmation
    /\ postponed' = [Pending EXCEPT !.confirmation = FALSE]
    /\ UNCHANGED <<flash, settings, scheduler, active, rung, sounding, retired>>

\* CANCEL ALERT calls the occurrence back at once.
CallBack ==
    /\ Pending # None /\ ~Reached(Pending) /\ ~Pending.confirmation /\ Pending.cancel
    /\ \/ Committed(Cleared) /\ postponed' = None /\ Ring(Pending.members, Pending.due)
       \/ /\ CommitFails(Cleared)
          /\ postponed' = [Pending EXCEPT !.restored = FALSE, !.cancel = FALSE]
          /\ UNCHANGED <<active, rung, sounding>>
    /\ UNCHANGED <<scheduler, retired>>

WaitForDue ==
    /\ Pending # None /\ ~Reached(Pending) /\ ~Pending.confirmation /\ ~Pending.cancel
    /\ postponed' = [Pending EXCEPT !.restored = FALSE]
    /\ UNCHANGED <<flash, settings, scheduler, active, rung, sounding, retired>>

----------------------------------------------------------------------------
(* evaluate(): an occurrence is ringing. *)

\* Alerts due meanwhile join it.
Joined == active.members \union Due

\* POSTPONE: stored first, then the occurrence leaves the screen.
Postpone ==
    /\ Pending = None /\ active # None /\ active.postpone
    /\ SchedulerEvaluates
    /\ sounding' = FALSE
    /\ LET due == Later(active.at, Delay)
           record == [settings EXCEPT !.pending = [members |-> Joined, due |-> due]]
       IN  \/ /\ Committed(record)
              /\ postponed' = [members |-> Joined, due |-> due, confirmation |-> TRUE,
                                restored |-> FALSE, cancel |-> FALSE]
              /\ active' = None
              /\ rung' = 0
           \/ /\ CommitFails(record)
              /\ active' = [active EXCEPT !.members = Joined]
              /\ UNCHANGED <<postponed, rung>>
    /\ UNCHANGED retired

\* The two commits that end an occurrence: disable its one-time alerts (if one
\* is enabled), then clear the pending occurrence.  Either may fail.
Retiring == Joined \intersect OneTime
Disabled == [enabled |-> settings.enabled \ Retiring, pending |-> None]

\* Mutant of Outcomes: a failed commit leaves its record in the cache.
OutcomesCacheFirst(pair, record) ==
    {<<record, record>>}
        \union (IF CommitMayFail THEN {<<pair[1], record>>} ELSE {})

\* The pairs <<flash, settings>> a commit made on `pair` may leave.
Outcomes(pair, record) ==
    {<<record, record>>}
        \union (IF CommitMayFail THEN {pair, <<record, pair[2]>>} ELSE {})

TerminalCommits ==
    LET now == <<flash, settings>>
        first == IF Retiring \intersect settings.enabled = {} THEN {now}
                 ELSE Outcomes(now, Disabled)
    IN  \E one \in first :
            \E two \in Outcomes(one, [one[2] EXCEPT !.pending = None]) :
                flash' = two[1] /\ settings' = two[2]

\* Mutant of EndOccurrence: a failed commit keeps the occurrence, like POSTPONE.
EndOccurrenceIfStored ==
    /\ SchedulerEvaluates
    /\ TerminalCommits
    /\ sounding' = FALSE
    /\ IF flash' = settings'
       THEN active' = None /\ rung' = 0 /\ retired' = retired \union (Retiring \ settings'.enabled)
       ELSE UNCHANGED <<active, rung, retired>>
    /\ UNCHANGED postponed

EndOccurrence ==
    /\ SchedulerEvaluates
    /\ TerminalCommits
    /\ active' = None
    /\ rung' = 0
    /\ sounding' = FALSE
    /\ retired' = retired \union (Retiring \ settings'.enabled)
    /\ UNCHANGED postponed

Stop ==
    /\ Pending = None /\ active # None /\ ~active.postpone /\ active.stop
    /\ EndOccurrence

AutoStops ==
    /\ Pending = None /\ active # None /\ ~active.postpone /\ ~active.stop
    /\ rung >= AutoStop
    /\ EndOccurrence

Sound ==
    /\ Pending = None /\ active # None /\ ~active.postpone /\ ~active.stop
    /\ rung < AutoStop
    /\ SchedulerEvaluates
    /\ active' = [active EXCEPT !.members = Joined]
    /\ sounding' = TRUE
    /\ UNCHANGED <<flash, settings, postponed, rung, retired>>

----------------------------------------------------------------------------
(* evaluate(): nothing rings and nothing is pending. *)

Raise ==
    /\ Pending = None /\ active = None
    /\ SchedulerEvaluates
    /\ IF Due # {} THEN Ring(Due, local) ELSE UNCHANGED <<active, rung, sounding>>
    /\ UNCHANGED <<flash, settings, postponed, retired>>

evaluate ==
    /\ \/ DiscardOverdue \/ Rering \/ EndConfirmation \/ CallBack \/ WaitForDue
       \/ Postpone \/ Stop \/ AutoStops \/ Sound \/ Raise
    /\ polled' = TRUE
    /\ UNCHANGED <<local, world>>

----------------------------------------------------------------------------
(* What happens between two evaluations. *)

Tap ==
    /\ \/ /\ active # None
          /\ \/ ~active.stop /\ active' = [active EXCEPT !.stop = TRUE]
             \/ ~active.postpone /\ active' = [active EXCEPT !.postpone = TRUE]
          /\ UNCHANGED postponed
       \/ /\ active = None /\ postponed # None
          /\ ~postponed.confirmation /\ ~postponed.cancel
          /\ postponed' = [postponed EXCEPT !.cancel = TRUE]
          /\ UNCHANGED active
    /\ UNCHANGED <<local, flash, settings, scheduler, rung, sounding, polled, world,
                   retired>>

\* toggle_enabled: the list of alerts on the touch screen.
Toggle(a) ==
    LET on == a \notin settings.enabled
        record == [settings EXCEPT !.enabled = IF on THEN @ \union {a} ELSE @ \ {a}]
    IN  /\ active = None
        /\ Committed(record) \/ CommitFails(record)
        /\ retired' = retired \ {a}
        /\ UNCHANGED <<local, scheduler, active, postponed, rung, sounding, polled,
                       world>>

\* A minute passes; App steps are far shorter than a minute.
Tick ==
    /\ polled
    /\ polled' = FALSE
    /\ local' = IF local = None THEN None ELSE Later(local, 1)
    /\ rung' = IF active # None /\ rung < AutoStop THEN rung + 1 ELSE rung
    /\ UNCHANGED <<flash, settings, scheduler, active, postponed, sounding, world,
                   retired>>

\* App._consume_sync_result sets the clock, forward or backward.
SyncClock ==
    /\ syncs < MaxSyncs
    /\ syncs' = syncs + 1
    /\ local' \in Minutes
    /\ polled' = FALSE
    /\ UNCHANGED <<flash, settings, scheduler, active, postponed, rung, sounding,
                   restarts, retired>>

\* The device starts again, later; in between it may have been in config mode,
\* whose alert routes store any enabled set and no pending occurrence.
Restart ==
    /\ restarts < MaxRestarts
    /\ restarts' = restarts + 1
    /\ \/ flash' = flash /\ UNCHANGED retired
       \/ \E enabled \in SUBSET Alerts :
             /\ flash' = [enabled |-> enabled, pending |-> None]
             /\ retired' = retired \ enabled
    /\ settings' = flash'
    /\ local' \in (IF local = None THEN Minutes ELSE local..Horizon)
                  \union (IF ClockMayBeLost THEN {None} ELSE {})
    /\ baseline' = None /\ raised' = {}
    /\ active' = None /\ postponed' = None
    /\ rung' = 0 /\ sounding' = FALSE /\ polled' = FALSE
    /\ UNCHANGED syncs

Init ==
    /\ local \in {0} \union (IF ClockMayBeLost THEN {None} ELSE {})
    /\ flash \in [enabled : SUBSET Alerts, pending : {None}]
    /\ settings = flash
    /\ baseline = None /\ raised = {}
    /\ active = None /\ postponed = None
    /\ rung = 0 /\ sounding = FALSE /\ polled = FALSE
    /\ restarts = 0 /\ syncs = 0
    /\ retired = {}

Next ==
    \/ evaluate
    \/ Tap
    \/ \E a \in Alerts : Toggle(a)
    \/ Tick
    \/ SyncClock
    \/ Restart

\* The App loop runs, time passes, and the flash does not refuse for ever a
\* write that every step asks for again.
Fairness ==
    /\ WF_vars(evaluate) /\ WF_vars(Tick)
    /\ WF_vars(evaluate /\ settings' # settings)

Spec == Init /\ [][Next]_vars /\ Fairness

----------------------------------------------------------------------------
(* Properties. *)

TypeOK ==
    /\ local \in Minutes \union {None}
    /\ flash \in Records /\ settings \in Records
    /\ baseline \in Minutes \union {None}
    /\ raised \subseteq Alerts \X Minutes
    /\ active \in Actives \union {None}
    /\ postponed \in Postponements \union {None}
    /\ rung \in 0..AutoStop
    /\ sounding \in BOOLEAN /\ polled \in BOOLEAN
    /\ restarts \in 0..MaxRestarts /\ syncs \in 0..MaxSyncs
    /\ retired \subseteq OneTime

\* OneLife: an occurrence is ringing, or pending, or over, in memory and on
\* flash alike.  What rings is not pending on flash, so a restart cannot
\* replay it (unless its own postponing is half stored); what is pending in
\* memory is what the settings hold; the buzzer sounds for nothing else.
OneLife ==
    /\ active # None =>
          /\ postponed = None /\ settings.pending = None
          /\ flash.pending # None => active.postpone
    /\ postponed # None =>
          settings.pending = [members |-> postponed.members, due |-> postponed.due]
    /\ sounding => active # None

\* RetiredStaysSilent: a one-time alert that ended, with its end stored, does
\* not ring again until someone enables it, whatever commits fail later.
RetiredStaysSilent ==
    [][active = None /\ active' # None => active'.members \intersect retired = {}]_vars

\* ActiveEnds: no occurrence rings for ever: STOP, POSTPONE or the auto-stop
\* ends it, also when the commits they need fail for a while.
ActiveEnds == (active # None) ~> (active = None)

\* PostponedResolves: with a valid clock a postponed occurrence does not stay
\* pending: it rings again, is called back or is discarded.
PostponedResolves == (postponed # None /\ local # None) ~> (postponed = None)
=============================================================================
