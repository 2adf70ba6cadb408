------------------------------- MODULE Screen -------------------------------
(***************************************************************************)
(* What is on the display, and what the App (src/src/app.py), its touch    *)
(* surfaces (ui/touch_state.py, ui/tap.py), its views (ui/clock_view.py,   *)
(* ui/calendar_view.py, ui/settings_view.py, ui/alert_list_view.py) and    *)
(* the compositor (ui/compositor.py, ui/alerts.py) remember of it.         *)
(*                                                                         *)
(* One App step is poll, evaluate, rollover, dwell, paint; between two     *)
(* steps time passes.  Deadlines are the time left to them, in units.      *)
(* Nobody reads the display back: a view draws what differs from its cache,*)
(* so the module keeps the caches and the screen apart.  A time that was   *)
(* cached or drawn is kept as its age: 0 is the current second, 1 the      *)
(* current minute, 2 the current day, 3 the current month, 4 an older one, *)
(* as far as its reader tells these apart.                                 *)
(***************************************************************************)
EXTENDS Integers, FiniteSets, FiniteSetsExt

CONSTANTS
    Frame, Slide, Height, \* the bar: time of a frame, of the slide; its height
    Redraw, Flash,        \* CLOCK_REDRAW_MS, PRESS_FLASH_MS
    TouchIdle, AlertsIdle,            \* the idle times of the surfaces
    ClockDwell, CalendarDwell,        \* the dwell times of the views
    Rows, PerPage,        \* the stored alerts; ROWS_PER_PAGE
    Faulty,               \* the pages whose drawing may raise
    None

ASSUME UnitsAssumption ==
    /\ {Frame, Slide, Height, Redraw, Flash, TouchIdle, AlertsIdle,
        ClockDwell, CalendarDwell, Rows, PerPage} \subseteq Nat \ {0}
    /\ Redraw < TouchIdle /\ Redraw < AlertsIdle
    /\ Slide <= Height    \* a pass of the loop, which sleeps, lets the bar grow
    /\ Faulty \subseteq {"clock", "calendar", "settings", "alerts", "ringing"}

\* The records that may be missing; None is none of them.
Caches == [local : BOOLEAN, age : 0 .. 2, label : BOOLEAN]
Drawings == [page : Nat, lit : SUBSET (1 .. Rows), stale : SUBSET (1 .. Rows)]
Alarms == [touch : {None, "stop", "postpone"}, rung : BOOLEAN]
Postponements == [confirmation : BOOLEAN, cancel : BOOLEAN, due : BOOLEAN]

ASSUME NoneAssumption ==
    /\ None \notin Int /\ None \notin BOOLEAN
    /\ None \notin {"gear", "alerts", "in_panel", "outside"}
    /\ None \notin Caches \cup Drawings \cup Alarms \cup Postponements

VARIABLES
    turn,      \* the part of the step that comes next; "shown" after a paint
    force,     \* force_redraw
    surface,   \* state.active_surface
    deadline,  \* state.surface_deadline; -1 marks a touch of the alert screen
    view,      \* state.active_view
    dwell,     \* state.view_deadline
    redraw,    \* state.redraw_deadline
    bar,       \* _bar_reveal_started, _bar_retract_started, ..._start_height, _bar_visible_height
    days,      \* ages of the month grid and of _last_local_ymd
    comp,      \* the compositor: _prev_badge, _prev_bar_height, _prev_was_settings
    cache,     \* the cache of the active view, None when it is not valid: a view
               \* that becomes active is invalidated
    list,      \* the alert list view: page, the row with the press feedback and how
               \* long that lasts, _previous_data until a base replaces the list
    alarm,     \* _active_alert: the touch that counts (POSTPONE over STOP), and
               \* whether a minute of it is over
    postponed, \* _postponed_alert and its touches
    release,   \* _alert_touch_release_pending
    local,     \* whether snapshot.local is a time
    trusted,   \* whether snapshot.trust is "synced"
    minute,    \* of the scheduler: "first" until it has seen a minute, then "open"
               \* until a step has looked for alerts due in this minute, or "seen"
    screen,    \* what the display shows
    touched    \* observed: this step has polled a touch of a surface

state == <<surface, deadline, view, dwell, redraw>>
caches == <<comp, cache>>
alerts == <<alarm, postponed, release>>
snapshot == <<local, trusted, minute>>
vars == <<turn, force, state, bar, days, caches, list, alerts, snapshot, screen, touched>>

Down(n) == IF n \in {None, -1, 0} THEN n ELSE n - 1
Older(n, age) == IF n = None THEN None ELSE Max({n, age})

-----------------------------------------------------------------------------
(* Drawing *)

\* A page drawn over the whole display.
Page(name) ==
    [page |-> name, age |-> 0, days |-> 0, local |-> local, label |-> FALSE,
     badge |-> FALSE, bar |-> 0, list |-> None]

\* App._render: how much of the bar is visible on a surface.
Shown(elapsed) == (Height * elapsed) \div Slide

BarHeight(on) ==
    IF bar.retract # None THEN bar.from - (bar.from * bar.retract) \div Slide
    ELSE IF on # "bar" THEN 0
    ELSE Min({Height, Shown(CASE bar.reveal = None -> 0
                              [] bar.reveal = 0    -> Frame
                              [] OTHER             -> bar.reveal)})

\* App._pending_button_label, which only the clock draws
Label(on) ==
    /\ view = "clock"
    /\ postponed # None
    /\ on = "rotation"
    /\ local
    /\ ~postponed.confirmation

\* Mutant of Uncovers: the base is redrawn only for a change of the badge.
BadgeUncovers(on) == comp.settings \/ comp.badge \notin {None, ~trusted}

\* UiCompositor.render: what lay over the base goes away, so its view must
\* not trust its cache.
Uncovers(on) ==
    \/ comp.settings
    \/ comp.badge \notin {None, ~trusted}
    \/ BarHeight(on) < comp.bar

\* ClockView.render and CalendarView.render: a full redraw, the seconds of the
\* clock alone, or nothing.  A new grid always comes with an invalidation.
FullRedraw(on) ==
    \/ Uncovers(on)
    \/ cache = None
    \/ cache.local # local
    \/ cache.label # Label(on)
    \/ local /\ cache.age > 1

\* ClockView._redraw_ss: only the seconds are drawn.
Seconds == IF screen.page = "clock" /\ screen.age = 1 THEN [screen EXCEPT !.age = 0] ELSE screen

Grid == IF days.grid = None /\ local THEN 0 ELSE days.grid

ClockPage(on) == [Page("clock") EXCEPT !.label = Label(on)]
CalendarPage == [Page("calendar") EXCEPT !.days = Grid]

Base(on) ==
    IF FullRedraw(on) THEN IF view = "clock" THEN ClockPage(on) ELSE CalendarPage
    ELSE IF view = "clock" /\ local THEN Seconds ELSE screen

\* The base, then the badge, then the bar over it.
Badged(base) == [base EXCEPT !.badge = @ \/ ~trusted]
Barred(base, on) == [base EXCEPT !.bar = Max({@, BarHeight(on)})]
Over(base, on) == Barred(Badged(base), on)

\* App._render and UiCompositor.render for the rotation and the bar.
DrawBase(on) ==
    /\ screen' = Over(Base(on), on)
    /\ days' = IF view = "calendar" THEN [days EXCEPT !.grid = Grid] ELSE days
    /\ cache' = IF FullRedraw(on) THEN [local |-> local, age |-> 0, label |-> Label(on)]
                ELSE IF view = "clock" THEN [cache EXCEPT !.age = 0] ELSE cache
    /\ comp' = [badge |-> ~trusted, bar |-> BarHeight(on), settings |-> FALSE]
    /\ list' = [list EXCEPT !.drawn = None]
    /\ bar' = IF bar.retract = Slide
              THEN [bar EXCEPT !.retract = None, !.from = 0, !.visible = 0]
              ELSE [bar EXCEPT !.visible = BarHeight(on)]

\* The base, the badge or the bar raises: the caches of the compositor stay.
DrawBaseFails(on) ==
    /\ view \in Faulty
    /\ screen' = Page("mixed")
    /\ comp' = [comp EXCEPT !.settings = FALSE]
    /\ list' = [list EXCEPT !.drawn = None]
    /\ UNCHANGED <<days, bar>>

\* ui/alert_view.py: the page of a ringing or of a postponed alert.
AlertPage(name) == [Page(name) EXCEPT !.badge = ~trusted]

\* Its drawing is guarded (_safe_render).
DrawAlertPage(name) ==
    \/ screen' = AlertPage(name)
    \/ "ringing" \in Faulty /\ screen' = Page("mixed")

-----------------------------------------------------------------------------
(* Touch: App._poll_touch *)

\* What a touch may hit; "bad" has no usable coordinates.
Targets ==
    IF alarm # None THEN {"stop", "postpone", "elsewhere", "bad"}
    ELSE CASE surface = "rotation" -> {"band", "elsewhere", "bad"}
           [] surface = "bar"      -> {"gear", "alerts", "in_panel", "outside", "bad"}
           [] surface = "settings" -> {"outside", "bad"}
           [] surface = "alerts"   -> {"outside", "bad"}

\* The alert code takes the touch, or its absence, before the surfaces.
AlertOwnsTouch == alarm # None \/ deadline = -1 \/ release

CancelHit(target) ==
    /\ postponed # None
    /\ ~postponed.confirmation
    /\ surface = "rotation"
    /\ target = "band"

\* alert/runtime.t
AlertTouch(target) ==
    IF target = None THEN
        /\ deadline' = None
        /\ release' = FALSE
        /\ UNCHANGED <<alarm, postponed>>
    ELSE IF release \/ target = "bad" THEN UNCHANGED <<deadline, alerts>>
    ELSE IF alarm # None THEN
        /\ deadline' = -1
        /\ alarm' = IF target \in {"stop", "postpone"}
                    THEN [alarm EXCEPT !.touch = IF @ = "postpone" THEN @ ELSE target]
                    ELSE alarm
        /\ release' = (target \in {"stop", "postpone"})
        /\ UNCHANGED postponed
    ELSE
        /\ postponed' = IF CancelHit(target)
                        THEN [postponed EXCEPT !.cancel = TRUE] ELSE postponed
        /\ release' = CancelHit(target)
        /\ UNCHANGED <<deadline, alarm>>

PollAlert ==
    /\ turn = "poll"
    /\ \E target \in Targets \cup {None} :
          /\ \/ AlertOwnsTouch
             \/ CancelHit(target)
          /\ AlertTouch(target)
    /\ turn' = "evaluate"
    /\ force' = FALSE
    /\ touched' = FALSE
    /\ UNCHANGED <<surface, view, dwell, redraw, bar, days, caches, list,
                   snapshot, screen>>

\* Mutant of Expired: the idle deadline of a surface is never looked at.
NeverExpired == FALSE

Expired == deadline = 0

\* ui/touch_state.next_surface; target is None without an edge.
NextSurface(target) ==
    IF surface = "rotation" THEN IF target = None THEN "rotation" ELSE "bar"
    ELSE IF surface = "bar" /\ target \in {"gear", "alerts", "in_panel"}
         THEN IF target = "gear" THEN "settings" ELSE IF target = "alerts" THEN "alerts" ELSE "bar"
    ELSE IF Expired \/ target = "outside" THEN "rotation"
    ELSE surface

IdleOf(to) ==
    IF to = "rotation" THEN None ELSE IF to = "alerts" THEN AlertsIdle ELSE TouchIdle

DwellOf(v) == IF v = "calendar" THEN CalendarDwell ELSE ClockDwell

\* The bar slides in, slides out, or is gone with the page that covered it.
BarMoves(to) ==
    IF to = "bar" THEN [bar EXCEPT !.reveal = 0, !.retract = None, !.from = 0]
    ELSE IF surface = "bar" THEN [bar EXCEPT !.reveal = None, !.retract = 0, !.from = bar.visible]
    ELSE [reveal |-> None, retract |-> None, from |-> 0, visible |-> 0]

\* ui/bar_controls.flash draws the whole bar, the button pressed.
FlashBar == screen' = [screen EXCEPT !.bar = Height]

PollSurface ==
    /\ turn = "poll"
    /\ ~AlertOwnsTouch
    /\ \E target \in Targets \cup {None} :
          LET to == NextSurface(target)
          IN  /\ ~CancelHit(target)
              /\ touched' = (target # None /\ to # "rotation")
              /\ surface' = to
              /\ deadline' = IF to = surface THEN deadline ELSE IdleOf(to)
              /\ bar' = IF to = surface THEN bar ELSE BarMoves(to)
              /\ dwell' = IF to # surface /\ to = "rotation" THEN DwellOf(view) ELSE dwell
              /\ force' = (to # surface /\ to \notin {"settings", "alerts"})
              /\ IF to # surface /\ to \in {"settings", "alerts"}
                 THEN redraw' = Flash /\ FlashBar
                 ELSE UNCHANGED <<redraw, screen>>
        /\ turn' = "evaluate"
    /\ UNCHANGED <<view, days, caches, list, alerts, snapshot>>

\* The settings page: the reset port resets the device, or the mode flag
\* cannot be written and the control is drawn again.
PollSettings ==
    /\ turn = "poll"
    /\ ~AlertOwnsTouch
    /\ surface = "settings"
    /\ turn' \in {"off", "evaluate"}
    /\ force' = TRUE
    /\ touched' = TRUE
    /\ UNCHANGED <<state, bar, days, caches, list, alerts, snapshot, screen>>

PageCount == (Rows + PerPage - 1) \div PerPage
Visible(page) == {r \in 1 .. Rows : (r - 1) \div PerPage = page}

\* What was drawn of an alert that changes is stale.
Change(drawn, r) ==
    IF drawn = None THEN None ELSE [drawn EXCEPT !.stale = SymDiff(@, {r})]

\* alert_list_view.handle_touch: the state control of an alert, whose change
\* may fail to be stored, or a page button.
PollList ==
    /\ turn = "poll"
    /\ ~AlertOwnsTouch
    /\ surface = "alerts"
    /\ \/ \E r \in Visible(list.page), stored \in BOOLEAN :
             /\ list' = [list EXCEPT !.row = r, !.left = Flash,
                                     !.drawn = IF stored THEN Change(@, r) ELSE @]
             /\ screen' = [screen EXCEPT !.list = IF stored THEN Change(@, r) ELSE @]
       \/ \E page \in {list.page - 1, list.page + 1} \cap 0 .. (PageCount - 1) :
             /\ list' = [list EXCEPT !.page = page, !.row = None, !.left = 0]
             /\ UNCHANGED screen
    /\ deadline' = AlertsIdle
    /\ turn' = "evaluate"
    /\ force' = TRUE
    /\ touched' = TRUE
    /\ UNCHANGED <<surface, view, dwell, redraw, bar, days, caches, alerts, snapshot>>

\* The clock is read, after a sync result that may change the trust and set
\* the clock; a clock that is set keeps its time.
ReadClock ==
    /\ turn = "evaluate"
    /\ \E synced \in BOOLEAN :
           local' = (local \/ synced) /\ trusted' = synced
    /\ UNCHANGED <<turn, force, state, bar, days, caches, list, alerts, minute, screen, touched>>

-----------------------------------------------------------------------------
(* The alerts: alert/runtime.evaluate, as far as the display sees it.      *)

\* Due in the first step of its minute, or when the list has just enabled it.
MayBeDue ==
    /\ local
    /\ \/ minute = "open"
       \/ minute = "seen" /\ surface = "alerts" /\ list.row # None

\* The step ends here, or goes on with the views.
Returns(value) == turn' = IF value THEN "wait" ELSE "rollover"

\* The alert takes over the display.
Rings ==
    /\ postponed' = None
    /\ DrawAlertPage("ringing")
    /\ alarm' = [touch |-> None, rung |-> FALSE]
    /\ Returns(TRUE)
    /\ UNCHANGED <<surface, view, dwell, redraw, bar, days, caches, list, release>>

\* A scheduled alert is due.
Raise ==
    /\ alarm = None /\ postponed = None
    /\ MayBeDue
    /\ Rings
    /\ deadline' = None

\* The postponed one is due, or the owner does not want to wait for it; both
\* need a commit.
RaiseAgain ==
    /\ postponed # None
    /\ \/ postponed.due
       \/ local /\ minute = "open"
       \/ postponed.cancel /\ ~postponed.confirmation
    /\ Rings
    /\ UNCHANGED deadline

\* A postponed alert keeps the clock on the display.
AwaitPostponed ==
    /\ postponed # None
    /\ ~postponed.due
    /\ postponed.cancel => postponed.confirmation
    /\ Returns(FALSE)
    /\ view' = "clock"
    /\ cache' = IF view = "clock" THEN cache ELSE None
    /\ postponed' = [postponed EXCEPT !.confirmation = FALSE]
    /\ UNCHANGED <<surface, deadline, dwell, redraw, bar, days, comp, list,
                   alarm, release, screen>>

\* The commit fails: a due occurrence stays due, a touched one waits on.
RaiseFails ==
    /\ postponed # None
    /\ \/ /\ postponed.due \/ (local /\ minute = "open")
          /\ postponed' = [postponed EXCEPT !.due = TRUE]
          /\ UNCHANGED <<view, cache>>
       \/ /\ postponed.cancel /\ ~postponed.confirmation /\ ~postponed.due
          /\ postponed' = [postponed EXCEPT !.cancel = FALSE]
          /\ view' = "clock"
          /\ cache' = IF view = "clock" THEN cache ELSE None
    /\ Returns(FALSE)
    /\ UNCHANGED <<surface, deadline, dwell, redraw, bar, days, comp, list,
                   alarm, release, screen>>

\* The POSTPONE touch is honoured once it is stored.
PostponeAlarm ==
    /\ alarm # None /\ alarm.touch = "postpone"
    /\ \/ /\ Returns(FALSE)   \* it cannot be stored
          /\ UNCHANGED <<state, alerts, screen>>
       \/ /\ Returns(TRUE)
          /\ postponed' = [confirmation |-> TRUE, cancel |-> FALSE, due |-> FALSE]
          /\ alarm' = None
          /\ deadline' = None
          /\ surface' = "rotation"
          /\ dwell' = DwellOf(view)
          /\ DrawAlertPage("postponed")
          /\ UNCHANGED <<view, redraw, release>>
    /\ UNCHANGED <<bar, days, caches, list>>

\* STOP, or the end of ALERT_AUTO_STOP_MS (some minutes): a one-time alert
\* is disabled and the base drawn, guarded (_safe_base_render).
EndAlarm ==
    /\ alarm # None /\ alarm.touch # "postpone"
    /\ alarm.touch = "stop" \/ alarm.rung
    /\ alarm' = None
    /\ surface' = "rotation"
    /\ dwell' = DwellOf(view)
    /\ Returns(TRUE)
    /\ \/ DrawBase("rotation")
       \/ /\ DrawBaseFails("rotation")
          /\ cache' = IF Uncovers("rotation") THEN None ELSE cache
    /\ UNCHANGED <<deadline, view, redraw, postponed, release>>

KeepRinging ==
    /\ alarm # None /\ alarm.touch = None
    /\ IF screen.page = "mixed" THEN UNCHANGED screen ELSE DrawAlertPage("ringing")
    /\ Returns(TRUE)
    /\ UNCHANGED <<state, bar, days, caches, list, alerts>>

NoAlert ==
    /\ alarm = None /\ postponed = None
    /\ Returns(FALSE)
    /\ UNCHANGED <<state, bar, days, caches, list, alerts, screen>>

Evaluate ==
    /\ turn = "evaluate"
    /\ \/ Raise
       \/ RaiseAgain
       \/ AwaitPostponed
       \/ RaiseFails
       \/ PostponeAlarm
       \/ EndAlarm
       \/ KeepRinging
       \/ NoAlert
    /\ minute' = IF ~local THEN minute ELSE IF minute = "first" THEN "open" ELSE "seen"
    /\ UNCHANGED <<force, local, trusted, touched>>

-----------------------------------------------------------------------------
(* The views *)

\* Mutant of NewDay: the calendar keeps yesterday's grid.
SameGrid ==
    /\ days' = [days EXCEPT !.ymd = 0]
    /\ force' = TRUE
    /\ UNCHANGED <<view, dwell, cache>>

\* _handle_rollover at a new day of the month
NewDay ==
    /\ IF view = "calendar" THEN days' = [ymd |-> 0, grid |-> 0] /\ cache' = None
       ELSE days' = [days EXCEPT !.ymd = 0] /\ UNCHANGED cache
    /\ force' = TRUE
    /\ UNCHANGED <<view, dwell>>

\* ... and at a new month
NewMonth ==
    /\ days' = [ymd |-> 0, grid |-> None]
    /\ view' = "clock"
    /\ IF view = "calendar" THEN dwell' = ClockDwell /\ cache' = None
       ELSE UNCHANGED <<dwell, cache>>
    /\ force' = TRUE

Rollover ==
    /\ turn = "rollover"
    /\ turn' = "dwell"
    /\ IF local /\ days.ymd = 3 THEN NewDay
       ELSE IF local /\ days.ymd = 4 THEN NewMonth
       ELSE /\ days' = IF local THEN [days EXCEPT !.ymd = 0] ELSE days
            /\ UNCHANGED <<force, view, dwell, cache>>
    /\ UNCHANGED <<surface, deadline, redraw, bar, comp, list, alerts, snapshot, screen, touched>>

NextView == IF view = "clock" THEN "calendar" ELSE "clock"

\* _handle_view_deadline: the calendar only with a local time, on a new grid.
SwitchView ==
    IF view = "clock" /\ ~local
    THEN dwell' = ClockDwell /\ UNCHANGED <<view, force, days, cache>>
    ELSE /\ view' = NextView
         /\ dwell' = DwellOf(view')
         /\ force' = TRUE
         /\ days' = IF view' = "calendar" THEN [days EXCEPT !.grid = 0] ELSE days
         /\ cache' = None

Dwell ==
    /\ turn = "dwell"
    /\ turn' = "paint"
    /\ IF surface = "rotation" /\ postponed = None /\ dwell = 0 THEN SwitchView
       ELSE UNCHANGED <<view, dwell, force, days, cache>>
    /\ UNCHANGED <<surface, deadline, redraw, bar, comp, list, alerts, snapshot, screen, touched>>

-----------------------------------------------------------------------------
(* Painting: App._render *)

DuePaint == turn = "paint" /\ (force \/ redraw = 0)

NotDue ==
    /\ turn = "paint"
    /\ ~force /\ redraw > 0
    /\ turn' = "wait"
    /\ UNCHANGED <<force, state, bar, days, caches, list, alerts, snapshot, screen, touched>>

NextRedraw ==
    IF \/ surface = "bar" /\ bar'.reveal \in 0 .. Slide - 1
       \/ bar'.retract \in 0 .. Slide - 1
    THEN Frame ELSE Redraw

Painted ==
    /\ turn' = "shown"
    /\ force' = FALSE
    /\ redraw' = NextRedraw
    /\ UNCHANGED <<surface, deadline, view, dwell, alerts, snapshot, touched>>

PaintBase ==
    /\ DuePaint /\ surface \in {"rotation", "bar"}
    /\ DrawBase(surface)
    /\ Painted

\* ui/settings_view.py: the panel, the control and the lines of the snapshot.
SettingsPage == Page("settings")

\* The settings page is drawn once; what it says is taken when it is entered.
PaintSettings ==
    /\ DuePaint /\ surface = "settings"
    /\ IF comp.settings THEN UNCHANGED <<screen, comp>>
       ELSE /\ screen' = SettingsPage
            /\ comp' = [badge |-> FALSE, bar |-> 0, settings |-> TRUE]
    /\ UNCHANGED <<bar, days, cache, list>>
    /\ Painted

\* The list as it should be: the row with the feedback is lit, none is stale.
Lit == {list.row} \ {None}
ListNow == [page |-> list.page, lit |-> Lit, stale |-> {}]

\* ui/alerts.render_alert_surface: the whole list, or the controls that changed.
ListFull == ~comp.settings \/ list.drawn = None \/ list.drawn.page # list.page

\* The rows that differ from what was drawn of them.
Changed == SymDiff(list.drawn.lit, Lit) \cup list.drawn.stale

PaintList ==
    /\ DuePaint /\ surface = "alerts"
    /\ IF ListFull
       THEN /\ screen' = [Page("alerts") EXCEPT !.list = ListNow]
            /\ comp' = [badge |-> FALSE, bar |-> 0, settings |-> TRUE]
       ELSE /\ screen' = IF screen.page # "alerts" THEN screen
                         ELSE [screen EXCEPT !.list.lit = (@ \ Changed) \cup (Lit \cap Changed),
                                             !.list.stale = @ \ Changed]
            /\ UNCHANGED comp
    /\ list' = [list EXCEPT !.drawn = ListNow]
    /\ UNCHANGED <<bar, days, cache>>
    /\ Painted

\* Drawing raises: the step ends there, and the loop of clock_mode.py
\* invalidates both views before the next one.
PaintFails ==
    /\ DuePaint
    /\ turn' = "wait"
    /\ force' = FALSE
    /\ \/ surface \in {"rotation", "bar"} /\ DrawBaseFails(surface)
       \/ /\ surface \in Faulty
          /\ \/ surface = "settings" /\ ~comp.settings
             \/ surface = "alerts" /\ (ListFull \/ list.drawn # ListNow)
          /\ screen' = Page("mixed")
          /\ UNCHANGED <<comp, days, bar, list>>
    /\ cache' = None
    /\ UNCHANGED <<state, alerts, snapshot, touched>>

-----------------------------------------------------------------------------
(* Between two steps *)

\* A day counts only while the calendar is on: it takes a new grid when it
\* is entered.
Age(age) ==
    /\ cache' = IF cache = None THEN None ELSE [cache EXCEPT !.age = Older(@, Min({age, 2}))]
    /\ days' = IF age < 3 THEN days
               ELSE [grid |-> IF view = "calendar" THEN Older(days.grid, 3) ELSE days.grid,
                     ymd |-> Older(days.ymd, age)]
    /\ screen' = CASE screen.page = "clock" -> [screen EXCEPT !.age = Older(@, Min({age, 2}))]
                   [] screen.page = "calendar" ->
                          [screen EXCEPT !.age = Older(@, Min({age, 2})),
                                         !.days = IF age < 3 THEN @ ELSE Older(@, 3)]
                   [] OTHER -> screen
    /\ minute' = IF age > 1 /\ minute = "seen" THEN "open" ELSE minute
    /\ alarm' = IF alarm = None THEN None ELSE [alarm EXCEPT !.rung = @ \/ age > 1]

Between == turn \in {"wait", "shown"}

Elapse(n) == IF n = None THEN None ELSE Min({n + 1, Slide})

\* A unit of time passes; with it the second, minute, day or month may change.
PassTime ==
    /\ Between
    /\ turn' = "poll"
    /\ touched' = FALSE
    /\ \E age \in 0 .. 4 : Age(age)
    /\ deadline' = Down(deadline)
    /\ dwell' = Down(dwell)
    /\ redraw' = Down(redraw)
    /\ bar' = [bar EXCEPT !.reveal = Elapse(@), !.retract = Elapse(@)]
    /\ list' = [list EXCEPT !.left = Down(@), !.row = IF list.left = 1 THEN None ELSE @]
    /\ UNCHANGED <<force, surface, view, comp, postponed, release, local, trusted>>

\* The next step follows within the same unit.
StepAgain ==
    /\ Between
    /\ turn' = "poll"
    /\ touched' = FALSE
    /\ UNCHANGED <<force, state, bar, days, caches, list, alerts, snapshot, screen>>

Init ==
    /\ turn = "poll" /\ force = FALSE
    /\ surface = "rotation" /\ deadline = None
    /\ view = "clock" /\ dwell = ClockDwell /\ redraw = 0
    /\ bar = [reveal |-> None, retract |-> None, from |-> 0, visible |-> 0]
    /\ days = [grid |-> None, ymd |-> None]
    /\ comp = [badge |-> None, bar |-> 0, settings |-> FALSE]
    /\ cache = None
    /\ list = [page |-> 0, row |-> None, left |-> 0, drawn |-> None]
    /\ alarm = None /\ postponed = None /\ release = FALSE
    /\ local \in BOOLEAN /\ trusted = FALSE /\ minute = "first"
    /\ screen = Page("blank") /\ touched = FALSE

Poll == PollAlert \/ PollSurface \/ PollSettings \/ PollList
Paint == NotDue \/ PaintBase \/ PaintSettings \/ PaintList \/ PaintFails

Next ==
    \/ Poll
    \/ ReadClock
    \/ Evaluate
    \/ Rollover
    \/ Dwell
    \/ Paint
    \/ PassTime
    \/ StepAgain

Spec == Init /\ [][Next]_vars

-----------------------------------------------------------------------------
(* Properties *)

(* An alert page, or a page whose drawing failed, lies over a view that was *)
(* drawn in this minute: the alert code does not invalidate what it covers.*)
Leftover ==
    /\ surface \in {"rotation", "bar"}
    /\ screen.page \in {"ringing", "postponed", "mixed"}
    /\ cache # None /\ cache.age <= 1

(* After a paint with no alert on, the display shows what the state says:  *)
(* the page of the surface or the view, the time and the day of now, the   *)
(* button of a postponed alert, the badge and the bar, and each alert of   *)
(* the list as it is stored, with nothing left of what was drawn before;   *)
(* only what an alert drew may stay, over a view of this minute.           *)
ScreenTrue ==
    (turn = "shown" /\ alarm = None) =>
        /\ surface = "settings" => screen.page = "settings" /\ screen.bar = 0
        /\ surface = "alerts" =>
               screen.page = "alerts" /\ screen.bar = 0 /\ screen.list = ListNow
        /\ surface \in {"rotation", "bar"} /\ ~Leftover =>
               /\ screen.page = view
               /\ screen.local = local
               /\ local => screen.age <= (IF view = "clock" THEN 0 ELSE 1)
               /\ view = "calendar" /\ local => screen.days = 0
               /\ screen.label = Label(surface)
               /\ screen.badge = ~trusted
               /\ screen.bar = bar.visible

(* The Device leaves the screen of an alert that is over, within a second. *)
AlertLeaves ==
    (turn = "shown" /\ alarm = None) => screen.page \notin {"ringing", "postponed"}

(* Whatever the owner, the alerts and failures do to the one deadline field *)
(* they share, a surface but the rotation is left in time: after a step     *)
(* without a touch it still has time left.                                 *)
IdleReturns ==
    (Between /\ alarm = None /\ surface # "rotation") =>
        /\ deadline \in Nat
        /\ deadline > 0 \/ touched
=============================================================================
