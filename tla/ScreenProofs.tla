--------------------------- MODULE ScreenProofs ---------------------------
(***************************************************************************)
(* Theorems about Screen, for every number of rows, every timing and every *)
(* order of touches, alerts, syncs and failures.                           *)
(*                                                                         *)
(* What the display shows is never read back, so the invariant ties it to  *)
(* what the code remembers of it: a base whose cache is valid is on the    *)
(* display as the cache says (BaseInv), a page the compositor knows covers *)
(* it whole (CoverInv, ListInv), and where the bar is drawn higher than    *)
(* the compositor knows, the next base uncovers it (BarInv).               *)
(***************************************************************************)
EXTENDS Screen, TLAPS

Units == 0 .. Slide
Pages == {"blank", "clock", "calendar", "settings", "alerts", "ringing", "postponed", "mixed"}

Screens == [page : Pages, age : 0 .. 2, days : {None, 0, 3},
            local : BOOLEAN, label : BOOLEAN, badge : BOOLEAN,
            bar : 0 .. Height, list : Drawings \cup {None}]
Bars == [reveal : Units \cup {None}, retract : Units \cup {None},
         from : 0 .. Height, visible : 0 .. Height]
Grids == [grid : {None, 0, 3}, ymd : {None, 0, 3, 4}]
Comps == [badge : BOOLEAN \cup {None}, bar : 0 .. Height, settings : BOOLEAN]
Lists == [page : Nat, row : (1 .. Rows) \cup {None}, left : Nat, drawn : Drawings \cup {None}]

Types ==
    /\ turn \in {"poll", "evaluate", "rollover", "dwell", "paint", "wait", "shown", "off"}
    /\ force \in BOOLEAN /\ touched \in BOOLEAN
    /\ surface \in {"rotation", "bar", "settings", "alerts"}
    /\ view \in {"clock", "calendar"}
    /\ redraw \in Nat
    /\ bar \in Bars /\ days \in Grids /\ comp \in Comps /\ list \in Lists
    /\ cache \in Caches \cup {None}
    /\ alarm \in Alarms \cup {None}
    /\ postponed \in Postponements \cup {None}
    /\ release \in BOOLEAN
    /\ local \in BOOLEAN /\ trusted \in BOOLEAN
    /\ minute \in {"first", "open", "seen"}
    /\ screen \in Screens

\* A surface that may be left idle has a deadline, and time left once it was polled.
IdleInv ==
    (alarm = None /\ surface # "rotation") =>
        /\ deadline \in Nat
        /\ ~release
        /\ turn # "poll" => deadline > 0 \/ touched

\* The page of an alert, or what a failure left of one.
Special == screen.page \in {"ringing", "postponed", "mixed"}

\* The next base is drawn whole.
Covered == cache = None \/ comp.settings

MidStep == turn \in {"evaluate", "rollover", "dwell", "paint"}

\* Alerts need a time.
TimeInv ==
    /\ alarm # None \/ postponed # None => local
    /\ Special /\ cache # None => local

\* The month grid is as old as the day the loop has seen.
DaysInv ==
    view = "calendar" =>
        /\ local /\ days.ymd # None /\ days.grid # None
        /\ days.grid = 3 => days.ymd \in {3, 4}
        /\ turn \in {"dwell", "paint"} => days.grid = 0

SeenInv == turn \in {"dwell", "paint"} /\ local => days.ymd = 0

\* A page that covers the base was entered while the compositor knew of none.
CoverInv ==
    alarm = None =>
        /\ surface = "settings" /\ comp.settings => screen.page = "settings" /\ screen.bar = 0
        /\ surface = "bar" /\ comp.settings => force /\ MidStep

ListInv ==
    (alarm = None /\ surface = "alerts" /\ comp.settings /\ list.drawn # None) =>
        screen.page = "alerts" /\ screen.bar = 0 /\ screen.list = list.drawn

\* A base that is not drawn whole next is on the display as its cache says.
BaseTrue ==
    /\ screen.page = view
    /\ screen.local = cache.local /\ screen.label = cache.label
    /\ cache.local => screen.age = cache.age
    /\ view = "calendar" => screen.days = days.grid
    /\ screen.badge = comp.badge

BaseInv == (~Covered /\ ~Special) => BaseTrue

\* The bar was flashed whole: it is left for a page, or about to be uncovered.
Flashed ==
    /\ comp.bar > 0 /\ alarm = None
    /\ \/ surface \in {"settings", "alerts"}
       \/ surface = "rotation" /\ force /\ MidStep /\ bar.retract = None

BarInv ==
    /\ surface = "bar" => bar.reveal # None /\ bar.retract = None
    /\ (~Covered /\ ~Special) => screen.bar = comp.bar \/ Flashed
    /\ (surface = "bar" /\ alarm = None /\ ~Covered /\ ~Special) =>
            comp.bar > 0 \/ (force /\ MidStep)

ScreenInv ==
    /\ Types /\ TimeInv /\ DaysInv /\ SeenInv
    /\ CoverInv /\ ListInv /\ BaseInv /\ BarInv

-----------------------------------------------------------------------------
(* Arithmetic of the bar. *)

LEMMA MinOfTwo ==
    ASSUME NEW a \in Int, NEW b \in Int
    PROVE  Min({a, b}) = IF a <= b THEN a ELSE b
BY DEF Min

LEMMA MaxOfTwo ==
    ASSUME NEW a \in Int, NEW b \in Int
    PROVE  Max({a, b}) = IF a >= b THEN a ELSE b
BY DEF Max

LEMMA Quotient ==
    ASSUME NEW a \in Nat, NEW b \in Nat \ {0}, NEW c \in Nat
    PROVE  /\ a \div b \in Nat
           /\ a >= b => a \div b >= 1
           /\ a <= b * c => a \div b <= c
           /\ (b * c) \div b = c
OBVIOUS

LEMMA Retracted ==
    ASSUME NEW f \in Nat, NEW s \in Nat \ {0}, NEW r \in 0 .. s
    PROVE  /\ (f * r) \div s \in 0 .. f
           /\ r = s => (f * r) \div s = f
<1>1. f * r \in Nat /\ f * r <= s * f
    OBVIOUS
<1>2. (f * r) \div s \in Nat /\ (f * r) \div s <= f
    BY <1>1, Quotient
<1>3. (s * f) \div s = f /\ f * s = s * f
    BY Quotient
<1> QED BY <1>2, <1>3

LEMMA HeightOfBar ==
    ASSUME bar \in Bars, NEW on \in {"rotation", "bar"}
    PROVE  /\ BarHeight(on) \in 0 .. Height
           /\ on = "rotation" /\ bar.retract = None => BarHeight(on) = 0
           /\ bar.retract = Slide => BarHeight(on) = 0
           /\ on = "bar" /\ bar.retract = None /\ bar.reveal # None => BarHeight(on) > 0
<1> USE UnitsAssumption, NoneAssumption
<1>1. ASSUME NEW e \in Nat
      PROVE  /\ Shown(e) \in Nat
             /\ e > 0 => Shown(e) >= 1
    <2>1. Height * e \in Nat /\ (e > 0 => Height * e >= Slide)
        OBVIOUS
    <2> QED BY <2>1, Quotient DEF Shown
<1>2. CASE bar.retract # None
    <2>1. bar.retract \in 0 .. Slide /\ bar.from \in 0 .. Height
        BY <1>2 DEF Bars, Units
    <2>2. Slide \in Nat \ {0} /\ bar.from \in Nat
        BY <2>1
    <2>3. /\ (bar.from * bar.retract) \div Slide \in 0 .. bar.from
          /\ bar.retract = Slide => (bar.from * bar.retract) \div Slide = bar.from
        BY ONLY <2>1, <2>2, Retracted
    <2> QED BY <1>2, <2>1, <2>3 DEF BarHeight
<1>3. CASE bar.retract = None
    <2> DEFINE e == CASE bar.reveal = None -> 0
                      [] bar.reveal = 0 -> Frame
                      [] OTHER -> bar.reveal
    <2>1. e \in Nat /\ (bar.reveal # None => e > 0)
        <3>1. bar.reveal \in Units \cup {None}
            BY DEF Bars
        <3>2. CASE bar.reveal = None
            <4>1. bar.reveal # 0
                BY <3>2
            <4> QED BY <3>2, <4>1
        <3>3. CASE bar.reveal = 0
            <4>1. bar.reveal # None
                BY <3>3
            <4>2. e = Frame
                BY <3>3, <4>1, Zenon
            <4> QED BY <4>1, <4>2
        <3>4. CASE bar.reveal \in 1 .. Slide
            <4>1. bar.reveal # None /\ bar.reveal # 0
                BY <3>4
            <4>2. e = bar.reveal
                BY <4>1, Zenon
            <4> QED BY <3>4, <4>1, <4>2
        <3> QED BY <3>1, <3>2, <3>3, <3>4 DEF Units
    <2> HIDE DEF e
    <2>2. Shown(e) \in Nat /\ (bar.reveal # None => Shown(e) >= 1)
        BY <1>1, <2>1
    <2>3. BarHeight(on) = IF on # "bar" THEN 0 ELSE Min({Height, Shown(e)})
        BY <1>3 DEF BarHeight, e
    <2> QED BY <1>3, <2>2, <2>3, MinOfTwo
<1> QED BY <1>2, <1>3

-----------------------------------------------------------------------------
(* Drawing a base. *)

LEMMA Overlaid ==
    ASSUME NEW base \in Screens, NEW on \in {"rotation", "bar"}, bar \in Bars,
           trusted \in BOOLEAN
    PROVE  /\ Over(base, on) \in Screens
           /\ Over(base, on).page = base.page
           /\ Over(base, on).age = base.age
           /\ Over(base, on).days = base.days
           /\ Over(base, on).local = base.local
           /\ Over(base, on).label = base.label
           /\ Over(base, on).badge = (base.badge \/ ~trusted)
           /\ Over(base, on).bar = IF base.bar >= BarHeight(on) THEN base.bar ELSE BarHeight(on)
<1> DEFINE h == BarHeight(on)
<1>1. h \in 0 .. Height /\ base.bar \in 0 .. Height
    BY HeightOfBar DEF Screens
<1>2. Max({base.bar, h}) = IF base.bar >= h THEN base.bar ELSE h
    BY <1>1, MaxOfTwo, UnitsAssumption
<1>3. Max({base.bar, h}) \in 0 .. Height
    BY <1>1, <1>2
<1>4. Over(base, on) = [base EXCEPT !.badge = @ \/ ~trusted, !.bar = Max({base.bar, h})]
    BY DEF Over, Badged, Barred, Screens
<1> HIDE DEF h
<1> QED BY <1>2, <1>3, <1>4 DEF Screens, h

LEMMA WholeBase ==
    ASSUME Types, DaysInv, NEW on \in {"rotation", "bar"}, FullRedraw(on)
    PROVE  /\ Base(on) \in Screens
           /\ Base(on).page = view /\ Base(on).local = local /\ Base(on).age = 0
           /\ Base(on).label = Label(on)
           /\ view = "calendar" => Base(on).days = days.grid
           /\ Base(on).badge = FALSE /\ Base(on).bar = 0
<1> USE UnitsAssumption, NoneAssumption
<1>1. Page("clock") \in Screens /\ Page("calendar") \in Screens
    BY DEF Page, Screens, Pages, Types
<1>2. Label(on) \in BOOLEAN
    BY DEF Label
<1>3. CASE view = "clock"
    <2>1. Base(on) = [Page("clock") EXCEPT !.label = Label(on)]
        BY <1>3 DEF Base, ClockPage
    <2> QED BY <1>1, <1>2, <1>3, <2>1 DEF Page, Screens
<1>4. CASE view = "calendar"
    <2>1. Base(on) = [Page("calendar") EXCEPT !.days = Grid]
        BY <1>4 DEF Base, CalendarPage
    <2>2. Grid = days.grid /\ Grid \in {None, 0, 3}
        BY <1>4 DEF Grid, DaysInv, Types, Grids
    <2>3. Label(on) = FALSE
        BY <1>4 DEF Label
    <2> QED BY <1>1, <1>4, <2>1, <2>2, <2>3 DEF Page, Screens
<1> QED BY <1>3, <1>4 DEF Types

LEMMA KeptBase ==
    ASSUME Types, NEW on \in {"rotation", "bar"}, ~FullRedraw(on)
    PROVE  /\ Base(on) \in Screens
           /\ Base(on).page = screen.page /\ Base(on).local = screen.local
           /\ Base(on).age = IF view = "clock" /\ local /\ screen.page = "clock" /\ screen.age = 1
                             THEN 0 ELSE screen.age
           /\ Base(on).label = screen.label /\ Base(on).days = screen.days
           /\ Base(on).badge = screen.badge /\ Base(on).bar = screen.bar
<1>1. Base(on) = IF view = "clock" /\ local /\ screen.page = "clock" /\ screen.age = 1
                 THEN [screen EXCEPT !.age = 0] ELSE screen
    BY DEF Base, Seconds
<1> QED BY <1>1 DEF Types, Screens

\* A base that keeps its cache finds the bar as the compositor knows it.
LEMMA BarKnown ==
    ASSUME Types, BarInv, NEW on \in {"rotation", "bar"}, on = surface \/ alarm # None,
           ~FullRedraw(on), ~Special
    PROVE  ~Covered /\ screen.bar = comp.bar
<1>1. ~Uncovers(on) /\ ~Covered
    BY DEF FullRedraw, Uncovers, Covered
<1>2. ASSUME Flashed PROVE FALSE
    <2>1. on = "rotation" /\ bar.retract = None /\ comp.bar > 0
        BY <1>2 DEF Flashed
    <2>2. BarHeight(on) = 0
        BY <2>1, HeightOfBar DEF Types
    <2>3. BarHeight(on) < comp.bar
        BY <2>1, <2>2
    <2> QED BY <1>1, <2>3 DEF Uncovers
<1> QED BY <1>1, <1>2 DEF BarInv

\* What a base that was drawn leaves behind.
LEMMA DrawnBase ==
    ASSUME Types, TimeInv, DaysInv, BaseInv, BarInv,
           NEW on \in {"rotation", "bar"}, on = surface \/ alarm # None,
           DrawBase(on), UNCHANGED <<local, trusted, view>>
    PROVE  /\ screen' \in Screens /\ cache' \in Caches /\ comp' \in Comps
           /\ list' \in Lists /\ bar' \in Bars /\ days' = days
           /\ ~Covered' /\ comp'.badge = ~trusted /\ comp'.bar = BarHeight(on)
           /\ cache'.local = local
           /\ bar'.visible = BarHeight(on) /\ bar'.reveal = bar.reveal
           /\ bar'.retract \in {bar.retract, None}
           /\ Special' => local /\ cache'.age <= 1
           /\ ~Special' => BaseTrue' /\ screen'.bar = comp'.bar /\ screen'.label = Label(on)
           /\ ~Special' /\ local => screen'.age <= (IF view = "clock" THEN 0 ELSE 1)
<1> USE UnitsAssumption, NoneAssumption
<1> DEFINE b == Base(on)
<1>1. BarHeight(on) \in 0 .. Height
    BY HeightOfBar DEF Types
<1>2. comp' = [badge |-> ~trusted, bar |-> BarHeight(on), settings |-> FALSE]
    BY DEF DrawBase
<1>3. comp' \in Comps /\ comp'.badge = ~trusted /\ comp'.bar = BarHeight(on) /\ ~comp'.settings
    BY <1>1, <1>2 DEF Comps, Types
<1>4. Label(on) \in BOOLEAN
    BY DEF Label
<1>5. cache' = IF FullRedraw(on) THEN [local |-> local, age |-> 0, label |-> Label(on)]
               ELSE IF view = "clock" THEN [cache EXCEPT !.age = 0] ELSE cache
    BY DEF DrawBase
<1>6. ~FullRedraw(on) => /\ cache \in Caches /\ cache.local = local /\ cache.label = Label(on)
                         /\ local => cache.age <= 1
    BY DEF FullRedraw, Types, Caches
<1>7. /\ cache' \in Caches /\ cache'.local = local /\ cache'.label = Label(on)
      /\ cache'.age = IF FullRedraw(on) \/ view = "clock" THEN 0 ELSE cache.age
    BY <1>4, <1>5, <1>6 DEF Types, Caches
<1>8. ~Covered'
    BY <1>3, <1>7 DEF Covered
<1>9. days' = days
    <2>1. view = "calendar" => Grid = days.grid
        BY DEF Grid, DaysInv, Types
    <2> QED BY <2>1 DEF DrawBase, Types, Grids
<1>10. list' \in Lists
    BY DEF DrawBase, Types, Lists
<1>11. /\ bar' \in Bars /\ bar'.visible = BarHeight(on) /\ bar'.reveal = bar.reveal
       /\ bar'.retract \in {bar.retract, None}
    <2>1. bar.retract = Slide => BarHeight(on) = 0
        BY HeightOfBar DEF Types
    <2> QED BY <1>1, <2>1 DEF DrawBase, Types, Bars
<1>12. b \in Screens
    BY WholeBase, KeptBase
<1>13. screen' = Over(b, on)
    BY DEF DrawBase
<1>14. /\ screen' \in Screens
       /\ screen'.page = b.page /\ screen'.age = b.age /\ screen'.days = b.days
       /\ screen'.local = b.local /\ screen'.label = b.label
       /\ screen'.badge = (b.badge \/ ~trusted)
       /\ screen'.bar = IF b.bar >= BarHeight(on) THEN b.bar ELSE BarHeight(on)
    BY <1>12, <1>13, Overlaid DEF Types
<1> HIDE DEF b
<1>15. CASE FullRedraw(on)
    <2>1. /\ b.page = view /\ b.local = local /\ b.age = 0 /\ b.label = Label(on)
          /\ view = "calendar" => b.days = days.grid
          /\ b.badge = FALSE /\ b.bar = 0
        BY <1>15, WholeBase DEF b
    <2>2. ~Special'
        BY <1>14, <2>1 DEF Special, Types
    <2>3. BaseTrue'
        BY <1>3, <1>7, <1>9, <1>14, <1>15, <2>1 DEF BaseTrue, Types
    <2>4. screen'.bar = BarHeight(on)
        BY <1>1, <1>14, <2>1
    <2> QED BY <1>3, <1>7, <1>8, <1>9, <1>10, <1>11, <1>14, <2>1, <2>2, <2>3, <2>4 DEF Types
<1>16. CASE ~FullRedraw(on)
    <2>1. /\ b.page = screen.page /\ b.local = screen.local
          /\ b.age = IF view = "clock" /\ local /\ screen.page = "clock" /\ screen.age = 1
                     THEN 0 ELSE screen.age
          /\ b.label = screen.label /\ b.days = screen.days
          /\ b.badge = screen.badge /\ b.bar = screen.bar
        BY <1>16, KeptBase DEF b
    <2>2. Special' <=> Special
        BY <1>14, <2>1 DEF Special
    <2>3. Special' => local /\ cache'.age <= 1
        BY <1>6, <1>7, <1>16, <2>2 DEF TimeInv, Caches
    <2>4. ASSUME ~Special
          PROVE  /\ BaseTrue' /\ screen'.bar = comp'.bar /\ screen'.label = Label(on)
                 /\ local => screen'.age <= (IF view = "clock" THEN 0 ELSE 1)
        <3>1. BaseTrue /\ ~Covered /\ screen.bar = comp.bar
            BY <1>16, <2>4, BarKnown DEF BaseInv
        <3>2. comp.badge = ~trusted /\ BarHeight(on) >= comp.bar
            <4>1. ~Uncovers(on)
                BY <1>16 DEF FullRedraw
            <4>2. screen.badge \in BOOLEAN /\ screen.badge = comp.badge /\ comp.bar \in 0 .. Height
                BY <3>1 DEF BaseTrue, Types, Screens, Comps
            <4> QED BY <1>1, <4>1, <4>2 DEF Uncovers
        <3>3. screen'.badge = ~trusted /\ screen'.bar = BarHeight(on)
            <4>1. b.badge = ~trusted /\ b.bar = comp.bar /\ comp.bar \in 0 .. Height
                BY <2>1, <3>1, <3>2 DEF BaseTrue, Types, Comps
            <4>2. screen'.bar = BarHeight(on)
                BY <1>1, <1>14, <3>2, <4>1
            <4>3. screen'.badge = (~trusted \/ ~trusted)
                BY <1>14, <4>1, Zenon
            <4> QED BY <4>2, <4>3
        <3>4. local => screen'.age = cache'.age /\ screen'.age <= (IF view = "clock" THEN 0 ELSE 1)
            <4> SUFFICES ASSUME local PROVE /\ screen'.age = cache'.age
                                            /\ screen'.age <= (IF view = "clock" THEN 0 ELSE 1)
                OBVIOUS
            <4>0. cache.local /\ cache.age <= 1 /\ cache \in Caches
                BY <1>6, <1>16
            <4>1. screen.age = cache.age /\ cache.age \in {0, 1} /\ screen.page = view
                BY <3>1, <4>0 DEF BaseTrue, Caches
            <4>2. CASE view = "clock"
                BY <1>7, <1>14, <2>1, <4>1, <4>2
            <4>3. CASE view = "calendar"
                BY <1>7, <1>14, <1>16, <2>1, <4>1, <4>3
            <4> QED BY <4>2, <4>3 DEF Types
        <3>5. /\ screen'.page = view /\ screen'.local = local /\ screen'.label = Label(on)
              /\ view = "calendar" => screen'.days = days.grid
            BY <1>6, <1>14, <1>16, <2>1, <3>1 DEF BaseTrue
        <3> QED BY <1>3, <1>7, <1>9, <3>3, <3>4, <3>5 DEF BaseTrue, Types
    <2> QED BY <1>3, <1>7, <1>8, <1>9, <1>10, <1>11, <1>14, <2>2, <2>3, <2>4
<1> QED BY <1>15, <1>16

-----------------------------------------------------------------------------
(* The steps keep the invariant. *)

LEMMA InvStarts == Init => ScreenInv /\ IdleInv
<1> SUFFICES ASSUME Init PROVE ScreenInv /\ IdleInv
    OBVIOUS
<1> USE UnitsAssumption, NoneAssumption
<1>1. screen \in Screens
    BY DEF Init, Page, Screens, Pages
<1>2. bar \in Bars /\ days \in Grids /\ comp \in Comps /\ list \in Lists
    BY DEF Init, Bars, Units, Grids, Comps, Lists
<1>3. Types
    BY <1>1, <1>2 DEF Init, Types
<1>4. Covered /\ ~Special
    BY DEF Init, Covered, Special, Page
<1> QED BY <1>3, <1>4 DEF Init, ScreenInv, IdleInv, TimeInv, DaysInv, SeenInv, CoverInv,
       ListInv, BaseInv, BarInv

LEMMA PollAlertKeeps == ASSUME ScreenInv, PollAlert PROVE ScreenInv'
<1> USE UnitsAssumption, NoneAssumption
<1>1. UNCHANGED <<surface, view, dwell, redraw, bar, days, caches, list, snapshot, screen>>
    BY DEF PollAlert
<1>2. /\ alarm' \in Alarms \cup {None} /\ (alarm' = None <=> alarm = None)
      /\ postponed' \in Postponements \cup {None} /\ (postponed' = None <=> postponed = None)
      /\ release' \in BOOLEAN
    <2>1. PICK target \in Targets \cup {None} : AlertTouch(target)
        BY DEF PollAlert
    <2>2. /\ alarm \in Alarms \cup {None} /\ postponed \in Postponements \cup {None}
          /\ release \in BOOLEAN
        BY DEF ScreenInv, Types
    <2>3. /\ \/ alarm' = alarm
             \/ alarm # None /\ \E t \in {None, "stop", "postpone"} : alarm' = [alarm EXCEPT !.touch = t]
          /\ \/ postponed' = postponed
             \/ postponed # None /\ postponed' = [postponed EXCEPT !.cancel = TRUE]
          /\ release' = release \/ release' \in BOOLEAN
        <3>1. \/ alarm' = alarm
              \/ /\ alarm # None /\ target \in {"stop", "postpone"}
                 /\ alarm' = [alarm EXCEPT !.touch = IF alarm.touch = "postpone"
                                                     THEN alarm.touch ELSE target]
            BY <2>1 DEF AlertTouch, alerts
        <3>2. \/ postponed' = postponed
              \/ postponed # None /\ postponed' = [postponed EXCEPT !.cancel = TRUE]
            BY <2>1 DEF AlertTouch, alerts, CancelHit
        <3>3. release' = release \/ release' \in BOOLEAN
            <4>1. CancelHit(target) \in BOOLEAN
                BY DEF CancelHit
            <4>2. (target \in {"stop", "postpone"}) \in BOOLEAN
                OBVIOUS
            <4>3. \/ release' = FALSE \/ release' = release
                  \/ release' = (target \in {"stop", "postpone"})
                  \/ release' = CancelHit(target)
                BY <2>1, Zenon DEF AlertTouch, alerts
            <4> QED BY <4>1, <4>2, <4>3
        <3>4. \/ alarm' = alarm
              \/ alarm # None /\ \E t \in {None, "stop", "postpone"} : alarm' = [alarm EXCEPT !.touch = t]
            <4> DEFINE t == IF alarm.touch = "postpone" THEN alarm.touch ELSE target
            <4>1. target \in {"stop", "postpone"} => t \in {None, "stop", "postpone"}
                OBVIOUS
            <4>2. \/ alarm' = alarm
                  \/ /\ alarm # None /\ target \in {"stop", "postpone"}
                     /\ alarm' = [alarm EXCEPT !.touch = t]
                BY <3>1
            <4> HIDE DEF t
            <4> QED BY <4>1, <4>2
        <3> QED BY <3>2, <3>3, <3>4
    <2>4. alarm # None => \A t \in {None, "stop", "postpone"} : [alarm EXCEPT !.touch = t] \in Alarms
        BY <2>2 DEF Alarms
    <2>5. postponed # None => [postponed EXCEPT !.cancel = TRUE] \in Postponements
        BY <2>2 DEF Postponements
    <2>6. alarm' \in Alarms \cup {None} /\ (alarm' = None <=> alarm = None)
        BY <2>2, <2>3, <2>4
    <2>7. postponed' \in Postponements \cup {None} /\ (postponed' = None <=> postponed = None)
        BY <2>2, <2>3, <2>5
    <2> QED BY <2>2, <2>3, <2>6, <2>7
<1>3. turn = "poll" /\ turn' = "evaluate" /\ force' = FALSE /\ touched' = FALSE
    BY DEF PollAlert
<1>4. Types'
    BY <1>1, <1>2, <1>3 DEF ScreenInv, Types, caches, snapshot
<1> QED BY <1>1, <1>2, <1>3, <1>4 DEF ScreenInv, TimeInv, DaysInv, SeenInv, CoverInv, ListInv,
       BaseInv, BaseTrue, BarInv, Flashed, MidStep, Special, Covered, caches, snapshot

LEMMA PollSurfaceKeeps == ASSUME ScreenInv, PollSurface PROVE ScreenInv'
<1> USE UnitsAssumption, NoneAssumption
<1>1. PICK target \in Targets \cup {None} :
          LET to == NextSurface(target)
          IN  /\ surface' = to
              /\ bar' = IF to = surface THEN bar ELSE BarMoves(to)
              /\ force' = (to # surface /\ to \notin {"settings", "alerts"})
              /\ touched' = (target # None /\ to # "rotation")
              /\ IF to # surface /\ to \in {"settings", "alerts"}
                 THEN redraw' = Flash /\ FlashBar
                 ELSE UNCHANGED <<redraw, screen>>
    BY DEF PollSurface
<1> DEFINE to == NextSurface(target)
<1>2. /\ to \in {"rotation", "bar", "settings", "alerts"}
      /\ to # surface => \/ to = "bar" /\ surface = "rotation"
                         \/ to \in {"settings", "alerts"} /\ surface = "bar"
                         \/ to = "rotation"
    BY DEF NextSurface, ScreenInv, Types
<1>3. turn = "poll" /\ turn' = "evaluate" /\ UNCHANGED <<view, days, caches, list, alerts, snapshot>>
    BY DEF PollSurface
<1>4. bar' \in Bars
    <2>1. bar \in Bars /\ 0 \in Units /\ 0 \in 0 .. Height
        BY DEF ScreenInv, Types, Units
    <2>2. BarMoves(to) \in Bars
        BY <2>1 DEF BarMoves, Bars
    <2> QED BY <1>1, <2>1, <2>2
<1>5. screen' \in Screens /\ screen' = IF to # surface /\ to \in {"settings", "alerts"}
                                       THEN [screen EXCEPT !.bar = Height] ELSE screen
    BY <1>1 DEF FlashBar, Screens, ScreenInv, Types
<1>6. Types'
    BY <1>1, <1>2, <1>3, <1>4, <1>5 DEF ScreenInv, Types, caches, alerts, snapshot
<1>7. alarm = None
    BY DEF PollSurface, AlertOwnsTouch
<1>8. (Special' <=> Special) /\ (Covered' <=> Covered) /\ (BaseTrue => BaseTrue')
    BY <1>3, <1>5 DEF Special, Covered, BaseTrue, Screens, caches, ScreenInv, Types
<1> HIDE DEF to
<1>9. TimeInv' /\ DaysInv' /\ SeenInv' /\ BaseInv'
    BY <1>3, <1>8 DEF ScreenInv, TimeInv, DaysInv, SeenInv, BaseInv, alerts, snapshot, caches
<1>10. CoverInv' /\ ListInv'
    BY <1>1, <1>2, <1>3, <1>5, <1>7 DEF ScreenInv, CoverInv, ListInv, MidStep, caches, alerts, to
<1>11. BarInv'
    <2>1. /\ to = "bar" /\ surface # "bar" => bar'.reveal = 0 /\ bar'.retract = None
          /\ to = "rotation" /\ surface \in {"settings", "alerts"} => bar'.retract = None
        BY <1>1 DEF BarMoves, Bars, to, ScreenInv, Types
    <2>2. surface' = "bar" => bar'.reveal # None /\ bar'.retract = None
        BY <1>1, <2>1 DEF ScreenInv, BarInv, to
    <2>3. ASSUME ~Covered, ~Special PROVE screen'.bar = comp'.bar \/ Flashed'
        <3>1. CASE to # surface /\ to \in {"settings", "alerts"}
            <4>1. surface = "bar" /\ comp.bar > 0
                BY <1>2, <1>3, <1>7, <2>3, <3>1 DEF ScreenInv, BarInv, MidStep
            <4> QED BY <1>1, <1>3, <1>7, <3>1, <4>1 DEF Flashed, caches, alerts, to
        <3>2. CASE ~(to # surface /\ to \in {"settings", "alerts"})
            <4>1. screen'.bar = screen.bar /\ comp' = comp
                BY <1>3, <1>5, <3>2 DEF caches
            <4>2. screen.bar = comp.bar \/ (comp.bar > 0 /\ surface \in {"settings", "alerts"})
                BY <1>3, <2>3 DEF ScreenInv, BarInv, Flashed, MidStep
            <4>3. ASSUME comp.bar > 0, surface \in {"settings", "alerts"} PROVE Flashed'
                <5>1. to = surface \/ to = "rotation"
                    BY <1>2, <4>3
                <5>2. to # surface => force' /\ bar'.retract = None /\ surface' = "rotation"
                    BY <1>1, <2>1, <4>3, <5>1 DEF to
                <5> QED BY <1>1, <1>3, <1>7, <4>1, <4>3, <5>1, <5>2 DEF Flashed, MidStep, alerts, to
            <4> QED BY <4>1, <4>2, <4>3
        <3> QED BY <3>1, <3>2
    <2>4. ASSUME surface' = "bar", ~Covered, ~Special PROVE comp'.bar > 0 \/ (force' /\ MidStep')
        <3>1. CASE surface = "bar"
            BY <1>3, <1>7, <2>4, <3>1 DEF ScreenInv, BarInv, MidStep, caches
        <3>2. CASE surface # "bar"
            BY <1>1, <1>3, <2>4, <3>2 DEF MidStep, to
        <3> QED BY <3>1, <3>2
    <2> QED BY <1>8, <2>2, <2>3, <2>4 DEF BarInv
<1> QED BY <1>6, <1>9, <1>10, <1>11 DEF ScreenInv

LEMMA PollSettingsKeeps == ASSUME ScreenInv, PollSettings PROVE ScreenInv'
<1> USE UnitsAssumption, NoneAssumption
<1>1. UNCHANGED <<state, bar, days, caches, list, alerts, snapshot, screen>>
    BY DEF PollSettings
<1>2. turn = "poll" /\ turn' \in {"off", "evaluate"} /\ force' = TRUE /\ touched' = TRUE
      /\ surface = "settings"
    BY DEF PollSettings
<1>3. Types'
    BY <1>1, <1>2 DEF ScreenInv, Types, state, caches, alerts, snapshot
<1> QED BY <1>1, <1>2, <1>3 DEF ScreenInv, TimeInv, DaysInv, SeenInv, CoverInv, ListInv,
       BaseInv, BaseTrue, BarInv, Flashed, MidStep, Special, Covered, state, caches, alerts, snapshot

\* What was drawn of the list and what is on the display go stale together.
LEMMA ChangeTypes ==
    ASSUME NEW drawn \in Drawings \cup {None}, NEW r \in 1 .. Rows
    PROVE  Change(drawn, r) \in Drawings \cup {None}
<1>1. CASE drawn = None
    BY <1>1 DEF Change
<1>2. CASE drawn # None
    <2>1. SymDiff(drawn.stale, {r}) \in SUBSET (1 .. Rows)
        BY <1>2 DEF SymDiff, Drawings
    <2> QED BY <1>2, <2>1 DEF Change, Drawings
<1> QED BY <1>1, <1>2

LEMMA PollListKeeps == ASSUME ScreenInv, PollList PROVE ScreenInv'
<1> USE UnitsAssumption, NoneAssumption
<1>1. /\ UNCHANGED <<surface, view, dwell, redraw, bar, days, caches, alerts, snapshot>>
      /\ turn = "poll" /\ turn' = "evaluate" /\ force' = TRUE /\ touched' = TRUE
      /\ surface = "alerts" /\ alarm = None
    BY DEF PollList, AlertOwnsTouch
<1>2. list \in Lists /\ screen \in Screens
    BY DEF ScreenInv, Types
<1>3. \/ \E r \in 1 .. Rows :
            /\ \/ list' = [list EXCEPT !.row = r, !.left = Flash, !.drawn = Change(@, r)]
                  /\ screen' = [screen EXCEPT !.list = Change(@, r)]
               \/ list' = [list EXCEPT !.row = r, !.left = Flash] /\ screen' = screen
      \/ \E page \in Nat : /\ list' = [list EXCEPT !.page = page, !.row = None, !.left = 0]
                           /\ screen' = screen
    <2>1. CASE \E r \in Visible(list.page), stored \in BOOLEAN :
                  /\ list' = [list EXCEPT !.row = r, !.left = Flash,
                                          !.drawn = IF stored THEN Change(@, r) ELSE @]
                  /\ screen' = [screen EXCEPT !.list = IF stored THEN Change(@, r) ELSE @]
        <3>1. PICK r \in Visible(list.page), stored \in BOOLEAN :
                  /\ list' = [list EXCEPT !.row = r, !.left = Flash,
                                          !.drawn = IF stored THEN Change(@, r) ELSE @]
                  /\ screen' = [screen EXCEPT !.list = IF stored THEN Change(@, r) ELSE @]
            BY <2>1
        <3>2. r \in 1 .. Rows
            BY DEF Visible
        <3>3. CASE stored
            BY <3>1, <3>2, <3>3
        <3>4. CASE ~stored
            <4>1. list' = [list EXCEPT !.row = r, !.left = Flash, !.drawn = list.drawn]
                BY <3>1, <3>4
            <4>2. [list EXCEPT !.row = r, !.left = Flash, !.drawn = list.drawn]
                        = [list EXCEPT !.row = r, !.left = Flash]
                BY <1>2 DEF Lists
            <4>3. screen' = [screen EXCEPT !.list = screen.list]
                BY <3>1, <3>4
            <4>4. [screen EXCEPT !.list = screen.list] = screen
                BY <1>2 DEF Screens
            <4>5. screen' = screen
                BY <4>3, <4>4
            <4>6. list' = [list EXCEPT !.row = r, !.left = Flash]
                BY <4>1, <4>2
            <4> QED BY <3>2, <4>5, <4>6
        <3> QED BY <3>3, <3>4
    <2>2. CASE \E page \in {list.page - 1, list.page + 1} \cap 0 .. (PageCount - 1) :
                  /\ list' = [list EXCEPT !.page = page, !.row = None, !.left = 0]
                  /\ UNCHANGED screen
        <3>1. PICK page \in {list.page - 1, list.page + 1} \cap 0 .. (PageCount - 1) :
                  /\ list' = [list EXCEPT !.page = page, !.row = None, !.left = 0]
                  /\ UNCHANGED screen
            BY <2>2
        <3>2. page \in Nat
            BY <1>2 DEF Lists
        <3> QED BY <3>1, <3>2
    <2> QED BY <2>1, <2>2 DEF PollList
<1>4. /\ list' \in Lists /\ screen' \in Screens
      /\ screen'.page = screen.page /\ screen'.bar = screen.bar /\ screen'.age = screen.age
      /\ screen'.days = screen.days /\ screen'.local = screen.local
      /\ screen'.label = screen.label /\ screen'.badge = screen.badge
      /\ screen.list = list.drawn => screen'.list = list'.drawn
      /\ list'.drawn = None <=> list.drawn = None
    <2>1. Flash \in Nat
        OBVIOUS
    <2>2. \A r \in 1 .. Rows : /\ Change(list.drawn, r) \in Drawings \cup {None}
                               /\ Change(screen.list, r) \in Drawings \cup {None}
        BY <1>2, ChangeTypes DEF Lists, Screens
    <2>3. \A r \in 1 .. Rows : Change(list.drawn, r) = None <=> list.drawn = None
        <3> SUFFICES ASSUME NEW r \in 1 .. Rows, list.drawn # None
                     PROVE  Change(list.drawn, r) # None
            BY DEF Change
        <3>1. list.drawn \in Drawings
            BY <1>2 DEF Lists
        <3>2. SymDiff(list.drawn.stale, {r}) \in SUBSET (1 .. Rows)
            BY <3>1 DEF SymDiff, Drawings
        <3>3. Change(list.drawn, r) \in Drawings
            BY <3>1, <3>2 DEF Change, Drawings
        <3> QED BY <3>3
    <2>4. CASE \E r \in 1 .. Rows :
                  /\ list' = [list EXCEPT !.row = r, !.left = Flash, !.drawn = Change(@, r)]
                  /\ screen' = [screen EXCEPT !.list = Change(@, r)]
        <3>1. PICK r \in 1 .. Rows :
                  /\ list' = [list EXCEPT !.row = r, !.left = Flash, !.drawn = Change(@, r)]
                  /\ screen' = [screen EXCEPT !.list = Change(@, r)]
            BY <2>4
        <3> DEFINE cl == Change(list.drawn, r)
                   cs == Change(screen.list, r)
        <3>2. /\ list' = [list EXCEPT !.row = r, !.left = Flash, !.drawn = cl]
              /\ screen' = [screen EXCEPT !.list = cs]
            BY <3>1
        <3>3. /\ cl \in Drawings \cup {None} /\ cs \in Drawings \cup {None}
              /\ (cl = None <=> list.drawn = None)
              /\ screen.list = list.drawn => cs = cl
            BY <2>2, <2>3
        <3> HIDE DEF cl, cs
        <3>4. list' \in Lists /\ list'.drawn = cl
            BY <1>2, <2>1, <3>2, <3>3 DEF Lists
        <3>5. /\ screen' \in Screens /\ screen'.list = cs
              /\ screen'.page = screen.page /\ screen'.bar = screen.bar /\ screen'.age = screen.age
              /\ screen'.days = screen.days /\ screen'.local = screen.local
              /\ screen'.label = screen.label /\ screen'.badge = screen.badge
            BY <1>2, <3>2, <3>3 DEF Screens
        <3> QED BY <3>3, <3>4, <3>5
    <2>5. CASE \E r \in 1 .. Rows :
                  list' = [list EXCEPT !.row = r, !.left = Flash] /\ screen' = screen
        BY <1>2, <2>1, <2>5 DEF Lists
    <2>6. CASE \E page \in Nat : /\ list' = [list EXCEPT !.page = page, !.row = None, !.left = 0]
                                 /\ screen' = screen
        <3>1. PICK page \in Nat : list' = [list EXCEPT !.page = page, !.row = None, !.left = 0]
            BY <2>6
        <3>2. list' \in Lists /\ list'.drawn = list.drawn
            BY <1>2, <3>1 DEF Lists
        <3> QED BY <1>2, <2>6, <3>2
    <2> QED BY <1>3, <2>4, <2>5, <2>6
<1>5. Types'
    BY <1>1, <1>4 DEF ScreenInv, Types, caches, alerts, snapshot
<1>6. (Special' <=> Special) /\ (Covered' <=> Covered) /\ (BaseTrue => BaseTrue')
    BY <1>1, <1>4 DEF Special, Covered, BaseTrue, caches
<1>7. TimeInv' /\ DaysInv' /\ SeenInv' /\ BaseInv'
    BY <1>1, <1>6 DEF ScreenInv, TimeInv, DaysInv, SeenInv, BaseInv, alerts, snapshot, caches
<1>8. CoverInv' /\ ListInv'
    BY <1>1, <1>4 DEF ScreenInv, CoverInv, ListInv, MidStep, caches, alerts
<1>9. BarInv'
    BY <1>1, <1>4, <1>6 DEF ScreenInv, BarInv, Flashed, MidStep, caches, alerts
<1> QED BY <1>5, <1>7, <1>8, <1>9 DEF ScreenInv

LEMMA ReadClockKeeps == ASSUME ScreenInv, ReadClock PROVE ScreenInv'
<1> USE UnitsAssumption, NoneAssumption
<1>1. /\ UNCHANGED <<turn, force, state, bar, days, caches, list, alerts, minute, screen, touched>>
      /\ local' \in BOOLEAN /\ trusted' \in BOOLEAN /\ (local => local') /\ turn = "evaluate"
    BY DEF ReadClock, ScreenInv, Types
<1>2. Types'
    BY <1>1 DEF ScreenInv, Types, state, caches, alerts
<1> QED BY <1>1, <1>2 DEF ScreenInv, TimeInv, DaysInv, SeenInv, CoverInv, ListInv,
       BaseInv, BaseTrue, BarInv, Flashed, MidStep, Special, Covered, state, caches, alerts

LEMMA StepAgainKeeps == ASSUME ScreenInv, StepAgain PROVE ScreenInv'
<1> USE UnitsAssumption, NoneAssumption
<1>1. /\ UNCHANGED <<force, state, bar, days, caches, list, alerts, snapshot, screen>>
      /\ turn \in {"wait", "shown"} /\ turn' = "poll" /\ touched' = FALSE
    BY DEF StepAgain, Between
<1>2. Types'
    BY <1>1 DEF ScreenInv, Types, state, caches, alerts, snapshot
<1> QED BY <1>1, <1>2 DEF ScreenInv, TimeInv, DaysInv, SeenInv, CoverInv, ListInv,
       BaseInv, BaseTrue, BarInv, Flashed, MidStep, Special, Covered, state, caches, alerts, snapshot

LEMMA NotDueKeeps == ASSUME ScreenInv, NotDue PROVE ScreenInv'
<1> USE UnitsAssumption, NoneAssumption
<1>1. /\ UNCHANGED <<force, state, bar, days, caches, list, alerts, snapshot, screen, touched>>
      /\ turn = "paint" /\ turn' = "wait" /\ ~force
    BY DEF NotDue
<1>2. Types'
    BY <1>1 DEF ScreenInv, Types, state, caches, alerts, snapshot
<1> QED BY <1>1, <1>2 DEF ScreenInv, TimeInv, DaysInv, SeenInv, CoverInv, ListInv,
       BaseInv, BaseTrue, BarInv, Flashed, MidStep, Special, Covered, state, caches, alerts, snapshot

LEMMA RolloverKeeps == ASSUME ScreenInv, Rollover PROVE ScreenInv'
<1> USE UnitsAssumption, NoneAssumption
<1>1. /\ UNCHANGED <<surface, deadline, redraw, bar, comp, list, alerts, snapshot, screen, touched>>
      /\ turn = "rollover" /\ turn' = "dwell" /\ (force' = force \/ force' = TRUE)
    BY DEF Rollover, NewDay, NewMonth
<1>2. /\ days \in Grids /\ view \in {"clock", "calendar"} /\ local \in BOOLEAN
      /\ view = "calendar" => days.grid # None /\ local /\ days.ymd # None /\ (days.grid = 3 => days.ymd \in {3, 4})
    BY DEF ScreenInv, Types, DaysInv
<1>3. /\ days' \in Grids /\ view' \in {"clock", "calendar"}
      /\ view' = view \/ view' = "clock"
      /\ \/ view' = view /\ cache' = cache /\ (view = "calendar" => days'.grid = days.grid)
         \/ cache' = None
      /\ view' = "calendar" => days'.grid = 0 /\ days'.ymd = 0
      /\ local => days'.ymd = 0
    <2>1. CASE local /\ days.ymd = 3
        BY <1>2, <2>1 DEF Rollover, NewDay, Grids
    <2>2. CASE local /\ days.ymd = 4
        BY <1>2, <2>2 DEF Rollover, NewMonth, Grids
    <2>3. CASE ~local \/ days.ymd \notin {3, 4}
        <3>1. days' = IF local THEN [days EXCEPT !.ymd = 0] ELSE days
            BY <2>3 DEF Rollover
        <3>2. view' = view /\ cache' = cache
            BY <2>3 DEF Rollover
        <3> QED BY <1>2, <2>3, <3>1, <3>2 DEF Grids
    <2> QED BY <2>1, <2>2, <2>3
<1>4. Types'
    BY <1>1, <1>3 DEF ScreenInv, Types, alerts, snapshot
<1>5. TimeInv'
    BY <1>1, <1>3 DEF ScreenInv, TimeInv, Special, alerts, snapshot
<1>6. DaysInv' /\ SeenInv'
    BY <1>1, <1>2, <1>3 DEF DaysInv, SeenInv, snapshot
<1>7. CoverInv' /\ ListInv'
    BY <1>1 DEF ScreenInv, CoverInv, ListInv, MidStep, alerts
<1>8. (Special' <=> Special) /\ (~Covered' => ~Covered)
    BY <1>1, <1>3 DEF Special, Covered
<1>9. BaseInv'
    BY <1>1, <1>3, <1>8 DEF ScreenInv, BaseInv, BaseTrue, Covered
<1>10. BarInv'
    BY <1>1, <1>8 DEF ScreenInv, BarInv, Flashed, MidStep, alerts
<1> QED BY <1>4, <1>5, <1>6, <1>7, <1>9, <1>10 DEF ScreenInv

LEMMA DwellKeeps == ASSUME ScreenInv, Dwell PROVE ScreenInv'
<1> USE UnitsAssumption, NoneAssumption
<1>1. /\ UNCHANGED <<surface, deadline, redraw, bar, comp, list, alerts, snapshot, screen, touched>>
      /\ turn = "dwell" /\ turn' = "paint"
    BY DEF Dwell
<1>2. \/ UNCHANGED <<view, force, days, cache>>
      \/ /\ local /\ force' = TRUE /\ cache' = None
         /\ \/ view' = "clock" /\ days' = days
            \/ view' = "calendar" /\ days' = [days EXCEPT !.grid = 0]
      \/ /\ force' = TRUE /\ cache' = None /\ view' = "clock" /\ days' = days
    <2>1. CASE UNCHANGED <<view, dwell, force, days, cache>>
        BY <2>1
    <2>2. CASE SwitchView
        <3>1. CASE view = "clock" /\ ~local
            BY <2>2, <3>1 DEF SwitchView
        <3>2. CASE view = "clock" /\ local
            BY <2>2, <3>2 DEF SwitchView, NextView
        <3>3. CASE view = "calendar"
            BY <2>2, <3>3 DEF SwitchView, NextView
        <3> QED BY <3>1, <3>2, <3>3 DEF ScreenInv, Types
    <2> QED BY <2>1, <2>2 DEF Dwell
<1>3. days \in Grids /\ (local => days.ymd = 0)
    BY <1>1 DEF ScreenInv, Types, SeenInv
<1>4. Types'
    <2>1. days' \in Grids
        BY <1>2, <1>3 DEF Grids
    <2>2. force' \in BOOLEAN /\ view' \in {"clock", "calendar"} /\ cache' \in Caches \cup {None}
        BY <1>2 DEF ScreenInv, Types
    <2> QED BY <1>1, <2>1, <2>2 DEF ScreenInv, Types, alerts, snapshot
<1>5. TimeInv'
    BY <1>1, <1>2 DEF ScreenInv, TimeInv, Special, alerts, snapshot
<1>6. DaysInv' /\ SeenInv'
    BY <1>1, <1>2, <1>3 DEF ScreenInv, DaysInv, SeenInv, snapshot, Grids
<1>7. CoverInv' /\ ListInv'
    BY <1>1, <1>2 DEF ScreenInv, CoverInv, ListInv, MidStep, alerts
<1>8. (Special' <=> Special) /\ (~Covered' => ~Covered)
    BY <1>1, <1>2 DEF Special, Covered
<1>9. BaseInv'
    BY <1>1, <1>2, <1>8 DEF ScreenInv, BaseInv, BaseTrue, Covered
<1>10. BarInv'
    BY <1>1, <1>2, <1>8 DEF ScreenInv, BarInv, Flashed, MidStep, alerts
<1> QED BY <1>4, <1>5, <1>6, <1>7, <1>9, <1>10 DEF ScreenInv

LEMMA OlderDay ==
    ASSUME NEW d \in {None, 0, 3, 4}, NEW age \in {3, 4}
    PROVE  /\ Older(d, age) \in {None, 3, 4}
           /\ d # 4 /\ age = 3 => Older(d, age) \in {None, 3}
<1>1. CASE d = None
    BY <1>1 DEF Older
<1>2. CASE d # None
    <2>1. d \in Int /\ age \in Int
        BY <1>2
    <2>2. Older(d, age) = IF d >= age THEN d ELSE age
        BY <1>2, <2>1, MaxOfTwo DEF Older
    <2> QED BY <1>2, <2>2
<1> QED BY <1>1, <1>2

LEMMA PassTimeKeeps == ASSUME ScreenInv, PassTime PROVE ScreenInv'
<1> USE UnitsAssumption, NoneAssumption
<1>1. /\ UNCHANGED <<force, surface, view, comp, postponed, release, local, trusted>>
      /\ turn \in {"wait", "shown"} /\ turn' = "poll" /\ touched' = FALSE
    BY DEF PassTime, Between
<1>2. PICK age \in 0 .. 4 : Age(age)
    BY DEF PassTime
<1> DEFINE m == Min({age, 2})
<1>3. m \in 0 .. 2
    BY MinOfTwo
<1> HIDE DEF m
<1>4. \A n \in 0 .. 2 : /\ Older(n, m) \in 0 .. 2
                        /\ Older(n, m) = IF n >= m THEN n ELSE m
    BY <1>3, MaxOfTwo DEF Older
<1>5. Older(None, m) = None
    BY DEF Older
<1>6. redraw' \in Nat
    BY DEF PassTime, Down, ScreenInv, Types
<1>7. bar' \in Bars /\ bar'.visible = bar.visible
      /\ (bar'.reveal = None <=> bar.reveal = None) /\ (bar'.retract = None <=> bar.retract = None)
    <2>1. \A n \in Units \cup {None} : Elapse(n) \in Units \cup {None} /\ (Elapse(n) = None <=> n = None)
        <3> SUFFICES ASSUME NEW n \in Units PROVE Elapse(n) \in Units
            BY DEF Elapse, Units
        <3> QED BY MinOfTwo DEF Elapse, Units
    <2>2. bar \in Bars /\ bar' = [bar EXCEPT !.reveal = Elapse(bar.reveal), !.retract = Elapse(bar.retract)]
        BY DEF PassTime, ScreenInv, Types
    <2> QED BY <2>1, <2>2 DEF Bars
<1>8. list' \in Lists /\ list'.drawn = list.drawn /\ list'.page = list.page
    <2>1. Down(list.left) \in Nat
        BY DEF Down, ScreenInv, Types, Lists
    <2> QED BY <2>1 DEF PassTime, ScreenInv, Types, Lists
<1>9. /\ cache' \in Caches \cup {None} /\ (cache' = None <=> cache = None)
      /\ cache # None => /\ cache'.local = cache.local /\ cache'.label = cache.label
                         /\ cache'.age = IF cache.age >= m THEN cache.age ELSE m
    <2>1. cache' = IF cache = None THEN None ELSE [cache EXCEPT !.age = Older(cache.age, m)]
        BY <1>2 DEF Age, m
    <2>2. cache \in Caches \cup {None}
        BY DEF ScreenInv, Types
    <2> QED BY <1>4, <2>1, <2>2 DEF Caches
<1>10. /\ screen' \in Screens
       /\ screen'.page = screen.page /\ screen'.local = screen.local /\ screen'.label = screen.label
       /\ screen'.badge = screen.badge /\ screen'.bar = screen.bar /\ screen'.list = screen.list
       /\ screen.page \in {"clock", "calendar"} =>
              screen'.age = IF screen.age >= m THEN screen.age ELSE m
       /\ screen.page = "calendar" =>
              screen'.days = IF age < 3 THEN screen.days ELSE Older(screen.days, 3)
    <2>1. screen \in Screens
        BY DEF ScreenInv, Types
    <2>2. Older(screen.age, m) = (IF screen.age >= m THEN screen.age ELSE m) /\ Older(screen.age, m) \in 0 .. 2
        BY <1>4, <2>1 DEF Screens
    <2>3. \A d \in {None, 0, 3} : Older(d, 3) \in {None, 0, 3}
        BY OlderDay
    <2>4. CASE screen.page = "clock"
        <3>1. screen.page # "calendar"
            BY <2>4
        <3>2. screen' = [screen EXCEPT !.age = Older(@, m)]
            BY <1>2, <2>4, <3>1, Zenon DEF Age, m
        <3> QED BY <2>1, <2>2, <2>4, <3>2 DEF Screens
    <2>5. CASE screen.page = "calendar"
        <3>1. screen.page # "clock"
            BY <2>5
        <3>2. screen' = [screen EXCEPT !.age = Older(@, m),
                                       !.days = IF age < 3 THEN @ ELSE Older(@, 3)]
            BY <1>2, <2>5, <3>1, Zenon DEF Age, m
        <3>3. screen.days \in {None, 0, 3}
            BY <2>1 DEF Screens
        <3>4. screen' = [screen EXCEPT !.age = Older(screen.age, m),
                                       !.days = IF age < 3 THEN screen.days ELSE Older(screen.days, 3)]
            BY <3>2
        <3> QED BY <2>1, <2>2, <2>3, <2>5, <3>3, <3>4 DEF Screens
    <2>6. CASE screen.page \notin {"clock", "calendar"}
        <3>1. screen.page # "clock" /\ screen.page # "calendar"
            BY <2>6
        <3>2. screen' = screen
            BY <1>2, <3>1, Zenon DEF Age
        <3> QED BY <2>1, <2>6, <3>2
    <2> QED BY <2>4, <2>5, <2>6
<1>11. days' \in Grids
       /\ days' = IF age < 3 THEN days
                  ELSE [grid |-> IF view = "calendar" THEN Older(days.grid, 3) ELSE days.grid,
                        ymd |-> Older(days.ymd, age)]
    <2>1. days \in Grids
        BY DEF ScreenInv, Types
    <2>2. days' = IF age < 3 THEN days
                  ELSE [grid |-> IF view = "calendar" THEN Older(days.grid, 3) ELSE days.grid,
                        ymd |-> Older(days.ymd, age)]
        BY <1>2 DEF Age
    <2>3. \A d \in {None, 0, 3} : Older(d, 3) \in {None, 0, 3}
        BY OlderDay
    <2>4. age >= 3 => \A d \in {None, 0, 3, 4} : Older(d, age) \in {None, 0, 3, 4}
        BY <1>2, OlderDay
    <2> QED BY <2>1, <2>2, <2>3, <2>4 DEF Grids
<1>12. minute' \in {"first", "open", "seen"}
    BY <1>2 DEF Age, ScreenInv, Types
<1>13. alarm' \in Alarms \cup {None} /\ (alarm' = None <=> alarm = None)
    <2>1. alarm \in Alarms \cup {None}
        BY DEF ScreenInv, Types
    <2>2. alarm' = IF alarm = None THEN None ELSE [alarm EXCEPT !.rung = alarm.rung \/ age > 1]
        BY <1>2 DEF Age
    <2>3. (alarm.rung \/ age > 1) \in BOOLEAN
        OBVIOUS
    <2> QED BY <2>1, <2>2, <2>3 DEF Alarms
<1>14. Types'
    BY <1>1, <1>6, <1>7, <1>8, <1>9, <1>10, <1>11, <1>12, <1>13 DEF ScreenInv, Types
<1>15. TimeInv'
    BY <1>1, <1>9, <1>10, <1>13 DEF ScreenInv, TimeInv, Special
<1>16. DaysInv' /\ SeenInv'
    <2>1. SeenInv'
        BY <1>1 DEF SeenInv
    <2>2. ASSUME view = "calendar" PROVE days'.ymd # None /\ days'.grid # None
                                         /\ (days'.grid = 3 => days'.ymd \in {3, 4})
        <3>1. days.ymd \in {0, 3, 4} /\ days.grid \in {0, 3} /\ (days.grid = 3 => days.ymd \in {3, 4})
            BY <2>2 DEF ScreenInv, Types, Grids, DaysInv
        <3>2. CASE age < 3
            BY <1>11, <3>1, <3>2
        <3>3. CASE age >= 3
            <4>1. Older(days.grid, 3) = 3 /\ Older(days.ymd, age) \in {3, 4}
                BY <1>2, <3>1, <3>3, MaxOfTwo DEF Older
            <4> QED BY <1>2, <1>11, <2>2, <3>3, <4>1
        <3> QED BY <1>2, <3>2, <3>3
    <2>3. DaysInv'
        BY <1>1, <2>2 DEF ScreenInv, DaysInv
    <2> QED BY <2>1, <2>3
<1>17. CoverInv' /\ ListInv'
    BY <1>1, <1>8, <1>10, <1>13 DEF ScreenInv, CoverInv, ListInv, MidStep
<1>18. (Special' <=> Special) /\ (Covered' <=> Covered)
    BY <1>1, <1>9, <1>10 DEF Special, Covered
<1>19. BaseInv'
    <2> SUFFICES ASSUME ~Covered, ~Special PROVE BaseTrue'
        BY <1>18 DEF BaseInv
    <2>1. BaseTrue
        BY DEF ScreenInv, BaseInv
    <2>2. screen.page \in {"clock", "calendar"} /\ cache # None
        BY <2>1 DEF BaseTrue, Covered, ScreenInv, Types
    <2>3. view = "calendar" => screen'.days = days'.grid
        <3> SUFFICES ASSUME view = "calendar" PROVE screen'.days = days'.grid
            OBVIOUS
        <3>1. screen.page = "calendar" /\ screen.days = days.grid
            BY <2>1 DEF BaseTrue
        <3> QED BY <1>10, <1>11, <3>1
    <2>4. cache'.local => screen'.age = cache'.age
        BY <1>9, <1>10, <2>1, <2>2 DEF BaseTrue
    <2> QED BY <1>1, <1>9, <1>10, <2>1, <2>2, <2>3, <2>4 DEF BaseTrue
<1>20. BarInv'
    <2>1. ~Flashed \/ surface \in {"settings", "alerts"}
        BY <1>1 DEF Flashed, MidStep
    <2>2. Flashed => Flashed'
        BY <1>1, <1>13, <2>1 DEF Flashed
    <2>3. surface = "bar" => bar.reveal # None /\ bar.retract = None
        BY DEF ScreenInv, BarInv
    <2>4. ~Covered /\ ~Special => screen.bar = comp.bar \/ Flashed
        BY DEF ScreenInv, BarInv
    <2>5. surface = "bar" /\ alarm = None /\ ~Covered /\ ~Special => comp.bar > 0
        BY <1>1 DEF ScreenInv, BarInv, MidStep
    <2> QED BY <1>1, <1>7, <1>10, <1>13, <1>18, <2>2, <2>3, <2>4, <2>5 DEF BarInv
<1> QED BY <1>14, <1>15, <1>16, <1>17, <1>19, <1>20 DEF ScreenInv

-----------------------------------------------------------------------------
(* The alerts. *)

LEMMA AlertDrawn ==
    ASSUME Types, NEW name \in {"ringing", "postponed"}, DrawAlertPage(name)
    PROVE  screen' \in Screens /\ Special' /\ screen'.page # "alerts"
<1> USE UnitsAssumption, NoneAssumption
<1>1. Page(name) \in Screens /\ Page("mixed") \in Screens
    BY DEF Page, Screens, Pages, Types
<1>2. [Page(name) EXCEPT !.badge = ~trusted] \in Screens
    BY <1>1 DEF Screens, Types
<1>3. /\ [Page(name) EXCEPT !.badge = ~trusted].page = name
      /\ Page("mixed").page = "mixed"
    BY DEF Page
<1>4. CASE screen' = [Page(name) EXCEPT !.badge = ~trusted]
    BY <1>2, <1>3, <1>4 DEF Special
<1>5. CASE screen' = Page("mixed")
    BY <1>1, <1>3, <1>5 DEF Special
<1> QED BY <1>4, <1>5 DEF DrawAlertPage, AlertPage

\* A ringing alert owns the display: the invariant says little until it ends.
LEMMA RingsKeeps ==
    ASSUME ScreenInv, turn = "evaluate", local, Rings,
           UNCHANGED <<force, local, trusted, touched>>, minute' \in {"first", "open", "seen"}
    PROVE  ScreenInv'
<1> USE UnitsAssumption, NoneAssumption
<1>1. screen' \in Screens /\ Special'
    BY AlertDrawn DEF Rings, ScreenInv
<1>2. alarm' # None /\ alarm' \in Alarms /\ postponed' = None /\ turn' = "wait"
    <2>1. [touch |-> None, rung |-> FALSE] \in Alarms
        BY DEF Alarms
    <2> QED BY <2>1 DEF Rings, Returns
<1>3. UNCHANGED <<surface, view, dwell, redraw, bar, days, caches, list, release>>
    BY DEF Rings
<1>4. Types'
    BY <1>1, <1>2, <1>3 DEF ScreenInv, Types, caches
<1> QED BY <1>1, <1>2, <1>3, <1>4 DEF ScreenInv, TimeInv, DaysInv, SeenInv, CoverInv, ListInv,
       BaseInv, BarInv, caches

\* A postponed alert waits: its label may go, and the clock comes on.
LEMMA WaitsKeeps ==
    ASSUME ScreenInv, turn = "evaluate", turn' = "rollover", postponed # None,
           postponed' \in Postponements,
           UNCHANGED <<view, cache>> \/ (view' = "clock" /\ cache' = IF view = "clock" THEN cache ELSE None),
           UNCHANGED <<surface, deadline, dwell, redraw, bar, days, comp, list, alarm, release, screen>>,
           UNCHANGED <<force, local, trusted, touched>>, minute' \in {"first", "open", "seen"}
    PROVE  ScreenInv'
<1> USE UnitsAssumption, NoneAssumption
<1>1. /\ UNCHANGED <<view, cache>> \/ (view' = "clock" /\ cache' = None)
      /\ view' \in {"clock", "calendar"}
    BY DEF ScreenInv, Types
<1>2. Types'
    BY <1>1 DEF ScreenInv, Types
<1>3. (Special' <=> Special) /\ (~Covered' => ~Covered /\ UNCHANGED <<view, cache>>)
    BY <1>1 DEF Special, Covered
<1>4. TimeInv' /\ DaysInv' /\ SeenInv' /\ CoverInv' /\ ListInv'
    BY <1>1 DEF ScreenInv, TimeInv, DaysInv, SeenInv, CoverInv, ListInv, Special, MidStep
<1>5. BaseInv'
    BY <1>3 DEF ScreenInv, BaseInv, BaseTrue
<1>6. BarInv'
    BY <1>3 DEF ScreenInv, BarInv, Flashed, MidStep
<1> QED BY <1>2, <1>4, <1>5, <1>6 DEF ScreenInv

LEMMA SameKeeps ==
    ASSUME ScreenInv, turn = "evaluate", turn' = "rollover" \/ (alarm # None /\ turn' = "wait"),
           UNCHANGED <<state, bar, days, caches, list, alerts, screen>>,
           UNCHANGED <<force, local, trusted, touched>>, minute' \in {"first", "open", "seen"}
    PROVE  ScreenInv'
<1> USE UnitsAssumption, NoneAssumption
<1>1. Types'
    BY DEF ScreenInv, Types, state, caches, alerts
<1>2. (Special' <=> Special) /\ (Covered' <=> Covered)
    BY DEF Special, Covered, caches
<1>3. TimeInv' /\ DaysInv' /\ SeenInv' /\ CoverInv' /\ ListInv'
    BY DEF ScreenInv, TimeInv, DaysInv, SeenInv, CoverInv, ListInv, Special, MidStep, state, caches, alerts
<1>4. BaseInv'
    BY <1>2 DEF ScreenInv, BaseInv, BaseTrue, state, caches
<1>5. BarInv'
    BY <1>2 DEF ScreenInv, BarInv, Flashed, MidStep, state, caches, alerts
<1> QED BY <1>1, <1>3, <1>4, <1>5 DEF ScreenInv

LEMMA EndAlarmKeeps ==
    ASSUME ScreenInv, turn = "evaluate", EndAlarm,
           UNCHANGED <<force, local, trusted, touched>>, minute' \in {"first", "open", "seen"}
    PROVE  ScreenInv'
<1> USE UnitsAssumption, NoneAssumption
<1>1. /\ alarm # None /\ alarm' = None /\ surface' = "rotation" /\ turn' = "wait"
      /\ UNCHANGED <<deadline, view, redraw, postponed, release>>
    BY DEF EndAlarm, Returns
<1>2. local
    BY <1>1 DEF ScreenInv, TimeInv
<1>3. CASE DrawBase("rotation")
    <2>1. /\ screen' \in Screens /\ cache' \in Caches /\ comp' \in Comps
          /\ list' \in Lists /\ bar' \in Bars /\ days' = days
          /\ ~Covered' /\ cache'.local = local
          /\ Special' => local /\ cache'.age <= 1
          /\ ~Special' => BaseTrue' /\ screen'.bar = comp'.bar
        BY <1>1, <1>3, DrawnBase DEF ScreenInv
    <2>2. Types'
        BY <1>1, <2>1 DEF ScreenInv, Types
    <2> QED BY <1>1, <1>2, <2>1, <2>2 DEF ScreenInv, TimeInv, DaysInv, SeenInv, CoverInv, ListInv,
           BaseInv, BarInv
<1>4. CASE DrawBaseFails("rotation") /\ cache' = IF Uncovers("rotation") THEN None ELSE cache
    <2>1. screen' \in Screens /\ Special'
        BY <1>4 DEF DrawBaseFails, Page, Screens, Pages, Special, ScreenInv, Types
    <2>2. comp' \in Comps /\ list' \in Lists /\ UNCHANGED <<days, bar>>
        BY <1>4 DEF DrawBaseFails, Comps, Lists, ScreenInv, Types
    <2>3. cache' \in Caches \cup {None}
        BY <1>4 DEF ScreenInv, Types
    <2>4. Types'
        BY <1>1, <2>1, <2>2, <2>3 DEF ScreenInv, Types
    <2> QED BY <1>1, <1>2, <2>1, <2>2, <2>4 DEF ScreenInv, TimeInv, DaysInv, SeenInv, CoverInv, ListInv,
           BaseInv, BarInv
<1> QED BY <1>3, <1>4 DEF EndAlarm

LEMMA EvaluateKeeps == ASSUME ScreenInv, Evaluate PROVE ScreenInv'
<1> USE UnitsAssumption, NoneAssumption
<1>1. /\ turn = "evaluate" /\ UNCHANGED <<force, local, trusted, touched>>
      /\ minute' \in {"first", "open", "seen"}
    BY DEF Evaluate, ScreenInv, Types
<1>2. alarm # None \/ postponed # None => local
    BY DEF ScreenInv, TimeInv
<1>3. CASE Raise
    BY <1>1, <1>3, RingsKeeps DEF Raise, MayBeDue
<1>4. CASE RaiseAgain
    BY <1>1, <1>2, <1>4, RingsKeeps DEF RaiseAgain
<1>5. CASE AwaitPostponed
    <2>1. postponed # None /\ postponed' \in Postponements
        BY <1>5 DEF AwaitPostponed, ScreenInv, Types, Postponements
    <2> QED BY <1>1, <1>5, <2>1, WaitsKeeps DEF AwaitPostponed, Returns
<1>6. CASE RaiseFails
    <2>1. postponed # None /\ postponed' \in Postponements
        BY <1>6 DEF RaiseFails, ScreenInv, Types, Postponements
    <2> QED BY <1>1, <1>6, <2>1, WaitsKeeps DEF RaiseFails, Returns
<1>7. CASE PostponeAlarm
    <2>1. CASE Returns(FALSE) /\ UNCHANGED <<state, alerts, screen>>
        BY <1>1, <1>7, <2>1, SameKeeps DEF PostponeAlarm, Returns
    <2>2. CASE /\ Returns(TRUE) /\ alarm' = None /\ surface' = "rotation"
               /\ postponed' = [confirmation |-> TRUE, cancel |-> FALSE, due |-> FALSE]
               /\ DrawAlertPage("postponed")
               /\ UNCHANGED <<view, redraw, release>>
        <3>1. screen' \in Screens /\ Special'
            BY <2>2, AlertDrawn DEF ScreenInv
        <3>2. postponed' \in Postponements /\ turn' = "wait" /\ local
            BY <1>2, <1>7, <2>2 DEF PostponeAlarm, Postponements, Returns
        <3>3. UNCHANGED <<bar, days, caches, list>>
            BY <1>7 DEF PostponeAlarm
        <3>4. Types'
            BY <1>1, <2>2, <3>1, <3>2, <3>3 DEF ScreenInv, Types, caches
        <3> QED BY <1>1, <2>2, <3>1, <3>2, <3>3, <3>4 DEF ScreenInv, TimeInv, DaysInv, SeenInv,
               CoverInv, ListInv, BaseInv, BarInv, caches
    <2> QED BY <1>7, <2>1, <2>2 DEF PostponeAlarm
<1>8. CASE EndAlarm
    BY <1>1, <1>8, EndAlarmKeeps
<1>9. CASE KeepRinging
    <2>1. CASE screen.page = "mixed"
        BY <1>1, <1>9, <2>1, SameKeeps DEF KeepRinging, Returns
    <2>2. CASE screen.page # "mixed"
        <3>1. screen' \in Screens /\ Special'
            BY <1>9, <2>2, AlertDrawn DEF KeepRinging, ScreenInv
        <3>2. alarm # None /\ turn' = "wait" /\ UNCHANGED <<state, bar, days, caches, list, alerts>>
            BY <1>9 DEF KeepRinging, Returns
        <3>3. Types'
            BY <1>1, <3>1, <3>2 DEF ScreenInv, Types, state, caches, alerts
        <3> QED BY <1>1, <1>2, <3>1, <3>2, <3>3 DEF ScreenInv, TimeInv, DaysInv, SeenInv, CoverInv,
               ListInv, BaseInv, BarInv, state, caches, alerts
    <2> QED BY <2>1, <2>2
<1>10. CASE NoAlert
    BY <1>1, <1>10, SameKeeps DEF NoAlert, Returns
<1> QED BY <1>3, <1>4, <1>5, <1>6, <1>7, <1>8, <1>9, <1>10 DEF Evaluate

-----------------------------------------------------------------------------
(* Painting.  A base that was painted tells the truth, a page of the       *)
(* settings or of the alerts because the compositor knows it.              *)

ListKnown == screen.page = "alerts" => screen.list # None

LEMMA PaintBaseKeeps == ASSUME ScreenInv, PaintBase PROVE ScreenInv' /\ ScreenTrue'
<1> USE UnitsAssumption, NoneAssumption
<1>1. /\ turn = "paint" /\ turn' = "shown" /\ force' = FALSE
      /\ surface \in {"rotation", "bar"}
      /\ UNCHANGED <<surface, deadline, view, dwell, alerts, snapshot, touched>>
    BY DEF PaintBase, DuePaint, Painted
<1>2. /\ screen' \in Screens /\ cache' \in Caches /\ comp' \in Comps
      /\ list' \in Lists /\ bar' \in Bars /\ days' = days
      /\ ~Covered' /\ comp'.badge = ~trusted /\ comp'.bar = BarHeight(surface)
      /\ cache'.local = local
      /\ bar'.visible = BarHeight(surface) /\ bar'.reveal = bar.reveal
      /\ bar'.retract \in {bar.retract, None}
      /\ Special' => local /\ cache'.age <= 1
      /\ ~Special' => BaseTrue' /\ screen'.bar = comp'.bar /\ screen'.label = Label(surface)
      /\ ~Special' /\ local => screen'.age <= (IF view = "clock" THEN 0 ELSE 1)
    BY <1>1, DrawnBase DEF PaintBase, ScreenInv, snapshot
<1>3. redraw' \in Nat
    BY DEF PaintBase, Painted, NextRedraw
<1>4. Types'
    BY <1>1, <1>2, <1>3 DEF ScreenInv, Types, alerts, snapshot
<1>5. TimeInv' /\ DaysInv' /\ SeenInv'
    BY <1>1, <1>2 DEF ScreenInv, TimeInv, DaysInv, SeenInv, alerts, snapshot
<1>6. CoverInv' /\ ListInv' /\ BaseInv'
    BY <1>1, <1>2 DEF CoverInv, ListInv, BaseInv, Covered
<1>7. BarInv'
    <2>1. surface = "bar" => /\ bar'.reveal # None /\ bar'.retract = None
                             /\ comp'.bar > 0
        <3> SUFFICES ASSUME surface = "bar"
                     PROVE  bar'.reveal # None /\ bar'.retract = None /\ comp'.bar > 0
            OBVIOUS
        <3>1. bar.reveal # None /\ bar.retract = None
            BY DEF ScreenInv, BarInv
        <3>2. BarHeight("bar") > 0
            BY <3>1, HeightOfBar DEF ScreenInv, Types
        <3> QED BY <1>2, <3>1, <3>2
    <2> QED BY <1>1, <1>2, <2>1 DEF BarInv
<1>8. ScreenTrue'
    <2>1. ASSUME ~Leftover'
          PROVE  /\ screen'.page = view' /\ screen'.local = local'
                 /\ local' => screen'.age <= (IF view' = "clock" THEN 0 ELSE 1)
                 /\ view' = "calendar" /\ local' => screen'.days = 0
                 /\ screen'.label = Label(surface)'
                 /\ screen'.badge = ~trusted'
                 /\ screen'.bar = bar'.visible
        <3>1. ~Special'
            BY <1>1, <1>2, <2>1 DEF Leftover, Special, Covered
        <3>2. BaseTrue' /\ screen'.bar = comp'.bar /\ screen'.label = Label(surface)
              /\ (local => screen'.age <= (IF view = "clock" THEN 0 ELSE 1))
            BY <1>2, <3>1
        <3>3. view = "calendar" => days.grid = 0
            BY <1>1 DEF ScreenInv, DaysInv
        <3>4. Label(surface)' = Label(surface)
            BY <1>1 DEF Label, alerts, snapshot
        <3> QED BY <1>1, <1>2, <3>2, <3>3, <3>4 DEF BaseTrue, snapshot
    <2> QED BY <1>1, <2>1 DEF ScreenTrue
<1> QED BY <1>4, <1>5, <1>6, <1>7, <1>8 DEF ScreenInv

LEMMA PaintSettingsKeeps == ASSUME ScreenInv, PaintSettings PROVE ScreenInv' /\ ScreenTrue'
<1> USE UnitsAssumption, NoneAssumption
<1>1. /\ turn = "paint" /\ turn' = "shown" /\ force' = FALSE /\ surface = "settings"
      /\ UNCHANGED <<surface, deadline, view, dwell, alerts, snapshot, touched>>
      /\ UNCHANGED <<bar, days, cache, list>>
    BY DEF PaintSettings, DuePaint, Painted
<1>2. redraw' \in Nat
    BY DEF PaintSettings, Painted, NextRedraw
<1>3. \/ comp.settings /\ UNCHANGED <<screen, comp>>
      \/ /\ screen' = Page("settings")
         /\ comp' = [badge |-> FALSE, bar |-> 0, settings |-> TRUE]
    BY DEF PaintSettings, SettingsPage
<1>4. /\ screen' \in Screens /\ comp' \in Comps /\ comp'.settings
      /\ Special' => Special
      /\ alarm = None => screen'.page = "settings" /\ screen'.bar = 0
    <2>1. CASE comp.settings /\ UNCHANGED <<screen, comp>>
        BY <1>1, <2>1 DEF ScreenInv, Types, CoverInv, Special
    <2>2. CASE /\ screen' = Page("settings")
               /\ comp' = [badge |-> FALSE, bar |-> 0, settings |-> TRUE]
        BY <2>2 DEF Page, Screens, Pages, Comps, Special, ScreenInv, Types
    <2> QED BY <1>3, <2>1, <2>2
<1>5. Types'
    BY <1>1, <1>2, <1>4 DEF ScreenInv, Types, alerts, snapshot
<1>6. Covered'
    BY <1>4 DEF Covered
<1>7. TimeInv' /\ DaysInv' /\ SeenInv'
    BY <1>1, <1>4 DEF ScreenInv, TimeInv, DaysInv, SeenInv, alerts, snapshot
<1>8. CoverInv' /\ ListInv' /\ BaseInv' /\ BarInv'
    BY <1>1, <1>4, <1>6 DEF CoverInv, ListInv, BaseInv, BarInv, alerts
<1>9. ScreenTrue'
    BY <1>1, <1>4 DEF ScreenTrue, alerts
<1> QED BY <1>5, <1>7, <1>8, <1>9 DEF ScreenInv

LEMMA Redrawn ==
    ASSUME NEW d \in Drawings, NEW lit \in SUBSET (1 .. Rows), NEW stale \in SUBSET (1 .. Rows)
    PROVE  [d EXCEPT !.lit = lit, !.stale = stale] = [page |-> d.page, lit |-> lit, stale |-> stale]
<1> DEFINE e == [d EXCEPT !.lit = lit, !.stale = stale]
<1>1. e \in Drawings
    BY DEF Drawings
<1>2. e.page = d.page /\ e.lit = lit /\ e.stale = stale
    BY DEF Drawings
<1> HIDE DEF e
<1>3. e = [page |-> e.page, lit |-> e.lit, stale |-> e.stale]
    BY <1>1 DEF Drawings
<1> QED BY <1>2, <1>3 DEF e

LEMMA PaintListKeeps == ASSUME ScreenInv, ListKnown, PaintList PROVE ScreenInv' /\ ScreenTrue'
<1> USE UnitsAssumption, NoneAssumption
<1>1. /\ turn = "paint" /\ turn' = "shown" /\ force' = FALSE /\ surface = "alerts"
      /\ UNCHANGED <<surface, deadline, view, dwell, alerts, snapshot, touched>>
      /\ UNCHANGED <<bar, days, cache>> /\ list' = [list EXCEPT !.drawn = ListNow]
    BY DEF PaintList, DuePaint, Painted
<1>2. redraw' \in Nat
    BY DEF PaintList, Painted, NextRedraw
<1>3. list \in Lists /\ screen \in Screens
    BY DEF ScreenInv, Types
<1>4. Lit \in SUBSET (1 .. Rows) /\ ListNow \in Drawings /\ ListNow # None
    BY <1>3 DEF Lit, ListNow, Lists, Drawings
<1>5. /\ list' \in Lists /\ list'.drawn = ListNow
      /\ Lit' = Lit /\ ListNow' = ListNow
    BY <1>1, <1>3, <1>4 DEF Lit, ListNow, Lists
<1>6. /\ screen' \in Screens /\ comp' \in Comps /\ comp'.settings
      /\ Special' => Special
      /\ alarm = None => screen'.page = "alerts" /\ screen'.bar = 0 /\ screen'.list = ListNow
    <2>1. CASE ListFull
        <3>1. /\ screen' = [Page("alerts") EXCEPT !.list = ListNow]
              /\ comp' = [badge |-> FALSE, bar |-> 0, settings |-> TRUE]
            BY <2>1 DEF PaintList
        <3>2. Page("alerts") \in Screens /\ Page("alerts").page = "alerts" /\ Page("alerts").bar = 0
            BY DEF Page, Screens, Pages, ScreenInv, Types
        <3>3. comp' \in Comps /\ comp'.settings
            BY <3>1 DEF Comps
        <3> QED BY <1>4, <3>1, <3>2, <3>3 DEF Screens, Special
    <2>2. CASE ~ListFull
        <3>1. /\ comp' = comp /\ comp.settings /\ list.drawn # None
              /\ list.drawn.page = list.page
            BY <2>2 DEF PaintList, ListFull
        <3>2. screen' = IF screen.page # "alerts" THEN screen
                        ELSE [screen EXCEPT !.list.lit = (@ \ Changed) \cup (Lit \cap Changed),
                                            !.list.stale = @ \ Changed]
            BY <2>2 DEF PaintList
        <3>3. CASE screen.page # "alerts"
            BY <1>1, <1>3, <3>1, <3>2, <3>3 DEF ScreenInv, Types, ListInv, Special
        <3>4. CASE screen.page = "alerts"
            <4>1. screen.list \in Drawings
                BY <1>3, <3>4 DEF ListKnown, Screens
            <4> DEFINE l == screen.list
                       lit == (l.lit \ Changed) \cup (Lit \cap Changed)
                       stale == l.stale \ Changed
                       new == [page |-> l.page, lit |-> lit, stale |-> stale]
            <4>2. lit \in SUBSET (1 .. Rows) /\ stale \in SUBSET (1 .. Rows) /\ l.page \in Nat
                BY <1>4, <4>1 DEF Drawings
            <4>3. new \in Drawings
                BY <4>2 DEF Drawings
            <4>4. screen' = [screen EXCEPT !.list = new]
                <5>1. screen' = [screen EXCEPT !.list = [screen.list EXCEPT !.lit = lit, !.stale = stale]]
                    BY <3>2, <3>4, Zenon
                <5> HIDE DEF lit, stale
                <5>2. [screen.list EXCEPT !.lit = lit, !.stale = stale] = new
                    BY <4>1, <4>2, Redrawn
                <5> QED BY <5>1, <5>2
            <4>5. l = list.drawn => new = ListNow
                <5> SUFFICES ASSUME l = list.drawn PROVE new = ListNow
                    OBVIOUS
                <5>1. Changed = SymDiff(l.lit, Lit) \cup l.stale
                    BY DEF Changed
                <5>2. lit = Lit /\ stale = {}
                    BY <5>1 DEF SymDiff
                <5>3. l.page = list.page
                    BY <3>1
                <5> QED BY <5>2, <5>3 DEF ListNow
            <4> HIDE DEF new, l
            <4>6. /\ screen' \in Screens /\ screen'.page = "alerts" /\ screen'.bar = screen.bar
                  /\ screen'.list = new
                BY <1>3, <3>4, <4>3, <4>4 DEF Screens
            <4>7. ~Special'
                BY <4>6 DEF Special
            <4>8. alarm = None => screen.bar = 0 /\ l = list.drawn
                BY <1>1, <3>1 DEF ScreenInv, ListInv, l
            <4> QED BY <3>1, <4>5, <4>6, <4>7, <4>8 DEF ScreenInv, Types
        <3> QED BY <3>3, <3>4
    <2> QED BY <2>1, <2>2
<1>7. Types'
    BY <1>1, <1>2, <1>5, <1>6 DEF ScreenInv, Types, alerts, snapshot
<1>8. Covered'
    BY <1>6 DEF Covered
<1>9. TimeInv' /\ DaysInv' /\ SeenInv'
    BY <1>1, <1>6 DEF ScreenInv, TimeInv, DaysInv, SeenInv, alerts, snapshot
<1>10. CoverInv' /\ ListInv' /\ BaseInv' /\ BarInv'
    BY <1>1, <1>5, <1>6, <1>8 DEF CoverInv, ListInv, BaseInv, BarInv, alerts
<1>11. ScreenTrue'
    BY <1>1, <1>5, <1>6 DEF ScreenTrue, alerts
<1> QED BY <1>7, <1>9, <1>10, <1>11 DEF ScreenInv

LEMMA PaintFailsKeeps == ASSUME ScreenInv, "alerts" \notin Faulty, PaintFails PROVE ScreenInv'
<1> USE UnitsAssumption, NoneAssumption
<1>1. /\ turn = "paint" /\ turn' = "wait" /\ force' = FALSE /\ cache' = None
      /\ UNCHANGED <<state, alerts, snapshot, touched, days, bar>>
    BY DEF PaintFails, DuePaint, DrawBaseFails
<1>2. screen' = Page("mixed")
    BY DEF PaintFails, DrawBaseFails
<1>3. screen' \in Screens
    BY <1>2 DEF Page, Screens, Pages, ScreenInv, Types
<1>4. comp' \in Comps /\ ~comp'.settings /\ list' \in Lists
    BY DEF PaintFails, DrawBaseFails, Comps, Lists, ScreenInv, Types
<1>5. Types'
    BY <1>1, <1>3, <1>4 DEF ScreenInv, Types, state, alerts, snapshot
<1>6. TimeInv' /\ DaysInv' /\ SeenInv'
    BY <1>1 DEF ScreenInv, TimeInv, DaysInv, SeenInv, state, alerts, snapshot
<1>7. CoverInv' /\ ListInv' /\ BaseInv' /\ BarInv'
    BY <1>1, <1>4 DEF ScreenInv, CoverInv, ListInv, BaseInv, BarInv, Covered, state
<1> QED BY <1>5, <1>6, <1>7 DEF ScreenInv

\* What the list page shows is a list.
LEMMA ListKnownKeeps ==
    ASSUME ScreenInv, ListKnown, [Next]_vars
    PROVE  ListKnown'
<1> USE UnitsAssumption, NoneAssumption
<1>1. screen \in Screens /\ surface \in {"rotation", "bar", "settings", "alerts"}
    BY DEF ScreenInv, Types
<1>2. CASE UNCHANGED screen
    BY <1>2 DEF ListKnown
<1>3. \A name \in {"settings", "mixed"} : screen' = Page(name) => screen'.page # "alerts"
    BY DEF Page
<1>4. CASE PollSurface
    BY <1>1, <1>4 DEF PollSurface, FlashBar, Screens, ListKnown
<1>5. CASE PollList
    <2>1. CASE \E r \in Visible(list.page), stored \in BOOLEAN :
                   screen' = [screen EXCEPT !.list = IF stored THEN Change(@, r) ELSE @]
        <3>1. PICK r \in Visible(list.page), stored \in BOOLEAN :
                   screen' = [screen EXCEPT !.list = IF stored THEN Change(screen.list, r) ELSE screen.list]
            BY <2>1
        <3>2. ASSUME screen.list # None PROVE Change(screen.list, r) # None
            <4>1. screen.list \in Drawings
                BY <1>1, <3>2 DEF Screens
            <4>2. r \in 1 .. Rows
                BY DEF Visible
            <4>3. SymDiff(screen.list.stale, {r}) \in SUBSET (1 .. Rows)
                BY <4>1, <4>2 DEF SymDiff, Drawings
            <4>4. Change(screen.list, r) \in Drawings
                BY <3>2, <4>1, <4>3 DEF Change, Drawings
            <4> QED BY <4>4
        <3> QED BY <1>1, <3>1, <3>2 DEF Screens, ListKnown
    <2> QED BY <1>2, <1>5, <2>1 DEF PollList
<1>6. CASE PassTime
    <2>1. PICK age \in 0 .. 4 : Age(age)
        BY <1>6 DEF PassTime
    <2>2. CASE screen.page = "clock"
        <3>1. screen.page # "calendar"
            BY <2>2
        <3>2. screen' = [screen EXCEPT !.age = Older(@, Min({age, 2}))]
            BY <2>1, <2>2, <3>1, Zenon DEF Age
        <3> QED BY <1>1, <2>2, <3>2 DEF Screens, ListKnown
    <2>3. CASE screen.page = "calendar"
        <3>1. screen.page # "clock"
            BY <2>3
        <3>2. screen' = [screen EXCEPT !.age = Older(@, Min({age, 2})),
                                       !.days = IF age < 3 THEN @ ELSE Older(@, 3)]
            BY <2>1, <2>3, <3>1, Zenon DEF Age
        <3> QED BY <1>1, <2>3, <3>2 DEF Screens, ListKnown
    <2>4. CASE screen.page \notin {"clock", "calendar"}
        <3>1. screen.page # "clock" /\ screen.page # "calendar"
            BY <2>4
        <3>2. screen' = screen
            BY <2>1, <3>1, Zenon DEF Age
        <3> QED BY <1>2, <3>2
    <2> QED BY <2>2, <2>3, <2>4
<1>7. ASSUME NEW name \in {"ringing", "postponed"}, DrawAlertPage(name)
      PROVE  ListKnown'
    BY <1>7, AlertDrawn DEF ListKnown, ScreenInv
<1>8. ASSUME NEW on \in {"rotation", "bar"}, on = surface \/ alarm # None,
             DrawBase(on), UNCHANGED <<local, trusted, view>>
      PROVE  ListKnown'
    <2>1. Special' \/ BaseTrue'
        BY <1>8, DrawnBase DEF ScreenInv
    <2>2. view' \in {"clock", "calendar"}
        BY <1>8 DEF ScreenInv, Types
    <2> QED BY <2>1, <2>2 DEF Special, BaseTrue, ListKnown
<1>9. CASE Evaluate
    <2>1. UNCHANGED <<local, trusted>>
        BY <1>9 DEF Evaluate
    <2>2. CASE EndAlarm
        <3>1. alarm # None /\ view' = view
            BY <2>2 DEF EndAlarm
        <3>2. CASE DrawBase("rotation")
            BY <1>8, <2>1, <3>1, <3>2
        <3>3. CASE DrawBaseFails("rotation")
            BY <1>3, <3>3 DEF DrawBaseFails, ListKnown
        <3> QED BY <2>2, <3>2, <3>3 DEF EndAlarm
    <2>3. CASE \/ UNCHANGED screen \/ DrawAlertPage("ringing") \/ DrawAlertPage("postponed")
        BY <1>2, <1>7, <2>3
    <2> QED BY <1>9, <2>2, <2>3 DEF Evaluate, Raise, RaiseAgain, Rings, AwaitPostponed, RaiseFails,
           PostponeAlarm, KeepRinging, NoAlert
<1>10. CASE PaintBase
    BY <1>8, <1>10 DEF PaintBase, Painted, snapshot
<1>11. CASE PaintSettings
    BY <1>2, <1>3, <1>11 DEF PaintSettings, SettingsPage, ListKnown
<1>12. CASE PaintList
    <2>1. list \in Lists
        BY DEF ScreenInv, Types
    <2>2. ListNow \in Drawings /\ ListNow # None
        BY <2>1 DEF ListNow, Lit, Lists, Drawings
    <2>3. CASE ListFull
        BY <1>12, <2>2, <2>3 DEF PaintList, Page, ListKnown
    <2>4. CASE ~ListFull
        <3>1. CASE screen.page = "alerts"
            <4> DEFINE lit == (screen.list.lit \ Changed) \cup (Lit \cap Changed)
                       stale == screen.list.stale \ Changed
                       new == [screen.list EXCEPT !.lit = lit, !.stale = stale]
            <4>1. screen' = [screen EXCEPT !.list = [screen.list EXCEPT !.lit = lit, !.stale = stale]]
                BY <1>12, <2>4, <3>1, Zenon DEF PaintList
            <4>2. screen.list \in Drawings
                BY <1>1, <3>1 DEF ListKnown, Screens
            <4>3. Lit \in SUBSET (1 .. Rows)
                BY <2>1 DEF Lit, Lists
            <4>4. new \in Drawings
                BY <4>2, <4>3 DEF Drawings
            <4>5. screen' = [screen EXCEPT !.list = new]
                BY <4>1
            <4> HIDE DEF new
            <4> QED BY <1>1, <4>4, <4>5 DEF Screens, ListKnown
        <3>2. CASE screen.page # "alerts"
            BY <1>2, <1>12, <2>4, <3>2 DEF PaintList
        <3> QED BY <3>1, <3>2
    <2> QED BY <2>3, <2>4
<1>13. CASE PaintFails
    BY <1>3, <1>13 DEF PaintFails, DrawBaseFails, ListKnown
<1>14. CASE PollAlert \/ PollSettings \/ ReadClock \/ Rollover \/ Dwell \/ NotDue \/ StepAgain
    BY <1>2, <1>14 DEF PollAlert, PollSettings, ReadClock, Rollover, Dwell, NotDue, StepAgain
<1>15. CASE UNCHANGED vars
    BY <1>2, <1>15 DEF vars
<1> QED BY <1>4, <1>5, <1>6, <1>9, <1>10, <1>11, <1>12, <1>13, <1>14, <1>15 DEF Next, Poll, Paint

LEMMA Steps ==
    ASSUME ScreenInv, ListKnown, ScreenTrue, "alerts" \notin Faulty, [Next]_vars
    PROVE  ScreenInv' /\ ScreenTrue'
<1>1. CASE PaintBase \/ PaintSettings \/ PaintList
    BY <1>1, PaintBaseKeeps, PaintSettingsKeeps, PaintListKeeps
<1>2. CASE Poll
    <2>1. turn' # "shown"
        BY <1>2 DEF Poll, PollAlert, PollSurface, PollSettings, PollList
    <2> QED BY <1>2, <2>1, PollAlertKeeps, PollSurfaceKeeps, PollSettingsKeeps, PollListKeeps
        DEF Poll, ScreenTrue
<1>3. CASE ReadClock
    BY <1>3, ReadClockKeeps DEF ReadClock, ScreenTrue
<1>4. CASE Evaluate
    <2>1. turn' \in {"wait", "rollover"}
        BY <1>4 DEF Evaluate, Raise, RaiseAgain, Rings, AwaitPostponed, RaiseFails, PostponeAlarm,
           EndAlarm, KeepRinging, NoAlert, Returns
    <2> QED BY <1>4, <2>1, EvaluateKeeps DEF ScreenTrue
<1>5. CASE Rollover
    BY <1>5, RolloverKeeps DEF Rollover, ScreenTrue
<1>6. CASE Dwell
    BY <1>6, DwellKeeps DEF Dwell, ScreenTrue
<1>7. CASE NotDue
    BY <1>7, NotDueKeeps DEF NotDue, ScreenTrue
<1>8. CASE PaintFails
    BY <1>8, PaintFailsKeeps DEF PaintFails, ScreenTrue
<1>9. CASE PassTime
    BY <1>9, PassTimeKeeps DEF PassTime, ScreenTrue
<1>10. CASE StepAgain
    BY <1>10, StepAgainKeeps DEF StepAgain, ScreenTrue
<1>11. CASE UNCHANGED vars
    <2>1. /\ UNCHANGED <<turn, force, state, bar, days, caches, list>>
          /\ UNCHANGED <<alerts, snapshot, screen, touched>>
        BY <1>11 DEF vars
    <2>2. ScreenInv'
        BY <2>1 DEF ScreenInv, Types, TimeInv, DaysInv, SeenInv, CoverInv, ListInv, BaseInv, BaseTrue,
           BarInv, Flashed, MidStep, Special, Covered, state, caches, alerts, snapshot
    <2>3. ScreenTrue'
        BY <2>1 DEF ScreenTrue, Leftover, Label, ListNow, Lit, state, caches, alerts, snapshot
    <2> QED BY <2>2, <2>3
<1> QED BY <1>1, <1>2, <1>3, <1>4, <1>5, <1>6, <1>7, <1>8, <1>9, <1>10, <1>11 DEF Next, Paint

(* After a paint with no alert on, the display shows what the state says,  *)
(* whatever fails to draw but the list of the alerts: that one keeps what  *)
(* it drew last when drawing another page fails halfway, so that going     *)
(* back in time draws nothing (ui/alerts.py).                              *)
THEOREM ScreenTrueAlways ==
    ASSUME "alerts" \notin Faulty
    PROVE  Spec => []ScreenTrue
<1>1. Init => ScreenInv /\ ListKnown /\ ScreenTrue
    <2> SUFFICES ASSUME Init PROVE ScreenInv /\ ListKnown /\ ScreenTrue
        OBVIOUS
    <2>1. turn = "poll" /\ screen.page = "blank"
        BY DEF Init, Page
    <2> QED BY <2>1, InvStarts DEF ListKnown, ScreenTrue
<1>2. (ScreenInv /\ ListKnown /\ ScreenTrue) /\ [Next]_vars
          => (ScreenInv /\ ListKnown /\ ScreenTrue)'
    BY Steps, ListKnownKeeps
<1> QED BY <1>1, <1>2, PTL DEF Spec

-----------------------------------------------------------------------------
(* Leaving an idle surface. *)

IdleTypes ==
    /\ turn \in {"poll", "evaluate", "rollover", "dwell", "paint", "wait", "shown", "off"}
    /\ surface \in {"rotation", "bar", "settings", "alerts"}
    /\ alarm \in Alarms \cup {None}

LEMMA IdleKeeps ==
    ASSUME IdleTypes, IdleInv, [Next]_vars
    PROVE  IdleTypes' /\ IdleInv'
<1> USE UnitsAssumption, NoneAssumption
<1>1. CASE PollAlert
    <2>1. PICK target \in Targets \cup {None} : /\ AlertOwnsTouch \/ CancelHit(target)
                                                /\ AlertTouch(target)
        BY <1>1 DEF PollAlert
    <2>2. /\ turn = "poll" /\ turn' = "evaluate" /\ surface' = surface
        BY <1>1 DEF PollAlert
    <2>3. alarm' \in Alarms \cup {None} /\ (alarm' = None <=> alarm = None)
        <3> DEFINE t == IF alarm.touch = "postpone" THEN alarm.touch ELSE target
        <3>1. \/ alarm' = alarm
              \/ /\ alarm # None /\ target \in {"stop", "postpone"}
                 /\ alarm' = [alarm EXCEPT !.touch = t]
            BY <2>1 DEF AlertTouch, alerts
        <3>2. target \in {"stop", "postpone"} => t \in {None, "stop", "postpone"}
            OBVIOUS
        <3> HIDE DEF t
        <3>3. alarm # None => \A u \in {None, "stop", "postpone"} : [alarm EXCEPT !.touch = u] \in Alarms
            BY DEF IdleTypes, Alarms
        <3> QED BY <3>1, <3>2, <3>3 DEF IdleTypes
    <2>4. alarm = None => surface = "rotation"
        BY <2>1, NoneAssumption DEF IdleInv, AlertOwnsTouch, CancelHit
    <2> QED BY <2>2, <2>3, <2>4 DEF IdleTypes, IdleInv
<1>2. CASE PollSurface
    <2>1. PICK target \in Targets \cup {None} :
              LET to == NextSurface(target)
              IN  /\ touched' = (target # None /\ to # "rotation")
                  /\ surface' = to
                  /\ deadline' = IF to = surface THEN deadline ELSE IdleOf(to)
        BY <1>2 DEF PollSurface
    <2> DEFINE to == NextSurface(target)
    <2>2. to \in {"rotation", "bar", "settings", "alerts"}
        BY DEF NextSurface, IdleTypes
    <2>3. /\ turn = "poll" /\ turn' = "evaluate" /\ alarm = None /\ ~release
          /\ UNCHANGED <<alarm, release>>
        BY <1>2 DEF PollSurface, AlertOwnsTouch, alerts
    <2>4. to # "rotation" /\ to # surface => IdleOf(to) \in Nat /\ IdleOf(to) > 0
        BY <2>2 DEF IdleOf
    <2>5. to # "rotation" /\ to = surface => deadline \in Nat /\ (deadline > 0 \/ target # None)
        <3> SUFFICES ASSUME to # "rotation", to = surface, target = None, deadline = 0 PROVE FALSE
            BY <2>3 DEF IdleInv
        <3>1. target \notin {"gear", "alerts", "in_panel", "outside"}
            OBVIOUS
        <3>2. surface # "rotation" /\ Expired
            BY DEF Expired
        <3>3. to = "rotation"
            BY <3>1, <3>2 DEF NextSurface
        <3> QED BY <3>3
    <2> HIDE DEF to
    <2> QED BY <2>1, <2>2, <2>3, <2>4, <2>5 DEF IdleTypes, IdleInv, to
<1>3. CASE PollSettings
    BY <1>3 DEF PollSettings, AlertOwnsTouch, IdleTypes, IdleInv, state, alerts
<1>4. CASE PollList
    BY <1>4 DEF PollList, AlertOwnsTouch, IdleTypes, IdleInv, alerts
<1>5. CASE Evaluate
    <2>1. turn = "evaluate" /\ turn' \in {"wait", "rollover"} /\ touched' = touched
        BY <1>5 DEF Evaluate, Raise, RaiseAgain, Rings, AwaitPostponed, RaiseFails, PostponeAlarm,
           EndAlarm, KeepRinging, NoAlert, Returns
    <2>2. \/ alarm' # None /\ surface' = surface
          \/ surface' = "rotation"
          \/ UNCHANGED <<surface, deadline, alarm, release>>
        <3>1. [touch |-> None, rung |-> FALSE] # None
            <4>1. [touch |-> None, rung |-> FALSE] \in Alarms
                BY DEF Alarms
            <4> QED BY <4>1
        <3>2. \/ Rings \/ surface' = "rotation"
              \/ UNCHANGED <<surface, deadline, alarm, release>>
            <4>1. CASE Raise \/ RaiseAgain
                BY <4>1 DEF Raise, RaiseAgain
            <4>2. CASE AwaitPostponed \/ RaiseFails
                BY <4>2 DEF AwaitPostponed, RaiseFails
            <4>3. CASE PostponeAlarm
                BY <4>3 DEF PostponeAlarm, state, alerts
            <4>4. CASE EndAlarm
                BY <4>4 DEF EndAlarm
            <4>5. CASE KeepRinging \/ NoAlert
                BY <4>5 DEF KeepRinging, NoAlert, state, alerts
            <4> QED BY <1>5, <4>1, <4>2, <4>3, <4>4, <4>5 DEF Evaluate
        <3>3. Rings => alarm' # None /\ surface' = surface
            BY <3>1 DEF Rings
        <3> QED BY <3>2, <3>3
    <2>3. alarm' \in {None, alarm, [touch |-> None, rung |-> FALSE]}
        <3>1. CASE Raise \/ RaiseAgain
            BY <3>1 DEF Raise, RaiseAgain, Rings
        <3>2. CASE AwaitPostponed \/ RaiseFails
            BY <3>2 DEF AwaitPostponed, RaiseFails
        <3>3. CASE PostponeAlarm
            BY <3>3 DEF PostponeAlarm, alerts
        <3>4. CASE EndAlarm
            BY <3>4 DEF EndAlarm
        <3>5. CASE KeepRinging \/ NoAlert
            BY <3>5 DEF KeepRinging, NoAlert, alerts
        <3> QED BY <1>5, <3>1, <3>2, <3>3, <3>4, <3>5 DEF Evaluate
    <2>4. alarm' \in Alarms \cup {None}
        <3>1. [touch |-> None, rung |-> FALSE] \in Alarms
            BY DEF Alarms
        <3> QED BY <2>3, <3>1 DEF IdleTypes
    <2> QED BY <2>1, <2>2, <2>4 DEF IdleTypes, IdleInv
<1>6. CASE ReadClock \/ Rollover \/ Dwell \/ Paint \/ StepAgain
    <2>1. /\ UNCHANGED <<surface, deadline, alarm, release>>
          /\ turn' \in {"poll", "wait", "shown", "dwell", "paint", turn}
          /\ turn' # "poll" => turn # "poll" /\ touched' = touched
        BY <1>6 DEF ReadClock, Rollover, Dwell, Paint, NotDue, PaintBase, PaintSettings, PaintList,
           PaintFails, Painted, DuePaint, StepAgain, state, alerts
    <2> QED BY <2>1 DEF IdleTypes, IdleInv
<1>7. CASE PassTime
    <2>1. /\ UNCHANGED <<surface, release>> /\ turn' = "poll" /\ deadline' = Down(deadline)
          /\ alarm' \in Alarms \cup {None} /\ (alarm' = None => alarm = None)
        <3>1. PICK age \in 0 .. 4 : Age(age)
            BY <1>7 DEF PassTime
        <3>2. alarm' = IF alarm = None THEN None ELSE [alarm EXCEPT !.rung = alarm.rung \/ age > 1]
            BY <3>1 DEF Age
        <3>3. (alarm.rung \/ age > 1) \in BOOLEAN
            OBVIOUS
        <3>4. alarm' \in Alarms \cup {None} /\ (alarm' = None => alarm = None)
            BY <3>2, <3>3 DEF IdleTypes, Alarms
        <3> QED BY <1>7, <3>4 DEF PassTime
    <2>2. deadline \in Nat => deadline' \in Nat
        BY <2>1 DEF Down
    <2> QED BY <2>1, <2>2 DEF IdleTypes, IdleInv
<1>8. CASE UNCHANGED vars
    BY <1>8 DEF vars, state, alerts, IdleTypes, IdleInv
<1> QED BY <1>1, <1>2, <1>3, <1>4, <1>5, <1>6, <1>7, <1>8 DEF Next, Poll

(* A surface but the rotation is left in time: without a touch it still    *)
(* has time left after every step, whatever the alerts and the failures do *)
(* to the deadline they share with it.                                     *)
THEOREM IdleReturnsAlways == Spec => []IdleReturns
<1>1. Init => IdleTypes /\ IdleInv
    BY DEF Init, IdleTypes, IdleInv
<1>2. (IdleTypes /\ IdleInv) /\ [Next]_vars => (IdleTypes /\ IdleInv)'
    BY IdleKeeps
<1>3. IdleInv => IdleReturns
    BY DEF IdleInv, IdleReturns, Between
<1> QED BY <1>1, <1>2, <1>3, PTL DEF Spec
=============================================================================
