----------------------------- MODULE Deadlines -----------------------------
(***************************************************************************)
(* Deadlines in ticks (src/src/ticks.py): the redraw of the clock loop     *)
(* (app.py) and the idle time of the sessions of config mode               *)
(* (provisioning/session.py), over the device's counter, which goes round  *)
(* long before the period ticks.py computes with.  The same pattern, armed *)
(* with ticks_add and compared with ticks_diff, carries every other        *)
(* deadline of the device.                                                 *)
(***************************************************************************)
EXTENDS Naturals, Integers, FiniteSets

CONSTANTS
    Period,         \* PERIOD of ticks.py
    CounterPeriod,  \* of the counter ticks_ms() reads, MicroPython's
    MaxStep,        \* bound: the longest time between two looks at the clock
    RedrawAfter,    \* CLOCK_REDRAW_MS
    IdleAfter,      \* SESSION_IDLE_MS
    Tokens,         \* session ids
    MaxSessions     \* SESSION_MAX

Half == Period \div 2

\* MicroPython's counter has a quarter of the period (2^30 of 2^32 ms), and
\* every time that is waited for is shorter than that.
ASSUME DeadlinesAssumption ==
    /\ Period \in Nat \ {0} /\ Period % 2 = 0
    /\ CounterPeriod \in Nat \ {0} /\ 4 * CounterPeriod <= Period
    /\ MaxStep \in Nat \ {0}
    /\ RedrawAfter \in 1 .. CounterPeriod - 1 /\ IdleAfter \in 1 .. CounterPeriod - 1
    /\ IsFiniteSet(Tokens) /\ MaxSessions \in Nat \ {0}

VARIABLES
    ticks,      \* what ticks_ms() reads
    loop,       \* "clock" or "config"
    redraw,     \* redraw_deadline
    table,      \* _entries
    \* What follows is observed for the properties.
    unpainted,  \* the time since the view was drawn, up to RedrawAfter + MaxStep
    turned,     \* the counter went round since then
    quiet,      \* of each session, the time since it was renewed, up to IdleAfter, or -1
    rounded     \* the sessions for which the counter went round since then

clockVars == <<redraw, unpainted, turned>>
sessionVars == <<table, quiet, rounded>>
deadlineVars == <<ticks, loop, clockVars, sessionVars>>

AtMost(n, bound) == IF n <= bound THEN n ELSE bound

-----------------------------------------------------------------------------
(***************************************************************************)
(* ticks.py                                                                *)
(***************************************************************************)
\* ticks_ms(), d later, and whether the counter goes round on the way.
TicksMs(d) == (ticks + d) % CounterPeriod
GoesRound(d) == ticks + d >= CounterPeriod

TicksAdd(t, delta) == (t + delta) % Period

\* Mutant of TicksDiff: the difference is not signed.
TicksDiffUnsigned(t1, t2) == (t1 - t2) % Period

TicksDiff(t1, t2) ==
    LET diff == (t1 - t2) % Period
    IN IF diff >= Half THEN diff - Period ELSE diff

-----------------------------------------------------------------------------
(***************************************************************************)
(* The clock loop.                                                         *)
(***************************************************************************)
\* App.step: the view is drawn when its deadline is reached, or for another
\* reason (a touch, an alert, a rollover of the date).
ClockPass ==
    /\ loop = "clock"
    /\ \E d \in 1 .. MaxStep, forced \in BOOLEAN :
           /\ ticks' = TicksMs(d)
           /\ LET due == forced \/ TicksDiff(redraw, ticks') <= 0
              IN \/ /\ due
                    /\ redraw' = TicksAdd(ticks', RedrawAfter)
                    /\ unpainted' = 0 /\ turned' = FALSE
                 \/ /\ ~due
                    /\ unpainted' = AtMost(unpainted + d, RedrawAfter + MaxStep)
                    /\ turned' = (turned \/ GoesRound(d))
                    /\ UNCHANGED redraw
    /\ UNCHANGED <<loop, sessionVars>>

-----------------------------------------------------------------------------
(***************************************************************************)
(* The session table.                                                      *)
(***************************************************************************)
\* expire
Alive(entries, now) == {e \in entries : TicksDiff(now, e.deadline) < 0}

\* An entry that is renewed now, and what is observed of its session then.
Armed(token, now) == [id |-> token, deadline |-> TicksAdd(now, IdleAfter)]

Renewed(token) ==
    /\ quiet' = [quiet EXCEPT ![token] = 0]
    /\ rounded' = rounded \ {token}

\* create: `token' is fresh, as 16 random bytes are.
Create(token, now) ==
    LET alive == Alive(table, now)
    IN /\ quiet[token] = -1
       /\ \/ /\ Cardinality(alive) >= MaxSessions
             /\ table' = alive /\ UNCHANGED <<quiet, rounded>>
          \/ /\ Cardinality(alive) < MaxSessions
             /\ table' = alive \union {Armed(token, now)}
             /\ Renewed(token)

\* renew, which looks the session up first
Renew(token, now) ==
    LET alive == Alive(table, now)
    IN IF \E e \in alive : e.id = token
       THEN /\ table' = {e \in alive : e.id # token} \union {Armed(token, now)}
            /\ Renewed(token)
       ELSE table' = alive /\ UNCHANGED <<quiet, rounded>>

\* keep_only: the others are over, and all are when `token' is not among them.
KeepOnly(token, now) ==
    LET kept == \E e \in Alive(table, now) : e.id = token
    IN /\ table' = IF kept THEN {Armed(token, now)} ELSE {}
       /\ quiet' = [t \in Tokens |-> IF kept /\ t = token THEN 0 ELSE -1]
       /\ rounded' = {}

\* lookup and is_full leave only the sweep behind.
Look(now) == table' = Alive(table, now) /\ UNCHANGED <<quiet, rounded>>

SessionRequest ==
    /\ loop = "config"
    /\ \/ \E token \in Tokens : Create(token, ticks) \/ Renew(token, ticks) \/ KeepOnly(token, ticks)
       \/ Look(ticks)
    /\ UNCHANGED <<ticks, loop, clockVars>>

\* Bound: the id of a session that is over and gone from the table is used again.
Forget ==
    /\ \E t \in Tokens :
           /\ quiet[t] = IdleAfter /\ \A e \in table : e.id # t
           /\ quiet' = [quiet EXCEPT ![t] = -1]
           /\ rounded' = rounded \ {t}
    /\ UNCHANGED <<ticks, loop, clockVars, table>>

\* Time passes without a request that has to do with sessions.
Pass ==
    /\ loop = "config"
    /\ \E d \in 1 .. MaxStep :
           /\ ticks' = TicksMs(d)
           /\ quiet' = [t \in Tokens |-> IF quiet[t] = -1 THEN -1 ELSE AtMost(quiet[t] + d, IdleAfter)]
           /\ rounded' = IF GoesRound(d) THEN {t \in Tokens : quiet[t] # -1} ELSE rounded
    /\ UNCHANGED <<loop, clockVars, table>>

-----------------------------------------------------------------------------
\* Either mode starts at any time: what the counter shows when it is entered.
DeadlinesInit ==
    /\ ticks \in 0 .. CounterPeriod - 1
    /\ loop \in {"clock", "config"}
    /\ redraw = ticks /\ unpainted = 0 /\ turned = FALSE
    /\ table = {} /\ quiet = [t \in Tokens |-> -1] /\ rounded = {}

DeadlinesNext == ClockPass \/ Pass \/ SessionRequest \/ Forget

DeadlinesSpec == DeadlinesInit /\ [][DeadlinesNext]_deadlineVars

-----------------------------------------------------------------------------
\* The view is never older than its redraw time and one pass of the loop, at
\* whatever moment the counter goes round (ticks.py: the helpers are "wrap-safe").
RedrawsInTime == unpainted < RedrawAfter + MaxStep

\* What the code achieves of it: the view is drawn in time unless the counter
\* went round since it was last drawn.
RedrawsInTimeThisRound == RedrawsInTime \/ turned

Served(t) == \E e \in Alive(table, ticks) : e.id = t

\* A session that has not been idle for its time is always served, over every
\* wrap of the counter.  One that has been is not, unless the counter went round
\* since it was renewed: then its deadline looks as if it were still to come.
SessionsIdleOut ==
    \A t \in Tokens :
        /\ quiet[t] \in 0 .. IdleAfter - 1 => Served(t)
        /\ Served(t) => quiet[t] \in 0 .. IdleAfter - 1 \/ t \in rounded
=============================================================================
