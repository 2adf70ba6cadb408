---------------------------- MODULE AlertBuzzer ----------------------------
(***************************************************************************)
(* The buzzer under an alert: device/buzzer_port.py, whose writes of the   *)
(* pin may fail, and the helpers of alert/runtime.py that prepare, tick    *)
(* and silence it.  A port that failed a write counts as uninitialized;    *)
(* the app remembers a failure it was told of and initializes the port     *)
(* again when the next alert is raised.                                    *)
(*                                                                         *)
(* What a call of the port may do is the set of its outcomes: the port     *)
(* afterwards, whether what it returns counts as a success, and whether a  *)
(* write failed in it.                                                     *)
(***************************************************************************)
EXTENDS Naturals

CONSTANT Pauses     \* the low phases of the pattern, BUZZER_LOW_PATTERN_MS

ASSUME PausesAssumption == Pauses \in Nat \ {0}

VARIABLES
    port,       \* pin: its level; ready: _initialized; high: _phase_high;
                \* deadline of the phase; pulse: _pulse_index
    faulted,    \* app._alert_buzzer_faulted
    alarm,      \* "off", "on", or "postponing" while its commit is retried
    raised      \* observed: alerts raised since a write failed, at most two

buzzerVars == <<port, faulted, alarm, raised>>

Outcome(p, ok, broke) == [port |-> p, ok |-> ok, broke |-> broke]

-----------------------------------------------------------------------------
(***************************************************************************)
(* The port.                                                               *)
(***************************************************************************)
\* _drive: a failed write leaves the pin, unless the attempt to pull it low
\* succeeds; `done' is the port after a write that succeeds.
Drive(p, level, done) ==
    {Outcome([done EXCEPT !.pin = level], TRUE, FALSE)} \union
    {Outcome([p EXCEPT !.pin = left, !.ready = FALSE, !.deadline = "none"], FALSE, TRUE) :
        left \in {p.pin, FALSE}}

Initialize(p) ==
    LET reset == [p EXCEPT !.pulse = 0, !.ready = FALSE, !.high = FALSE, !.deadline = "none"]
    IN  Drive(reset, FALSE, [reset EXCEPT !.ready = TRUE])

Silence(p) ==
    LET first == [p EXCEPT !.pulse = 0]
        quiet == [first EXCEPT !.high = FALSE, !.deadline = "none"]
    IN  IF ~p.ready THEN {Outcome(first, FALSE, FALSE)}
        ELSE IF ~p.high THEN {Outcome(quiet, TRUE, FALSE)}
        ELSE Drive(first, FALSE, quiet)

\* The next phase after the one that ended; a pause takes the next of the pattern.
NextPhase(p) ==
    [p EXCEPT !.high = ~p.high, !.deadline = "ahead",
              !.pulse = IF p.high THEN (p.pulse + 1) % Pauses ELSE p.pulse]

\* tick(now, sounding = True), the only one the runtime asks for.
Tick(p) ==
    IF ~p.ready THEN {Outcome(p, FALSE, FALSE)}
    ELSE CASE p.deadline = "none"   -> Drive(p, TRUE, [p EXCEPT !.high = TRUE, !.deadline = "ahead"])
           [] p.deadline = "ahead"  -> {Outcome(p, TRUE, FALSE)}
           [] p.deadline = "passed" -> Drive(p, ~p.high, NextPhase(p))

-----------------------------------------------------------------------------
(***************************************************************************)
(* The runtime's helpers, on a record of the port, the app's flag and what *)
(* is observed of the step so far.                                         *)
(***************************************************************************)
App(p, f, broke) == [port |-> p, faulted |-> f, broke |-> broke]

\* _buzzer_fault: remember, and try to silence; what that returns is ignored.
Fault(p, broke) == {App(o.port, TRUE, broke \/ o.broke) : o \in Silence(p)}

\* The helpers' calls: what a call returns is looked at, and a failure is a fault.
Checked(outcomes, a) ==
    UNION {IF o.ok THEN {App(o.port, a.faulted, a.broke)} ELSE Fault(o.port, a.broke \/ o.broke) :
           o \in outcomes}

\* Mutant of Prepared: a port that failed is never initialized again.
NeverPrepared(a) == {a}

Prepared(a) ==
    IF a.faulted THEN Checked(Initialize(a.port), [a EXCEPT !.faulted = FALSE]) ELSE {a}

Ticked(a) == IF a.faulted THEN {a} ELSE Checked(Tick(a.port), a)

Silenced(a) == Checked(Silence(a.port), a)

\* The Stop branch calls the port itself and looks at nothing it returns.
Stopped(a) == {App(o.port, a.faulted, o.broke) : o \in Silence(a.port)}

\* The step ends in one of these, having raised k alerts.
Becomes(apps, k) ==
    \E a \in apps :
        /\ port' = a.port
        /\ faulted' = a.faulted
        /\ raised' = IF a.broke THEN 0 ELSE IF raised + k > 2 THEN 2 ELSE raised + k

Now == App(port, faulted, FALSE)

-----------------------------------------------------------------------------
\* An alert is raised, first or again after a postponement.
RaiseAlarm ==
    /\ alarm = "off"
    /\ alarm' = "on"
    /\ Becomes(UNION {Ticked(a) : a \in Prepared(Now)}, 1)

KeepSounding ==
    /\ alarm = "on"
    /\ Becomes(Ticked(Now), 0)
    /\ UNCHANGED alarm

\* Postpone silences each time its commit is tried.
PostponeAlarm ==
    /\ alarm # "off"
    /\ alarm' \in {"off", "postponing"}
    /\ Becomes(Silenced(Now), 0)

AutoStop ==
    /\ alarm = "on"
    /\ alarm' = "off"
    /\ Becomes(Silenced(Now), 0)

Stop ==
    /\ alarm = "on"
    /\ alarm' = "off"
    /\ Becomes(Stopped(Now), 0)

PhaseEnds ==
    /\ port.deadline = "ahead"
    /\ port' = [port EXCEPT !.deadline = "passed"]
    /\ UNCHANGED <<faulted, alarm, raised>>

\* clock_mode.run builds the port at boot and goes on when that fails.
PowerOn == [pin |-> FALSE, ready |-> FALSE, high |-> FALSE, deadline |-> "none", pulse |-> 0]

BuzzerInit ==
    /\ port \in {o.port : o \in Initialize(PowerOn)}
    /\ faulted = FALSE
    /\ alarm = "off"
    /\ raised = 0

BuzzerNext ==
    RaiseAlarm \/ KeepSounding \/ PostponeAlarm \/ AutoStop \/ Stop \/ PhaseEnds

BuzzerSpec == BuzzerInit /\ [][BuzzerNext]_buzzerVars

-----------------------------------------------------------------------------
\* A buzzer that failed sounds again, and can be silenced, at the second alert
\* after the last failure at the latest: the first may still find a port that
\* failed without the app being told, which Stop leaves behind.  And whenever
\* nothing rings and the pin is still high, the port knows that it failed.
Recovers ==
    /\ raised = 2 => port.ready /\ ~faulted
    /\ alarm = "off" /\ port.pin => ~port.ready
=============================================================================
