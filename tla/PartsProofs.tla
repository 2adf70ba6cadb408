--------------------------- MODULE PartsProofs ---------------------------
(***************************************************************************)
(* Theorems about the parts of the device that share no state: the ports   *)
(* of the clock loop, the key derivation, the deadlines in ticks, the      *)
(* editing of alerts and the proof suite.  Each has a section with an      *)
(* inductive invariant of its own.                                         *)
(***************************************************************************)
EXTENDS Ports, KeyDerivation, Deadlines, AlertEditing, ProofSuite, SequenceTheorems,
        WellFoundedInduction, TLAPS

-----------------------------------------------------------------------------
(***************************************************************************)
(* The shared bus.                                                         *)
(***************************************************************************)
BusTypes ==
    /\ user \in {"none", "panel", "touch", "return"}
    /\ speed \in {"tft", "touch"}
    /\ tft \in BOOLEAN /\ touch \in BOOLEAN /\ unset \in BOOLEAN
    /\ stable \in BOOLEAN /\ down \in BOOLEAN /\ edge \in BOOLEAN
    /\ stuck \in BOOLEAN /\ lifted \in BOOLEAN

\* Between two transactions only a touch controller that is stuck is selected,
\* and the bus is the panel's or the last hand-back could not set its speed.
HandedBack ==
    user \in {"none", "panel"} => (touch => stuck) /\ (speed = "touch" => unset)

\* A finger that was not seen to leave is remembered as down.
Remembered == down \/ lifted

BusInv == BusTypes /\ BusBelongs /\ HandedBack /\ Remembered

LEMMA BusStarts == BusInit => BusInv
BY DEF BusInit, BusInv, BusTypes, BusBelongs, HandedBack, Remembered

LEMMA BusKeeps == ASSUME BusInv, BusNext PROVE BusInv'
<1> USE DEF BusInv, BusTypes, BusBelongs, HandedBack, Remembered, contact
<1>1. CASE SelectPanel
  BY <1>1 DEF SelectPanel
<1>2. CASE DeselectPanel
  BY <1>2 DEF DeselectPanel
<1>3. CASE BeginTouch
  <2>1. PICK done \in 0 .. 3 :
           /\ tft' = (tft /\ done < 1)
           /\ speed' = IF done < 2 THEN speed ELSE "touch"
           /\ touch' = (touch \/ done = 3)
           /\ user' = IF done = 3 THEN "touch" ELSE "return"
    BY <1>3 DEF BeginTouch
  <2>2. UNCHANGED <<unset, down, lifted, stuck>> /\ stable' = TRUE /\ edge' = FALSE
    BY <1>3 DEF BeginTouch
  <2>3. done = 3 => ~(done < 1) /\ ~(done < 2)
    OBVIOUS
  <2>4. done = 3 => ~tft' /\ speed' = "touch" /\ touch'
    BY <2>1, <2>3, Zenon
  <2>5. BusTypes'
    BY <2>1, <2>2
  <2> QED BY <2>1, <2>2, <2>4, <2>5
<1>4. CASE Sample
  BY <1>4 DEF Sample
<1>5. CASE LastSample
  BY <1>5 DEF LastSample, Reports
<1>6. CASE NoContact
  <2>1. edge' \in BOOLEAN /\ down' = edge' /\ lifted' = TRUE /\ user' = "return"
    <3>1. edge' = (taken = SampleCount - 1 /\ stable /\ ~down)
      BY <1>6 DEF NoContact
    <3>2. edge' = TRUE \/ edge' = FALSE
      BY <3>1
    <3>3. down' = edge' /\ lifted' = TRUE /\ user' = "return"
      BY <1>6 DEF NoContact
    <3> QED BY <3>2, <3>3
  <2>2. UNCHANGED <<speed, tft, touch, unset, stable, stuck>>
    BY <1>6 DEF NoContact
  <2> QED BY <2>1, <2>2
<1>7. CASE SampleFails
  BY <1>7 DEF SampleFails
<1>8. CASE HandBack
  <2>1. user' = "none" /\ UNCHANGED <<stable, down, lifted>>
    BY <1>8 DEF HandBack
  <2>2. touch' \in BOOLEAN /\ stuck' \in BOOLEAN /\ (touch' => stuck')
    <3>1. \/ touch' = FALSE /\ stuck' = FALSE
          \/ stuck' = touch /\ touch' = touch
      BY <1>8, Zenon DEF HandBack
    <3>2. touch = TRUE \/ touch = FALSE
      OBVIOUS
    <3>3. CASE touch' = FALSE /\ stuck' = FALSE
      BY <3>3
    <3>4. CASE touch = TRUE /\ stuck' = touch /\ touch' = touch
      BY <3>4
    <3>5. CASE touch = FALSE /\ stuck' = touch /\ touch' = touch
      BY <3>5
    <3> QED BY <3>1, <3>2, <3>3, <3>4, <3>5, Zenon
  <2>3. /\ speed' \in {"tft", "touch"} /\ (speed' = "touch" => unset')
        /\ tft' \in BOOLEAN /\ unset' \in BOOLEAN /\ edge' \in BOOLEAN
    BY <1>8 DEF HandBack
  <2> QED BY <2>1, <2>2, <2>3
<1> QED BY <1>1, <1>2, <1>3, <1>4, <1>5, <1>6, <1>7, <1>8 DEF BusNext

LEMMA BusStutters == ASSUME BusInv, UNCHANGED busVars PROVE BusInv'
BY DEF BusInv, BusTypes, BusBelongs, HandedBack, Remembered, busVars, contact

\* An edge is reported where the port did not know of a finger.
LEMMA EdgeNeedsLift ==
    ASSUME BusInv, BusNext, edge', ~edge
    PROVE  lifted
<1> USE DEF BusInv, BusTypes, Remembered, contact
<1>1. CASE LastSample \/ NoContact
  BY <1>1 DEF LastSample, NoContact, Reports
<1>2. CASE SelectPanel \/ DeselectPanel \/ BeginTouch \/ Sample \/ SampleFails \/ HandBack
  BY <1>2 DEF SelectPanel, DeselectPanel, BeginTouch, Sample, SampleFails, HandBack
<1> QED BY <1>1, <1>2 DEF BusNext

-----------------------------------------------------------------------------
(***************************************************************************)
(* The buzzer.                                                             *)
(***************************************************************************)
PortStates ==
    [pin : BOOLEAN, ready : BOOLEAN, high : BOOLEAN,
     deadline : {"none", "ahead", "passed"}, pulse : Nat]

\* A port that answers drives the pin as its phase says.
Sane(p) == p \in PortStates /\ (p.ready => p.pin = p.high)

\* What every call of the port returns: success just when the port answers, and
\* a broken write is no success.
FairOutcome(o) ==
    /\ Sane(o.port)
    /\ o.ok \in BOOLEAN /\ o.broke \in BOOLEAN
    /\ o.ok = o.port.ready
    /\ o.broke => ~o.ok

\* A silenced port is low, as far as it answers.
Quiet(p) == p.ready => ~p.high

LEMMA DriveOutcomes ==
    ASSUME NEW p \in PortStates, NEW level \in BOOLEAN, NEW done \in PortStates,
           done.ready, done.high = level,
           NEW o \in Drive(p, level, done)
    PROVE  FairOutcome(o) /\ (o.ok => o.port.high = level) /\ (~o.broke => o.ok)
<1>1. CASE o = Outcome([done EXCEPT !.pin = level], TRUE, FALSE)
  BY <1>1 DEF Outcome, FairOutcome, Sane, PortStates
<1>2. ASSUME NEW left \in {p.pin, FALSE},
             o = Outcome([p EXCEPT !.pin = left, !.ready = FALSE, !.deadline = "none"], FALSE, TRUE)
      PROVE  FairOutcome(o) /\ ~o.ok /\ o.broke
  BY <1>2 DEF Outcome, FairOutcome, Sane, PortStates
<1> QED BY <1>1, <1>2 DEF Drive

\* Initialize and Silence leave a quiet port; Silence and Tick leave a port that
\* answers as it is unless a write breaks, and Initialize makes it answer.
LEMMA InitializeOutcomes ==
    ASSUME NEW p \in PortStates, NEW o \in Initialize(p)
    PROVE  FairOutcome(o) /\ Quiet(o.port) /\ (~o.broke => o.ok)
<1> DEFINE reset == [p EXCEPT !.pulse = 0, !.ready = FALSE, !.high = FALSE, !.deadline = "none"]
           done == [reset EXCEPT !.ready = TRUE]
<1>1. reset \in PortStates /\ done \in PortStates /\ done.ready /\ done.high = FALSE
  BY DEF PortStates
<1>2. o \in Drive(reset, FALSE, done)
  BY DEF Initialize
<1>3. FairOutcome(o) /\ (o.ok => o.port.high = FALSE) /\ (~o.broke => o.ok)
  <2> HIDE DEF reset, done
  <2> QED BY <1>1, <1>2, DriveOutcomes
<1> QED BY <1>3 DEF FairOutcome, Quiet, Sane

LEMMA SilenceOutcomes ==
    ASSUME NEW p, Sane(p), NEW o \in Silence(p)
    PROVE  FairOutcome(o) /\ Quiet(o.port) /\ (p.ready /\ ~o.broke => o.ok) /\ (o.ok => p.ready)
<1> DEFINE first == [p EXCEPT !.pulse = 0]
           hushed == [first EXCEPT !.high = FALSE, !.deadline = "none"]
<1>1. /\ p \in PortStates /\ first \in PortStates /\ hushed \in PortStates
      /\ first.ready = p.ready /\ first.high = p.high /\ first.pin = p.pin
      /\ hushed.ready = p.ready /\ hushed.high = FALSE /\ hushed.pin = p.pin
  BY DEF Sane, PortStates
<1>2. CASE ~p.ready
  <2>1. o = Outcome(first, FALSE, FALSE)
    BY <1>2 DEF Silence
  <2>2. first.ready = FALSE
    BY <1>1, <1>2 DEF PortStates
  <2> QED BY <1>1, <1>2, <2>1, <2>2 DEF Outcome, FairOutcome, Sane, Quiet
<1>3. CASE p.ready /\ ~p.high
  <2>1. o = Outcome(hushed, TRUE, FALSE)
    BY <1>3 DEF Silence
  <2>2. hushed.ready = TRUE /\ hushed.pin = FALSE
    BY <1>1, <1>3 DEF Sane, PortStates
  <2> QED BY <1>1, <1>3, <2>1, <2>2 DEF Outcome, FairOutcome, Sane, Quiet
<1>4. CASE p.ready /\ p.high
  <2>1. o \in Drive(first, FALSE, hushed)
    BY <1>4 DEF Silence
  <2>2. FairOutcome(o) /\ (o.ok => o.port.high = FALSE) /\ (~o.broke => o.ok)
    <3> HIDE DEF first, hushed
    <3> QED BY <1>1, <1>4, <2>1, DriveOutcomes
  <2> QED BY <1>4, <2>2 DEF FairOutcome, Quiet, Sane
<1> QED BY <1>2, <1>3, <1>4

LEMMA TickOutcomes ==
    ASSUME NEW p, Sane(p), NEW o \in Tick(p)
    PROVE  FairOutcome(o) /\ (p.ready /\ ~o.broke => o.ok) /\ (o.ok => p.ready)
<1>1. p \in PortStates
  BY DEF Sane
<1>2. CASE ~p.ready
  <2>1. o = Outcome(p, FALSE, FALSE)
    BY <1>2 DEF Tick
  <2> QED BY <1>1, <1>2, <2>1 DEF Outcome, FairOutcome, Sane, PortStates
<1>3. CASE p.ready /\ p.deadline = "none"
  <2> DEFINE done == [p EXCEPT !.high = TRUE, !.deadline = "ahead"]
  <2>1. o \in Drive(p, TRUE, done)
    BY <1>3 DEF Tick
  <2>2. done \in PortStates /\ done.ready /\ done.high = TRUE
    BY <1>1, <1>3 DEF PortStates
  <2>3. FairOutcome(o) /\ (~o.broke => o.ok)
    <3> HIDE DEF done
    <3> QED BY <1>1, <2>1, <2>2, DriveOutcomes
  <2> QED BY <1>3, <2>3
<1>4. CASE p.ready /\ p.deadline = "ahead"
  <2>1. o = Outcome(p, TRUE, FALSE)
    BY <1>4 DEF Tick
  <2> QED BY <1>1, <1>4, <2>1 DEF Outcome, FairOutcome, Sane, PortStates
<1>5. CASE p.ready /\ p.deadline = "passed"
  <2>1. o \in Drive(p, ~p.high, NextPhase(p))
    BY <1>5 DEF Tick
  <2>2. /\ NextPhase(p) \in PortStates /\ NextPhase(p).ready
        /\ NextPhase(p).high = ~p.high /\ (~p.high) \in BOOLEAN
    <3>1. p.pulse \in Nat /\ (p.pulse + 1) % Pauses \in Nat
      BY <1>1, PausesAssumption DEF PortStates
    <3>2. (~p.high) \in BOOLEAN
      OBVIOUS
    <3> QED BY <1>1, <1>5, <3>1, <3>2 DEF PortStates, NextPhase
  <2>3. FairOutcome(o) /\ (~o.broke => o.ok)
    BY <1>1, <2>1, <2>2, DriveOutcomes
  <2> QED BY <1>5, <2>3
<1> QED BY <1>1, <1>2, <1>3, <1>4, <1>5 DEF PortStates

\* What a helper of the runtime leaves.
FairApp(a) ==
    /\ a \in [port : PortStates, faulted : BOOLEAN, broke : BOOLEAN]
    /\ Sane(a.port)

LEMMA AppFields ==
    ASSUME NEW p, NEW f, NEW broke
    PROVE  App(p, f, broke).port = p /\ App(p, f, broke).faulted = f /\ App(p, f, broke).broke = broke
BY DEF App

\* A fault is remembered, and what it leaves is quiet.
LEMMA Faults ==
    ASSUME NEW p, Sane(p), NEW broke \in BOOLEAN, NEW a \in Fault(p, broke)
    PROVE  FairApp(a) /\ a.faulted /\ Quiet(a.port) /\ (broke => a.broke)
<1>1. PICK o \in Silence(p) : a = App(o.port, TRUE, broke \/ o.broke)
  BY DEF Fault
<1>2. FairOutcome(o) /\ Quiet(o.port)
  BY <1>1, SilenceOutcomes
<1> DEFINE some == broke \/ o.broke
<1>3. some \in BOOLEAN /\ (broke => some) /\ a = App(o.port, TRUE, some)
  BY <1>1, <1>2, Zenon DEF FairOutcome
<1>4. a.port = o.port /\ a.faulted = TRUE /\ a.broke = some
  <2> HIDE DEF some
  <2> QED BY <1>3 DEF App
<1> HIDE DEF some
<1> QED BY <1>2, <1>3, <1>4 DEF FairApp, FairOutcome, Sane, App

\* A checked call either is told of as a fault or left a port that answers.
LEMMA CheckedCalls ==
    ASSUME NEW outcomes, \A o \in outcomes : FairOutcome(o),
           NEW b, FairApp(b), NEW a \in Checked(outcomes, b)
    PROVE  /\ FairApp(a) /\ (b.broke => a.broke)
           /\ \/ a.faulted /\ Quiet(a.port)
                 /\ \E o \in outcomes : ~o.ok /\ (o.broke => a.broke)
              \/ a.faulted = b.faulted /\ a.broke = b.broke
                 /\ \E o \in outcomes : o.ok /\ a.port = o.port
<1>1. PICK o \in outcomes :
        a \in IF o.ok THEN {App(o.port, b.faulted, b.broke)} ELSE Fault(o.port, b.broke \/ o.broke)
  BY DEF Checked
<1>2. FairOutcome(o)
  BY <1>1
<1>3. CASE o.ok
  <2>1. a = App(o.port, b.faulted, b.broke)
    BY <1>1, <1>3
  <2>2. a.port = o.port /\ a.faulted = b.faulted /\ a.broke = b.broke
    BY <2>1, AppFields
  <2> QED BY <1>1, <1>2, <1>3, <2>1, <2>2 DEF FairApp, FairOutcome, Sane, App
<1>4. CASE ~o.ok
  <2>1. a \in Fault(o.port, b.broke \/ o.broke)
    BY <1>1, <1>4
  <2>2. Sane(o.port) /\ (b.broke \/ o.broke) \in BOOLEAN
    BY <1>2, Zenon DEF FairOutcome, FairApp
  <2>3. FairApp(a) /\ a.faulted /\ Quiet(a.port) /\ (b.broke \/ o.broke => a.broke)
    BY <2>1, <2>2, Faults
  <2> QED BY <1>1, <1>4, <2>3
<1> QED BY <1>3, <1>4

LEMMA TickedApps ==
    ASSUME NEW b, FairApp(b), NEW a \in Ticked(b)
    PROVE  /\ FairApp(a)
           /\ b.broke => a.broke
           /\ a.faulted \/ a.port.ready
           /\ ~a.broke /\ ~b.faulted /\ b.port.ready => a.port.ready /\ ~a.faulted
           /\ b.faulted => a = b
<1>1. CASE b.faulted
  BY <1>1 DEF Ticked
<1>2. CASE ~b.faulted
  <2>1. a \in Checked(Tick(b.port), b)
    BY <1>2 DEF Ticked
  <2>2. \A o \in Tick(b.port) :
           FairOutcome(o) /\ (b.port.ready /\ ~o.broke => o.ok) /\ (o.ok => b.port.ready)
    BY TickOutcomes DEF FairApp
  <2>3. \A o \in Tick(b.port) : FairOutcome(o)
    BY <2>2
  <2>4. /\ FairApp(a) /\ (b.broke => a.broke)
        /\ \/ a.faulted /\ \E o \in Tick(b.port) : ~o.ok /\ (o.broke => a.broke)
           \/ a.faulted = b.faulted /\ \E o \in Tick(b.port) : o.ok /\ a.port = o.port
    BY <2>1, <2>3, CheckedCalls
  <2> QED BY <1>2, <2>2, <2>4 DEF FairOutcome
<1> QED BY <1>1, <1>2

LEMMA PreparedApps ==
    ASSUME NEW b, FairApp(b), Quiet(b.port), NEW a \in Prepared(b)
    PROVE  /\ FairApp(a) /\ Quiet(a.port)
           /\ b.broke => a.broke
           /\ ~a.broke /\ b.faulted => a.port.ready /\ ~a.faulted
           /\ ~b.faulted => a = b
<1>1. CASE ~b.faulted
  BY <1>1 DEF Prepared
<1>2. CASE b.faulted
  <2> DEFINE c == [b EXCEPT !.faulted = FALSE]
  <2>1. FairApp(c) /\ c.port = b.port /\ c.faulted = FALSE /\ c.broke = b.broke
    BY DEF FairApp
  <2>2. a \in Checked(Initialize(b.port), c)
    BY <1>2 DEF Prepared
  <2>3. \A o \in Initialize(b.port) : FairOutcome(o) /\ Quiet(o.port) /\ (~o.broke => o.ok)
    BY InitializeOutcomes DEF FairApp, Sane
  <2> HIDE DEF c
  <2> QED BY <1>2, <2>1, <2>2, <2>3, CheckedCalls DEF FairOutcome
<1> QED BY <1>1, <1>2

LEMMA SilencedApps ==
    ASSUME NEW b, FairApp(b), NEW a \in Silenced(b) \union Stopped(b)
    PROVE  /\ FairApp(a) /\ Quiet(a.port)
           /\ ~a.broke /\ b.port.ready => a.port.ready /\ a.faulted = b.faulted
           /\ b.faulted => a.faulted
           /\ ~a.broke => a.faulted \/ a.port.ready \/ ~b.port.ready
<1>1. \A o \in Silence(b.port) :
         FairOutcome(o) /\ Quiet(o.port) /\ (b.port.ready /\ ~o.broke => o.ok)
  BY SilenceOutcomes DEF FairApp
<1>2. CASE a \in Silenced(b)
  BY <1>1, <1>2, CheckedCalls DEF Silenced, FairOutcome, FairApp
<1>3. CASE a \in Stopped(b)
  <2>1. PICK o \in Silence(b.port) : a = App(o.port, b.faulted, o.broke)
    BY <1>3 DEF Stopped
  <2>2. a.port = o.port /\ a.faulted = b.faulted /\ a.broke = o.broke
    BY <2>1, AppFields
  <2> QED BY <1>1, <2>1, <2>2 DEF FairApp, FairOutcome, Sane, App
<1> QED BY <1>2, <1>3

BuzzerInv ==
    /\ Sane(port) /\ faulted \in BOOLEAN
    /\ alarm \in {"off", "on", "postponing"} /\ raised \in 0 .. 2
    /\ alarm = "off" => Quiet(port)
    /\ raised > 0 => port.ready \/ faulted
    /\ raised = 2 => port.ready /\ ~faulted

LEMMA NowFair ==
    ASSUME BuzzerInv
    PROVE  FairApp(Now) /\ Now.port = port /\ Now.faulted = faulted /\ Now.broke = FALSE
BY DEF BuzzerInv, FairApp, Now, App, Sane

LEMMA BuzzerStarts == BuzzerInit => BuzzerInv
<1> SUFFICES ASSUME BuzzerInit PROVE BuzzerInv
  OBVIOUS
<1>1. PowerOn \in PortStates
  BY DEF PowerOn, PortStates
<1>2. PICK o \in Initialize(PowerOn) : port = o.port
  BY DEF BuzzerInit
<1>3. Sane(port) /\ Quiet(port)
  BY <1>1, <1>2, InitializeOutcomes DEF FairOutcome
<1>4. faulted = FALSE /\ alarm = "off" /\ raised = 0
  BY DEF BuzzerInit
<1>5. raised \in 0 .. 2 /\ ~(raised > 0) /\ raised # 2
  BY <1>4
<1> QED BY <1>3, <1>4, <1>5, Zenon DEF BuzzerInv

LEMMA BuzzerKeeps == ASSUME BuzzerInv, BuzzerNext PROVE BuzzerInv'
<1>1. CASE RaiseAlarm
  <2>1. PICK b \in Prepared(Now) : \E a \in Ticked(b) :
           port' = a.port /\ faulted' = a.faulted
           /\ raised' = IF a.broke THEN 0 ELSE IF raised + 1 > 2 THEN 2 ELSE raised + 1
    BY <1>1 DEF RaiseAlarm, Becomes
  <2>2. PICK a \in Ticked(b) :
           port' = a.port /\ faulted' = a.faulted
           /\ raised' = IF a.broke THEN 0 ELSE IF raised + 1 > 2 THEN 2 ELSE raised + 1
    BY <2>1
  <2>3. alarm' = "on" /\ Quiet(port)
    BY <1>1 DEF RaiseAlarm, BuzzerInv
  <2>4. /\ FairApp(b)
        /\ ~faulted => b = Now
        /\ ~b.broke /\ faulted => b.port.ready /\ ~b.faulted
    BY <2>1, <2>3, NowFair, PreparedApps
  <2>5. /\ FairApp(a) /\ (b.broke => a.broke) /\ (a.faulted \/ a.port.ready)
        /\ ~a.broke /\ ~b.faulted /\ b.port.ready => a.port.ready /\ ~a.faulted
    BY <2>1, <2>2, <2>3, NowFair, PreparedApps, TickedApps
  <2>6. Sane(port') /\ faulted' \in BOOLEAN
    BY <2>2, <2>5 DEF FairApp
  <2>7. raised' \in 0 .. 2 /\ (raised' > 0 => ~a.broke) /\ (raised' = 2 => raised > 0)
    BY <2>2 DEF BuzzerInv
  <2>8. raised' = 2 => port'.ready /\ ~faulted'
    <3>1. CASE faulted
      BY <2>2, <2>4, <2>5, <2>7, <3>1
    <3>2. CASE ~faulted
      <4>1. b.port = port /\ b.faulted = faulted
        BY <2>4, <3>2, NowFair
      <4>2. raised > 0 => port.ready
        BY <3>2 DEF BuzzerInv
      <4> QED BY <2>2, <2>5, <2>7, <3>2, <4>1, <4>2
    <3> QED BY <3>1, <3>2
  <2> QED BY <2>2, <2>3, <2>5, <2>6, <2>7, <2>8 DEF BuzzerInv
<1>2. CASE KeepSounding
  <2>1. PICK a \in Ticked(Now) :
           port' = a.port /\ faulted' = a.faulted
           /\ raised' = IF a.broke THEN 0 ELSE IF raised + 0 > 2 THEN 2 ELSE raised + 0
    BY <1>2 DEF KeepSounding, Becomes
  <2>2. alarm = "on" /\ alarm' = "on"
    BY <1>2 DEF KeepSounding
  <2>3. /\ FairApp(a) /\ (a.faulted \/ a.port.ready)
        /\ ~a.broke /\ ~faulted /\ port.ready => a.port.ready /\ ~a.faulted
    BY <2>1, NowFair, TickedApps
  <2>4. raised' \in 0 .. 2 /\ (raised' > 0 => ~a.broke /\ raised' = raised)
    BY <2>1 DEF BuzzerInv
  <2> QED BY <2>1, <2>2, <2>3, <2>4 DEF BuzzerInv, FairApp
<1>3. CASE PostponeAlarm \/ AutoStop \/ Stop
  <2>1. PICK a \in Silenced(Now) \union Stopped(Now) :
           port' = a.port /\ faulted' = a.faulted
           /\ raised' = IF a.broke THEN 0 ELSE IF raised + 0 > 2 THEN 2 ELSE raised + 0
    BY <1>3 DEF PostponeAlarm, AutoStop, Stop, Becomes
  <2>2. alarm' \in {"off", "on", "postponing"}
    BY <1>3 DEF PostponeAlarm, AutoStop, Stop
  <2>3. /\ FairApp(a) /\ Quiet(a.port)
        /\ ~a.broke /\ port.ready => a.port.ready /\ a.faulted = faulted
        /\ faulted => a.faulted
    BY <2>1, NowFair, SilencedApps
  <2>4. raised' \in 0 .. 2 /\ (raised' > 0 => ~a.broke /\ raised' = raised)
    BY <2>1 DEF BuzzerInv
  <2> QED BY <2>1, <2>2, <2>3, <2>4 DEF BuzzerInv, FairApp
<1>4. CASE PhaseEnds
  BY <1>4 DEF PhaseEnds, BuzzerInv, Sane, PortStates, Quiet
<1> QED BY <1>1, <1>2, <1>3, <1>4 DEF BuzzerNext

LEMMA BuzzerStutters == ASSUME BuzzerInv, UNCHANGED buzzerVars PROVE BuzzerInv'
BY DEF BuzzerInv, buzzerVars, Sane, Quiet

\* What a port that answers does when nothing rings, and when it answers.
LEMMA BuzzerInvRecovers == BuzzerInv => Recovers
BY DEF BuzzerInv, Recovers, Sane, Quiet

-----------------------------------------------------------------------------
(***************************************************************************)
(* The composition.                                                        *)
(***************************************************************************)
LEMMA PortsInvariant == PortsSpec => [](BuzzerInv /\ BusInv)
<1>1. PortsInit => BuzzerInv /\ BusInv
  BY BuzzerStarts, BusStarts DEF PortsInit
<1>2. ASSUME BuzzerInv, BusInv, [PortsNext]_portsVars PROVE BuzzerInv' /\ BusInv'
  <2>1. CASE BuzzerNext /\ UNCHANGED busVars
    BY <1>2, <2>1, BuzzerKeeps, BusStutters
  <2>2. CASE BusNext /\ UNCHANGED buzzerVars
    BY <1>2, <2>2, BusKeeps, BuzzerStutters
  <2>3. CASE UNCHANGED portsVars
    BY <1>2, <2>3, BuzzerStutters, BusStutters DEF portsVars
  <2> QED BY <1>2, <2>1, <2>2, <2>3 DEF PortsNext
<1> QED BY <1>1, <1>2, PTL DEF PortsSpec

\* Whatever writes of the pin fail, the buzzer sounds again at the second alert
\* after the last failure at the latest (alert/runtime.py, _prepare_buzzer).
THEOREM BuzzerRecovers == PortsSpec => []Recovers
BY PortsInvariant, BuzzerInvRecovers, PTL

\* Whatever operations fail, nobody transfers to two devices of the bus, or at
\* the other's speed without the port saying so (touch_port.py, read).
THEOREM BusBelongsAlways == PortsSpec => []BusBelongs
<1>1. BusInv => BusBelongs
  BY DEF BusInv
<1> QED BY <1>1, PortsInvariant, PTL

\* Whatever transfers fail, one contact is reported once (touch_port.py, read).
THEOREM OnePressAlways == PortsSpec => OnePress
<1>1. ASSUME BusInv, [PortsNext]_portsVars PROVE [edge' /\ ~edge => lifted]_busVars
  <2>1. CASE BusNext
    BY <1>1, <2>1, EdgeNeedsLift
  <2>2. CASE UNCHANGED busVars
    BY <2>2
  <2> QED BY <1>1, <2>1, <2>2 DEF PortsNext, portsVars
<1> QED BY <1>1, PortsInvariant, PTL DEF PortsSpec, OnePress

-----------------------------------------------------------------------------
(***************************************************************************)
(* KeyDerivation: a login is accepted exactly when its password is the one *)
(* of the record, for every number of rounds, every budget and every set   *)
(* of passwords and salts.                                                 *)
(*                                                                         *)
(* The inductive invariant KeyInv says what a job has done so far: after k *)
(* rounds its last link is the k-th and its accumulated value holds the    *)
(* rounds 1 .. k and no other, so that after the last one it is the digest *)
(* that a record of its password holds.                                    *)
(***************************************************************************)
\* The records a firmware with "pbkdf2-sha256-v2" makes.
Made == {Record(word, "v2", Rounds, salt) : word \in Words, salt \in Salts}

Derivations == [engine : {"portable", "native", "setup"}, purpose : {"login", "change", "setup"},
         word : Words, salt : Salts, left : Nat, u : Nat, out : SUBSET Nat,
         record : Made \union {Unset}]

\* After the rounds 1 .. u of a job on a record that was there when it began.
OnCourse(j) ==
    /\ j \in Derivations
    /\ j.u + j.left = Rounds
    /\ j.out = 1 .. j.u
    /\ j.purpose = "login" => j.record \in Made /\ j.salt = j.record.salt

Just(v) == v.result \in {"ok", "rejected"} => (v.result = "ok" <=> v.typed = v.record.owner)

KeyInv ==
    /\ verifier \in Made \union {Unset} /\ admin \in Made \union {Unset}
    /\ kdfJob # Unset => OnCourse(kdfJob) /\ kdfJob.left > 0
    /\ verdict # Unset => Just(verdict)

-----------------------------------------------------------------------------
(* The records. *)

LEMMA MadeFields ==
    ASSUME NEW r \in Made
    PROVE  /\ r.owner \in Words /\ r.salt \in Salts /\ r.version = "v2"
           /\ r.digest = Pbkdf2(r.owner, r.salt, Rounds)
BY DEF Made, Record

LEMMA MadeRecord ==
    ASSUME NEW word \in Words, NEW salt \in Salts
    PROVE  [owner |-> word, version |-> "v2", salt |-> salt,
            digest |-> Pbkdf2(word, salt, Rounds)] \in Made
BY DEF Made, Record

\* Loading a record of the current version changes nothing.
LEMMA ValidatedMade ==
    ASSUME NEW r \in Made \union {Unset}
    PROVE  Validated(r) = r
<1>1. CASE r = Unset
    BY <1>1 DEF Validated
<1>2. CASE r # Unset
    BY <1>2 DEF Validated, Made, Record
<1> QED BY <1>1, <1>2

LEMMA Faithfully == ASSUME NEW r \in Made \union {Unset} PROVE Faithful(r)
BY MadeFields DEF Faithful, RoundsOf

\* A commit of a verifier that was made as a record holds one.
LEMMA CommitKeeps ==
    ASSUME verifier \in Made \union {Unset}, admin \in Made \union {Unset},
           NEW word \in Words, NEW salt \in Salts, NEW digest,
           digest = Pbkdf2(word, salt, Rounds), Commit(word, salt, digest)
    PROVE  verifier' \in Made \union {Unset} /\ admin' \in Made \union {Unset}
<1> DEFINE r == [owner |-> word, version |-> "v2", salt |-> salt, digest |-> digest]
<1>1. r \in Made /\ Validated(r) = r
    BY MadeRecord, ValidatedMade
<1> QED BY <1>1 DEF Commit

-----------------------------------------------------------------------------
(* A job. *)

LEMMA NewJobStarts ==
    ASSUME NEW engine \in {"portable", "native", "setup"},
           NEW purpose \in {"login", "change", "setup"},
           NEW word \in Words, NEW salt \in Salts, admin \in Made \union {Unset},
           purpose = "login" => admin # Unset /\ salt = admin.salt
    PROVE  OnCourse(NewJob(engine, purpose, word, salt, Rounds))
           /\ NewJob(engine, purpose, word, salt, Rounds).left > 0
<1> DEFINE j == NewJob(engine, purpose, word, salt, Rounds)
<1>1. j \in Derivations
    BY DerivationAssumption DEF NewJob, Derivations
<1>2. j.u + j.left = Rounds /\ j.left > 0
    BY DerivationAssumption DEF NewJob
<1>3. j.out = 1 .. j.u
    BY DEF NewJob
<1>4. j.purpose = "login" => j.record \in Made /\ j.salt = j.record.salt
    BY DEF NewJob
<1> QED BY <1>1, <1>2, <1>3, <1>4 DEF OnCourse

\* A slice has at least one round, and no more than are left.
LEMMA SliceBounds ==
    ASSUME NEW j, OnCourse(j), j.left > 0, NEW k \in Slices(j)
    PROVE  k \in Nat /\ 1 <= k /\ k <= j.left
BY DerivationAssumption DEF Slices, OnCourse, Derivations

\* However long the slice, the job has done the rounds from the first on.
LEMMA SlicedOnCourse ==
    ASSUME NEW j, OnCourse(j), NEW k \in Nat, 1 <= k, k <= j.left
    PROVE  OnCourse(Sliced(j, k))
<1> DEFINE i == Sliced(j, k)
<1>1. j \in Derivations /\ j.u \in Nat /\ j.left \in Nat /\ j.out = 1 .. j.u
    BY DEF OnCourse, Derivations
<1>2. i.left = j.left - k /\ i.u = j.u + k
    BY <1>1 DEF Sliced, Derivations
<1>3. i.out = 1 .. i.u
    <2>1. i.out = ((1 .. j.u) \ ((j.u + 1) .. (j.u + k))) \union (((j.u + 1) .. (j.u + k)) \ (1 .. j.u))
        BY <1>1 DEF Sliced, Derivations
    <2> QED BY <2>1, <1>1, <1>2
<1>4. i \in Derivations
    <2>1. i.left \in Nat /\ i.u \in Nat /\ i.out \in SUBSET Nat
        BY <1>1, <1>2, <1>3
    <2> QED BY <2>1, <1>1 DEF Sliced, Derivations
<1>5. i.u + i.left = Rounds
    BY <1>1, <1>2, DerivationAssumption DEF OnCourse
<1>6. i.purpose = j.purpose /\ i.record = j.record /\ i.salt = j.salt
    BY <1>1 DEF Sliced, Derivations
<1> QED BY <1>3, <1>4, <1>5, <1>6 DEF OnCourse

\* After its last round a job holds the digest of its password.
LEMMA DigestAtEnd ==
    ASSUME NEW j, OnCourse(j), j.left = 0
    PROVE  Digest(j) = Pbkdf2(j.word, j.salt, Rounds)
<1>1. j.u = Rounds
    BY DerivationAssumption DEF OnCourse, Derivations
<1> QED BY <1>1 DEF OnCourse, Digest, Pbkdf2

\* Two passwords have no digest in common.
LEMMA DigestTells ==
    ASSUME NEW v, NEW w, NEW salt
    PROVE  Pbkdf2(v, salt, Rounds) = Pbkdf2(w, salt, Rounds) <=> v = w
BY DEF Pbkdf2

-----------------------------------------------------------------------------
(* The steps. *)

LEMMA KeyInitially == KeyInit => KeyInv
BY DEF KeyInit, KeyInv

LEMMA StartsKeep ==
    ASSUME KeyInv, StartLogin \/ StartChange \/ StartSetup
    PROVE  KeyInv'
<1>1. verifier' = verifier /\ admin' = admin /\ verdict' = verdict
    BY DEF StartLogin, StartChange, StartSetup
<1>2. kdfJob' # Unset => OnCourse(kdfJob') /\ kdfJob'.left > 0
    <2>1. CASE StartLogin
        <3>1. RoundsOf(admin.version) = Rounds /\ admin.salt \in Salts
            BY <2>1, MadeFields DEF KeyInv, StartLogin, RoundsOf
        <3> QED BY <2>1, <3>1, NewJobStarts DEF KeyInv, StartLogin
    <2>2. CASE StartChange
        BY <2>2, NewJobStarts DEF KeyInv, StartChange
    <2>3. CASE StartSetup
        BY <2>3, NewJobStarts DEF KeyInv, StartSetup
    <2> QED BY <2>1, <2>2, <2>3
<1>3. (verdict # Unset => Just(verdict))'
    BY <1>1 DEF KeyInv
<1> QED BY <1>1, <1>2, <1>3 DEF KeyInv

LEMMA StepKeeps == ASSUME KeyInv, Step PROVE KeyInv'
<1>1. PICK k \in Slices(kdfJob) :
         LET j == Sliced(kdfJob, k)
         IN \/ /\ j.left > 0
               /\ kdfJob' = j
               /\ UNCHANGED <<verifier, admin, verdict>>
            \/ j.left = 0 /\ j.purpose = "login" /\ CompleteCompare(j)
            \/ j.left = 0 /\ j.purpose # "login" /\ CompleteDerive(j)
    BY DEF Step
<1> DEFINE j == Sliced(kdfJob, k)
<1>2. OnCourse(j)
    BY SliceBounds, SlicedOnCourse DEF KeyInv, Step
<1>3. j.word \in Words /\ j.salt \in Salts
    BY <1>2 DEF OnCourse, Derivations
<1> HIDE DEF j
<1>4. CASE j.left > 0 /\ kdfJob' = j /\ UNCHANGED <<verifier, admin, verdict>>
    BY <1>2, <1>4 DEF KeyInv
<1>5. CASE j.left = 0 /\ j.purpose = "login" /\ CompleteCompare(j)
    <2>1. Digest(j) = j.record.digest <=> j.word = j.record.owner
        <3>1. j.record.digest = Pbkdf2(j.record.owner, j.salt, Rounds)
            BY <1>2, <1>5, MadeFields DEF OnCourse
        <3> QED BY <1>2, <1>5, <3>1, DigestAtEnd, DigestTells
    <2>2. Just(verdict')
        BY <1>5, <2>1 DEF CompleteCompare, Ends, Just
    <2> QED BY <1>5, <2>2 DEF CompleteCompare, Ends, KeyInv
<1>6. CASE j.left = 0 /\ j.purpose # "login" /\ CompleteDerive(j)
    <2>1. verifier' \in Made \union {Unset} /\ admin' \in Made \union {Unset}
        BY <1>2, <1>3, <1>6, DigestAtEnd, CommitKeeps DEF CompleteDerive, KeyInv
    <2>2. Just(verdict')
        BY <1>6 DEF CompleteDerive, Ends, Just
    <2> QED BY <1>6, <2>1, <2>2 DEF CompleteDerive, Ends, KeyInv
<1> QED BY <1>1, <1>4, <1>5, <1>6 DEF j

LEMMA AbandonKeeps == ASSUME KeyInv, Abandon PROVE KeyInv'
<1>1. Just(verdict') /\ kdfJob' = Unset /\ verifier' = verifier /\ admin' = admin
    BY DEF Abandon, Ends, Just
<1> QED BY <1>1 DEF KeyInv

LEMMA OthersKeep == ASSUME KeyInv, CommitOther \/ Restart PROVE KeyInv'
<1>1. verdict' = verdict /\ (kdfJob' = kdfJob \/ kdfJob' = Unset)
    BY DEF CommitOther, Restart
<1>2. verifier' \in Made \union {Unset} /\ admin' \in Made \union {Unset}
    <2>1. CASE CommitOther
        BY <2>1, MadeFields, CommitKeeps DEF CommitOther, KeyInv
    <2>2. CASE Restart
        BY <2>2, ValidatedMade DEF Restart, KeyInv
    <2> QED BY <2>1, <2>2
<1> QED BY <1>1, <1>2 DEF KeyInv

LEMMA KeyKeeps == KeyInv /\ [KeyNext]_keyVars => KeyInv'
<1> SUFFICES ASSUME KeyInv, [KeyNext]_keyVars PROVE KeyInv'
    OBVIOUS
<1>1. CASE KeyNext
    BY <1>1, StartsKeep, StepKeeps, AbandonKeeps, OthersKeep DEF KeyNext
<1>2. CASE UNCHANGED keyVars
    BY <1>2 DEF keyVars, KeyInv
<1> QED BY <1>1, <1>2

LEMMA KeyHolds == KeyInv => VerifierHolds
BY Faithfully DEF KeyInv, VerifierHolds, Just

\* A device that is set up by this firmware accepts a login exactly when the
\* password typed is the record's, and every record it stores or serves has the
\* digest its version stands for: whatever slices, engines, failing commits,
\* cancelled jobs and resets made it (kdf_job.py, setup_kdf.py, coordinator.py).
THEOREM VerifierAlwaysHolds == KeySpec => []VerifierHolds
<1>1. KeyInit => KeyInv
    BY KeyInitially
<1>2. KeyInv /\ [KeyNext]_keyVars => KeyInv'
    BY KeyKeeps
<1>3. KeyInv => VerifierHolds
    BY KeyHolds
<1> QED BY <1>1, <1>2, <1>3, PTL DEF KeySpec

-----------------------------------------------------------------------------
(***************************************************************************)
(* Deadlines: until the counter goes round the view is drawn in time and a *)
(* session that was idle for its time is over; one that was not is served  *)
(* whatever the counter does.  A deadline stays below half a period, so it *)
(* is compared with the counter as a number; the age of an entry is read   *)
(* off its deadline (Aged), before the counter went round and, as long as  *)
(* the session is not idle, after that.                                    *)
(***************************************************************************)
Shown == 0 .. CounterPeriod - 1

LEMMA Sizes ==
    /\ CounterPeriod \in Nat \ {0} /\ Period \in Nat /\ 4 * CounterPeriod <= Period
    /\ Half \in Nat /\ Period = 2 * Half
    /\ RedrawAfter \in 1 .. CounterPeriod - 1 /\ IdleAfter \in 1 .. CounterPeriod - 1
    /\ MaxStep \in Nat \ {0}
BY DeadlinesAssumption DEF Half

\* What ticks.py makes of a sum or a difference of two times.
LEMMA InPeriod ==
    ASSUME NEW a \in Int, a >= -Period, a < 2 * Period
    PROVE  a % Period = IF a < 0 THEN a + Period ELSE IF a < Period THEN a ELSE a - Period
<1>1. Period \in Nat \ {0}
    BY Sizes
<1> QED BY ONLY <1>1, a \in Int, a >= -Period, a < 2 * Period

LEMMA AddsUp ==
    ASSUME NEW now \in Shown, NEW d \in Shown
    PROVE  TicksAdd(now, d) = now + d
<1> DEFINE a == now + d
<1>1. a \in Int /\ a >= 0 /\ a < Period
    BY Sizes DEF Shown
<1> HIDE DEF a
<1>2. a % Period = a
    <2>1. a >= -Period /\ a < 2 * Period
        BY <1>1, Sizes
    <2> QED BY <1>1, <2>1, InPeriod
<1> QED BY <1>2 DEF a, TicksAdd

LEMMA Differs ==
    ASSUME NEW t1 \in 0 .. 2 * CounterPeriod - 1, NEW t2 \in 0 .. 2 * CounterPeriod - 1,
           t1 < CounterPeriod \/ t2 < CounterPeriod
    PROVE  TicksDiff(t1, t2) = t1 - t2
<1> DEFINE a == t1 - t2
<1>1. /\ a \in Int /\ a >= -Half /\ a < Half /\ a >= -Period /\ a < 2 * Period
    BY Sizes
<1> HIDE DEF a
<1>2. a % Period = IF a < 0 THEN a + Period ELSE a
    BY <1>1, InPeriod, Sizes
<1>3. (IF (a % Period) >= Half THEN (a % Period) - Period ELSE a % Period) = a
    BY <1>1, <1>2, Sizes
<1> QED BY <1>3 DEF TicksDiff, a

\* The counter d later.
LEMMA Counts ==
    ASSUME ticks \in Shown, NEW d \in Nat
    PROVE  /\ TicksMs(d) \in Shown
           /\ ~GoesRound(d) => TicksMs(d) = ticks + d
           /\ GoesRound(d) /\ d < CounterPeriod => TicksMs(d) = ticks + d - CounterPeriod
<1> DEFINE a == ticks + d
<1>1. a \in Nat /\ CounterPeriod \in Nat \ {0} /\ (d < CounterPeriod => a < 2 * CounterPeriod)
    BY Sizes DEF Shown
<1> HIDE DEF a
<1>2. a % CounterPeriod \in 0 .. CounterPeriod - 1
    BY <1>1
<1>3. a < CounterPeriod => a % CounterPeriod = a
    BY ONLY <1>1
<1>4. a >= CounterPeriod /\ a < 2 * CounterPeriod => a % CounterPeriod = a - CounterPeriod
    BY ONLY <1>1
<1>5. ~GoesRound(d) => a < CounterPeriod
    BY <1>1 DEF GoesRound, a
<1>6. GoesRound(d) => a >= CounterPeriod
    BY <1>1 DEF GoesRound, a
<1> QED BY <1>1, <1>2, <1>3, <1>4, <1>5, <1>6 DEF TicksMs, a, Shown

Entries == [id : Tokens, deadline : IdleAfter .. CounterPeriod - 1 + IdleAfter]

\* When an entry was renewed, as its deadline tells.
Since(e) == e.deadline - IdleAfter

Aged(e) ==
    /\ quiet[e.id] # -1
    /\ e.id \notin rounded =>
           ticks >= Since(e) /\ quiet[e.id] = AtMost(ticks - Since(e), IdleAfter)
    /\ e.id \in rounded /\ quiet[e.id] < IdleAfter =>
           ticks + CounterPeriod = Since(e) + quiet[e.id]

DeadTypes ==
    /\ ticks \in Shown
    /\ table \subseteq Entries
    /\ quiet \in [Tokens -> -1 .. IdleAfter]

DeadInv ==
    /\ DeadTypes
    /\ loop = "clock" => table = {}
    /\ \A e \in table : Aged(e)
    /\ \A t \in Tokens : quiet[t] \in 0 .. IdleAfter - 1 => \E e \in table : e.id = t

LEMMA AliveBefore ==
    ASSUME DeadTypes
    PROVE  Alive(table, ticks) = {e \in table : ticks < e.deadline}
<1>1. ASSUME NEW e \in table PROVE TicksDiff(ticks, e.deadline) < 0 <=> ticks < e.deadline
    <2>1. e.deadline \in IdleAfter .. CounterPeriod - 1 + IdleAfter
        BY DEF DeadTypes, Entries
    <2>2. ticks \in 0 .. CounterPeriod - 1
        BY DEF DeadTypes, Shown
    <2> DEFINE t == e.deadline
    <2>3. /\ t \in 0 .. 2 * CounterPeriod - 1 /\ ticks \in 0 .. 2 * CounterPeriod - 1
          /\ ticks < CounterPeriod
        BY <2>1, <2>2, Sizes
    <2> HIDE DEF t
    <2>4. TicksDiff(ticks, t) = ticks - t
        BY <2>3, Differs
    <2>5. ticks - t < 0 <=> ticks < t
        BY <2>3
    <2> QED BY <2>4, <2>5 DEF t
<1> QED BY <1>1 DEF Alive

\* An entry is alive while its session was not idle for its time; one that is
\* alive later belongs to a session for which the counter went round.
LEMMA AliveAged ==
    ASSUME DeadTypes, NEW e \in table, Aged(e)
    PROVE  /\ quiet[e.id] < IdleAfter => e \in Alive(table, ticks)
           /\ e \in Alive(table, ticks) => quiet[e.id] \in 0 .. IdleAfter - 1 \/ e.id \in rounded
<1>1. e \in Alive(table, ticks) <=> ticks < e.deadline
    BY AliveBefore
<1>2. /\ e.deadline \in Int /\ ticks \in 0 .. CounterPeriod - 1
      /\ quiet[e.id] \in -1 .. IdleAfter
    BY DEF DeadTypes, Entries, Shown
<1>3. IdleAfter \in Nat \ {0} /\ IdleAfter < CounterPeriod /\ CounterPeriod \in Nat
    BY Sizes
<1> DEFINE q == quiet[e.id]
           r == e.id \in rounded
           s == e.deadline
<1>4. /\ q # -1
      /\ ~r => ticks >= s - IdleAfter /\ q = IF ticks - (s - IdleAfter) <= IdleAfter
                                              THEN ticks - (s - IdleAfter) ELSE IdleAfter
      /\ r /\ q < IdleAfter => ticks + CounterPeriod = (s - IdleAfter) + q
    BY DEF Aged, Since, AtMost
<1>5. s \in Int /\ ticks \in 0 .. CounterPeriod - 1 /\ q \in -1 .. IdleAfter /\ r \in BOOLEAN
    BY <1>2
<1> HIDE DEF q, r, s
<1>6. q < IdleAfter => ticks < s
    BY <1>3, <1>4, <1>5
<1>7. ticks < s => q \in 0 .. IdleAfter - 1 \/ r
    BY <1>3, <1>4, <1>5
<1> QED BY <1>1, <1>6, <1>7 DEF q, r, s

LEMMA DeadServes == DeadInv => SessionsIdleOut
<1> SUFFICES ASSUME DeadInv, NEW t \in Tokens
             PROVE  /\ quiet[t] \in 0 .. IdleAfter - 1 => Served(t)
                    /\ Served(t) => quiet[t] \in 0 .. IdleAfter - 1 \/ t \in rounded
    BY DEF SessionsIdleOut
<1>1. DeadTypes /\ \A e \in table : Aged(e)
    BY DEF DeadInv
<1>2. ASSUME quiet[t] \in 0 .. IdleAfter - 1 PROVE Served(t)
    <2>1. PICK e \in table : e.id = t
        BY <1>2 DEF DeadInv
    <2>2. quiet[e.id] < IdleAfter
        BY <1>2, <2>1, Sizes
    <2> QED BY <1>1, <2>1, <2>2, AliveAged DEF Served
<1>3. ASSUME Served(t) PROVE quiet[t] \in 0 .. IdleAfter - 1 \/ t \in rounded
    <2>1. PICK e \in Alive(table, ticks) : e.id = t
        BY <1>3 DEF Served
    <2>2. e \in table
        BY DEF Alive
    <2> QED BY <1>1, <2>1, <2>2, AliveAged
<1> QED BY <1>2, <1>3

\* The entry of a session that is renewed now.
LEMMA ArmedNow ==
    ASSUME DeadTypes, NEW token \in Tokens
    PROVE  /\ Armed(token, ticks) \in Entries
           /\ Armed(token, ticks).id = token
           /\ Since(Armed(token, ticks)) = ticks
<1>1. IdleAfter \in Shown /\ ticks \in Shown
    BY Sizes DEF DeadTypes, Shown
<1>2. TicksAdd(ticks, IdleAfter) = ticks + IdleAfter
    BY <1>1, AddsUp
<1>3. ticks + IdleAfter \in IdleAfter .. CounterPeriod - 1 + IdleAfter
    BY <1>1, Sizes DEF Shown
<1>4. (ticks + IdleAfter) - IdleAfter = ticks
    BY <1>1, Sizes DEF Shown
<1> QED BY <1>2, <1>3, <1>4 DEF Armed, Entries, Since

\* What a request does to the table: entries go that are over or lose their
\* session, and one may come, just renewed.
Stays(stay, come) ==
    /\ stay \subseteq Alive(table, ticks) /\ come \subseteq Entries
    /\ table' = stay \union come
    /\ \A e \in stay : quiet'[e.id] = quiet[e.id] /\ (e.id \in rounded' <=> e.id \in rounded)
    /\ \A e \in come : Since(e) = ticks /\ quiet'[e.id] = 0 /\ e.id \notin rounded'
    /\ quiet' \in [Tokens -> -1 .. IdleAfter]
    /\ \A t \in Tokens : quiet'[t] \in 0 .. IdleAfter - 1 => \E e \in table' : e.id = t

LEMMA StayingKeeps ==
    ASSUME DeadInv, UNCHANGED <<ticks, loop>>, loop = "config",
           NEW stay, NEW come, Stays(stay, come)
    PROVE  DeadInv'
<1>1. /\ DeadTypes /\ stay \subseteq table /\ come \subseteq Entries /\ table' = stay \union come
      /\ \A e \in table : Aged(e)
    BY DEF DeadInv, Alive, Stays
<1>2. ASSUME NEW e \in stay PROVE Aged(e)'
    <2>1. Aged(e) /\ quiet'[e.id] = quiet[e.id] /\ (e.id \in rounded' <=> e.id \in rounded)
        BY <1>1 DEF Stays
    <2> QED BY <2>1 DEF Aged, Since
<1>3. ASSUME NEW e \in come PROVE Aged(e)'
    <2>1. AtMost(ticks - ticks, IdleAfter) = 0 /\ ticks >= ticks /\ 0 # -1
        BY <1>1, Sizes DEF AtMost, DeadTypes, Shown
    <2>2. Since(e)' = ticks /\ ticks' = ticks /\ quiet'[e.id] = 0 /\ e.id \notin rounded'
        BY DEF Since, Stays
    <2> QED BY <2>1, <2>2 DEF Aged
<1>4. DeadTypes'
    BY <1>1 DEF DeadTypes, Stays
<1> QED BY <1>1, <1>2, <1>3, <1>4 DEF DeadInv, Stays

LEMMA RequestKeeps == ASSUME DeadInv, SessionRequest PROVE DeadInv'
<1> DEFINE alive == Alive(table, ticks)
<1>1. loop = "config" /\ UNCHANGED <<ticks, loop>>
    BY DEF SessionRequest
<1>2. /\ DeadTypes /\ \A e \in table : Aged(e)
      /\ quiet \in [Tokens -> -1 .. IdleAfter] /\ 0 \in -1 .. IdleAfter /\ -1 \in -1 .. IdleAfter
      /\ -1 \notin 0 .. IdleAfter - 1
    BY Sizes DEF DeadInv, DeadTypes
<1>3. alive \subseteq table /\ \A e \in alive : e.id \in Tokens /\ quiet[e.id] # -1
    BY <1>2 DEF Alive, DeadTypes, Entries, Aged
\* Whoever was not idle for its time is among the living.
<1>4. ASSUME NEW t \in Tokens, quiet[t] \in 0 .. IdleAfter - 1 PROVE \E e \in alive : e.id = t
    BY <1>4, DeadServes DEF SessionsIdleOut, Served
<1>5. ASSUME table' = alive, UNCHANGED <<quiet, rounded>> PROVE DeadInv'
    <2>1. \A t \in Tokens : quiet'[t] \in 0 .. IdleAfter - 1 => \E e \in table' : e.id = t
        BY <1>4, <1>5
    <2>2. Stays(alive, {})
        BY <1>2, <1>5, <2>1 DEF Stays
    <2> QED BY <1>1, <2>2, StayingKeeps
<1>6. ASSUME NEW token \in Tokens, NEW stay, stay \subseteq alive,
             \A e \in alive : e.id # token => e \in stay,
             \A e \in stay : e.id # token,
             table' = stay \union {Armed(token, ticks)}, Renewed(token)
      PROVE  DeadInv'
    <2> DEFINE new == Armed(token, ticks)
    <2>1. {new} \subseteq Entries /\ new.id = token /\ Since(new) = ticks
        BY <1>2, ArmedNow
    <2> HIDE DEF new, alive
    <2>2. /\ quiet' \in [Tokens -> -1 .. IdleAfter] /\ quiet'[token] = 0
          /\ \A t \in Tokens : t # token => quiet'[t] = quiet[t]
          /\ rounded' = rounded \ {token}
        BY <1>2, <1>6 DEF Renewed
    <2>3. \A e \in stay : quiet'[e.id] = quiet[e.id] /\ (e.id \in rounded' <=> e.id \in rounded)
        BY <1>3, <1>6, <2>2
    <2>4. \A e \in {new} : Since(e) = ticks /\ quiet'[e.id] = 0 /\ e.id \notin rounded'
        BY <2>1, <2>2
    <2>5. table' = stay \union {new}
        BY <1>6 DEF new
    <2>6. \A t \in Tokens : quiet'[t] \in 0 .. IdleAfter - 1 => \E e \in table' : e.id = t
        <3> TAKE t \in Tokens
        <3>1. CASE t = token
            BY <2>1, <2>5, <3>1
        <3>2. CASE t # token
            BY <1>4, <1>6, <2>2, <2>5, <3>2
        <3> QED BY <3>1, <3>2
    <2>7. Stays(stay, {new})
        BY <1>6, <2>1, <2>2, <2>3, <2>4, <2>5, <2>6 DEF Stays, alive
    <2> QED BY <1>1, <2>7, StayingKeeps
<1>7. ASSUME NEW token \in Tokens, Create(token, ticks) PROVE DeadInv'
    <2>1. CASE table' = alive /\ UNCHANGED <<quiet, rounded>>
        BY <1>5, <2>1
    <2>2. CASE table' = alive \union {Armed(token, ticks)} /\ Renewed(token) /\ quiet[token] = -1
        <3>1. \A e \in alive : e.id # token
            BY <1>3, <2>2
        <3> HIDE DEF alive
        <3> QED BY <1>6, <2>2, <3>1
    <2> QED BY <1>7, <2>1, <2>2 DEF Create
<1>8. ASSUME NEW token \in Tokens, Renew(token, ticks) PROVE DeadInv'
    <2>1. CASE table' = alive /\ UNCHANGED <<quiet, rounded>>
        BY <1>5, <2>1
    <2>2. CASE table' = {e \in alive : e.id # token} \union {Armed(token, ticks)} /\ Renewed(token)
        <3> DEFINE stay == {e \in alive : e.id # token}
        <3>1. /\ stay \subseteq alive /\ \A e \in alive : e.id # token => e \in stay
              /\ \A e \in stay : e.id # token
            OBVIOUS
        <3> HIDE DEF alive
        <3>2. table' = stay \union {Armed(token, ticks)} /\ Renewed(token)
            BY <2>2
        <3> HIDE DEF stay
        <3> QED BY <1>6, <3>1, <3>2
    <2> QED BY <1>8, <2>1, <2>2 DEF Renew
<1>9. ASSUME NEW token \in Tokens, KeepOnly(token, ticks) PROVE DeadInv'
    <2> DEFINE kept == \E e \in Alive(table, ticks) : e.id = token
    <2>1. /\ table' = IF kept THEN {Armed(token, ticks)} ELSE {}
          /\ quiet' = [t \in Tokens |-> IF kept /\ t = token THEN 0 ELSE -1]
          /\ rounded' = {}
        BY <1>9 DEF KeepOnly
    <2> HIDE DEF kept
    <2>2. /\ quiet' \in [Tokens -> -1 .. IdleAfter]
          /\ \A t \in Tokens : quiet'[t] \in 0 .. IdleAfter - 1 => kept /\ t = token
          /\ kept => quiet'[token] = 0
        BY <1>2, <2>1
    <2>3. Armed(token, ticks) \in Entries /\ Armed(token, ticks).id = token /\ Since(Armed(token, ticks)) = ticks
        BY <1>2, ArmedNow
    <2> DEFINE come == table'
    <2>4. /\ come \subseteq Entries
          /\ \A e \in come : Since(e) = ticks /\ quiet'[e.id] = 0 /\ e.id \notin rounded'
          /\ \A t \in Tokens : quiet'[t] \in 0 .. IdleAfter - 1 => \E e \in table' : e.id = t
        BY <2>1, <2>2, <2>3
    <2>5. Stays({}, come)
        BY <2>2, <2>4 DEF Stays
    <2> QED BY <1>1, <2>5, StayingKeeps
<1>10. CASE Look(ticks)
    BY <1>5, <1>10 DEF Look
<1> QED BY <1>7, <1>8, <1>9, <1>10 DEF SessionRequest

\* Time makes a session older and leaves what its entry says of it.
LEMMA PassKeeps == ASSUME DeadInv, Pass PROVE DeadInv'
<1>1. PICK d \in 1 .. MaxStep :
          /\ ticks' = TicksMs(d)
          /\ quiet' = [t \in Tokens |-> IF quiet[t] = -1 THEN -1 ELSE AtMost(quiet[t] + d, IdleAfter)]
          /\ rounded' = IF GoesRound(d) THEN {t \in Tokens : quiet[t] # -1} ELSE rounded
    BY DEF Pass
<1>2. table' = table /\ loop = "config" /\ loop' = loop
    BY DEF Pass
<1>3. d \in Nat \ {0} /\ IdleAfter \in Nat \ {0} /\ IdleAfter < CounterPeriod /\ CounterPeriod \in Nat
    BY Sizes
<1>4. ticks \in Shown /\ table \subseteq Entries /\ quiet \in [Tokens -> -1 .. IdleAfter]
    BY DEF DeadInv, DeadTypes
<1>5. /\ ticks' \in Shown
      /\ ~GoesRound(d) => ticks' = ticks + d
      /\ GoesRound(d) /\ d < CounterPeriod => ticks' = ticks + d - CounterPeriod
    BY <1>1, <1>3, <1>4, Counts
<1>6. /\ quiet' \in [Tokens -> -1 .. IdleAfter]
      /\ \A t \in Tokens : /\ quiet'[t] = -1 <=> quiet[t] = -1
                           /\ quiet[t] # -1 => quiet'[t] = AtMost(quiet[t] + d, IdleAfter)
    <2>1. \A n \in 0 .. IdleAfter : AtMost(n + d, IdleAfter) \in 0 .. IdleAfter
        BY <1>3 DEF AtMost
    <2>2. \A t \in Tokens : quiet[t] \in -1 .. IdleAfter
        BY <1>4
    <2>3. \A t \in Tokens : quiet[t] # -1 => quiet[t] \in 0 .. IdleAfter
        BY <1>3, <2>2
    <2>4. 0 .. IdleAfter \subseteq -1 .. IdleAfter /\ -1 \in -1 .. IdleAfter /\ -1 \notin 0 .. IdleAfter
        BY <1>3
    <2> QED BY <1>1, <2>1, <2>3, <2>4
<1>7. ASSUME NEW e \in table PROVE Aged(e)'
    <2>1. /\ e.id \in Tokens /\ Aged(e) /\ quiet[e.id] # -1 /\ Since(e)' = Since(e)
          /\ e.deadline \in IdleAfter .. CounterPeriod - 1 + IdleAfter
        BY <1>4 DEF DeadInv, Entries, Aged, Since
    <2> DEFINE q == quiet[e.id]
               p == quiet'[e.id]
               r == e.id \in rounded
               s == Since(e)
    <2>2. q \in 0 .. IdleAfter /\ s \in 0 .. CounterPeriod - 1 /\ ticks \in 0 .. CounterPeriod - 1
        <3>1. q \in -1 .. IdleAfter /\ q # -1
            BY <1>4, <2>1
        <3>2. s \in 0 .. CounterPeriod - 1
            BY <1>3, <2>1 DEF Since
        <3> QED BY <1>3, <1>4, <3>1, <3>2 DEF Shown
    <2>3. p = (IF q + d <= IdleAfter THEN q + d ELSE IdleAfter) /\ p # -1
        BY <1>6, <2>1 DEF AtMost
    <2>4. e.id \in rounded' <=> GoesRound(d) \/ r
        BY <1>1, <2>1
    <2>5. /\ ~r => ticks >= s /\ q = IF ticks - s <= IdleAfter THEN ticks - s ELSE IdleAfter
          /\ r /\ q < IdleAfter => ticks + CounterPeriod = s + q
        BY <2>1 DEF Aged, AtMost
    <2>6. GoesRound(d) <=> ticks + d >= CounterPeriod
        BY DEF GoesRound
    <2> HIDE DEF q, p, r, s
    <2>7. ASSUME ~r, ~GoesRound(d)
          PROVE  ticks' >= s /\ p = IF ticks' - s <= IdleAfter THEN ticks' - s ELSE IdleAfter
        <3>1. ticks' = ticks + d
            BY <1>5, <2>7
        <3>2. ticks >= s /\ q = IF ticks - s <= IdleAfter THEN ticks - s ELSE IdleAfter
            BY <2>5, <2>7
        <3> QED BY <1>3, <2>2, <2>3, <3>1, <3>2
    <2>8. ASSUME GoesRound(d) \/ r, p < IdleAfter PROVE ticks' + CounterPeriod = s + p
        <3>1. p = q + d /\ q < IdleAfter /\ d < CounterPeriod
            BY <1>3, <2>2, <2>3, <2>8
        <3>2. CASE r
            <4>1. ticks + CounterPeriod = s + q
                BY <2>5, <3>1, <3>2
            <4>2. ~(ticks + d >= CounterPeriod)
                BY <1>3, <2>2, <2>8, <3>1, <4>1
            <4>3. ticks' = ticks + d
                BY <1>5, <2>6, <4>2
            <4> QED BY <1>3, <2>2, <3>1, <4>1, <4>3
        <3>3. CASE ~r /\ GoesRound(d)
            <4>1. ticks' = ticks + d - CounterPeriod
                BY <1>5, <3>1, <3>3
            <4>2. ticks >= s /\ q = ticks - s
                BY <2>2, <2>5, <3>1, <3>3
            <4> QED BY <1>3, <2>2, <3>1, <4>1, <4>2
        <3> QED BY <2>8, <3>2, <3>3
    <2>9. /\ p # -1
          /\ e.id \notin rounded' => ticks' >= s /\ p = AtMost(ticks' - s, IdleAfter)
          /\ e.id \in rounded' /\ p < IdleAfter => ticks' + CounterPeriod = s + p
        BY <2>3, <2>4, <2>7, <2>8 DEF AtMost
    <2> QED BY <2>1, <2>9 DEF Aged, p, s
<1>8. ASSUME NEW t \in Tokens, quiet'[t] \in 0 .. IdleAfter - 1 PROVE \E e \in table' : e.id = t
    <2>1. quiet[t] \in -1 .. IdleAfter /\ quiet[t] # -1
        BY <1>3, <1>4, <1>6, <1>8
    <2>2. quiet'[t] = AtMost(quiet[t] + d, IdleAfter)
        BY <1>6, <2>1
    <2>3. quiet[t] \in 0 .. IdleAfter - 1
        BY <1>3, <1>8, <2>1, <2>2 DEF AtMost
    <2> QED BY <1>2, <2>3 DEF DeadInv
<1>9. DeadTypes'
    BY <1>2, <1>4, <1>5, <1>6 DEF DeadTypes
<1> QED BY <1>2, <1>7, <1>8, <1>9 DEF DeadInv

LEMMA ForgetKeeps == ASSUME DeadInv, Forget PROVE DeadInv'
<1>1. PICK t \in Tokens : /\ quiet[t] = IdleAfter /\ \A e \in table : e.id # t
                          /\ quiet' = [quiet EXCEPT ![t] = -1] /\ rounded' = rounded \ {t}
    BY DEF Forget
<1>2. UNCHANGED <<ticks, loop, table>>
    BY DEF Forget
<1>3. /\ quiet \in [Tokens -> -1 .. IdleAfter] /\ -1 \in -1 .. IdleAfter
      /\ -1 \notin 0 .. IdleAfter - 1
    BY Sizes DEF DeadInv, DeadTypes
<1>4. /\ quiet' \in [Tokens -> -1 .. IdleAfter] /\ quiet'[t] = -1
      /\ \A u \in Tokens : u # t => quiet'[u] = quiet[u]
    BY <1>1, <1>3
<1>5. ASSUME NEW e \in table PROVE Aged(e)'
    <2>1. Aged(e) /\ e.id # t /\ quiet'[e.id] = quiet[e.id] /\ (e.id \in rounded' <=> e.id \in rounded)
        BY <1>1, <1>4 DEF DeadInv, DeadTypes, Entries
    <2> QED BY <1>2, <2>1 DEF Aged, Since
<1> QED BY <1>2, <1>3, <1>4, <1>5 DEF DeadInv, DeadTypes

LEMMA DeadKeeps == DeadInv /\ [DeadlinesNext]_deadlineVars => DeadInv'
<1> SUFFICES ASSUME DeadInv, [DeadlinesNext]_deadlineVars PROVE DeadInv'
    OBVIOUS
<1>1. CASE ClockPass
    <2>1. PICK d \in 1 .. MaxStep : ticks' = TicksMs(d)
        BY <1>1 DEF ClockPass
    <2>2. ticks' \in Shown
        BY <2>1, Sizes, Counts DEF DeadInv, DeadTypes
    <2>3. table = {} /\ UNCHANGED <<loop, table, quiet, rounded>>
        BY <1>1 DEF ClockPass, sessionVars, DeadInv
    <2> QED BY <2>2, <2>3 DEF DeadInv, DeadTypes
<1>2. CASE UNCHANGED deadlineVars
    BY <1>2 DEF deadlineVars, sessionVars, DeadInv, DeadTypes, Aged, Since
<1> QED BY <1>1, <1>2, PassKeeps, RequestKeeps, ForgetKeeps DEF DeadlinesNext

(* A session is served until it has been idle for its time, and longer     *)
(* only if the counter went round since it was renewed, for every counter  *)
(* that goes round within a quarter of the period ticks.py computes with   *)
(* (MicroPython's), whatever it shows when config mode starts              *)
(* (provisioning/session.py, expire).                                      *)
THEOREM SessionsIdleOutAlways == DeadlinesSpec => []SessionsIdleOut
<1>1. DeadlinesInit => DeadInv
    <2> SUFFICES ASSUME DeadlinesInit PROVE DeadInv
        OBVIOUS
    <2>1. IdleAfter \in Nat /\ -1 \in -1 .. IdleAfter
        BY Sizes
    <2>2. quiet \in [Tokens -> -1 .. IdleAfter] /\ \A t \in Tokens : quiet[t] \notin 0 .. IdleAfter - 1
        BY <2>1 DEF DeadlinesInit
    <2>3. table = {} /\ ticks \in Shown
        BY DEF DeadlinesInit, Shown
    <2> QED BY <2>2, <2>3 DEF DeadInv, DeadTypes
<1> QED BY <1>1, DeadServes, DeadKeeps, PTL DEF DeadlinesSpec

\* Of the redraw deadline: until the counter goes round it is as far ahead as
\* the age of the view leaves.
Ahead ==
    /\ ticks \in Shown
    /\ redraw \in 0 .. CounterPeriod - 1 + RedrawAfter
    /\ unpainted \in Nat /\ turned \in BOOLEAN
    /\ ~turned => redraw + unpainted <= ticks + RedrawAfter /\ (redraw > ticks \/ unpainted = 0)

DrawnInv == IF loop = "clock" THEN Ahead ELSE unpainted = 0

LEMMA DrawnKeeps == ASSUME DrawnInv, ClockPass PROVE DrawnInv'
<1>1. Ahead /\ loop' = loop /\ loop = "clock"
    BY DEF ClockPass, DrawnInv
<1>2. PICK d \in 1 .. MaxStep :
          /\ ticks' = TicksMs(d)
          /\ \/ redraw' = TicksAdd(ticks', RedrawAfter) /\ unpainted' = 0 /\ turned' = FALSE
             \/ /\ ~(TicksDiff(redraw, ticks') <= 0) /\ redraw' = redraw
                /\ unpainted' = AtMost(unpainted + d, RedrawAfter + MaxStep)
                /\ turned' = (turned \/ GoesRound(d))
    BY DEF ClockPass
<1>3. /\ d \in Nat /\ d <= MaxStep /\ MaxStep \in Nat
      /\ CounterPeriod \in Nat /\ RedrawAfter \in Nat \ {0} /\ RedrawAfter < CounterPeriod
    BY Sizes
<1>4. /\ ticks \in 0 .. CounterPeriod - 1 /\ redraw \in 0 .. CounterPeriod - 1 + RedrawAfter
      /\ unpainted \in Nat
      /\ ~turned => redraw + unpainted <= ticks + RedrawAfter /\ (redraw > ticks \/ unpainted = 0)
    BY <1>1 DEF Ahead, Shown
<1>5. ticks' \in Shown /\ (~GoesRound(d) => ticks' = ticks + d)
    BY <1>1, <1>2, <1>3, Counts DEF Ahead
<1>6. ticks' \in 0 .. CounterPeriod - 1
    BY <1>5 DEF Shown
<1>7. CASE redraw' = TicksAdd(ticks', RedrawAfter) /\ unpainted' = 0 /\ turned' = FALSE
    <2>1. RedrawAfter \in Shown
        BY <1>3 DEF Shown
    <2>2. redraw' = ticks' + RedrawAfter
        BY <1>5, <1>7, <2>1, AddsUp
    <2>3. redraw' \in 0 .. CounterPeriod - 1 + RedrawAfter /\ redraw' + 0 <= ticks' + RedrawAfter
        <3> DEFINE now == ticks'
                   next == redraw'
        <3>1. now \in 0 .. CounterPeriod - 1 /\ next = now + RedrawAfter
            BY <1>6, <2>2
        <3> HIDE DEF now, next
        <3>2. next \in 0 .. CounterPeriod - 1 + RedrawAfter /\ next + 0 <= now + RedrawAfter
            BY <1>3, <3>1
        <3> QED BY <3>2 DEF now, next
    <2> QED BY <1>1, <1>5, <1>7, <2>3 DEF Ahead, DrawnInv
<1>8. CASE /\ ~(TicksDiff(redraw, ticks') <= 0) /\ redraw' = redraw
           /\ unpainted' = AtMost(unpainted + d, RedrawAfter + MaxStep)
           /\ turned' = (turned \/ GoesRound(d))
    <2>1. redraw > ticks'
        <3> DEFINE now == ticks'
        <3>1. /\ redraw \in 0 .. 2 * CounterPeriod - 1 /\ now \in 0 .. 2 * CounterPeriod - 1
              /\ now < CounterPeriod /\ redraw \in Int
            BY <1>3, <1>4, <1>6
        <3>2. ~(TicksDiff(redraw, now) <= 0)
            BY <1>8
        <3> HIDE DEF now
        <3>3. TicksDiff(redraw, now) = redraw - now
            BY <3>1, Differs
        <3>4. redraw > now
            BY <3>1, <3>2, <3>3
        <3> QED BY <3>4 DEF now
    <2>2. unpainted' \in Nat /\ unpainted' <= unpainted + d
        BY <1>3, <1>4, <1>8 DEF AtMost
    <2>3. turned' \in BOOLEAN /\ (~turned' => ~turned /\ ~GoesRound(d))
        BY <1>8
    <2>4. ASSUME ~turned' PROVE redraw' + unpainted' <= ticks' + RedrawAfter
        <3>1. ticks' = ticks + d /\ redraw + unpainted <= ticks + RedrawAfter
            BY <1>4, <1>5, <2>3, <2>4
        <3> QED BY <1>3, <1>4, <1>8, <2>2, <3>1
    <2> QED BY <1>1, <1>4, <1>5, <1>8, <2>1, <2>2, <2>3, <2>4 DEF Ahead, DrawnInv
<1> QED BY <1>2, <1>7, <1>8

(* The view is drawn within its redraw time and one pass of the loop, or   *)
(* the counter went round since it was last drawn, for the device's own    *)
(* counter (app.py, step).                                                 *)
THEOREM RedrawsInTimeUntilRound == DeadlinesSpec => []RedrawsInTimeThisRound
<1>1. DeadlinesInit => DrawnInv
    <2> SUFFICES ASSUME DeadlinesInit PROVE DrawnInv
        OBVIOUS
    <2>1. ticks \in 0 .. CounterPeriod - 1 /\ redraw = ticks /\ unpainted = 0 /\ turned = FALSE
        BY DEF DeadlinesInit
    <2>2. CounterPeriod \in Nat /\ RedrawAfter \in Nat
        BY Sizes
    <2>3. redraw \in 0 .. CounterPeriod - 1 + RedrawAfter /\ redraw + unpainted <= ticks + RedrawAfter
        BY <2>1, <2>2
    <2> QED BY <2>1, <2>3 DEF Ahead, DrawnInv, Shown
<1>2. DrawnInv /\ [DeadlinesNext]_deadlineVars => DrawnInv'
    <2> SUFFICES ASSUME DrawnInv, [DeadlinesNext]_deadlineVars PROVE DrawnInv'
        OBVIOUS
    <2>1. CASE ClockPass
        BY <2>1, DrawnKeeps
    <2>2. ASSUME UNCHANGED <<ticks, loop, redraw, unpainted, turned>> PROVE DrawnInv'
        BY <2>2 DEF Ahead, DrawnInv
    <2>3. CASE SessionRequest \/ Forget \/ UNCHANGED deadlineVars
        BY <2>2, <2>3 DEF SessionRequest, Forget, deadlineVars, clockVars
    <2>4. CASE Pass
        BY <2>4 DEF Pass, clockVars, DrawnInv
    <2> QED BY <2>1, <2>3, <2>4 DEF DeadlinesNext
<1>3. DrawnInv => RedrawsInTimeThisRound
    <2> SUFFICES ASSUME DrawnInv, ~turned PROVE unpainted < RedrawAfter + MaxStep
        BY DEF RedrawsInTimeThisRound, RedrawsInTime
    <2>1. MaxStep \in Nat \ {0} /\ RedrawAfter \in Nat \ {0} /\ CounterPeriod \in Nat
        BY Sizes
    <2>2. CASE loop = "clock"
        BY <2>1, <2>2 DEF DrawnInv, Ahead, Shown
    <2>3. CASE loop # "clock"
        BY <2>1, <2>3 DEF DrawnInv
    <2> QED BY <2>2, <2>3
<1> QED BY <1>1, <1>2, <1>3, PTL DEF DeadlinesSpec

-----------------------------------------------------------------------------
(***************************************************************************)
(* AlertEditing: every form that the site accepts makes a record the store *)
(* accepts, what it saves is one change, and alert ids are distinct until  *)
(* one is deleted, for every limit and all times, weekdays and delays.     *)
(*                                                                         *)
(* Ids are counted, so until a deletion the alert at place i has the id i: *)
(* EditInv says that of the record on flash and of the one in memory,      *)
(* which differ after a commit that failed late.                           *)
(***************************************************************************)
Records == [alerts : Seq(Alerts), delay : Delays \union {DefaultDelay},
            pending : AlertIds \union {Nothing}]
Stored == {r \in Records : Len(r.alerts) <= Limit}

\* Every alert has the number of its place.
Counted(r) == \A i \in DOMAIN r.alerts : r.alerts[i].id = i

EditInv ==
    /\ flash \in Stored \union {Nothing}
    /\ served \in Stored \union {Nothing}
    /\ deleted \in BOOLEAN
    /\ answer # "cannot be stored"
    /\ ~deleted => /\ flash # Nothing => Counted(flash)
                   /\ served # Nothing => Counted(served)

-----------------------------------------------------------------------------
(* Records. *)

LEMMA StoredValid == ASSUME NEW r \in Stored PROVE ValidRecord(r)
BY ElementOfSeq DEF Stored, Records, ValidRecord

LEMMA FreshStored == Fresh \in Stored /\ Counted(Fresh)
BY EditingAssumption DEF Fresh, Stored, Records, Counted

LEMMA SiteRecordStored ==
    ASSUME NEW alerts \in Seq(Alerts), Len(alerts) <= Limit, NEW delay \in Delays \union {DefaultDelay}
    PROVE  /\ SiteRecord(alerts, delay) \in Stored
           /\ SiteRecord(alerts, delay).alerts = alerts
BY DEF SiteRecord, Fresh, Stored, Records

LEMMA LeastExists ==
    ASSUME NEW T, T \subseteq Nat, T # {}
    PROVE  \E i \in T : \A j \in T : i <= j
<1>1. PICK i \in T : \A j \in T : ~(<<j, i>> \in OpToRel(<, Nat))
    BY NatLessThanWellFounded, WFMin
<1>2. \A j \in T : ~(j < i)
    BY <1>1 DEF OpToRel
<1> QED BY <1>2

\* The alert that a handler finds is one of the record, under the id asked for.
LEMMA FirstFound ==
    ASSUME NEW r \in Stored, NEW id, Matches(r, id) # {}
    PROVE  First(r, id) \in DOMAIN r.alerts /\ r.alerts[First(r, id)].id = id
<1>1. Matches(r, id) \subseteq Nat
    BY DEF Matches, Stored, Records
<1>2. \E i \in Matches(r, id) : \A j \in Matches(r, id) : i <= j
    BY <1>1, LeastExists
<1>3. First(r, id) \in Matches(r, id)
    BY <1>2 DEF First
<1> QED BY <1>3 DEF Matches

LEMMA RemoveAtShorter ==
    ASSUME NEW S, NEW s \in Seq(S), NEW i \in DOMAIN s
    PROVE  RemoveAt(s, i) \in Seq(S) /\ Len(RemoveAt(s, i)) <= Len(s)
<1> DEFINE front == SubSeq(s, 1, i - 1)
           back == SubSeq(s, i + 1, Len(s))
<1>1. i \in 1 .. Len(s) /\ Len(s) \in Nat
    BY LenProperties
<1>2. front \in Seq(S) /\ Len(front) = i - 1
    <2>1. \A j \in 1 .. i - 1 : s[j] \in S
        BY <1>1, ElementOfSeq
    <2> QED BY <1>1, <2>1, SubSeqProperties
<1>3. back \in Seq(S) /\ Len(back) = Len(s) - i
    <2>1. \A j \in i + 1 .. Len(s) : s[j] \in S
        BY <1>1, ElementOfSeq
    <2> QED BY <1>1, <2>1, SubSeqProperties
<1>4. RemoveAt(s, i) = front \o back
    BY DEF RemoveAt
<1> HIDE DEF front, back
<1> QED BY <1>1, <1>2, <1>3, <1>4, ConcatProperties

\* A form that was accepted makes an alert.
LEMMA AlertMade ==
    ASSUME NEW f \in AlertForms, NEW id \in AlertIds, NEW old, NEW count, ValidForm(f, old, count)
    PROVE  AlertOf(f, id) \in Alerts /\ AlertOf(f, id).id = id
<1>1. f.days \in Recurrence /\ f.time \in Times
    BY DEF AlertForms, ValidForm
<1> QED BY <1>1 DEF AlertOf, Alerts

-----------------------------------------------------------------------------
(* Commits. *)

\* Whether it succeeds or fails, a commit leaves on flash and in memory what
\* was there or what it was given.
LEMMA CommitLeaves ==
    ASSUME EditInv, NEW r \in Stored, CommitSucceeds(r) \/ CommitFails(r)
    PROVE  flash' \in {flash, r} /\ served' \in {served, r}
BY DEF CommitSucceeds, CommitFails

LEMMA CommitStays ==
    ASSUME EditInv, NEW r \in Stored, ~deleted => Counted(r),
           CommitSucceeds(r) \/ CommitFails(r), UNCHANGED deleted,
           answer' # "cannot be stored"
    PROVE  EditInv'
BY CommitLeaves DEF EditInv

LEMMA SiteCommitAnswers ==
    ASSUME NEW r \in Stored, SiteCommit(r)
    PROVE  (CommitSucceeds(r) \/ CommitFails(r)) /\ answer' # "cannot be stored"
BY StoredValid DEF SiteCommit

LEMMA RejectedStays == ASSUME EditInv, Rejected, UNCHANGED deleted PROVE EditInv'
BY DEF EditInv, Rejected

LEMMA ServedStored ==
    ASSUME EditInv, served # Nothing
    PROVE  /\ served \in Stored /\ served.alerts \in Seq(Alerts)
           /\ Len(served.alerts) \in Nat /\ Len(served.alerts) <= Limit
           /\ served.delay \in Delays \union {DefaultDelay}
           /\ DOMAIN served.alerts = 1 .. Len(served.alerts)
           /\ ~deleted => Counted(served)
<1>1. served \in Stored /\ (~deleted => Counted(served))
    BY DEF EditInv
<1>2. \A r \in Stored : /\ r.alerts \in Seq(Alerts) /\ Len(r.alerts) <= Limit
                        /\ r.delay \in Delays \union {DefaultDelay}
    BY DEF Stored, Records
<1>3. served.alerts \in Seq(Alerts)
    BY <1>1, <1>2
<1> QED BY <1>1, <1>2, <1>3, LenProperties

-----------------------------------------------------------------------------
(* The requests of the site. *)

LEMMA FormsByAction ==
    ASSUME NEW f \in Forms
    PROVE  f.action \in {"add", "edit"} => f \in AlertForms
<1>1. f \in DeleteForms => f.action = "delete"
    BY DEF DeleteForms
<1>2. f \in DelayForms => f.action = "postpone"
    BY DEF DelayForms
<1> QED BY <1>1, <1>2 DEF Forms

LEMMA AddStays ==
    ASSUME EditInv, served # Nothing, NEW f \in Forms, AddAlert(f)
    PROVE  EditInv'
<1> DEFINE count == Len(served.alerts)
           id == count + 1
           new == Append(served.alerts, AlertOf(f, id))
           r == SiteRecord(new, served.delay)
<1>1. CASE ~ValidForm(f, id, count)
    BY <1>1, RejectedStays DEF AddAlert
<1>2. CASE ValidForm(f, id, count)
    <2>1. SiteCommit(r) /\ f.action = "add" /\ UNCHANGED deleted
        BY <1>2 DEF AddAlert
    <2>2. count \in Nat /\ count < Limit
        BY <1>2, <2>1, ServedStored DEF ValidForm
    <2>3. id \in AlertIds
        BY <2>2, EditingAssumption DEF AlertIds
    <2>4. AlertOf(f, id) \in Alerts /\ AlertOf(f, id).id = id
        BY <1>2, <2>1, <2>3, AlertMade, FormsByAction
    <2>5. /\ new \in Seq(Alerts) /\ Len(new) = count + 1
          /\ \A i \in 1 .. count : new[i] = served.alerts[i]
          /\ new[count + 1] = AlertOf(f, id)
        BY <2>4, ServedStored, AppendProperties
    <2>6. r \in Stored /\ r.alerts = new
        <3>1. Len(new) <= Limit
            BY <2>2, <2>5, EditingAssumption
        <3>2. served.delay \in Delays \union {DefaultDelay}
            BY ServedStored
        <3> HIDE DEF new
        <3> QED BY <2>5, <3>1, <3>2, SiteRecordStored
    <2>7. ~deleted => Counted(r)
        <3> HIDE DEF new, r
        <3> SUFFICES ASSUME ~deleted, NEW i \in DOMAIN new PROVE new[i].id = i
            BY <2>6 DEF Counted
        <3>1. i \in 1 .. count \/ i = count + 1
            BY <2>2, <2>5
        <3>2. CASE i \in 1 .. count
            BY <2>5, <3>2, ServedStored DEF Counted
        <3>3. CASE i = count + 1
            BY <2>4, <2>5, <3>3
        <3> QED BY <3>1, <3>2, <3>3
    <2> HIDE DEF r, new
    <2> QED BY <2>1, <2>6, <2>7, SiteCommitAnswers, CommitStays
<1> QED BY <1>1, <1>2

LEMMA EditStays ==
    ASSUME EditInv, served # Nothing, NEW f \in Forms, EditAlert(f)
    PROVE  EditInv'
<1> DEFINE k == First(served, f.id)
           new == [served.alerts EXCEPT ![k] = AlertOf(f, f.id)]
           r == SiteRecord(new, served.delay)
           accepted == Matches(served, f.id) # {} /\ ValidForm(f, f.id, Len(served.alerts))
<1>1. CASE ~accepted
    BY <1>1, RejectedStays DEF EditAlert
<1>2. CASE accepted
    <2>1. SiteCommit(r) /\ f.action = "edit" /\ UNCHANGED deleted
        BY <1>2 DEF EditAlert
    <2>2. k \in 1 .. Len(served.alerts) /\ served.alerts[k].id = f.id
        BY <1>2, ServedStored, FirstFound
    <2>3. f.id \in AlertIds
        <3>1. served.alerts[k] \in Alerts
            BY <2>2, ServedStored, ElementOfSeq
        <3> QED BY <2>2, <3>1 DEF Alerts
    <2>4. AlertOf(f, f.id) \in Alerts /\ AlertOf(f, f.id).id = f.id
        BY <1>2, <2>1, <2>3, AlertMade, FormsByAction
    <2> HIDE DEF k
    <2>5. /\ new \in Seq(Alerts) /\ Len(new) = Len(served.alerts)
          /\ \A j \in 1 .. Len(new) : new[j] = IF j = k THEN AlertOf(f, f.id) ELSE served.alerts[j]
        BY <2>2, <2>4, ServedStored, ExceptSeq
    <2>6. r \in Stored /\ r.alerts = new
        BY <2>5, ServedStored, SiteRecordStored
    <2>7. ~deleted => Counted(r)
        <3> SUFFICES ASSUME ~deleted, NEW i \in DOMAIN new PROVE new[i].id = i
            BY <2>6 DEF Counted
        <3>1. i \in 1 .. Len(served.alerts) /\ served.alerts[i].id = i
            BY <2>5, ServedStored DEF Counted
        <3> QED BY <2>2, <2>4, <2>5, <3>1
    <2> HIDE DEF r, new
    <2> QED BY <2>1, <2>6, <2>7, SiteCommitAnswers, CommitStays
<1> QED BY <1>1, <1>2

LEMMA DeleteStays ==
    ASSUME EditInv, served # Nothing, NEW f \in Forms, DeleteAlert(f)
    PROVE  EditInv'
<1> DEFINE k == First(served, f.id)
           new == RemoveAt(served.alerts, k)
           r == SiteRecord(new, served.delay)
           accepted == ~f.extra /\ Matches(served, f.id) # {}
<1>1. CASE ~accepted
    BY <1>1, RejectedStays DEF DeleteAlert
<1>2. CASE accepted
    <2>1. SiteCommit(r) /\ deleted' = (deleted \/ flash' # flash)
        BY <1>2 DEF DeleteAlert
    <2>2. new \in Seq(Alerts) /\ Len(new) <= Len(served.alerts)
        BY <1>2, ServedStored, FirstFound, RemoveAtShorter
    <2>3. r \in Stored
        BY <2>2, ServedStored, LenProperties, SiteRecordStored, EditingAssumption
    <2> HIDE DEF r
    <2>4. (CommitSucceeds(r) \/ CommitFails(r)) /\ answer' # "cannot be stored"
        BY <2>1, <2>3, SiteCommitAnswers
    <2>5. flash' \in {flash, r} /\ served' \in {served, r} /\ (served' = r => flash' = r \/ served' = served)
        BY <2>3, <2>4 DEF CommitSucceeds, CommitFails
    <2>6. ~deleted' => flash' = flash /\ ~deleted
        BY <2>1
    <2> QED BY <2>1, <2>3, <2>4, <2>5, <2>6 DEF EditInv
<1> QED BY <1>1, <1>2

LEMMA DelayStays ==
    ASSUME EditInv, served # Nothing, NEW f \in Forms, SaveDelay(f)
    PROVE  EditInv'
<1> DEFINE r == SiteRecord(served.alerts, f.delay)
           accepted == ~f.extra /\ f.delay \in Delays
<1>1. CASE ~accepted
    BY <1>1, RejectedStays DEF SaveDelay
<1>2. CASE accepted
    <2>1. SiteCommit(r) /\ UNCHANGED deleted
        BY <1>2 DEF SaveDelay
    <2>2. r \in Stored /\ r.alerts = served.alerts
        BY <1>2, ServedStored, SiteRecordStored
    <2>3. ~deleted => Counted(r)
        BY <2>2, ServedStored DEF Counted
    <2> HIDE DEF r
    <2> QED BY <2>1, <2>2, <2>3, SiteCommitAnswers, CommitStays
<1> QED BY <1>1, <1>2

LEMMA PasswordStays == ASSUME EditInv, ChangePassword PROVE EditInv'
<1> DEFINE r == SiteRecord(served.alerts, served.delay)
<1>1. served # Nothing
    BY DEF ChangePassword
<1>2. r \in Stored /\ r.alerts = served.alerts
    BY <1>1, ServedStored, SiteRecordStored
<1>3. ~deleted => Counted(r)
    BY <1>1, <1>2, ServedStored DEF Counted
<1>4. (CommitSucceeds(r) \/ CommitFails(r)) /\ answer' = "none" /\ UNCHANGED deleted
    BY DEF ChangePassword
<1> HIDE DEF r
<1> QED BY <1>2, <1>3, <1>4, CommitStays

LEMMA SetUpStays == ASSUME EditInv, SetUp PROVE EditInv'
<1>1. CASE CommitSucceeds(Fresh) /\ deleted' = FALSE
    BY <1>1, FreshStored DEF SetUp, CommitSucceeds, EditInv
<1>2. CASE CommitFails(Fresh) /\ UNCHANGED deleted
    BY <1>2, FreshStored, CommitStays DEF SetUp
<1> QED BY <1>1, <1>2 DEF SetUp

-----------------------------------------------------------------------------
(* Clock mode. *)

LEMMA ToggleStays == ASSUME EditInv, Toggle PROVE EditInv'
<1>1. served # Nothing
    BY DEF Toggle
<1>2. PICK j \in DOMAIN served.alerts :
         LET i == First(served, served.alerts[j].id)
         IN  Keep([served EXCEPT !.alerts[i].enabled = ~@])
    BY DEF Toggle
<1> DEFINE id == served.alerts[j].id
           i == First(served, id)
           alert == [served.alerts[i] EXCEPT !.enabled = ~@]
           new == [served.alerts EXCEPT ![i] = alert]
           r == [served EXCEPT !.alerts[i].enabled = ~@]
<1>3. j \in Matches(served, id)
    BY DEF Matches
<1>4. i \in 1 .. Len(served.alerts) /\ served.alerts[i] \in Alerts
    BY <1>1, <1>3, ServedStored, FirstFound, ElementOfSeq
<1>5. Keep(r)
    BY <1>2
<1> HIDE DEF i
<1>6. alert \in Alerts /\ alert.id = served.alerts[i].id
    BY <1>4 DEF Alerts
<1>7. r = [served EXCEPT !.alerts = new]
    OBVIOUS
<1> HIDE DEF alert, r
<1>8. /\ new \in Seq(Alerts) /\ Len(new) = Len(served.alerts)
      /\ \A n \in 1 .. Len(new) : new[n] = IF n = i THEN alert ELSE served.alerts[n]
    BY <1>1, <1>4, <1>6, ServedStored, ExceptSeq
<1>9. r \in Stored /\ r.alerts = new
    BY <1>1, <1>7, <1>8, ServedStored DEF Stored, Records
<1>10. ~deleted => Counted(r)
    <2> SUFFICES ASSUME ~deleted, NEW n \in DOMAIN new PROVE new[n].id = n
        BY <1>9 DEF Counted
    <2>1. n \in 1 .. Len(served.alerts) /\ served.alerts[n].id = n
        BY <1>1, <1>8, ServedStored DEF Counted
    <2> QED BY <1>6, <1>8, <2>1
<1> QED BY <1>5, <1>9, <1>10, CommitStays DEF Keep, Toggle

LEMMA PostponeStays == ASSUME EditInv, Postpone PROVE EditInv'
<1>1. served # Nothing
    BY DEF Postpone
<1>2. PICK id \in {served.alerts[i].id : i \in DOMAIN served.alerts} \union {Nothing} :
         Keep([served EXCEPT !.pending = id])
    BY DEF Postpone
<1> DEFINE r == [served EXCEPT !.pending = id]
<1>3. id \in AlertIds \union {Nothing}
    <2>1. \A i \in DOMAIN served.alerts : served.alerts[i] \in Alerts
        BY <1>1, ServedStored, ElementOfSeq
    <2> QED BY <1>2, <2>1 DEF Alerts
<1>4. r \in Stored /\ r.alerts = served.alerts
    BY <1>1, <1>3, ServedStored DEF Stored, Records
<1>5. ~deleted => Counted(r)
    BY <1>1, <1>4, ServedStored DEF Counted
<1> HIDE DEF r
<1> QED BY <1>2, <1>4, <1>5, CommitStays DEF Keep, Postpone, r

-----------------------------------------------------------------------------
\* In every reachable state the records are valid, and counted until a deletion.
LEMMA EditInvariant == EditingSpec => []EditInv
<1>1. EditingInit => EditInv
    BY DEF EditingInit, EditInv
<1>2. EditInv /\ [EditingNext]_editingVars => EditInv'
    <2> SUFFICES ASSUME EditInv, [EditingNext]_editingVars PROVE EditInv'
        OBVIOUS
    <2>1. CASE Request
        BY <2>1, AddStays, EditStays, DeleteStays, DelayStays DEF Request
    <2>2. CASE Reload
        BY <2>2 DEF Reload, EditInv
    <2>3. CASE UNCHANGED editingVars
        BY <2>3 DEF editingVars, EditInv
    <2> QED BY <2>1, <2>2, <2>3, PasswordStays, SetUpStays, ToggleStays, PostponeStays
            DEF EditingNext
<1> QED BY <1>1, <1>2, PTL DEF EditingSpec

\* No form that its validator accepts is refused by the validation that commit()
\* makes of the whole record (settings_store.py, validate_settings_object).
THEOREM FormsAlwaysFit == EditingSpec => []FormsFit
<1>1. EditInv => FormsFit
    BY DEF EditInv, FormsFit
<1> QED BY <1>1, EditInvariant, PTL

\* alert-<count + 1> is a new id as long as no alert was deleted, also when
\* commits fail late and the device restarts (alert_route.py, add_alert).
THEOREM DistinctAlways == EditingSpec => []DistinctUntilDeleted
<1>1. ASSUME NEW r, r # Nothing => Counted(r) PROVE Distinct(r)
    BY <1>1 DEF Counted, Distinct
<1>2. EditInv => DistinctUntilDeleted
    BY <1>1 DEF EditInv, DistinctUntilDeleted
<1> QED BY <1>2, EditInvariant, PTL

-----------------------------------------------------------------------------
\* What a saved form may have done to the record that was served.
Changes ==
    LET old == served.alerts
        new == served'.alerts
    IN  \/ new = old
        \/ /\ served'.delay = served.delay
           /\ \/ Len(new) = Len(old) + 1 /\ Front(new) = old
              \/ \E i \in DOMAIN old : new = Without(old, i)
              \/ \E i \in DOMAIN old :
                    /\ new = [old EXCEPT ![i] = new[i]]
                    /\ new[i].id = old[i].id

\* What is saved is what the handler gave to the commit.
LEMMA SavedServed ==
    ASSUME NEW r, SiteCommit(r) \/ Rejected, answer' = "saved"
    PROVE  served' = r
BY DEF SiteCommit, CommitSucceeds, Rejected

LEMMA SiteFields ==
    ASSUME NEW alerts, NEW delay
    PROVE  SiteRecord(alerts, delay).alerts = alerts /\ SiteRecord(alerts, delay).delay = delay
BY DEF SiteRecord, Fresh

LEMMA FrontOfAppend ==
    ASSUME NEW S, NEW s \in Seq(S), NEW e
    PROVE  Len(Append(s, e)) = Len(s) + 1 /\ Front(Append(s, e)) = s
<1> DEFINE T == S \union {e}
           new == Append(s, e)
<1>1. s \in Seq(T) /\ e \in T /\ Len(s) \in Nat
    BY SeqMonotonic, LenProperties
<1>2. /\ new \in Seq(T) /\ Len(new) = Len(s) + 1
      /\ \A i \in 1 .. Len(s) : new[i] = s[i]
    BY <1>1, AppendProperties
<1> HIDE DEF new, T
<1>3. \A i \in 1 .. Len(s) : new[i] \in T
    BY <1>1, <1>2, ElementOfSeq
<1>4. /\ SubSeq(new, 1, Len(s)) \in Seq(T) /\ Len(SubSeq(new, 1, Len(s))) = Len(s)
      /\ \A i \in 1 .. Len(s) : SubSeq(new, 1, Len(s))[i] = new[i]
    BY <1>1, <1>2, <1>3, SubSeqProperties
<1>5. SubSeq(new, 1, Len(s)) = s
    BY <1>1, <1>2, <1>4, SeqEqual
<1>6. Front(new) = SubSeq(new, 1, Len(s))
    BY <1>1, <1>2 DEF Front
<1> QED BY <1>2, <1>5, <1>6 DEF new

LEMMA AddChanges ==
    ASSUME EditInv, served # Nothing, NEW f \in Forms, AddAlert(f), answer' = "saved"
    PROVE  Changes
<1> DEFINE id == Len(served.alerts) + 1
           new == Append(served.alerts, AlertOf(f, id))
           r == SiteRecord(new, served.delay)
<1>1. SiteCommit(r) \/ Rejected
    BY DEF AddAlert
<1>2. r.alerts = new /\ r.delay = served.delay
    BY SiteFields
<1>3. Len(new) = Len(served.alerts) + 1 /\ Front(new) = served.alerts
    BY ServedStored, FrontOfAppend
<1> HIDE DEF r, new
<1>4. served' = r
    BY <1>1, SavedServed
<1> QED BY <1>2, <1>3, <1>4 DEF Changes

LEMMA EditChanges ==
    ASSUME EditInv, served # Nothing, NEW f \in Forms, EditAlert(f), answer' = "saved"
    PROVE  Changes
<1> DEFINE k == First(served, f.id)
           alert == AlertOf(f, f.id)
           new == [served.alerts EXCEPT ![k] = alert]
           r == SiteRecord(new, served.delay)
<1>1. SiteCommit(r) /\ Matches(served, f.id) # {}
    BY DEF EditAlert, Rejected
<1>2. r.alerts = new /\ r.delay = served.delay
    BY SiteFields
<1>3. k \in DOMAIN served.alerts /\ served.alerts[k].id = f.id
    BY <1>1, ServedStored, FirstFound
<1>4. alert.id = f.id
    BY DEF AlertOf
<1> HIDE DEF k, alert
<1>5. new[k] = alert /\ new = [served.alerts EXCEPT ![k] = new[k]]
    BY <1>3
<1> HIDE DEF new, r
<1>6. served' = r
    BY <1>1, SavedServed
<1> QED BY <1>2, <1>3, <1>4, <1>5, <1>6 DEF Changes

LEMMA DeleteChanges ==
    ASSUME EditInv, served # Nothing, NEW f \in Forms, DeleteAlert(f), answer' = "saved"
    PROVE  Changes
<1> DEFINE k == First(served, f.id)
           new == RemoveAt(served.alerts, k)
           r == SiteRecord(new, served.delay)
<1>1. SiteCommit(r) /\ Matches(served, f.id) # {}
    BY DEF DeleteAlert, Rejected
<1>2. r.alerts = new /\ r.delay = served.delay
    BY SiteFields
<1>3. k \in DOMAIN served.alerts
    BY <1>1, ServedStored, FirstFound
<1>4. new = Without(served.alerts, k)
    BY DEF Without
<1> HIDE DEF k, new, r
<1>5. served' = r
    BY <1>1, SavedServed
<1> QED BY <1>2, <1>3, <1>4, <1>5 DEF Changes

LEMMA DelayChanges ==
    ASSUME served # Nothing, NEW f \in Forms, SaveDelay(f), answer' = "saved"
    PROVE  Changes
<1> DEFINE r == SiteRecord(served.alerts, f.delay)
<1>1. SiteCommit(r) \/ Rejected
    BY DEF SaveDelay
<1>2. r.alerts = served.alerts
    BY SiteFields
<1> HIDE DEF r
<1>3. served' = r
    BY <1>1, SavedServed
<1> QED BY <1>2, <1>3 DEF Changes

\* A form that is saved adds one alert at the end, replaces one under its id,
\* removes one, or sets the delay, and leaves the rest as it was, whatever record
\* it meets (alert_route.py, postpone_route.py).
THEOREM OneChangeAlways == EditingSpec => OneChange
<1> DEFINE Changed == answer' = "saved" /\ site => Changes
<1>1. EditInv /\ [EditingNext]_editingVars => [Changed]_editingVars
    <2> SUFFICES ASSUME EditInv, EditingNext, answer' = "saved" PROVE Changes
        OBVIOUS
    <2>1. Request
        BY DEF EditingNext, ChangePassword, SetUp, Toggle, Postpone, Reload
    <2> QED BY <2>1, AddChanges, EditChanges, DeleteChanges, DelayChanges DEF Request
<1> QED BY <1>1, EditInvariant, PTL DEF EditingSpec, OneChange, Changes

-----------------------------------------------------------------------------
(***************************************************************************)
(* ProofSuite: no answer to an earlier command gets into the result slot,  *)
(* and the idle flag tells the truth, for every length of the sustained    *)
(* scenario and every interleaving of the two threads; and no scenario     *)
(* fails that was not late.                                                *)
(*                                                                         *)
(* The invariant SuiteInv ties the mailbox to the worker: its job, unless  *)
(* a soft reset has given it up, is the command accepted last, which is    *)
(* then not in the command slot.  It also says where of the script the     *)
(* slot may be filled by anybody else.  LateInv says what every            *)
(* instruction finds as long as nothing was late.                          *)
(***************************************************************************)
\* Between its plant and its check the fourth scenario owns the result slot.
Planting == scenario = 4 /\ at \in {5, 6}

ScriptInv ==
    /\ scenario \in 1 .. 10
    /\ at \in Nat
    /\ ~Over => at <= Len(Scenarios[scenario])

JobInv ==
    /\ epoch \in Nat
    /\ mode \in Codes
    /\ job \in Jobs \union {None}
    /\ job # None => job.epoch <= epoch
    /\ Working => job.id = last /\ command = None

SlotInv ==
    /\ command \in Ids \union {None}
    /\ command # None => command = last
    /\ idle \in BOOLEAN /\ fatal \in BOOLEAN
    /\ idle => command = None /\ ~Working
    /\ ~idle => command # None \/ Working \/ fatal
    /\ result # None => result.id = last \/ result.code = "planted"
    /\ result # None => idle \/ Planting
    /\ fatal => Planting

SuiteInv == ScriptInv /\ JobInv /\ SlotInv

-----------------------------------------------------------------------------
(* The script. *)

\* The instructions of every scenario but the fourth.
Waits == {"taken", "reset", "clean", "idle", "look", "poll"}
Instructions ==
    {Ops(m) : m \in Codes}
    \union {SlowOps(m) : m \in Codes}
    \union {Enq(n, else) : n \in Ids, else \in Nat}
    \union {Retry(n) : n \in Ids}
    \union {Await(ids, codes, else) : ids \in SUBSET Ids, codes \in SUBSET Codes, else \in Nat}
    \union {Do(what) : what \in Waits}

\* What the proofs need of an instruction.
Shaped(c) ==
    /\ c.do = "ops" => c.mode \in Codes
    /\ c.do \in {"enqueue", "retry"} => c.id \in Ids
    /\ c.do \in {"enqueue", "await"} => c.else \in Nat

LEMMA InstructionShape ==
    ASSUME NEW c \in Instructions
    PROVE  Shaped(c) /\ c.do \notin {"plant", "fatal", "prior"}
<1>1. CASE \E m \in Codes : c = Ops(m) \/ c = SlowOps(m)
    <2>1. c.do = "ops" /\ c.mode \in Codes
        BY <1>1 DEF Ops, SlowOps
    <2> QED BY <2>1 DEF Shaped
<1>2. CASE \E n \in Ids, else \in Nat : c = Enq(n, else)
    <2>1. c.do = "enqueue" /\ c.id \in Ids /\ c.else \in Nat
        BY <1>2 DEF Enq
    <2> QED BY <2>1 DEF Shaped
<1>3. CASE \E n \in Ids : c = Retry(n)
    <2>1. c.do = "retry" /\ c.id \in Ids
        BY <1>3 DEF Retry
    <2> QED BY <2>1 DEF Shaped
<1>4. CASE \E ids \in SUBSET Ids, codes \in SUBSET Codes, else \in Nat : c = Await(ids, codes, else)
    <2>1. c.do = "await" /\ c.else \in Nat
        BY <1>4 DEF Await
    <2> QED BY <2>1 DEF Shaped
<1>5. CASE \E what \in Waits : c = Do(what)
    <2>1. c.do \in Waits
        BY <1>5 DEF Do
    <2> QED BY <2>1 DEF Shaped, Waits
<1> QED BY <1>1, <1>2, <1>3, <1>4, <1>5 DEF Instructions

\* The instructions of the last scenario after its first.
Steps ==
    [k \in 1 .. 2 * Iterations |->
        LET n == 1000 + (k - 1) \div 2
        IN  IF k % 2 = 1 THEN Enq(n, 2) ELSE Await({n}, {"ok"}, 1)]

LEMMA StepsAreInstructions == Steps \in Seq(Instructions)
<1> DEFINE N == 2 * Iterations
           step(k) == LET n == 1000 + (k - 1) \div 2
                      IN  IF k % 2 = 1 THEN Enq(n, 2) ELSE Await({n}, {"ok"}, 1)
<1>1. Iterations \in Nat /\ N \in Nat
    BY IterationsAssumption
<1>2. ASSUME NEW k \in 1 .. N PROVE step(k) \in Instructions
    <2> DEFINE n == 1000 + (k - 1) \div 2
    <2>1. (k - 1) \div 2 \in 0 .. Iterations - 1
        BY <1>1
    <2>2. n \in Ids
        BY <2>1, IdsAssumption
    <2>3. step(k) = Enq(n, 2) \/ step(k) = Await({n}, {"ok"}, 1)
        OBVIOUS
    <2> HIDE DEF n
    <2>4. Enq(n, 2) \in Instructions
        BY <2>2 DEF Instructions
    <2>5. {n} \in SUBSET Ids /\ {"ok"} \in SUBSET Codes
        BY <2>2 DEF Codes
    <2>6. Await({n}, {"ok"}, 1) \in Instructions
        BY <2>5 DEF Instructions
    <2> HIDE DEF step
    <2> QED BY <2>3, <2>4, <2>6
<1>3. Steps = [k \in 1 .. N |-> step(k)]
    BY DEF Steps
<1> HIDE DEF step, N
<1> QED BY <1>1, <1>2, <1>3

LEMMA SustainedIsAScript == Sustained \in Seq(Instructions) /\ Len(Sustained) \in Nat \ {0}
<1>4. Steps \in Seq(Instructions)
    BY StepsAreInstructions
<1>5. <<Ops("ok")>> \in Seq(Instructions) /\ Len(<<Ops("ok")>>) = 1
    <2>1. Ops("ok") \in Instructions
        BY DEF Instructions, Codes
    <2> QED BY <2>1
<1>6. Sustained = <<Ops("ok")>> \o Steps
    BY DEF Sustained, Steps
<1> QED BY <1>4, <1>5, <1>6, ConcatProperties, LenProperties

LEMMA Scenario4 ==
    /\ Len(Scenarios[4]) = 6
    /\ \A i \in 1 .. 6 : /\ Shaped(Scenarios[4][i])
                         /\ Scenarios[4][i].do = "plant" <=> i = 4
                         /\ Scenarios[4][i].do \in {"fatal", "prior"} <=> i \in {5, 6}
    /\ Scenarios[4][5].do = "fatal"
    /\ Scenarios[4][6].do = "prior"
<1>1. Scenarios[4] = <<SlowOps("ok"), Enq(91, GiveUp), Do("taken"), Do("plant"),
                       Do("fatal"), Do("prior")>>
    BY DEF Scenarios
<1>2. 91 \in Ids
    BY IdsAssumption
<1>3. \A i \in 1 .. 6 : i \in {1, 2, 3, 4, 5, 6}
    OBVIOUS
<1>4. ASSUME NEW c, c = SlowOps("ok") \/ c = Enq(91, GiveUp)
      PROVE  Shaped(c) /\ c.do \notin {"plant", "fatal", "prior"}
    <2>1. SlowOps("ok") \in Instructions /\ Enq(91, GiveUp) \in Instructions
        BY <1>2 DEF Instructions, Codes, GiveUp
    <2> QED BY <1>4, <2>1, InstructionShape
<1>5. ASSUME NEW what \in {"taken", "plant", "fatal", "prior"}, NEW c, c = Do(what)
      PROVE  Shaped(c) /\ c.do = what
    <2>1. c.do = what
        BY <1>5 DEF Do
    <2> QED BY <2>1 DEF Shaped
<1> QED BY <1>1, <1>3, <1>4, <1>5

LEMMA OtherScenarios ==
    ASSUME NEW s \in 1 .. 9, s # 4
    PROVE  Scenarios[s] \in Seq(Instructions) /\ Len(Scenarios[s]) \in Nat \ {0}
<1>1. \A m \in {"ok", "dns_fail", "ntp_fail"} : Ops(m) \in Instructions /\ SlowOps(m) \in Instructions
    BY DEF Instructions, Codes
<1>2. \A n \in 1 .. 10, else \in {1, GiveUp} : Enq(n, else) \in Instructions
    <2>1. \A n \in Ids, else \in Nat : Enq(n, else) \in Instructions
        BY DEF Instructions
    <2>2. 1 .. 10 \subseteq Ids /\ {1, GiveUp} \subseteq Nat
        BY IdsAssumption DEF GiveUp
    <2> QED BY <2>1, <2>2
<1>3. Retry(6) \in Instructions
    BY IdsAssumption DEF Instructions
<1>4. \A ids \in SUBSET Ids, codes \in SUBSET Codes : Await(ids, codes, GiveUp) \in Instructions
    BY DEF Instructions, GiveUp
<1>5. \A what \in Waits : Do(what) \in Instructions
    BY DEF Instructions
<1>6. \A n \in 1 .. 10 : {n} \in SUBSET Ids
    BY IdsAssumption
<1>7. {"ok"} \in SUBSET Codes /\ {"dns_fail"} \in SUBSET Codes /\ {"ntp_fail"} \in SUBSET Codes
    BY DEF Codes
<1>8. CASE s = 9
    BY <1>8, SustainedIsAScript DEF Scenarios
<1>9. CASE s \in {1, 2, 3, 5}
    <2>1. /\ Scenarios[1] = <<Ops("ok"), Enq(1, GiveUp), Await({1}, {"ok"}, GiveUp)>>
          /\ Scenarios[2] = <<Ops("dns_fail"), Enq(2, GiveUp), Await(Ids, {"dns_fail"}, GiveUp)>>
          /\ Scenarios[3] = <<Ops("ntp_fail"), Enq(3, GiveUp), Await(Ids, {"ntp_fail"}, GiveUp)>>
          /\ Scenarios[5] = <<Ops("ok"), Enq(4, GiveUp), Await(Ids, Codes, GiveUp)>>
        BY DEF Scenarios
    <2>2. \E o \in Instructions, e \in Instructions, a \in Instructions : Scenarios[s] = <<o, e, a>>
        BY <1>1, <1>2, <1>4, <1>6, <1>7, <1>9, <2>1
    <2> QED BY <2>2
<1>10. CASE s = 6
    <2>1. Scenarios[6] = <<Ops("ok"), Enq(5, GiveUp), Retry(6), Await(Ids, Codes, GiveUp),
                           Do("idle"), Enq(7, 1), Await({7}, Codes, GiveUp)>>
        BY DEF Scenarios
    <2> QED BY <1>1, <1>2, <1>3, <1>4, <1>5, <1>6, <1>10, <2>1 DEF Waits
<1>11. CASE s = 7
    <2>1. Scenarios[7] = <<SlowOps("ok"), Enq(8, GiveUp), Do("reset"), Do("clean"),
                           Ops("ok"), Enq(9, 1), Await({9}, Codes, GiveUp)>>
        BY DEF Scenarios
    <2> QED BY <1>1, <1>2, <1>4, <1>5, <1>6, <1>11, <2>1 DEF Waits
<1>12. CASE s = 8
    <2>1. Scenarios[8] = <<SlowOps("ok"), Enq(10, GiveUp), Do("look"), Do("poll")>>
        BY DEF Scenarios
    <2> QED BY <1>1, <1>2, <1>5, <1>12, <2>1 DEF Waits
<1> QED BY <1>8, <1>9, <1>10, <1>11, <1>12

\* The next instruction of the scenario that runs.
LEMMA NextInstruction ==
    ASSUME ScriptInv, ~Over, at # 0
    PROVE  /\ Shaped(Instr)
           /\ Instr.do = "plant" => scenario = 4 /\ at = 4
           /\ Instr.do \in {"fatal", "prior"} => Planting
           /\ scenario = 4 /\ at = 5 => Instr.do = "fatal"
           /\ scenario = 4 /\ at = 6 => Instr.do = "prior"
<1>1. scenario \in 1 .. 9 /\ at \in 1 .. Len(Scenarios[scenario])
    BY DEF ScriptInv, Over, Scenarios
<1>2. CASE scenario = 4
    BY <1>1, <1>2, Scenario4 DEF Instr, Planting
<1>3. CASE scenario # 4
    <2>1. Instr \in Instructions
        <3>1. Scenarios[scenario] \in Seq(Instructions)
            BY <1>1, <1>3, OtherScenarios
        <3> QED BY <1>1, <3>1, ElementOfSeq DEF Instr
    <2> QED BY <1>3, <2>1, InstructionShape
<1> QED BY <1>2, <1>3

\* Outside the plant and its check, nobody waits for the worker's verdict.
LEMMA Unplanted ==
    ASSUME SuiteInv, Over \/ at = 0 \/ Instr.do \notin {"fatal", "prior"}
    PROVE  ~Planting /\ fatal = FALSE /\ (result # None => idle)
<1>1. ~Planting
    BY NextInstruction DEF SuiteInv, ScriptInv, Planting, Over, Scenarios
<1> QED BY <1>1 DEF SuiteInv, SlotInv

LEMMA ForwardStays ==
    ASSUME ScriptInv, ~Over, at # 0, NEW k \in Nat, Forward(k)
    PROVE  ScriptInv'
<1>1. Len(Scenarios[scenario]) \in Nat
    BY Scenario4, OtherScenarios DEF ScriptInv, Over, Scenarios
<1> QED BY <1>1 DEF ScriptInv, Forward, Over

LEMMA NextScenarioStarts ==
    ASSUME ScriptInv, ~Over, NextScenario
    PROVE  ScriptInv'
<1>1. \A s \in 1 .. 9 : 1 <= Len(Scenarios[s])
    <2>1. Len(Scenarios[4]) = 6
        BY Scenario4
    <2>2. ASSUME NEW s \in 1 .. 9, s # 4 PROVE Len(Scenarios[s]) \in Nat \ {0}
        BY <2>2, OtherScenarios
    <2>3. ASSUME NEW s \in 1 .. 9 PROVE 1 <= Len(Scenarios[s])
        <3>1. CASE s = 4
            <4>1. Len(Scenarios[s]) = 6
                BY <2>1, <3>1
            <4> QED BY <4>1
        <3>2. CASE s # 4
            BY <2>2, <3>2
        <3> QED BY <3>1, <3>2
    <2> QED BY <2>3
<1>2. Len(Scenarios) = 9
    BY DEF Scenarios
<1>3. scenario \in 1 .. 9 /\ scenario' = scenario + 1 /\ at' = 1
    BY <1>2 DEF ScriptInv, NextScenario, Over
<1>4. scenario' \in 1 .. 10 /\ (scenario' <= 9 => scenario' \in 1 .. 9)
    BY ONLY <1>3
<1>5. Over' <=> scenario' > 9
    BY <1>2 DEF Over
<1>6. ~Over' => at' <= Len(Scenarios[scenario'])
    BY <1>1, <1>3, <1>4, <1>5
<1> QED BY <1>3, <1>4, <1>6 DEF ScriptInv

-----------------------------------------------------------------------------
(* What the main thread does to the mailbox and the worker. *)

LEMMA QuietStays ==
    ASSUME SuiteInv, ~Planting, fatal' = FALSE,
           UNCHANGED <<command, idle, epoch, job, last>>, mode' \in Codes,
           result' = result \/ result' = None
    PROVE  JobInv' /\ SlotInv'
<1>1. fatal = FALSE /\ (result # None => idle)
    BY DEF SuiteInv, SlotInv
<1>2. Working' <=> Working
    BY DEF Working
<1> QED BY <1>1, <1>2 DEF SuiteInv, JobInv, SlotInv

LEMMA ResetStays ==
    ASSUME SuiteInv, fatal' = FALSE, Reset, UNCHANGED <<mode, job, last>>
    PROVE  JobInv' /\ SlotInv'
<1>1. epoch \in Nat /\ epoch' = epoch + 1 /\ (job # None => job.epoch <= epoch /\ job \in Jobs)
    BY DEF SuiteInv, JobInv, Reset
<1>2. ~Working' /\ epoch' \in Nat /\ (job # None => job.epoch <= epoch')
    BY <1>1 DEF Working, Jobs
<1> QED BY <1>1, <1>2 DEF SuiteInv, JobInv, SlotInv, Reset, SoftReset

LEMMA EnqueueStays ==
    ASSUME SuiteInv, ~Planting, Instr.id \in Ids, Enqueue(Instr.id), last' = Instr.id,
           UNCHANGED <<epoch, mode, job, fatal>>
    PROVE  JobInv' /\ SlotInv'
<1>1. fatal = FALSE /\ ~Working /\ idle' = FALSE /\ result' = None /\ command' = Instr.id
    BY DEF SuiteInv, SlotInv, Enqueue, Accepts
<1>2. ~Working'
    BY <1>1 DEF Working
<1>3. Instr.id # None
    BY IdsAssumption
<1> QED BY <1>1, <1>2, <1>3 DEF SuiteInv, JobInv, SlotInv

-----------------------------------------------------------------------------
(* The steps of the main thread. *)

LEMMA MainStays == ASSUME SuiteInv, Main PROVE SuiteInv'
<1> USE DEF SuiteInv
<1> DEFINE Moves(k) == ~Over /\ at # 0 /\ Forward(k)
<1>0. /\ ~Over /\ at # 0 => Shaped(Instr)
      /\ mode \in Codes /\ 99 \in Nat
    BY NextInstruction DEF JobInv
<1>1. CASE SetOps
    <2>1. ~Planting /\ fatal = FALSE /\ Instr.mode \in Codes
        BY <1>0, <1>1, Unplanted DEF SetOps, Doing, Instr, Shaped
    <2>2. JobInv' /\ SlotInv'
        BY <1>1, <2>1, QuietStays DEF SetOps, mailbox, worker, observed
    <2> QED BY <1>1, <2>2, ForwardStays DEF SetOps, Doing, Right
<1>2. CASE EnqueueCommand
    <2>1. ~Planting /\ fatal = FALSE /\ Instr.id \in Ids /\ Instr.else \in Nat
        BY <1>0, <1>2, Unplanted DEF EnqueueCommand, Doing, Instr, Shaped
    <2>2. CASE Accepts
        <3>1. JobInv' /\ SlotInv'
            BY <1>2, <2>1, <2>2, EnqueueStays DEF EnqueueCommand, stubs, worker
        <3> QED BY <1>2, <2>2, <3>1, ForwardStays DEF EnqueueCommand, Doing, Right
    <2>3. CASE ~Accepts
        <3>1. JobInv' /\ SlotInv'
            BY <1>0, <1>2, <2>1, <2>3, QuietStays DEF EnqueueCommand, mailbox, stubs, worker
        <3> QED BY <1>2, <2>1, <2>3, <3>1, ForwardStays DEF EnqueueCommand, Doing, Wrong
    <2> QED BY <2>2, <2>3
<1>3. CASE RetryCommand
    <2>1. ~Planting /\ fatal = FALSE /\ Instr.id \in Ids
        BY <1>0, <1>3, Unplanted DEF RetryCommand, Doing, Instr, Shaped
    <2>2. ScriptInv'
        BY <1>3, ForwardStays DEF RetryCommand, Doing, Right, Wrong
    <2>3. CASE Accepts
        BY <1>3, <2>1, <2>2, <2>3, EnqueueStays DEF RetryCommand, stubs, worker
    <2>4. CASE ~Accepts
        BY <1>0, <1>3, <2>1, <2>2, <2>4, QuietStays DEF RetryCommand, mailbox, stubs, worker
    <2> QED BY <2>3, <2>4
<1>4. CASE AwaitAnswer
    <2>1. ~Planting /\ fatal = FALSE /\ Instr.else \in Nat
        BY <1>0, <1>4, Unplanted DEF AwaitAnswer, Doing, Instr, Shaped
    <2>2. JobInv' /\ SlotInv'
        BY <1>0, <1>4, <2>1, QuietStays DEF AwaitAnswer, TakeResult, stubs, worker
    <2> QED BY <1>4, <2>1, <2>2, ForwardStays DEF AwaitAnswer, Doing, Right, Wrong
<1>5. CASE AwaitExpires
    <2>1. ~Planting /\ fatal = FALSE /\ Instr.else \in Nat
        BY <1>0, <1>5, Unplanted DEF AwaitExpires, Doing, Instr, Shaped
    <2>2. JobInv' /\ SlotInv'
        BY <1>5, <2>1, ResetStays DEF AwaitExpires, stubs, worker
    <2> QED BY <1>5, <2>1, <2>2, ForwardStays DEF AwaitExpires, Doing, Wrong
<1>6. ASSUME Doing("fatal"), Forward(1), UNCHANGED <<mailbox, epoch, mode, worker, fatal, last>>
      PROVE  SuiteInv'
    <2>1. ScriptInv'
        BY <1>6, ForwardStays DEF Doing
    <2>2. Planting => Planting'
        <3> SUFFICES ASSUME Planting PROVE Planting'
            OBVIOUS
        <3>1. at = 5
            BY <1>6, NextInstruction DEF Doing, Instr, Planting
        <3> QED BY <1>6, <3>1, Scenario4 DEF Forward, Planting
    <2>3. Working' <=> Working
        BY <1>6 DEF Working, worker
    <2> QED BY <1>6, <2>1, <2>2, <2>3 DEF JobInv, SlotInv, mailbox, worker
<1>7. CASE WaitEnds
    <2>1. CASE Doing("fatal")
        BY <1>6, <1>7, <2>1 DEF WaitEnds, Right, stubs, observed
    <2>2. CASE ~Doing("fatal")
        <3>1. ~Planting /\ fatal = FALSE
            BY <1>7, <2>2, Unplanted DEF WaitEnds, Reached, Doing, Instr
        <3>2. JobInv' /\ SlotInv'
            BY <1>0, <1>7, <3>1, QuietStays DEF WaitEnds, mailbox, stubs, worker, observed
        <3> QED BY <1>7, <3>2, ForwardStays DEF WaitEnds, Reached, Doing, Right
    <2> QED BY <2>1, <2>2
<1>8. CASE WaitExpires
    <2>1. CASE Doing("taken")
        <3>1. ~Planting /\ fatal = FALSE /\ Reset /\ Wrong(GiveUp)
            BY <1>8, <2>1, Unplanted DEF WaitExpires, Doing, Instr
        <3>2. JobInv' /\ SlotInv'
            BY <1>8, <3>1, ResetStays DEF WaitExpires, worker
        <3> QED BY <1>0, <2>1, <3>1, <3>2, ForwardStays DEF Doing, Wrong, GiveUp
    <2>2. CASE Doing("fatal")
        BY <1>6, <1>8, <2>2 DEF WaitExpires, Doing, Wrong
    <2>3. CASE Doing("clean") \/ Doing("idle")
        <3>1. ~Planting /\ fatal = FALSE
            BY <2>3, Unplanted DEF Doing, Instr
        <3>2. JobInv' /\ SlotInv' /\ Wrong(GiveUp)
            BY <1>0, <1>8, <2>3, <3>1, QuietStays DEF WaitExpires, Doing, mailbox, worker
        <3> QED BY <1>0, <2>3, <3>2, ForwardStays DEF Doing, Wrong, GiveUp
    <2> QED BY <1>8, <2>1, <2>2, <2>3 DEF WaitExpires
<1>9. CASE Plant
    <2>1. scenario = 4 /\ at = 4 /\ ~Planting /\ fatal = FALSE
        BY <1>9, NextInstruction, Unplanted DEF Plant, Doing, Instr
    <2>2. CASE Saturated
        <3>1. JobInv' /\ SlotInv' /\ Wrong(GiveUp)
            BY <1>9, <2>1, <2>2, ResetStays DEF Plant, Occupy, worker
        <3> QED BY <1>0, <1>9, <3>1, ForwardStays DEF Plant, Doing, Wrong, GiveUp
    <2>3. CASE ~Saturated
        <3>1. /\ result' = [id |-> 90, code |-> "planted"] /\ Forward(1)
              /\ UNCHANGED <<command, idle, epoch, mode, worker, fatal, last>>
            BY <1>9, <2>3 DEF Plant, Occupy, Right
        <3>2. ScriptInv' /\ Planting'
            BY <1>9, <2>1, <3>1, ForwardStays, Scenario4 DEF Plant, Doing, Forward, Planting
        <3>3. result'.code = "planted"
            BY <3>1
        <3>4. Working' <=> Working
            BY <3>1 DEF Working, worker
        <3> QED BY <3>1, <3>2, <3>3, <3>4 DEF JobInv, SlotInv, worker
    <2> QED BY <2>2, <2>3
<1>10. CASE CheckPrior
    <2>1. JobInv' /\ SlotInv'
        BY <1>10, ResetStays DEF CheckPrior, worker, observed
    <2> QED BY <1>10, <2>1, ForwardStays DEF CheckPrior, Doing, Right, Wrong
<1>11. CASE SoftResetBusy
    <2>1. ~Planting /\ fatal = FALSE
        BY <1>11, Unplanted DEF SoftResetBusy, Doing, Instr
    <2>2. JobInv' /\ SlotInv'
        BY <1>11, <2>1, ResetStays DEF SoftResetBusy, stubs, worker, observed
    <2> QED BY <1>11, <2>2, ForwardStays DEF SoftResetBusy, Doing, Right
<1>12. CASE Poll
    <2>1. ~Planting /\ fatal = FALSE
        BY <1>12, Unplanted DEF Poll, Doing, Instr
    <2>2. JobInv' /\ SlotInv'
        BY <1>0, <1>12, <2>1, QuietStays DEF Poll, TakeResult, mailbox, worker
    <2> QED BY <1>0, <1>12, <2>2, ForwardStays DEF Poll, Doing, Right, Wrong, GiveUp
<1>13. CASE PollExpires
    <2>1. ~Planting /\ fatal = FALSE
        BY <1>13, Unplanted DEF PollExpires, Doing, Instr
    <2>2. JobInv' /\ SlotInv'
        BY <1>13, <2>1, ResetStays DEF PollExpires, worker
    <2> QED BY <1>0, <1>13, <2>2, ForwardStays DEF PollExpires, Doing, Wrong, GiveUp
<1>14. CASE Drain
    <2>1. ~Planting /\ fatal = FALSE
        BY <1>14, Unplanted DEF Drain
    <2>2. JobInv' /\ SlotInv'
        BY <1>0, <1>14, <2>1, QuietStays DEF Drain, TakeResult, stubs, worker, observed
    <2> QED BY <1>14, <2>2 DEF Drain, ScriptInv, Over, script
<1>15. CASE Settled
    <2>1. ~Planting
        BY <1>15, Unplanted DEF Settled
    <2>2. JobInv' /\ SlotInv'
        BY <1>0, <1>15, <2>1, QuietStays DEF Settled, NextScenario, mailbox, stubs
    <2> QED BY <1>15, <2>2, NextScenarioStarts DEF Settled
<1>16. CASE SettleExpires
    <2>1. JobInv' /\ SlotInv'
        BY <1>16, ResetStays DEF SettleExpires, NextScenario, stubs
    <2> QED BY <1>16, <2>1, NextScenarioStarts DEF SettleExpires
<1> QED BY <1>1, <1>2, <1>3, <1>4, <1>5, <1>7, <1>8, <1>9, <1>10, <1>11, <1>12, <1>13, <1>14,
           <1>15, <1>16 DEF Main

-----------------------------------------------------------------------------
(* The steps of the worker. *)

LEMMA WorkStays == ASSUME SuiteInv, Work PROVE SuiteInv'
<1> USE DEF SuiteInv
<1>1. ScriptInv' /\ (Planting' <=> Planting)
    BY DEF Work, Take, Begin, Finish, PublishAnswer, ScriptInv, Over, Planting, script
<1>2. None \notin Jobs
    BY IdsAssumption
<1>3. CASE Take
    <2>1. command \in Ids /\ command = last /\ epoch \in Nat /\ ~idle
        BY <1>3 DEF Take, TakeCommand, JobInv, SlotInv
    <2>2. job' \in Jobs /\ job'.epoch = epoch /\ job'.id = last
        BY <1>3, <2>1 DEF Take, Jobs
    <2>3. Working'
        BY <1>2, <1>3, <2>2 DEF Take, Working
    <2> QED BY <1>1, <1>3, <2>1, <2>2, <2>3
            DEF Take, TakeCommand, JobInv, SlotInv, stubs, observed
<1>4. ASSUME job \in Jobs, job' \in Jobs, job'.id = job.id, job'.epoch = job.epoch,
             UNCHANGED <<mailbox, epoch, mode, fatal, last>>
      PROVE  SuiteInv'
    <2>1. (Working' <=> Working) /\ job # None
        BY <1>2, <1>4 DEF Working
    <2> QED BY <1>1, <1>4, <2>1 DEF JobInv, SlotInv, mailbox
<1>5. CASE Begin
    <2>1. job \in Jobs /\ job' \in Jobs /\ job'.id = job.id /\ job'.epoch = job.epoch
        BY <1>5 DEF Begin, JobInv, Jobs
    <2> QED BY <1>4, <1>5, <2>1 DEF Begin, stubs, observed
<1>6. CASE Finish
    <2>1. job \in Jobs /\ mode \in Codes
        BY <1>6 DEF Finish, JobInv
    <2>2. PICK code \in Codes : job' = [job EXCEPT !.code = code]
        BY <1>6, <2>1 DEF Finish, Codes
    <2>3. job' \in Jobs /\ job'.id = job.id /\ job'.epoch = job.epoch
        BY <2>1, <2>2 DEF Jobs
    <2> QED BY <1>4, <1>6, <2>1, <2>3 DEF Finish, stubs, observed
<1>7. CASE PublishAnswer
    <2>1. job # None /\ job' = None /\ ~Working'
        BY <1>7 DEF PublishAnswer, Answered, Working
    <2>2. CASE Orphaned
        <3>1. ~Working
            BY <2>2 DEF Orphaned, Working
        <3> QED BY <1>1, <1>7, <2>1, <2>2, <3>1
                DEF PublishAnswer, JobInv, SlotInv, mailbox, stubs, observed
    <2>3. CASE ~Orphaned
        <3>1. Working /\ job.id = last /\ command = None /\ ~idle
            BY <2>1, <2>3 DEF Orphaned, Working, JobInv, SlotInv
        <3>2. CASE Saturated
            <4>1. Planting
                BY <3>1, <3>2 DEF Saturated, SlotInv
            <4> QED BY <1>1, <1>7, <2>1, <2>3, <3>1, <3>2, <4>1
                    DEF PublishAnswer, JobInv, SlotInv, mailbox, stubs, observed
        <3>3. CASE ~Saturated
            <4>1. /\ result' = [id |-> job.id, code |-> job.code] /\ idle' = TRUE
                  /\ UNCHANGED <<command, epoch, mode, last, fatal>>
                BY <1>7, <2>3, <3>3 DEF PublishAnswer, Publish, stubs, observed
            <4>2. result'.id = last'
                BY <3>1, <4>1
            <4> QED BY <1>1, <2>1, <3>1, <4>1, <4>2 DEF JobInv, SlotInv
        <3> QED BY <3>2, <3>3
    <2> QED BY <2>2, <2>3
<1> QED BY <1>3, <1>5, <1>6, <1>7 DEF Work

-----------------------------------------------------------------------------
\* In every reachable state: who owns the command, the slot and the idle flag.
LEMMA SuiteInvariant == SuiteSpec => []SuiteInv
<1>1. SuiteInit => SuiteInv
    <2> SUFFICES ASSUME SuiteInit PROVE SuiteInv
        OBVIOUS
    <2>1. ScriptInv
        BY OtherScenarios DEF SuiteInit, ScriptInv
    <2> QED BY <2>1 DEF SuiteInit, MailboxInit, SuiteInv, JobInv, SlotInv, Working, Codes
<1>2. SuiteInv /\ [SuiteNext]_suiteVars => SuiteInv'
    <2> SUFFICES ASSUME SuiteInv, [SuiteNext]_suiteVars PROVE SuiteInv'
        OBVIOUS
    <2>1. CASE UNCHANGED suiteVars
        <3>1. UNCHANGED <<command, result, idle, epoch, mode, job, fatal, scenario, at, last>>
            BY <2>1 DEF suiteVars, mailbox, stubs, worker, script, observed
        <3>2. (Working' <=> Working) /\ (Planting' <=> Planting) /\ (Over' <=> Over)
            BY <3>1 DEF Working, Planting, Over
        <3> QED BY <3>1, <3>2 DEF SuiteInv, ScriptInv, JobInv, SlotInv
    <2> QED BY <2>1, MainStays, WorkStays DEF SuiteNext, KeepAlive
<1> QED BY <1>1, <1>2, PTL DEF SuiteSpec

\* No late answer to an earlier command is ever in the result slot: a soft reset
\* makes orphans of what runs, and the worker's publish_result() discards them.
THEOREM OwnAnswersAlways == SuiteSpec => []OwnAnswers
<1>1. SuiteInv => OwnAnswers
    BY DEF SuiteInv, SlotInv, OwnAnswers
<1> QED BY <1>1, SuiteInvariant, PTL

\* The idle flag agrees with the command slot and with the worker, whatever the
\* script does to the mailbox while the worker is busy.
THEOREM IdleTellsAlways == SuiteSpec => []IdleTells
<1>1. SuiteInv => IdleTells
    BY DEF SuiteInv, SlotInv, IdleTells
<1> QED BY <1>1, SuiteInvariant, PTL
-----------------------------------------------------------------------------
(* What a step of the script may count on when nothing was late.             *)

\* The mailbox takes a command: nothing is waiting, running or unread.
Free == idle /\ result = None

\* What the stubbed operation answers once a scenario has set it up.
ModeOf(s) == IF s = 2 THEN "dns_fail" ELSE IF s = 3 THEN "ntp_fail" ELSE "ok"

\* The next instruction finds what it needs.
Ready ==
    /\ Instr.do \in {"ops", "enqueue", "clean", "idle"} => Free
    /\ Instr.do # "ops" => mode = ModeOf(scenario)
    /\ Instr.do \in {"retry", "await"} => ~Free /\ last \in Ids
    /\ Instr.do = "await" => [id |-> last, code |-> ModeOf(scenario)] \in Instr.want

\* As long as nothing was late, what is in the slot was planted or is the
\* answer of the operation that was set up, and so is what the worker brings.
Punctual ==
    ~late =>
        /\ ~failed
        /\ Planting => result # None /\ result.code = "planted"
        /\ result # None /\ ~Planting => result.code \in {mode, "deadline"}
        /\ Working /\ job.code \in Codes => job.code \in {mode, "deadline"}
        /\ ~Over /\ at # 0 => Ready

LateInv == result \in Answers \union {None} /\ Punctual

\* Instruction d may follow c in a scenario whose operations answer m: c leaves
\* behind what d needs.
Chained(c, d, m) ==
    /\ c.do = "ops" => c.mode = m
    /\ c.do \in {"ops", "await", "idle", "reset", "clean", "prior", "poll"} =>
           d.do \notin {"retry", "await"}
    /\ c.do = "enqueue" =>
           /\ d.do \notin {"ops", "enqueue", "clean", "idle"}
           /\ d.do = "await" => [id |-> c.id, code |-> m] \in d.want
    /\ c.do = "retry" => d.do = "await" /\ \A n \in Ids : [id |-> n, code |-> m] \in d.want
    /\ c.do \in {"taken", "plant", "fatal", "look"} =>
           d.do \notin {"ops", "enqueue", "clean", "idle", "retry", "await"}

LEMMA Constructors ==
    /\ \A m : Ops(m).do = "ops" /\ Ops(m).mode = m /\ SlowOps(m).do = "ops" /\ SlowOps(m).mode = m
    /\ \A n, else : Enq(n, else).do = "enqueue" /\ Enq(n, else).id = n
    /\ \A n : Retry(n).do = "retry"
    /\ \A ids, codes, else : Await(ids, codes, else).do = "await"
    /\ \A what : Do(what).do = what
BY DEF Ops, SlowOps, Enq, Retry, Await, Do

\* The links the scenarios consist of.
LEMMA Links ==
    ASSUME NEW m \in {"ok", "dns_fail", "ntp_fail"}
    PROVE  /\ \A n, else : Chained(Ops(m), Enq(n, else), m) /\ Chained(SlowOps(m), Enq(n, else), m)
           /\ \A n, else, ids, codes, more :
                  n \in ids /\ m \in codes => Chained(Enq(n, else), Await(ids, codes, more), m)
           /\ \A ids, codes, else, n, more : Chained(Await(ids, codes, else), Enq(n, more), m)
           /\ \A n, else, k : Chained(Enq(n, else), Retry(k), m)
           /\ \A n, else, codes : m \in codes => Chained(Retry(n), Await(Ids, codes, else), m)
           /\ \A n, else : \A what \in {"taken", "reset", "look"} : Chained(Enq(n, else), Do(what), m)
           /\ \A ids, codes, else : Chained(Await(ids, codes, else), Do("idle"), m)
           /\ \A n, else : Chained(Do("idle"), Enq(n, else), m)
           /\ Chained(Do("taken"), Do("plant"), m) /\ Chained(Do("plant"), Do("fatal"), m)
           /\ Chained(Do("fatal"), Do("prior"), m) /\ Chained(Do("reset"), Do("clean"), m)
           /\ Chained(Do("clean"), Ops(m), m) /\ Chained(Do("look"), Do("poll"), m)
<1>1. ASSUME NEW n, NEW else
      PROVE  Chained(Ops(m), Enq(n, else), m) /\ Chained(SlowOps(m), Enq(n, else), m)
    BY Constructors DEF Chained
<1>2. ASSUME NEW n, NEW else, NEW ids, NEW codes, NEW more, n \in ids, m \in codes
      PROVE  Chained(Enq(n, else), Await(ids, codes, more), m)
    <2> DEFINE c == Enq(n, else)
               d == Await(ids, codes, more)
    <2>1. c.do = "enqueue" /\ c.id = n /\ d.do = "await" /\ d.want = [id : ids, code : codes]
        BY DEF Enq, Await
    <2>2. [id |-> c.id, code |-> m] \in d.want
        BY <1>2, <2>1
    <2> HIDE DEF c, d
    <2>3. Chained(c, d, m)
        BY <2>1, <2>2 DEF Chained
    <2> QED BY <2>3 DEF c, d
<1>3. ASSUME NEW ids, NEW codes, NEW else, NEW n, NEW more
      PROVE  Chained(Await(ids, codes, else), Enq(n, more), m)
    BY Constructors DEF Chained
<1>4. ASSUME NEW n, NEW else, NEW k PROVE Chained(Enq(n, else), Retry(k), m)
    BY Constructors DEF Chained
<1>5. ASSUME NEW n, NEW else, NEW codes, m \in codes
      PROVE  Chained(Retry(n), Await(Ids, codes, else), m)
    <2> DEFINE c == Retry(n)
               d == Await(Ids, codes, else)
    <2>1. c.do = "retry" /\ d.do = "await" /\ d.want = [id : Ids, code : codes]
        BY DEF Retry, Await
    <2>2. \A k \in Ids : [id |-> k, code |-> m] \in d.want
        BY <1>5, <2>1
    <2> HIDE DEF c, d
    <2>3. Chained(c, d, m)
        BY <2>1, <2>2 DEF Chained
    <2> QED BY <2>3 DEF c, d
<1>6. ASSUME NEW n, NEW else, NEW what \in {"taken", "reset", "look"}
      PROVE  Chained(Enq(n, else), Do(what), m)
    BY Constructors DEF Chained
<1>7. ASSUME NEW ids, NEW codes, NEW else, NEW n
      PROVE  Chained(Await(ids, codes, else), Do("idle"), m) /\ Chained(Do("idle"), Enq(n, else), m)
    BY Constructors DEF Chained
<1>8. /\ Chained(Do("taken"), Do("plant"), m) /\ Chained(Do("plant"), Do("fatal"), m)
      /\ Chained(Do("fatal"), Do("prior"), m) /\ Chained(Do("reset"), Do("clean"), m)
      /\ Chained(Do("clean"), Ops(m), m) /\ Chained(Do("look"), Do("poll"), m)
    BY Constructors DEF Chained
<1> HIDE DEF Chained
<1> QED BY <1>1, <1>2, <1>3, <1>4, <1>5, <1>6, <1>7, <1>8

LEMMA SustainedIsChained ==
    ASSUME NEW i \in 1 .. Len(Sustained) - 1
    PROVE  Chained(Sustained[i], Sustained[i + 1], "ok")
<1> DEFINE n == 1000 + (i - 1) \div 2
           p == 1000 + (i - 2) \div 2
<1>1. Sustained = <<Ops("ok")>> \o Steps
    BY DEF Sustained, Steps
<1>2. Iterations \in Nat \ {0} /\ Len(Steps) = 2 * Iterations /\ Steps \in Seq(Instructions)
    BY IterationsAssumption, StepsAreInstructions DEF Steps
<1>3. Len(Sustained) = 1 + 2 * Iterations /\ i \in 1 .. 2 * Iterations
    BY <1>1, <1>2
<1>4. Sustained[i + 1] = Steps[i] /\ (i > 1 => Sustained[i] = Steps[i - 1]) /\ Sustained[1] = Ops("ok")
    BY <1>1, <1>2, <1>3
<1>5. CASE i = 1
    <2>1. Steps[1] = Enq(1000, 2)
        BY <1>2 DEF Steps
    <2> QED BY <1>4, <1>5, <2>1, Links
<1>6. CASE i > 1 /\ i % 2 = 1
    <2>1. Steps[i] = Enq(n, 2) /\ Steps[i - 1] = Await({p}, {"ok"}, 1)
        BY <1>2, <1>3, <1>6 DEF Steps
    <2> QED BY <1>4, <1>6, <2>1, Links
<1>7. CASE i > 1 /\ i % 2 = 0
    <2>1. Steps[i] = Await({n}, {"ok"}, 1) /\ Steps[i - 1] = Enq(p, 2)
        BY <1>2, <1>3, <1>7 DEF Steps
    <2>2. n = p
        BY <1>3, <1>7
    <2> QED BY <1>4, <1>7, <2>1, <2>2, Links
<1> QED BY <1>3, <1>5, <1>6, <1>7

LEMMA ScriptStarts == \A s \in 1 .. 9 : Scenarios[s][1].do = "ops"
<1>1. Sustained[1] = Ops("ok")
    BY StepsAreInstructions DEF Sustained, Steps
<1>2. ASSUME NEW s \in 1 .. 9 PROVE \E m : Scenarios[s][1] = Ops(m) \/ Scenarios[s][1] = SlowOps(m)
    BY <1>1 DEF Scenarios
<1> QED BY <1>2, Constructors

LEMMA ScriptChained ==
    ASSUME NEW s \in 1 .. 9, NEW i \in 1 .. Len(Scenarios[s]) - 1
    PROVE  Chained(Scenarios[s][i], Scenarios[s][i + 1], ModeOf(s))
<1>1. ModeOf(s) \in {"ok", "dns_fail", "ntp_fail"}
    BY DEF ModeOf
<1>2. CASE s \in {1, 2, 3, 5}
    <2>1. ASSUME NEW m \in {"ok", "dns_fail", "ntp_fail"}, NEW n \in Ids, NEW ids, NEW codes,
                 n \in ids, m \in codes, m = ModeOf(s),
                 Scenarios[s] = <<Ops(m), Enq(n, GiveUp), Await(ids, codes, GiveUp)>>
          PROVE  Chained(Scenarios[s][i], Scenarios[s][i + 1], m)
        <3>1. i \in {1, 2}
            BY <2>1
        <3> QED BY <2>1, <3>1, Links
    <2>2. /\ Scenarios[1] = <<Ops("ok"), Enq(1, GiveUp), Await({1}, {"ok"}, GiveUp)>>
          /\ Scenarios[2] = <<Ops("dns_fail"), Enq(2, GiveUp), Await(Ids, {"dns_fail"}, GiveUp)>>
          /\ Scenarios[3] = <<Ops("ntp_fail"), Enq(3, GiveUp), Await(Ids, {"ntp_fail"}, GiveUp)>>
          /\ Scenarios[5] = <<Ops("ok"), Enq(4, GiveUp), Await(Ids, Codes, GiveUp)>>
        BY DEF Scenarios
    <2>3. {1, 2, 3, 4} \subseteq Ids /\ "ok" \in Codes
        BY IdsAssumption DEF Codes
    <2> QED BY <1>2, <2>1, <2>2, <2>3 DEF ModeOf
<1>3. CASE s = 4
    <2>1. Scenarios[4] = <<SlowOps("ok"), Enq(91, GiveUp), Do("taken"), Do("plant"),
                           Do("fatal"), Do("prior")>>
        BY DEF Scenarios
    <2>2. i \in {1, 2, 3, 4, 5}
        BY <1>3, <2>1
    <2> QED BY <1>3, <2>1, <2>2, Links DEF ModeOf
<1>4. CASE s = 6
    <2>1. Scenarios[6] = <<Ops("ok"), Enq(5, GiveUp), Retry(6), Await(Ids, Codes, GiveUp),
                           Do("idle"), Enq(7, 1), Await({7}, Codes, GiveUp)>>
        BY DEF Scenarios
    <2>2. i \in {1, 2, 3, 4, 5, 6} /\ "ok" \in Codes /\ 7 \in {7}
        BY <1>4, <2>1 DEF Codes
    <2> QED BY <1>4, <2>1, <2>2, Links DEF ModeOf
<1>5. CASE s = 7
    <2>1. Scenarios[7] = <<SlowOps("ok"), Enq(8, GiveUp), Do("reset"), Do("clean"),
                           Ops("ok"), Enq(9, 1), Await({9}, Codes, GiveUp)>>
        BY DEF Scenarios
    <2>2. i \in {1, 2, 3, 4, 5, 6} /\ "ok" \in Codes /\ 9 \in {9}
        BY <1>5, <2>1 DEF Codes
    <2> QED BY <1>5, <2>1, <2>2, Links DEF ModeOf
<1>6. CASE s = 8
    <2>1. Scenarios[8] = <<SlowOps("ok"), Enq(10, GiveUp), Do("look"), Do("poll")>>
        BY DEF Scenarios
    <2>2. i \in {1, 2, 3}
        BY <1>6, <2>1
    <2> QED BY <1>6, <2>1, <2>2, Links DEF ModeOf
<1>7. CASE s = 9
    <2>1. Scenarios[9] = Sustained
        BY DEF Scenarios
    <2> QED BY <1>7, <2>1, SustainedIsChained DEF ModeOf
<1> QED BY <1>2, <1>3, <1>4, <1>5, <1>6, <1>7

-----------------------------------------------------------------------------
(* A step that goes right leaves the script ready for the next one. *)

LEMMA NextLink ==
    ASSUME ScriptInv, ~Over, at # 0, Forward(1)
    PROVE  /\ scenario' = scenario
           /\ Planting' => Planting \/ Instr.do = "plant"
           /\ Planting => Planting' \/ Instr.do = "prior"
           /\ ~Over' /\ at' # 0 => Chained(Instr, Instr', ModeOf(scenario))
<1>1. scenario \in 1 .. 9 /\ at \in 1 .. Len(Scenarios[scenario]) /\ scenario' = scenario
    BY DEF ScriptInv, Over, Scenarios, Forward
<1>2. Len(Scenarios[scenario]) \in Nat
    BY <1>1, Scenario4, OtherScenarios
<1>3. ~Over' /\ at' # 0 => Chained(Instr, Instr', ModeOf(scenario))
    <2> SUFFICES ASSUME at' # 0 PROVE Chained(Instr, Instr', ModeOf(scenario))
        OBVIOUS
    <2>1. at' = at + 1 /\ at \in 1 .. Len(Scenarios[scenario]) - 1
        BY <1>1, <1>2 DEF Forward
    <2>2. Instr' = Scenarios[scenario][at + 1]
        BY <1>1, <2>1 DEF Instr, Scenarios
    <2> QED BY <1>1, <2>1, <2>2, ScriptChained DEF Instr
<1>4. Planting' => Planting \/ Instr.do = "plant"
    BY <1>1, Scenario4 DEF Planting, Forward, Instr
<1>5. Planting => Planting' \/ Instr.do = "prior"
    BY <1>1, Scenario4 DEF Planting, Forward, Instr
<1> QED BY <1>1, <1>3, <1>4, <1>5

\* The steps that leave the mailbox free.
LEMMA OnceFree ==
    ASSUME SuiteInv, SuiteInv', ~Over, at # 0, Forward(1), Free', ~failed',
           Instr.do \in {"ops", "await", "idle", "reset", "clean", "prior", "poll"},
           ~Over' /\ at' # 0 => mode' = ModeOf(scenario)
    PROVE  Punctual'
<1>1. ~Planting'
    <2>1. Planting => Instr.do = "prior"
        BY Scenario4 DEF Planting, Instr
    <2>2. CASE Planting
        <3>1. at = 6 /\ scenario = 4
            BY <2>1, <2>2, Scenario4 DEF Planting, Instr
        <3> QED BY <3>1, Scenario4 DEF Forward, Planting
    <2>3. CASE ~Planting
        BY <2>3, NextLink DEF SuiteInv
    <2> QED BY <2>2, <2>3
<1>2. result' = None /\ ~Working'
    BY DEF SuiteInv, SlotInv, Free
<1>3. ~Over' /\ at' # 0 => Ready'
    BY NextLink DEF SuiteInv, Chained, Ready
<1> QED BY <1>1, <1>2, <1>3 DEF Punctual

\* The steps that only look.
LEMMA OnceSeen ==
    ASSUME SuiteInv, Punctual, ~late, ~Over, at # 0, Forward(1),
           Instr.do \in {"retry", "taken", "fatal", "look"},
           UNCHANGED <<mailbox, epoch, mode, job, last, failed>>
    PROVE  Punctual'
<1>1. (Working' <=> Working) /\ UNCHANGED <<command, result, idle, mode, job, last, failed>>
    BY DEF Working, mailbox
<1>2. Planting' <=> Planting
    BY NextLink DEF SuiteInv
<1>3. ~Over' /\ at' # 0 => Ready'
    BY <1>1, NextLink DEF SuiteInv, Chained, Ready, Punctual, Free
<1> QED BY <1>1, <1>2, <1>3 DEF Punctual

LEMMA MainPunctual == ASSUME SuiteInv, SuiteInv', LateInv, Main PROVE LateInv'
<1>0. result' \in Answers \union {None}
    <2>1. 90 \in Ids /\ "planted" \in Codes
        BY IdsAssumption DEF Codes
    <2>2. [id |-> 90, code |-> "planted"] \in Answers
        BY <2>1 DEF Answers
    <2> QED BY <2>2 DEF LateInv, Main, SetOps, EnqueueCommand, RetryCommand, AwaitAnswer, AwaitExpires,
               WaitEnds, WaitExpires, Plant, CheckPrior, SoftResetBusy, Poll, PollExpires, Drain,
               Settled, SettleExpires, mailbox, Enqueue, TakeResult, Reset, SoftReset, Occupy
<1> SUFFICES ASSUME ~late' PROVE Punctual'
    BY <1>0 DEF LateInv, Punctual
<1>1. ASSUME Settled \/ SettleExpires PROVE Punctual'
    <2>0. ~Over /\ NextScenario
        BY <1>1 DEF Settled, SettleExpires
    <2>1. scenario' = scenario + 1 /\ at' = 1 /\ ~failed' /\ Free' /\ result' = None /\ scenario \in 1 .. 9
        <3>1. scenario' = scenario + 1 /\ at' = 1 /\ ~failed'
            BY <2>0 DEF NextScenario
        <3>2. idle' /\ result' = None
            BY <1>1 DEF Settled, SettleExpires, mailbox, Reset, SoftReset
        <3>3. scenario \in 1 .. 9
            BY <2>0 DEF SuiteInv, ScriptInv, Over, Scenarios
        <3> QED BY <3>1, <3>2, <3>3 DEF Free
    <2>2. ~Working' /\ ~Planting'
        <3>1. idle' /\ at' = 1
            BY <2>1 DEF Free
        <3> QED BY <3>1 DEF SuiteInv, SlotInv, Planting
    <2>3. ~Over' => Instr'.do = "ops"
        <3> SUFFICES ASSUME ~Over' PROVE Instr'.do = "ops"
            OBVIOUS
        <3>1. scenario' \in 1 .. 9
            BY <2>1 DEF Over, Scenarios
        <3>2. Instr' = Scenarios[scenario'][1]
            BY <2>1 DEF Instr, Scenarios
        <3> QED BY <3>1, <3>2, ScriptStarts
    <2> QED BY <2>1, <2>2, <2>3 DEF Punctual, Ready
<1>2. ASSUME Drain PROVE Punctual'
    <2>1. at = 0 /\ at' = 0 /\ result' = None /\ UNCHANGED <<job, epoch, mode, failed, late>>
        BY <1>2 DEF Drain, TakeResult, stubs, worker, script, observed
    <2>2. (Working' <=> Working) /\ ~Planting'
        BY <2>1 DEF Working, Planting
    <2> QED BY <2>1, <2>2 DEF LateInv, Punctual
<1>3. ASSUME Main, ~(Settled \/ SettleExpires \/ Drain) PROVE Punctual'
    <2>1. ~Over /\ at # 0 /\ ~late
        <3> SUFFICES ~Over /\ at # 0 /\ (late => late')
            OBVIOUS
        <3>1. CASE SetOps \/ CheckPrior \/ SoftResetBusy
            BY <3>1 DEF SetOps, CheckPrior, SoftResetBusy, Doing, observed
        <3>2. CASE EnqueueCommand \/ RetryCommand
            BY <3>2 DEF EnqueueCommand, RetryCommand, Doing
        <3>3. CASE AwaitAnswer \/ AwaitExpires
            BY <3>3 DEF AwaitAnswer, AwaitExpires, Doing
        <3>4. CASE WaitEnds
            BY <3>4 DEF WaitEnds, Reached, Doing, observed
        <3>5. CASE WaitExpires \/ PollExpires
            BY <3>5 DEF WaitExpires, PollExpires, Doing
        <3>6. CASE Plant
            <4>1. ~Over /\ at # 0
                BY <3>6 DEF Plant, Doing
            <4>2. CASE UNCHANGED <<epoch, busy, late>>
                BY <4>1, <4>2
            <4>3. CASE late' = (late \/ result.id = last)
                BY <4>1, <4>3
            <4> QED BY <3>6, <4>2, <4>3 DEF Plant
        <3>7. CASE Poll
            BY <3>7 DEF Poll, Doing
        <3> QED BY <1>3, <3>1, <3>2, <3>3, <3>4, <3>5, <3>6, <3>7 DEF Main
    <2>2. ~failed /\ Ready /\ Punctual /\ (Planting => result # None /\ result.code = "planted")
        BY <2>1 DEF LateInv, Punctual
    <2>3. ModeOf(scenario) \in {"ok", "dns_fail", "ntp_fail"}
        BY DEF ModeOf
    <2>4. CASE SetOps
        <3>1. Forward(1) /\ Instr.do = "ops" /\ mode' = Instr.mode /\ ~failed' /\ Free'
            BY <1>3, <2>2, <2>4 DEF SetOps, Doing, Instr, Right, Ready, Free, mailbox
        <3>2. ~Over' /\ at' # 0 => mode' = ModeOf(scenario)
            BY <2>1, <3>1, NextLink DEF SuiteInv, Chained
        <3> QED BY <2>1, <3>1, <3>2, OnceFree
    <2>5. CASE EnqueueCommand
        <3>1. Instr.do = "enqueue" /\ Free /\ Accepts
            BY <2>2, <2>5 DEF EnqueueCommand, Doing, Instr, Ready, Free, Accepts, SuiteInv, SlotInv
        <3>2. /\ Forward(1) /\ ~idle' /\ result' = None /\ last' = Instr.id /\ ~failed'
              /\ UNCHANGED <<job, epoch, mode>>
            BY <2>2, <2>5, <3>1 DEF EnqueueCommand, Right, Enqueue, Accepts, stubs, worker
        <3>3. ~Working' /\ ~Planting'
            <4>1. ~Working /\ ~Planting
                BY <2>2, <3>1 DEF SuiteInv, SlotInv, Free
            <4> QED BY <2>1, <3>1, <3>2, <4>1, NextLink DEF Working, SuiteInv
        <3>4. Instr.id \in Ids
            BY <2>1, <3>1, NextInstruction DEF SuiteInv, Shaped
        <3>5. ~Over' /\ at' # 0 => Ready'
            BY <2>1, <2>2, <3>1, <3>2, <3>4, NextLink DEF SuiteInv, Chained, Ready, Free
        <3> QED BY <3>2, <3>3, <3>5 DEF Punctual
    <2>6. CASE RetryCommand
        <3>1. Instr.do = "retry" /\ ~Accepts
            BY <2>2, <2>6 DEF RetryCommand, Doing, Instr, Ready, Free, Accepts
        <3> QED BY <2>1, <2>2, <2>6, <3>1, OnceSeen
                DEF RetryCommand, Right, mailbox, stubs, worker
    <2>7. CASE AwaitAnswer
        <3>1. Instr.do = "await" /\ result # None /\ result \in Answers /\ result.code # "deadline"
            BY <1>3, <2>1, <2>7 DEF AwaitAnswer, Doing, Instr, TakeResult, LateInv
        <3>2. ~Planting
            BY <2>1, <3>1, Unplanted
        <3>3. result.code = ModeOf(scenario) /\ mode = ModeOf(scenario)
            BY <2>1, <2>2, <3>1, <3>2 DEF Ready, Punctual
        <3>4. result.id = last /\ idle
            BY <2>3, <3>1, <3>2, <3>3 DEF SuiteInv, SlotInv
        <3>5. result = [id |-> last, code |-> ModeOf(scenario)]
            BY <3>1, <3>3, <3>4 DEF Answers
        <3>6. result \in Instr.want
            BY <2>2, <3>1, <3>5 DEF Ready
        <3>7. Forward(1) /\ ~failed' /\ Free' /\ mode' = ModeOf(scenario)
            BY <2>2, <2>7, <3>3, <3>4, <3>6 DEF AwaitAnswer, Right, TakeResult, Free, stubs
        <3> QED BY <2>1, <3>1, <3>7, OnceFree
    <2>8. CASE AwaitExpires \/ WaitExpires \/ PollExpires
        BY <1>3, <2>8 DEF AwaitExpires, WaitExpires, PollExpires
    <2>9. CASE WaitEnds
        <3>1. Forward(1) /\ UNCHANGED <<mailbox, epoch, mode, job, last, failed>>
            BY <2>9 DEF WaitEnds, Right, stubs, worker, observed
        <3>2. CASE Instr.do \in {"taken", "fatal"}
            BY <2>1, <2>2, <3>1, <3>2, OnceSeen
        <3>3. CASE Instr.do \in {"clean", "idle"}
            <4>1. Free' /\ ~failed' /\ mode' = ModeOf(scenario)
                BY <2>2, <3>1, <3>3 DEF Ready, Free, mailbox
            <4> QED BY <2>1, <3>1, <3>3, <4>1, OnceFree
        <3> QED BY <2>9, <3>2, <3>3 DEF WaitEnds, Reached, Doing, Instr
    <2>10. CASE Plant
        <3>1. Instr.do = "plant" /\ ~Planting /\ scenario = 4 /\ at = 4
            BY <2>1, <2>10, NextInstruction, Unplanted DEF Plant, Doing, Instr, SuiteInv
        <3>2. ~Saturated
            <4> SUFFICES ASSUME Saturated PROVE FALSE
                OBVIOUS
            <4>1. late' = (late \/ result.id = last)
                BY <2>10 DEF Plant, Occupy
            <4>2. result.code \in {mode, "deadline"} /\ mode = ModeOf(scenario)
                BY <2>1, <2>2, <3>1 DEF Punctual, Saturated, Ready
            <4>3. result.id = last
                BY <2>3, <4>2 DEF SuiteInv, SlotInv, Saturated
            <4> QED BY <4>1, <4>3
        <3>3. /\ result' = [id |-> 90, code |-> "planted"] /\ Forward(1) /\ ~failed'
              /\ UNCHANGED <<command, idle, epoch, mode, job, last>>
            BY <2>2, <2>10, <3>2 DEF Plant, Occupy, Right, worker
        <3>4. result' # None /\ result'.code = "planted"
            <4>1. [id |-> 90, code |-> "planted"] \in Answers
                BY IdsAssumption DEF Answers, Codes
            <4> QED BY <3>3, <4>1, IdsAssumption
        <3>5. Planting' /\ (Working' <=> Working)
            BY <3>1, <3>3, Scenario4 DEF Forward, Planting, Working
        <3>6. ~Over' /\ at' # 0 => Ready'
            BY <2>1, <2>2, <3>1, <3>3, NextLink DEF SuiteInv, Chained, Ready
        <3> QED BY <2>1, <2>2, <3>3, <3>4, <3>5, <3>6 DEF Punctual
    <2>11. CASE CheckPrior
        <3>1. Instr.do = "prior" /\ Planting
            BY <2>1, <2>11, NextInstruction DEF CheckPrior, Doing, Instr, SuiteInv
        <3>2. Forward(1) /\ ~failed' /\ Free' /\ mode' = ModeOf(scenario)
            BY <2>2, <2>11, <3>1 DEF CheckPrior, Right, Reset, SoftReset, Free, Ready
        <3> QED BY <2>1, <3>1, <3>2, OnceFree
    <2>12. CASE SoftResetBusy
        <3>1. Instr.do = "reset" /\ Forward(1) /\ ~failed' /\ Free' /\ mode' = ModeOf(scenario)
            BY <2>2, <2>12 DEF SoftResetBusy, Doing, Instr, Right, Reset, SoftReset, Free, Ready, stubs
        <3> QED BY <2>1, <3>1, OnceFree
    <2>13. CASE Poll
        <3>1. CASE Instr.do = "look"
            <4>1. Forward(1) /\ UNCHANGED <<mailbox, epoch, mode, job, last, failed>>
                BY <1>3, <2>13, <3>1 DEF Poll, Doing, Instr, Right, worker
            <4> QED BY <2>1, <2>2, <3>1, <4>1, OnceSeen
        <3>2. CASE Instr.do = "poll"
            <4>1. ~Planting /\ Forward(1) /\ TakeResult /\ ~failed' /\ mode' = mode
                BY <2>1, <2>2, <2>13, <3>2, Unplanted DEF Poll, Doing, Instr, Right
            <4>2. Free' /\ mode' = ModeOf(scenario)
                BY <2>2, <3>2, <4>1 DEF TakeResult, SuiteInv, SlotInv, Free, Ready
            <4> QED BY <2>1, <3>2, <4>1, <4>2, OnceFree
        <3> QED BY <2>13, <3>1, <3>2 DEF Poll, Doing, Instr
    <2> QED BY <1>3, <2>4, <2>5, <2>6, <2>7, <2>8, <2>9, <2>10, <2>11, <2>12, <2>13 DEF Main
<1> QED BY <1>1, <1>2, <1>3

LEMMA WorkPunctual == ASSUME SuiteInv, SuiteInv', LateInv, Work PROVE LateInv'
<1>0. /\ UNCHANGED <<mode, scenario, at, failed, late, last, epoch>>
      /\ Instr' = Instr /\ (Over' <=> Over) /\ (Planting' <=> Planting)
    BY DEF Work, Take, Begin, Finish, PublishAnswer, stubs, script, observed, Instr, Over, Planting
<1>1. ASSUME result' = result, Free' <=> Free,
             ~late => (Working' /\ job'.code \in Codes => job'.code \in {mode, "deadline"})
      PROVE  LateInv'
    <2>1. ~late /\ ~Over /\ at # 0 /\ Ready => Ready'
        BY <1>0, <1>1 DEF Ready
    <2> QED BY <1>0, <1>1, <2>1 DEF LateInv, Punctual
<1>2. "begun" \notin Codes /\ "busy" \notin Codes /\ "working" \notin Codes
    BY DEF Codes
<1>3. CASE Take
    <2>1. result' = result /\ (Free' <=> Free) /\ job' = [id |-> command, epoch |-> epoch, code |-> "begun"]
        BY <1>3 DEF Take, TakeCommand, Free
    <2>2. job'.code \notin Codes
        BY <1>2, <2>1
    <2> QED BY <1>1, <2>1, <2>2
<1>4. ASSUME job \in Jobs, NEW code, job' = [job EXCEPT !.code = code], UNCHANGED mailbox,
             code \notin Codes \/ code \in {mode, "deadline"}
      PROVE  LateInv'
    <2>1. job'.code = code /\ result' = result /\ (Free' <=> Free)
        BY <1>4 DEF Jobs, mailbox, Free
    <2> QED BY <1>1, <1>4, <2>1
<1>5. CASE Begin
    <2>1. job \in Jobs
        BY <1>5 DEF Begin, SuiteInv, JobInv
    <2>2. PICK code \in {"busy", "working"} : job' = [job EXCEPT !.code = code]
        BY <1>5 DEF Begin
    <2> QED BY <1>2, <1>4, <1>5, <2>1, <2>2 DEF Begin
<1>6. CASE Finish
    <2>1. job \in Jobs
        BY <1>6 DEF Finish, SuiteInv, JobInv
    <2>2. PICK code \in {mode, "deadline"} : job' = [job EXCEPT !.code = code]
        BY <1>6 DEF Finish
    <2> QED BY <1>4, <1>6, <2>1, <2>2 DEF Finish
<1>7. CASE PublishAnswer
    <2>1. job \in Jobs /\ job.code \in Codes /\ job' = None /\ ~Working'
        BY <1>7 DEF PublishAnswer, Answered, SuiteInv, JobInv, Working
    <2>2. CASE Orphaned \/ Saturated
        <3>1. UNCHANGED mailbox
            BY <1>7, <2>2 DEF PublishAnswer
        <3> QED BY <1>1, <2>1, <3>1 DEF mailbox, Free
    <2>3. CASE ~Orphaned /\ ~Saturated
        <3>1. result' = [id |-> job.id, code |-> job.code] /\ result = None
            BY <1>7, <2>3 DEF PublishAnswer, Publish, Saturated
        <3>2. result' \in Answers /\ result'.code = job.code
            BY <2>1, <3>1 DEF Answers, Jobs
        <3>3. result' # None /\ Working /\ ~Free /\ ~Free'
            <4>1. Working /\ None \notin Answers
                BY <2>1, <1>7, <2>3, IdsAssumption DEF Working, Orphaned, PublishAnswer, Answered
            <4> QED BY <3>2, <4>1 DEF Free, SuiteInv, SlotInv
        <3>4. ~late => ~Planting /\ job.code \in {mode, "deadline"}
            BY <2>1, <3>1, <3>3 DEF LateInv, Punctual
        <3>5. ~late /\ ~Over /\ at # 0 /\ Ready => Ready'
            BY <1>0, <3>3 DEF Ready
        <3> QED BY <1>0, <2>1, <3>2, <3>3, <3>4, <3>5 DEF LateInv, Punctual
    <2> QED BY <2>2, <2>3
<1> QED BY <1>3, <1>5, <1>6, <1>7 DEF Work

\* A scenario is marked FAIL only for something that was late or too early: what
\* an earlier scenario left behind, or the moment the worker takes, finishes or
\* publishes, makes none fail, in any interleaving and for every length of the
\* sustained scenario.
THEOREM FailsOnlyLateAlways == SuiteSpec => []FailsOnlyLate
<1>1. SuiteInit => LateInv
    <2> SUFFICES ASSUME SuiteInit PROVE LateInv
        OBVIOUS
    <2>1. Free /\ ~failed /\ result = None /\ job = None /\ scenario = 1 /\ at = 1
        BY DEF SuiteInit, MailboxInit, Free
    <2>2. Instr.do = "ops"
        BY <2>1, ScriptStarts DEF Instr
    <2> QED BY <2>1, <2>2 DEF LateInv, Punctual, Ready, Working, Planting
<1>2. SuiteInv /\ SuiteInv' /\ LateInv /\ [SuiteNext]_suiteVars => LateInv'
    <2> SUFFICES ASSUME SuiteInv, SuiteInv', LateInv, [SuiteNext]_suiteVars PROVE LateInv'
        OBVIOUS
    <2>1. CASE UNCHANGED suiteVars
        <3>1. UNCHANGED <<result, idle, epoch, mode, job, scenario, at, last, failed, late>>
            BY <2>1 DEF suiteVars, mailbox, stubs, worker, script, observed
        <3>2. /\ (Working' <=> Working) /\ (Planting' <=> Planting) /\ (Over' <=> Over)
              /\ Instr' = Instr /\ (Free' <=> Free)
            BY <3>1 DEF Working, Planting, Over, Instr, Free
        <3> QED BY <3>1, <3>2 DEF LateInv, Punctual, Ready
    <2> QED BY <2>1, MainPunctual, WorkPunctual DEF SuiteNext, KeepAlive
<1>3. LateInv => FailsOnlyLate
    BY DEF LateInv, Punctual, FailsOnlyLate
<1> QED BY <1>1, <1>2, <1>3, SuiteInvariant, PTL DEF SuiteSpec
=============================================================================
