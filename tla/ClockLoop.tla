----------------------------- MODULE ClockLoop -----------------------------
(***************************************************************************)
(* The loop of src/src/device/clock_mode.py: a coordinator tick, then an   *)
(* App step, forever.  Of App (src/src/app.py) this module has the part    *)
(* that talks to the network: it consumes the sync result, asks for the    *)
(* next synchronization and drains the network events, in that order.      *)
(***************************************************************************)
EXTENDS NetworkCoordinator

CONSTANTS
    Retry,        \* NTP_RETRY_MS
    EventLimit    \* bound: an App step is not lost with this many events waiting

ASSUME LoopAssumption ==
    Retry \in Nat \ {0} /\ Ids = {0, 1} /\ EventLimit \in Nat

VARIABLES
    turn,          \* what the loop does next
    next_id,       \* _next_command_id; at most one id is in use, so they are counted modulo 2
    inflight,      \* _inflight_id
    retry,         \* time left to retry_deadline
    sync_enabled,  \* _sync_enabled
    trust,         \* state.trust
    overlay,       \* _overlay_kind: "setup", or "none" for the station's address or nothing
    age            \* observer: time since the exchange that filled the result slot ended, or 0

app == <<next_id, inflight, retry, sync_enabled, trust, overlay>>
vars == <<mailbox, coordinator, turn, app, age>>

----------------------------------------------------------------------------

\* A tick that raises takes the App step of that pass with it.
CoordinatorTurn ==
    /\ turn = "tick"
    /\ \/ tick /\ turn' = "consume"
       \/ TickRaises /\ Len(events) < EventLimit /\ turn' = "tick"
    /\ age' = IF result = None /\ result' # None THEN 0 ELSE age
    /\ UNCHANGED app

\* Mutant of Applies: the deadline of the request is not checked.
AppliesLate == inflight # None /\ result.id = inflight

\* _should_apply_result
Applies == inflight # None /\ result.id = inflight /\ left > 0

\* _consume_sync_result: only an answer to the request in flight, in time, is
\* used; anything else means the time source failed.
Consume ==
    /\ turn = "consume"
    /\ turn' = "enqueue"
    /\ IF result = None THEN UNCHANGED <<mailbox, left, inflight, retry, trust, age>>
       ELSE /\ TakeResult
            /\ inflight' = None
            /\ retry' = Retry
            /\ trust' = IF Applies /\ result.ok THEN "synced" ELSE "unsynced"
            /\ left' = 0 /\ age' = 0
    /\ UNCHANGED <<online, failures, setup, sync, fatal, told, next_id, sync_enabled,
                   overlay>>

\* _maybe_enqueue_sync: a rejected request stays due.
MaybeEnqueue ==
    /\ turn = "enqueue"
    /\ turn' = "drain"
    /\ IF retry > 0 \/ (sync_enabled /\ ~Accepts)
       THEN UNCHANGED <<mailbox, left, next_id, inflight, retry>>
       ELSE /\ retry' = Retry
            /\ IF sync_enabled
               THEN /\ Enqueue(next_id)
                    /\ next_id' = 1 - next_id
                    /\ inflight' = next_id
                    /\ left' = Deadline
               ELSE UNCHANGED <<mailbox, left, next_id, inflight>>
    /\ UNCHANGED <<online, failures, setup, sync, fatal, told, sync_enabled, trust,
                   overlay, age>>

\* What _apply_network_event leaves when the queue ends with this event: of the
\* effects of the earlier ones only that an "online" makes a request due stays.
Applied(last) ==
    /\ sync_enabled' = (last = "online")
    /\ retry' = IF \E i \in DOMAIN events : events[i] = "online" THEN 0 ELSE retry
    /\ overlay' = IF last = "setup" THEN "setup" ELSE "none"

\* Mutant of Drain: pop() for pop(0), the events are applied newest first.
DrainNewestFirst ==
    /\ turn = "drain"
    /\ turn' = "tick"
    /\ events' = <<>>
    /\ IF events = <<>> THEN UNCHANGED <<sync_enabled, retry, overlay>>
       ELSE Applied(events[1])
    /\ UNCHANGED <<mailbox, online, failures, setup, sync, fatal, left, astray,
                   next_id, inflight, trust, age>>

\* _drain_network_events: all that is queued, in order.
Drain ==
    /\ turn = "drain"
    /\ turn' = "tick"
    /\ events' = <<>>
    /\ IF events = <<>> THEN UNCHANGED <<sync_enabled, retry, overlay>>
       ELSE Applied(events[Len(events)])
    /\ UNCHANGED <<mailbox, online, failures, setup, sync, fatal, left, astray,
                   next_id, inflight, trust, age>>

\* The step fails before it reaches the mailbox, in _poll_touch; loop() goes on.
StepAborted ==
    /\ turn = "consume"
    /\ Len(events) < EventLimit
    /\ turn' = "tick"
    /\ UNCHANGED <<mailbox, coordinator, app, age>>

\* Each half of the loop reads the time once, when it starts.
Down(n) == IF n = 0 THEN 0 ELSE n - 1

Time ==
    /\ turn \in {"tick", "consume"}
    /\ timer' = Down(timer) /\ left' = Down(left) /\ retry' = Down(retry)
    /\ age' = IF result = None \/ age = Deadline THEN age ELSE age + 1
    /\ UNCHANGED <<mailbox, mode, wlan, armed, started, failures, streak, setup, sync,
                   fatal, told, turn, next_id, inflight, sync_enabled, trust, overlay>>

Radio ==
    /\ turn = "tick"
    /\ LinkUp \/ LinkDown
    /\ UNCHANGED <<mailbox, mode, station, failures, streak, setup, sync, fatal, left,
                   told, turn, app, age>>

Init ==
    /\ CoordinatorInit
    /\ turn = "tick"
    /\ next_id = 1 /\ inflight = None
    /\ retry = 0 /\ sync_enabled = FALSE
    /\ trust = "unsynced" /\ overlay = "none"
    /\ age = 0

Loop == CoordinatorTurn \/ Consume \/ MaybeEnqueue \/ Drain

Next == Loop \/ StepAborted \/ Time \/ Radio

\* The loop goes round, not every step is aborted, and time passes meanwhile.
Fairness == WF_vars(Loop) /\ SF_vars(Consume) /\ SF_vars(Time)

Spec == Init /\ [][Next]_vars /\ Fairness

----------------------------------------------------------------------------
(* Properties. *)

TypeOK ==
    /\ MailboxTypeOK /\ CoordinatorTypeOK
    /\ turn \in {"tick", "consume", "enqueue", "drain"}
    /\ next_id \in Ids /\ inflight \in Ids \union {None}
    /\ retry \in 0..Retry /\ sync_enabled \in BOOLEAN
    /\ trust \in {"synced", "unsynced"} /\ overlay \in {"none", "setup"}
    /\ age \in 0..Deadline

\* OneRequest: the request App waits for is in exactly one place: waiting,
\* being worked on, or answered; App waits for nothing else, and no result is
\* ever published over another one.
OneRequest ==
    /\ ~fatal
    /\ idle <=> command = None /\ taken = None
    /\ command # None => taken = None /\ result = None /\ command = inflight
    /\ taken # None => result = None /\ taken = inflight
    /\ result # None => result.id = inflight
    /\ inflight # None => command # None \/ taken # None \/ result # None

\* FreshClock: the clock is never set from an answer that is as old as the
\* deadline of its request, however long the loop takes between two steps.
FreshClock ==
    [][result # None /\ turn = "consume" /\ turn' = "enqueue" /\ trust' = "synced"
          => age < Deadline]_vars

\* SetupOnScreen: once its events are drained, App shows the set-up screen and
\* asks for no synchronization exactly while the setup access point is up, unless
\* the last way online went astray: App could not be told of it, or the access
\* point outlived it.  The next change App is told of puts that right.
SetupOnScreen ==
    turn = "tick" /\ events = <<>> /\ ~astray =>
        (apActive <=> overlay = "setup") /\ (apActive => ~sync_enabled)

\* OnlineIsStored: while the station is online it is so on the network a
\* restart would join: a set-up is announced only after it is stored.
OnlineIsStored == mode = "STATION_ONLINE" => stored # None /\ joining = stored

\* StationResolves: joining the stored network ends online or, after
\* FailureLimit failures, with the setup access point.
StationResolves ==
    (mode = "STATION_CONNECTING" /\ candidate = None) ~> (mode # "STATION_CONNECTING")

\* RequestEnds: a request is answered unless the station does not stay online.
RequestEnds ==
    (inflight # None /\ mode = "STATION_ONLINE") ~> (inflight = None \/ mode # "STATION_ONLINE")
=============================================================================
