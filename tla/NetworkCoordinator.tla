------------------------- MODULE NetworkCoordinator -------------------------
(***************************************************************************)
(* src/src/device/network/coordinator.py as clock mode runs it: it owns    *)
(* the station and the setup access point and answers the mailbox's        *)
(* commands with NTP exchanges.  tick() does one unit of work per call.    *)
(*                                                                         *)
(* The administration site of config mode (station_web) and the retries of *)
(* its listener are left out; a browser's Connect request may reach the    *)
(* setup site at any tick and is answered before the join, so no client is *)
(* held during it.  Events App ignores are not recorded.                   *)
(***************************************************************************)
EXTENDS Mailbox, Sequences

CONSTANTS
    Networks,       \* networks a station can join
    Deadline,       \* SYNC_COMMAND_DEADLINE_MS, in units of Time
    Gap,            \* STATION_RECONNECT_GAP_MS
    FailureLimit,   \* STATION_FAILURE_LIMIT
    StreakLimit,    \* STATION_ONLINE_SYNC_FAILURE_STREAK_LIMIT
    KdfSteps        \* steps of the setup KDF job

ASSUME CoordinatorAssumption ==
    /\ Deadline \in Nat \ {0} /\ Gap \in Nat \ {0}
    /\ FailureLimit \in Nat \ {0} /\ StreakLimit \in Nat \ {0}
    /\ KdfSteps \in Nat \ {0}
    /\ Networks # {} /\ None \notin Networks /\ None \notin Nat
    /\ None \notin Ids /\ None \notin Results

VARIABLES
    mode,        \* "SETUP_AP", "STATION_CONNECTING" or "STATION_ONLINE"
    joining,     \* the network wlan.connect() was last called for, None after disconnect()
    link,        \* what wlan.isconnected() says
    armed,       \* _station_attempt_armed
    started,     \* _candidate_started while there is a candidate, or else _station_started
    timer,       \* time left to _candidate_deadline, or else to _station_next_attempt or _station_deadline
    failures,    \* _station_failure_count
    streak,      \* _online_sync_fail_streak
    candidate,   \* the network of the setup candidate, or None
    kdf,         \* steps the setup KDF job has left, None without a job
    stored,      \* the network of the settings, None while unconfigured
    apActive,    \* _setup_ap_active: the setup AP is up and was told to be
    taken,       \* id of _command, or None
    exchange,    \* _state: "idle", "wifi", "start_ntp" or "recv_ntp"
    left,        \* time left to deadline_ms of the command App waits for, or 0
    fatal,       \* the mailbox was saturated
    events,      \* NetworkEvents App has not drained
    astray       \* observer: App was not told that the setup AP goes down, or it did not go down

station == <<armed, started, timer>>
wlan == <<joining, link>>
setup == <<candidate, kdf, stored, apActive>>
sync == <<taken, exchange>>
told == <<events, astray>>
online == <<mode, wlan, station, streak>>
coordinator == <<online, failures, setup, sync, fatal, left, told>>

Modes == {"SETUP_AP", "STATION_CONNECTING", "STATION_ONLINE"}
Events == {"setup", "online"}

TimerMax == IF Deadline > Gap THEN Deadline ELSE Gap

CoordinatorInit ==
    /\ MailboxInit
    /\ stored \in Networks \union {None}
    /\ mode = IF stored = None THEN "SETUP_AP" ELSE "STATION_CONNECTING"
    /\ joining = None /\ link = FALSE
    /\ armed = FALSE /\ started = FALSE /\ timer = 0
    /\ failures = 0 /\ streak = 0
    /\ candidate = None /\ kdf = None /\ apActive = FALSE
    /\ taken = None /\ exchange = "idle" /\ left = 0
    /\ fatal = FALSE
    /\ events = <<>> /\ astray = FALSE

CoordinatorTypeOK ==
    /\ mode \in Modes
    /\ joining \in Networks \union {None} /\ link \in BOOLEAN
    /\ armed \in BOOLEAN /\ started \in BOOLEAN /\ timer \in 0..TimerMax
    /\ failures \in 0..FailureLimit /\ streak \in 0..(StreakLimit - 1)
    /\ candidate \in Networks \union {None}
    /\ kdf \in 0..KdfSteps \union {None}
    /\ stored \in Networks \union {None} /\ apActive \in BOOLEAN
    /\ taken \in Ids \union {None}
    /\ exchange \in {"idle", "wifi", "start_ntp", "recv_ntp"}
    /\ left \in 0..Deadline
    /\ fatal \in BOOLEAN
    /\ events \in Seq(Events) /\ astray \in BOOLEAN

----------------------------------------------------------------------------
(* The station interface. *)

Connect(network) ==
    /\ joining' = network
    /\ link' = (link /\ joining = network)

\* _disconnect_station swallows what disconnect() raises.
Disconnect ==
    \/ joining' = None /\ link' = FALSE
    \/ UNCHANGED wlan

\* _arm_store_station_attempt; a candidate left over keeps its own deadline.
Arm(wait) ==
    /\ mode' = "STATION_CONNECTING"
    /\ armed' = FALSE
    /\ IF candidate = None THEN started' = FALSE /\ timer' = wait
       ELSE UNCHANGED <<started, timer>>

\* _clear_store_station_attempt
Cleared == armed' = FALSE /\ started' = FALSE /\ timer' = 0

\* _activate_setup_ap may fail, or telling App may, and is tried again by later ticks.
ActivateAp ==
    \/ apActive' = TRUE /\ events' = Append(events, "setup") /\ astray' = FALSE
    \/ apActive' = FALSE /\ UNCHANGED told

----------------------------------------------------------------------------
(* Joining the stored network. *)

\* Mutant of FailStation: the failed attempts are not counted.
FailStationUncounted ==
    /\ Disconnect
    /\ Arm(Gap)
    /\ UNCHANGED <<apActive, told, failures>>

\* _fail_store_station: the FailureLimit-th failure in a row opens the setup AP.
FailStation ==
    /\ Disconnect
    /\ failures' = failures + 1
    /\ IF failures' >= FailureLimit
       THEN mode' = "SETUP_AP" /\ Cleared /\ ActivateAp
       ELSE Arm(Gap) /\ UNCHANGED <<apActive, told>>

StationJoined ==
    /\ mode' = "STATION_ONLINE"
    /\ failures' = 0 /\ streak' = 0
    /\ Cleared
    /\ \/ events' = Append(events, "online") /\ astray' = FALSE
       \/ UNCHANGED told   \* _emit raised, which is swallowed

BeginAttempt ==
    /\ ~armed
    /\ \/ /\ IF timer > 0 THEN UNCHANGED station
             ELSE armed' = TRUE /\ started' = FALSE /\ timer' = Deadline
          /\ UNCHANGED <<mode, wlan, failures, apActive, told>>
       \/ timer = 0 /\ FailStation   \* the settings could not be read
    /\ UNCHANGED streak

AttemptTimesOut ==
    /\ armed /\ timer = 0
    /\ FailStation
    /\ UNCHANGED streak

AttemptProceeds ==
    /\ armed /\ timer > 0
    /\ \/ link /\ StationJoined /\ UNCHANGED <<wlan, apActive>>
       \/ /\ ~link /\ ~started
          /\ Connect(stored) /\ started' = TRUE
          /\ UNCHANGED <<mode, armed, timer, failures, streak, apActive, told>>
       \/ ~link /\ started /\ UNCHANGED <<mode, wlan, station, failures, streak, apActive, told>>
       \/ FailStation /\ UNCHANGED streak   \* the interface raised

\* _tick_store_station
TickStoreStation ==
    /\ mode = "STATION_CONNECTING" /\ candidate = None
    /\ BeginAttempt \/ AttemptTimesOut \/ AttemptProceeds
    /\ UNCHANGED <<mailbox, candidate, kdf, stored, sync, fatal, left>>

----------------------------------------------------------------------------
(* Joining a candidate network from the setup site. *)

\* _start_candidate
StartCandidate ==
    /\ candidate' \in Networks
    /\ mode' = "STATION_CONNECTING"
    /\ started' = FALSE /\ timer' = Deadline
    /\ UNCHANGED armed

\* _tick_setup_ap: with the access point up, a Connect request may have arrived.
TickSetupAp ==
    /\ mode = "SETUP_AP"
    /\ \/ ~apActive /\ ActivateAp /\ UNCHANGED <<mode, candidate, station>>
       \/ /\ apActive
          /\ StartCandidate \/ UNCHANGED <<mode, candidate, station>>
          /\ UNCHANGED <<apActive, told>>
    /\ UNCHANGED <<mailbox, wlan, failures, streak, kdf, stored, sync, fatal, left>>

\* _fail_candidate: the setup AP stays up for another try.
FailCandidate ==
    /\ Disconnect
    /\ mode' = "SETUP_AP"
    /\ candidate' = None /\ kdf' = None /\ started' = FALSE /\ timer' = 0
    /\ UNCHANGED <<armed, failures, streak, stored, apActive, told>>

\* Mutant of CandidateOnline: online before the settings are stored.
CandidateOnlineUnstored(apDropped) ==
    /\ mode' = "STATION_ONLINE"
    /\ failures' = 0 /\ streak' = 0
    /\ armed' = FALSE /\ kdf' = None
    /\ events' = Append(events, "online") /\ astray' = ~apDropped
    /\ UNCHANGED <<stored, wlan>>

\* _complete_candidate_success: the settings first, then online.
CandidateOnline(apDropped) ==
    /\ stored' = candidate
    /\ mode' = "STATION_ONLINE"
    /\ failures' = 0 /\ streak' = 0
    /\ armed' = FALSE /\ kdf' = None
    /\ \/ events' = Append(events, "online") /\ astray' = ~apDropped
       \/ UNCHANGED events /\ astray' = TRUE
    /\ UNCHANGED wlan

\* The success page is sent, and the setup AP taken down.
CandidateJoined ==
    /\ CandidateOnline(TRUE)
    /\ candidate' = None /\ started' = FALSE /\ timer' = 0
    /\ apActive' = FALSE

\* Building or sending the page raises, which nothing catches: online, with the
\* setup AP up and the candidate still there.
CandidateLeftOver ==
    /\ CandidateOnline(FALSE)
    /\ UNCHANGED <<candidate, started, timer, apActive>>

\* Steps the KDF job has left after the next one, which may be its first.
KdfLeft == (IF kdf = None THEN KdfSteps ELSE kdf) - 1

\* The station is up: one step of the KDF job, the last one followed by the
\* commit.  Job or commit may fail.
CandidateKdf ==
    \/ /\ KdfLeft > 0
       /\ kdf' = KdfLeft
       /\ UNCHANGED <<mode, wlan, station, failures, streak, candidate, stored,
                      apActive, told>>
    \/ KdfLeft = 0 /\ CandidateJoined
    \/ FailCandidate

CandidateTimesOut ==
    /\ kdf = None /\ timer = 0
    /\ FailCandidate

CandidateProceeds ==
    /\ kdf # None \/ timer > 0
    /\ \/ /\ ~started
          /\ Connect(candidate) /\ started' = TRUE
          /\ UNCHANGED <<mode, armed, timer, failures, streak, setup, told>>
       \/ started /\ ~link /\ UNCHANGED <<mode, wlan, station, failures, streak, setup, told>>
       \/ started /\ link /\ CandidateKdf
       \/ FailCandidate   \* the interface raised

\* _tick_candidate_join
TickCandidateJoin ==
    /\ mode = "STATION_CONNECTING" /\ candidate # None
    /\ CandidateTimesOut \/ CandidateProceeds
    /\ UNCHANGED <<mailbox, sync, fatal, left>>

\* The one way a tick of clock mode fails after it changed something.
TickRaises ==
    /\ mode = "STATION_CONNECTING" /\ candidate # None
    /\ kdf # None \/ timer > 0
    /\ started /\ link /\ KdfLeft = 0
    /\ CandidateLeftOver
    /\ UNCHANGED <<mailbox, sync, fatal, left>>

----------------------------------------------------------------------------
(* Online: watch the link, then serve the mailbox. *)

\* Mutant of SyncFailed: the streak is not reset by the reconnect it forces.
SyncFailedKeepsStreak ==
    /\ streak' = streak + 1
    /\ IF streak' < StreakLimit THEN UNCHANGED <<mode, wlan, station>>
       ELSE Disconnect /\ Arm(0)

\* _handle_online_sync_failure: StreakLimit failed syncs in a row force one
\* reconnect, which is not counted as a failed join.
SyncFailed ==
    IF streak + 1 < StreakLimit
    THEN streak' = streak + 1 /\ UNCHANGED <<mode, wlan, station>>
    ELSE streak' = 0 /\ Disconnect /\ Arm(0)

\* _finish: a saturated mailbox keeps its result and is fatal.
Finish(id, ok) ==
    /\ taken' = None /\ exchange' = "idle"
    /\ IF Saturated THEN fatal' = TRUE /\ UNCHANGED <<result, idle>>
                    ELSE Publish([id |-> id, ok |-> ok]) /\ UNCHANGED fatal
    /\ IF ok THEN streak' = 0 /\ UNCHANGED <<mode, wlan, station>>
       ELSE IF fatal' THEN UNCHANGED online
       ELSE SyncFailed

\* _watch_station_drop: the link is down, or probing it raised.
StationDropped ==
    /\ Arm(0)
    /\ UNCHANGED <<mailbox, wlan, streak, sync, fatal>>

NothingToDo ==
    /\ taken = None /\ command = None
    /\ UNCHANGED <<mailbox, online, sync, fatal>>

\* The command is taken; the link may have gone down since it was watched.
\* It fails at once if it has expired or the interface raises.
TakesCommand ==
    /\ taken = None /\ command # None
    /\ command' = None
    /\ \/ /\ left > 0
          /\ taken' = command
          /\ \/ exchange' = "start_ntp" /\ UNCHANGED wlan
             \/ exchange' = "wifi" /\ joining' = stored /\ link' = FALSE
          /\ UNCHANGED <<result, idle, mode, station, streak, fatal>>
       \/ Finish(command, FALSE)

\* _start_ntp: the request is sent, or sending it raised.
StartNtp ==
    /\ exchange = "start_ntp"
    /\ \/ exchange' = "recv_ntp" /\ UNCHANGED <<result, idle, online, taken, fatal>>
       \/ Finish(taken, FALSE)

\* _poll_ntp: no answer yet, a good one, or a bad one.
PollNtp ==
    /\ exchange = "recv_ntp"
    /\ \/ UNCHANGED <<result, idle, online, taken, exchange, fatal>>
       \/ Finish(taken, TRUE)
       \/ Finish(taken, FALSE)

\* One unit of the exchange; "wifi" still waits for the link TakesCommand missed.
Exchanges ==
    /\ taken # None /\ left > 0
    /\ \/ /\ exchange = "wifi"
          /\ \/ exchange' = "start_ntp" /\ UNCHANGED <<result, idle, online, taken, fatal>>
             \/ Finish(taken, FALSE)
       \/ StartNtp
       \/ PollNtp
    /\ UNCHANGED command

\* Mutant of CommandExpires: an expired command is dropped without a result.
CommandExpiresSilently ==
    /\ taken # None /\ left = 0
    /\ taken' = None /\ exchange' = "idle"
    /\ SyncFailed
    /\ UNCHANGED <<mailbox, fatal>>

CommandExpires ==
    /\ taken # None /\ left = 0
    /\ Finish(taken, FALSE)
    /\ UNCHANGED command

TickOnline ==
    /\ mode = "STATION_ONLINE"
    /\ \/ StationDropped
       \/ link /\ (NothingToDo \/ TakesCommand \/ Exchanges \/ CommandExpires)
    /\ UNCHANGED <<failures, setup, left, told>>

tick == TickSetupAp \/ TickCandidateJoin \/ TickStoreStation \/ TickOnline

----------------------------------------------------------------------------
(* The radio. *)

LinkUp ==
    /\ joining # None /\ ~link
    /\ link' = TRUE
    /\ UNCHANGED joining

LinkDown ==
    /\ link
    /\ link' = FALSE
    /\ UNCHANGED joining
=============================================================================
