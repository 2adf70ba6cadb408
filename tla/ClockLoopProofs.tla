-------------------------- MODULE ClockLoopProofs --------------------------
(***************************************************************************)
(* Proofs about ClockLoop, for every set of networks, every deadline and   *)
(* every limit: the request App waits for is in exactly one place, the     *)
(* station is only ever online on the stored network, no answer too late   *)
(* sets the clock, and the screen tells whether the access point is up.    *)
(***************************************************************************)
EXTENDS ClockLoop, TLAPS

\* The part of the type invariant the argument needs.
RequestTypes ==
    /\ MailboxTypeOK
    /\ taken \in Ids \union {None}
    /\ next_id \in Ids

\* The inductive invariant.
RequestInv == RequestTypes /\ OneRequest

requestVars == <<mailbox, taken, fatal, next_id, inflight>>

USE CoordinatorAssumption, LoopAssumption

----------------------------------------------------------------------------

\* A result with its id is a result, and so not the empty slot.
LEMMA ResultPresent ==
    ASSUME NEW id \in Ids, NEW ok \in BOOLEAN
    PROVE  [id |-> id, ok |-> ok] \in Results /\ [id |-> id, ok |-> ok] # None
BY DEF Results

\* The station and set-up halves of a tick do not touch the request.
LEMMA StationLeavesRequest ==
    ASSUME TickSetupAp \/ TickCandidateJoin \/ TickStoreStation \/ TickRaises, UNCHANGED app
    PROVE  UNCHANGED requestVars
BY DEF TickSetupAp, TickCandidateJoin, TickStoreStation, TickRaises, app, sync, mailbox,
       requestVars

\* Publishing the answer to the request that waited, or was being worked on,
\* moves the request to the result slot.
LEMMA FinishMovesRequest ==
    ASSUME RequestInv, NEW id \in Ids, NEW ok \in BOOLEAN,
           id = inflight, result = None,
           Finish(id, ok), command' = None, UNCHANGED app
    PROVE  RequestInv'
<1>1. ~fatal' /\ result' = [id |-> id, ok |-> ok] /\ idle' = TRUE /\ taken' = None
  BY DEF Finish, Publish, Saturated, RequestInv, OneRequest
<1>2. inflight' = inflight /\ next_id' = next_id
  BY DEF app
<1>3. RequestTypes'
  BY <1>1, <1>2, ResultPresent DEF RequestInv, RequestTypes, MailboxTypeOK
<1>4. OneRequest'
  BY <1>1, <1>2, ResultPresent DEF OneRequest
<1> QED BY <1>3, <1>4 DEF RequestInv

\* A tick with the station online keeps the invariant.
LEMMA OnlineKeepsRequest ==
    ASSUME RequestInv, TickOnline, UNCHANGED app
    PROVE  RequestInv'
<1>1. CASE StationDropped \/ NothingToDo
  BY <1>1 DEF StationDropped, NothingToDo, RequestInv, RequestTypes, MailboxTypeOK,
              OneRequest, mailbox, sync, app
<1>2. CASE TakesCommand
  <2>1. command \in Ids /\ command = inflight /\ result = None /\ command' = None
    BY <1>2 DEF TakesCommand, RequestInv, RequestTypes, MailboxTypeOK, OneRequest
  <2>2. CASE Finish(command, FALSE)
    BY <2>1, <2>2, FinishMovesRequest
  <2>3. CASE taken' = command /\ UNCHANGED <<result, idle, fatal>>
    BY <1>2, <2>1, <2>3 DEF RequestInv, RequestTypes, MailboxTypeOK, OneRequest, app
  <2> QED BY <1>2, <2>2, <2>3 DEF TakesCommand
<1>3. CASE Exchanges \/ CommandExpires
  <2>1. taken \in Ids /\ taken = inflight /\ result = None /\ command = None /\ command' = None
    BY <1>3 DEF Exchanges, CommandExpires, RequestInv, RequestTypes, MailboxTypeOK, OneRequest
  <2>2. CASE Finish(taken, TRUE) \/ Finish(taken, FALSE)
    BY <2>1, <2>2, FinishMovesRequest
  <2>3. CASE UNCHANGED <<result, idle, taken, fatal>>
    BY <2>1, <2>3 DEF RequestInv, RequestTypes, MailboxTypeOK, OneRequest, app
  <2> QED BY <1>3, <2>2, <2>3 DEF Exchanges, StartNtp, PollNtp, CommandExpires
<1> QED BY <1>1, <1>2, <1>3 DEF TickOnline

\* A step that leaves the request alone keeps the invariant.
LEMMA UnchangedKeepsRequest ==
    ASSUME RequestInv, UNCHANGED requestVars
    PROVE  RequestInv'
BY DEF RequestInv, RequestTypes, MailboxTypeOK, OneRequest, requestVars, mailbox

\* One step per action of the loop.
LEMMA NextKeepsRequest == RequestInv /\ [Next]_vars => RequestInv'
<1> SUFFICES ASSUME RequestInv, [Next]_vars
             PROVE  RequestInv'
  OBVIOUS
<1>1. CASE CoordinatorTurn
  <2>1. CASE TickOnline
    BY <1>1, <2>1, OnlineKeepsRequest DEF CoordinatorTurn
  <2>2. CASE TickSetupAp \/ TickCandidateJoin \/ TickStoreStation \/ TickRaises
    BY <1>1, <2>2, StationLeavesRequest, UnchangedKeepsRequest DEF CoordinatorTurn
  <2> QED BY <1>1, <2>1, <2>2 DEF CoordinatorTurn, tick
<1>2. CASE Consume
  <2>1. taken' = taken /\ fatal' = fatal /\ next_id' = next_id
    BY <1>2 DEF Consume, sync
  <2>2. CASE result = None
    BY <1>2, <2>1, <2>2, UnchangedKeepsRequest DEF Consume, requestVars
  <2>3. CASE result # None
    <3>1. result' = None /\ command' = command /\ idle' = idle /\ inflight' = None
      BY <1>2, <2>3 DEF Consume, TakeResult
    <3>2. command = None /\ taken = None
      BY <2>3 DEF RequestInv, OneRequest
    <3> QED BY <2>1, <3>1, <3>2 DEF RequestInv, RequestTypes, MailboxTypeOK, OneRequest
  <2> QED BY <2>2, <2>3
<1>3. CASE MaybeEnqueue
  <2>1. taken' = taken /\ fatal' = fatal
    BY <1>3 DEF MaybeEnqueue, sync
  <2>2. CASE UNCHANGED <<mailbox, next_id, inflight>>
    BY <2>1, <2>2, UnchangedKeepsRequest DEF requestVars
  <2>3. CASE Enqueue(next_id) /\ next_id' = 1 - next_id /\ inflight' = next_id
    <3>1. /\ result = None /\ taken = None /\ result' = None
          /\ command' = next_id /\ idle' = FALSE
      BY <2>3 DEF Enqueue, Accepts, RequestInv, OneRequest
    <3>2. next_id \in Ids /\ next_id' \in Ids /\ next_id # None
      BY <2>3 DEF RequestInv, RequestTypes
    <3> QED BY <2>1, <2>3, <3>1, <3>2 DEF RequestInv, RequestTypes, MailboxTypeOK, OneRequest
  <2> QED BY <1>3, <2>2, <2>3 DEF MaybeEnqueue
<1>4. CASE Drain
  BY <1>4, UnchangedKeepsRequest DEF Drain, sync, requestVars
<1>5. CASE StepAborted
  BY <1>5, UnchangedKeepsRequest DEF StepAborted, coordinator, sync, app, requestVars
<1>6. CASE Time \/ Radio
  BY <1>6, UnchangedKeepsRequest DEF Time, Radio, sync, app, requestVars
<1>7. CASE UNCHANGED vars
  BY <1>7, UnchangedKeepsRequest DEF vars, coordinator, sync, app, requestVars
<1> QED BY <1>1, <1>2, <1>3, <1>4, <1>5, <1>6, <1>7 DEF Next, Loop

----------------------------------------------------------------------------

\* The request of App._inflight_id is waiting, worked on or answered, never two
\* of these, nothing else is in the mailbox, and no answer is overwritten:
\* MailboxSaturationError cannot occur.
THEOREM OneRequestAlways == Spec => []OneRequest
<1>1. Init => RequestInv
  BY DEF Init, CoordinatorInit, MailboxInit, RequestInv, RequestTypes, MailboxTypeOK, OneRequest
<1>2. RequestInv => OneRequest
  BY DEF RequestInv
<1> QED BY <1>1, <1>2, NextKeepsRequest, PTL DEF Spec

----------------------------------------------------------------------------

\* Why the station can only be online on the stored network: without a
\* candidate the interface was last told to join that network or none, once a
\* candidate's join is started no other one can be under way, and a candidate
\* that is left over when the station goes online is the stored network.
JoinInv ==
    /\ link => joining # None
    /\ mode # "SETUP_AP" /\ candidate = None => stored # None /\ joining \in {None, stored}
    /\ candidate # None => mode # "SETUP_AP" /\ (started => joining \in {None, candidate})
    /\ mode = "STATION_ONLINE" => joining = stored /\ (candidate # None => stored = candidate)

joinVars == <<mode, wlan, candidate, stored, started>>

\* The radio only reports on the network it was told to join.
LEMMA RadioKeepsJoin ==
    ASSUME JoinInv, LinkUp \/ LinkDown, UNCHANGED <<mode, candidate, stored, started>>
    PROVE  JoinInv'
BY DEF JoinInv, LinkUp, LinkDown

\* Losing the link, or giving it up, returns to joining the stored network.
LEMMA ArmKeepsJoin ==
    ASSUME JoinInv, NEW wait, mode # "SETUP_AP", Arm(wait),
           Disconnect \/ UNCHANGED wlan, UNCHANGED <<candidate, stored>>
    PROVE  JoinInv'
BY DEF JoinInv, Arm, Disconnect, wlan

\* A failed attempt is followed by another one or by the setup access point.
LEMMA FailStationKeepsJoin ==
    ASSUME JoinInv, mode = "STATION_CONNECTING", candidate = None, FailStation,
           UNCHANGED <<candidate, stored>>
    PROVE  JoinInv'
<1>1. CASE Arm(Gap)
  BY <1>1, ArmKeepsJoin DEF FailStation
<1>2. CASE mode' = "SETUP_AP"
  BY <1>2 DEF FailStation, JoinInv, Disconnect, wlan
<1> QED BY <1>1, <1>2 DEF FailStation

LEMMA FailCandidateKeepsJoin ==
    ASSUME JoinInv, FailCandidate
    PROVE  JoinInv'
BY DEF JoinInv, FailCandidate, Disconnect, wlan

LEMMA StationKeepsJoin ==
    ASSUME JoinInv, TickStoreStation
    PROVE  JoinInv'
<1>1. mode = "STATION_CONNECTING" /\ candidate = None /\ UNCHANGED <<candidate, stored>>
  BY DEF TickStoreStation
<1>2. CASE FailStation
  BY <1>1, <1>2, FailStationKeepsJoin
<1>3. CASE UNCHANGED <<mode, wlan>>
  BY <1>1, <1>3 DEF JoinInv, wlan
<1>4. CASE link /\ StationJoined /\ UNCHANGED wlan
  BY <1>1, <1>4 DEF JoinInv, StationJoined, wlan
<1>5. CASE Connect(stored) /\ UNCHANGED mode
  BY <1>1, <1>5 DEF JoinInv, Connect
<1> QED BY <1>2, <1>3, <1>4, <1>5
        DEF TickStoreStation, BeginAttempt, AttemptTimesOut, AttemptProceeds

LEMMA CandidateKeepsJoin ==
    ASSUME JoinInv, TickCandidateJoin
    PROVE  JoinInv'
<1>1. mode = "STATION_CONNECTING" /\ candidate # None
  BY DEF TickCandidateJoin
<1>2. CASE FailCandidate
  BY <1>2, FailCandidateKeepsJoin
<1>3. CASE ~started /\ Connect(candidate) /\ UNCHANGED <<mode, candidate, stored>>
  BY <1>1, <1>3 DEF JoinInv, Connect
<1>4. CASE UNCHANGED <<mode, wlan, started, candidate, stored>>
  BY <1>4 DEF JoinInv, wlan
<1>5. CASE started /\ link /\ CandidateJoined
  BY <1>1, <1>5 DEF JoinInv, CandidateJoined, CandidateOnline, wlan
<1> QED BY <1>2, <1>3, <1>4, <1>5
        DEF TickCandidateJoin, CandidateTimesOut, CandidateProceeds, CandidateKdf,
            station, setup

LEMMA RaiseKeepsJoin ==
    ASSUME JoinInv, TickRaises
    PROVE  JoinInv'
BY DEF JoinInv, TickRaises, CandidateLeftOver, CandidateOnline, wlan

LEMMA OnlineKeepsJoin ==
    ASSUME JoinInv, TickOnline
    PROVE  JoinInv'
<1>1. mode = "STATION_ONLINE" /\ UNCHANGED <<candidate, stored>>
  BY DEF TickOnline, setup
<1>2. CASE Arm(0) /\ (Disconnect \/ UNCHANGED wlan)
  BY <1>1, <1>2, ArmKeepsJoin
<1>3. CASE UNCHANGED <<mode, wlan, started>>
  BY <1>1, <1>3 DEF JoinInv, wlan
<1>4. CASE joining' = stored /\ link' = FALSE /\ UNCHANGED <<mode, started>>
  BY <1>1, <1>4 DEF JoinInv
<1>5. ASSUME NEW id, NEW ok, Finish(id, ok)
      PROVE  (Arm(0) /\ Disconnect) \/ UNCHANGED <<mode, wlan, started>>
  BY <1>5 DEF Finish, SyncFailed, online, station
<1> QED BY <1>2, <1>3, <1>4, <1>5
        DEF TickOnline, StationDropped, NothingToDo, TakesCommand, Exchanges,
            StartNtp, PollNtp, CommandExpires, online, station

\* One step per action of the loop: only a tick and the radio touch the station.
LEMMA NextKeepsJoin == JoinInv /\ [Next]_vars => JoinInv'
<1> SUFFICES ASSUME JoinInv, [Next]_vars
             PROVE  JoinInv'
  OBVIOUS
<1>1. CASE CoordinatorTurn
  <2>1. CASE TickSetupAp
    BY <2>1 DEF TickSetupAp, StartCandidate, JoinInv, station, wlan
  <2> QED BY <1>1, <2>1, StationKeepsJoin, CandidateKeepsJoin, RaiseKeepsJoin, OnlineKeepsJoin
          DEF CoordinatorTurn, tick
<1>2. CASE Radio
  BY <1>2, RadioKeepsJoin DEF Radio, station, setup
<1>3. CASE UNCHANGED joinVars
  BY <1>3 DEF JoinInv, joinVars, wlan
<1>4. CASE StepAborted \/ UNCHANGED vars
  <2>1. UNCHANGED coordinator
    BY <1>4 DEF StepAborted, vars
  <2> QED BY <1>3, <2>1 DEF coordinator, online, station, setup, joinVars
<1>5. CASE Consume \/ MaybeEnqueue \/ Drain
  BY <1>3, <1>5 DEF Consume, MaybeEnqueue, Drain, online, station, setup, joinVars
<1>6. CASE Time
  BY <1>3, <1>6 DEF Time, setup, joinVars
<1> QED BY <1>1, <1>2, <1>4, <1>5, <1>6 DEF Next, Loop

\* While the coordinator says online, the interface was told to join the network
\* the settings hold: a set-up is stored before it is announced, and no drop,
\* failed exchange, failed attempt or half-ended set-up leaves the station on
\* another network.
THEOREM OnlineIsStoredAlways == Spec => []OnlineIsStored
<1>1. Init => JoinInv
  BY DEF Init, CoordinatorInit, JoinInv
<1>2. JoinInv => OnlineIsStored
  BY DEF JoinInv, OnlineIsStored
<1> QED BY <1>1, <1>2, NextKeepsJoin, PTL DEF Spec

----------------------------------------------------------------------------

\* Types, and what keeps the failure count in its range: it is at its limit only
\* once the setup access point has taken over.
TypeInv ==
    /\ TypeOK
    /\ mode = "STATION_ONLINE" => failures = 0
    /\ mode = "STATION_CONNECTING" /\ candidate = None => failures < FailureLimit

LEMMA DisconnectTyped ==
    ASSUME TypeInv, Disconnect
    PROVE  joining' \in Networks \union {None} /\ link' \in BOOLEAN
BY DEF Disconnect, TypeInv, TypeOK, CoordinatorTypeOK, wlan

\* What is to be shown of a tick: the types of what it may change.
Ticked ==
    /\ mode \in Modes
    /\ joining \in Networks \union {None} /\ link \in BOOLEAN
    /\ armed \in BOOLEAN /\ started \in BOOLEAN /\ timer \in 0..TimerMax
    /\ failures \in 0..FailureLimit /\ streak \in 0..(StreakLimit - 1)
    /\ candidate \in Networks \union {None}
    /\ kdf \in 0..KdfSteps \union {None}
    /\ stored \in Networks \union {None} /\ apActive \in BOOLEAN
    /\ events \in Seq(Events) /\ astray \in BOOLEAN
    /\ mode = "STATION_ONLINE" => failures = 0
    /\ mode = "STATION_CONNECTING" /\ candidate = None => failures < FailureLimit

LEMMA TypeInvTicked == TypeInv => Ticked
BY DEF TypeInv, TypeOK, CoordinatorTypeOK, Ticked

LEMMA Ranges ==
    /\ 0 \in 0..TimerMax /\ Gap \in 0..TimerMax /\ Deadline \in 0..TimerMax
    /\ 0 \in 0..FailureLimit /\ 0 < FailureLimit /\ 0 \in 0..(StreakLimit - 1)
    /\ {0, Deadline} \subseteq 0..Deadline /\ {0, Retry} \subseteq 0..Retry
BY DEF TimerMax

LEMMA AppendTyped ==
    ASSUME TypeInv, NEW e \in Events, events' = Append(events, e)
    PROVE  events' \in Seq(Events)
BY DEF TypeInv, TypeOK, CoordinatorTypeOK

LEMMA ActivateTyped ==
    ASSUME TypeInv, ActivateAp
    PROVE  apActive' \in BOOLEAN /\ events' \in Seq(Events) /\ astray' \in BOOLEAN
<1>1. CASE apActive' = TRUE /\ events' = Append(events, "setup") /\ astray' = FALSE
  BY <1>1, AppendTyped DEF Events
<1>2. CASE apActive' = FALSE /\ UNCHANGED told
  BY <1>2 DEF TypeInv, TypeOK, CoordinatorTypeOK, told
<1> QED BY <1>1, <1>2 DEF ActivateAp

LEMMA FailStationTyped ==
    ASSUME TypeInv, mode = "STATION_CONNECTING", candidate = None, FailStation,
           UNCHANGED <<streak, candidate, kdf, stored>>
    PROVE  Ticked'
<1>1. failures \in Nat /\ failures < FailureLimit
  BY DEF TypeInv, TypeOK, CoordinatorTypeOK
<1>2. joining' \in Networks \union {None} /\ link' \in BOOLEAN
  BY DisconnectTyped DEF FailStation
<1>3. Ticked
  BY TypeInvTicked
<1>4. CASE failures' >= FailureLimit
  <2>1. failures' \in 0..FailureLimit
    BY <1>1, <1>4 DEF FailStation
  <2>2. /\ apActive' \in BOOLEAN /\ events' \in Seq(Events) /\ astray' \in BOOLEAN
        /\ mode' = "SETUP_AP" /\ Cleared
    BY <1>4, ActivateTyped DEF FailStation
  <2> QED BY <1>2, <1>3, <2>1, <2>2, Ranges DEF Cleared, Ticked, Modes
<1>5. CASE ~(failures' >= FailureLimit)
  <2>1. failures' \in 0..FailureLimit /\ failures' < FailureLimit
    BY <1>1, <1>5 DEF FailStation
  <2>2. Arm(Gap) /\ UNCHANGED <<apActive, told>>
    BY <1>5 DEF FailStation
  <2> QED BY <1>2, <1>3, <2>1, <2>2, Ranges DEF Arm, Ticked, Modes, told
<1> QED BY <1>4, <1>5

LEMMA StationTyped == ASSUME TypeInv, TickStoreStation PROVE Ticked'
<1>1. /\ mode = "STATION_CONNECTING" /\ candidate = None /\ UNCHANGED <<candidate, kdf, stored>>
      /\ Ticked
  BY TypeInvTicked DEF TickStoreStation
<1>2. CASE FailStation /\ UNCHANGED streak
  BY <1>1, <1>2, FailStationTyped
<1>3. CASE /\ UNCHANGED station \/ (armed' = TRUE /\ started' = FALSE /\ timer' = Deadline)
           /\ UNCHANGED <<mode, wlan, failures, streak, apActive, told>>
  BY <1>1, <1>3, Ranges DEF Ticked, station, wlan, told
<1>4. CASE StationJoined /\ UNCHANGED <<wlan, apActive>>
  <2>1. events' \in Seq(Events) /\ astray' \in BOOLEAN
    BY <1>1, <1>4, AppendTyped DEF StationJoined, Events, Ticked, told
  <2> QED BY <1>1, <1>4, <2>1, Ranges DEF StationJoined, Cleared, Ticked, wlan, Modes
<1>5. CASE Connect(stored) /\ started' = TRUE
           /\ UNCHANGED <<mode, armed, timer, failures, streak, apActive, told>>
  BY <1>1, <1>5 DEF Connect, Ticked, told
<1>6. CASE UNCHANGED <<mode, wlan, station, failures, streak, apActive, told>>
  BY <1>1, <1>6 DEF Ticked, wlan, station, told
<1> QED BY <1>2, <1>3, <1>4, <1>5, <1>6
        DEF TickStoreStation, BeginAttempt, AttemptTimesOut, AttemptProceeds

LEMMA FailCandidateTyped == ASSUME TypeInv, FailCandidate PROVE Ticked'
<1>1. joining' \in Networks \union {None} /\ link' \in BOOLEAN
  BY DisconnectTyped DEF FailCandidate
<1> QED BY <1>1, TypeInvTicked, Ranges DEF FailCandidate, Ticked, Modes, told

\* What going online changes, whether the access point is dropped or not.
LEMMA CandidateOnlineTyped ==
    ASSUME TypeInv, candidate \in Networks, NEW apDropped \in BOOLEAN, CandidateOnline(apDropped)
    PROVE  /\ mode' = "STATION_ONLINE" /\ failures' = 0 /\ streak' = 0
           /\ armed' = FALSE /\ kdf' = None /\ stored' \in Networks /\ UNCHANGED wlan
           /\ events' \in Seq(Events) /\ astray' \in BOOLEAN
<1>1. CASE events' = Append(events, "online") /\ astray' = ~apDropped
  BY <1>1, AppendTyped DEF CandidateOnline, Events
<1>2. CASE UNCHANGED events /\ astray' = TRUE
  BY <1>2 DEF CandidateOnline, TypeInv, TypeOK, CoordinatorTypeOK
<1> QED BY <1>1, <1>2 DEF CandidateOnline

LEMMA CandidateTyped == ASSUME TypeInv, TickCandidateJoin PROVE Ticked'
<1>1. mode = "STATION_CONNECTING" /\ candidate \in Networks /\ candidate # None /\ Ticked
  BY TypeInvTicked DEF TickCandidateJoin, Ticked
<1>2. CASE FailCandidate
  BY <1>2, FailCandidateTyped
<1>3. CASE Connect(candidate) /\ started' = TRUE
           /\ UNCHANGED <<mode, armed, timer, failures, streak, setup, told>>
  BY <1>1, <1>3 DEF Connect, Ticked, setup, told
<1>4. CASE UNCHANGED <<mode, wlan, station, failures, streak, setup, told>>
  BY <1>1, <1>4 DEF Ticked, wlan, station, setup, told
<1>5. CASE CandidateKdf
  <2>1. CASE /\ KdfLeft > 0 /\ kdf' = KdfLeft
             /\ UNCHANGED <<mode, wlan, station, failures, streak, candidate, stored,
                            apActive, told>>
    <3>1. kdf' \in 0..KdfSteps
      BY <1>1, <2>1 DEF Ticked, KdfLeft
    <3> QED BY <1>1, <2>1, <3>1 DEF Ticked, wlan, station, told
  <2>2. CASE CandidateJoined
    BY <1>1, <2>2, CandidateOnlineTyped, Ranges DEF CandidateJoined, Ticked, wlan, Modes
  <2> QED BY <1>2, <1>5, <2>1, <2>2 DEF CandidateKdf
<1> QED BY <1>2, <1>3, <1>4, <1>5 DEF TickCandidateJoin, CandidateTimesOut, CandidateProceeds

LEMMA RaiseTyped == ASSUME TypeInv, TickRaises PROVE Ticked'
<1>1. candidate \in Networks /\ candidate # None /\ Ticked
  BY TypeInvTicked DEF TickRaises, Ticked
<1>2. CandidateOnline(FALSE) /\ UNCHANGED <<candidate, started, timer, apActive>>
  BY DEF TickRaises, CandidateLeftOver
<1> QED BY <1>1, <1>2, CandidateOnlineTyped, Ranges DEF Ticked, wlan, Modes

LEMMA SetupTyped == ASSUME TypeInv, TickSetupAp PROVE Ticked'
<1>1. mode = "SETUP_AP" /\ Ticked /\ UNCHANGED <<wlan, failures, streak, kdf, stored>>
  BY TypeInvTicked DEF TickSetupAp
<1>2. CASE ActivateAp /\ UNCHANGED <<mode, candidate, station>>
  BY <1>1, <1>2, ActivateTyped DEF Ticked, station, wlan
<1>3. CASE UNCHANGED <<mode, candidate, station, apActive, told>>
  BY <1>1, <1>3 DEF Ticked, station, wlan, told
<1>4. CASE StartCandidate /\ UNCHANGED <<apActive, told>>
  BY <1>1, <1>4, Ranges DEF StartCandidate, Ticked, wlan, Modes, told
<1> QED BY <1>2, <1>3, <1>4 DEF TickSetupAp

\* A finished exchange leaves the types of the mailbox and of the station.
LEMMA FinishTyped ==
    ASSUME TypeInv, mode = "STATION_ONLINE", NEW id \in Ids, NEW ok \in BOOLEAN, Finish(id, ok),
           UNCHANGED <<failures, candidate, kdf, stored, apActive, told>>
    PROVE  /\ Ticked'
           /\ result' \in Results \union {None} /\ idle' \in BOOLEAN /\ fatal' \in BOOLEAN
           /\ taken' = None /\ exchange' = "idle"
<1>1. Ticked
  BY TypeInvTicked
<1>2. /\ result' \in Results \union {None} /\ idle' \in BOOLEAN /\ fatal' \in BOOLEAN
      /\ taken' = None /\ exchange' = "idle"
  BY ResultPresent DEF Finish, Publish, TypeInv, TypeOK, MailboxTypeOK, CoordinatorTypeOK
<1>3. CASE UNCHANGED online
  BY <1>1, <1>2, <1>3 DEF Ticked, online, wlan, station, told
<1>4. CASE streak' = 0 /\ UNCHANGED <<mode, wlan, station>>
  BY <1>1, <1>2, <1>4 DEF Ticked, wlan, station, told
<1>5. CASE SyncFailed
  <2>1. CASE streak + 1 < StreakLimit
    BY <1>1, <1>2, <1>5, <2>1 DEF SyncFailed, Ticked, wlan, station, told
  <2>2. CASE ~(streak + 1 < StreakLimit)
    <3>1. streak' = 0 /\ Arm(0) /\ joining' \in Networks \union {None} /\ link' \in BOOLEAN
      BY <1>5, <2>2, DisconnectTyped DEF SyncFailed
    <3> QED BY <1>1, <1>2, <3>1, Ranges DEF Arm, Ticked, Modes, told, station
  <2> QED BY <2>1, <2>2
<1> QED BY <1>2, <1>3, <1>4, <1>5 DEF Finish

\* The types a tick of the station and set-up halves leaves alone.
Answered ==
    /\ MailboxTypeOK
    /\ taken \in Ids \union {None}
    /\ exchange \in {"idle", "wifi", "start_ntp", "recv_ntp"}
    /\ left \in 0..Deadline
    /\ fatal \in BOOLEAN

LEMMA OnlineTyped == ASSUME TypeInv, TickOnline PROVE Ticked' /\ Answered'
<1>1. /\ mode = "STATION_ONLINE" /\ Ticked /\ Answered /\ failures = 0 /\ 0 < FailureLimit
      /\ UNCHANGED <<failures, candidate, kdf, stored, apActive, told, left>>
  BY TypeInvTicked, Ranges
     DEF TickOnline, setup, TypeInv, TypeOK, CoordinatorTypeOK, Answered
<1>2. CASE StationDropped
  <2>1. Answered'
    BY <1>1, <1>2 DEF StationDropped, Answered, MailboxTypeOK, mailbox, sync
  <2>2. Ticked'
    BY <1>1, <1>2, Ranges DEF StationDropped, Arm, Ticked, Modes, wlan, told
  <2> QED BY <2>1, <2>2
<1>3. CASE NothingToDo
  BY <1>1, <1>3 DEF NothingToDo, Ticked, Answered, MailboxTypeOK, mailbox, online, wlan,
                    station, sync, told
<1>4. ASSUME NEW id \in Ids, NEW ok \in BOOLEAN, Finish(id, ok),
             command' \in Ids \union {None}
      PROVE  Ticked' /\ Answered'
  BY <1>1, <1>4, FinishTyped DEF Answered, MailboxTypeOK
<1>5. CASE TakesCommand
  <2>1. command \in Ids /\ command' = None
    BY <1>1, <1>5 DEF TakesCommand, Answered, MailboxTypeOK
  <2>2. CASE Finish(command, FALSE)
    BY <1>4, <2>1, <2>2
  <2>3. CASE /\ taken' = command
             /\ \/ exchange' = "start_ntp" /\ UNCHANGED wlan
                \/ exchange' = "wifi" /\ joining' = stored /\ link' = FALSE
             /\ UNCHANGED <<result, idle, mode, station, streak, fatal>>
    <3>1. joining' \in Networks \union {None} /\ link' \in BOOLEAN
      BY <1>1, <2>3 DEF Ticked, wlan
    <3>2. Ticked'
      BY <1>1, <2>3, <3>1 DEF Ticked, station, told
    <3>3. Answered'
      BY <1>1, <2>1, <2>3 DEF Answered, MailboxTypeOK
    <3> QED BY <3>2, <3>3
  <2> QED BY <1>5, <2>2, <2>3 DEF TakesCommand
<1>6. CASE Exchanges \/ CommandExpires
  <2>1. taken \in Ids /\ command' = command /\ command \in Ids \union {None}
    BY <1>1, <1>6 DEF Exchanges, CommandExpires, Answered, MailboxTypeOK
  <2>2. CASE Finish(taken, TRUE) \/ Finish(taken, FALSE)
    BY <1>4, <2>1, <2>2
  <2>3. CASE /\ exchange' \in {"start_ntp", "recv_ntp", exchange}
             /\ UNCHANGED <<result, idle, online, taken, fatal>>
    <3>1. Ticked'
      BY <1>1, <2>3 DEF Ticked, online, wlan, station, told
    <3>2. Answered'
      BY <1>1, <2>1, <2>3 DEF Answered, MailboxTypeOK
    <3> QED BY <3>1, <3>2
  <2> QED BY <1>6, <2>2, <2>3 DEF Exchanges, StartNtp, PollNtp, CommandExpires
<1> QED BY <1>2, <1>3, <1>5, <1>6 DEF TickOnline

\* What App keeps besides.
AppTyped ==
    /\ turn \in {"tick", "consume", "enqueue", "drain"}
    /\ next_id \in Ids /\ inflight \in Ids \union {None}
    /\ retry \in 0..Retry /\ sync_enabled \in BOOLEAN
    /\ trust \in {"synced", "unsynced"} /\ overlay \in {"none", "setup"}
    /\ age \in 0..Deadline

LEMMA TypeInvParts == TypeInv <=> Ticked /\ Answered /\ AppTyped
BY DEF TypeInv, TypeOK, CoordinatorTypeOK, Ticked, Answered, AppTyped

LEMMA TickTyped == ASSUME TypeInv, tick \/ TickRaises PROVE Ticked' /\ Answered'
<1>1. CASE TickOnline
  BY <1>1, OnlineTyped
<1>2. CASE TickSetupAp \/ TickCandidateJoin \/ TickStoreStation \/ TickRaises
  <2>1. Ticked'
    BY <1>2, SetupTyped, CandidateTyped, StationTyped, RaiseTyped
  <2>2. Answered'
    BY <1>2, TypeInvParts
       DEF TickSetupAp, TickCandidateJoin, TickStoreStation, TickRaises, Answered,
           MailboxTypeOK, mailbox, sync
  <2> QED BY <2>1, <2>2
<1> QED BY <1>1, <1>2 DEF tick

LEMMA DownTyped ==
    ASSUME NEW bound \in Nat, NEW n \in 0..bound
    PROVE  Down(n) \in 0..bound
BY DEF Down

\* One step per action of the loop.
LEMMA NextKeepsTypes == TypeInv /\ [Next]_vars => TypeInv'
<1> SUFFICES ASSUME Ticked, Answered, AppTyped, [Next]_vars
             PROVE  Ticked' /\ Answered' /\ AppTyped'
  <2>1. Ticked' /\ Answered' /\ AppTyped' => TypeInv'
    BY DEF TypeInv, TypeOK, CoordinatorTypeOK, Ticked, Answered, AppTyped
  <2> QED BY <2>1, TypeInvParts
<1>1. CASE CoordinatorTurn
  <2>1. Ticked' /\ Answered'
    BY <1>1, TypeInvParts, TickTyped DEF CoordinatorTurn
  <2>2. AppTyped'
    BY <1>1 DEF CoordinatorTurn, AppTyped, app
  <2> QED BY <2>1, <2>2
<1>2. CASE Consume
  <2>1. UNCHANGED <<online, failures, setup, sync, fatal, told, command>>
    BY <1>2 DEF Consume, TakeResult, mailbox
  <2>2. result' \in Results \union {None} /\ idle' = idle
    BY <1>2 DEF Consume, TakeResult, mailbox, Answered, MailboxTypeOK
  <2>3. /\ inflight' \in Ids \union {None} /\ retry' \in 0..Retry
        /\ trust' \in {"synced", "unsynced"}
        /\ left' \in 0..Deadline /\ age' \in 0..Deadline
    BY <1>2, Ranges DEF Consume, AppTyped, Answered
  <2>4. Ticked' /\ Answered'
    BY <2>1, <2>2, <2>3
       DEF Ticked, Answered, MailboxTypeOK, online, wlan, station, setup, sync, told
  <2> QED BY <1>2, <2>3, <2>4 DEF Consume, AppTyped
<1>3. CASE MaybeEnqueue
  <2>1. UNCHANGED <<online, failures, setup, sync, fatal, told>>
    BY <1>3 DEF MaybeEnqueue
  <2>2. /\ command' \in Ids \union {None} /\ result' \in Results \union {None}
        /\ idle' \in BOOLEAN /\ left' \in 0..Deadline
    BY <1>3, Ranges DEF MaybeEnqueue, Enqueue, mailbox, AppTyped, Answered, MailboxTypeOK
  <2>3. next_id' \in Ids /\ inflight' \in Ids \union {None} /\ retry' \in 0..Retry
    BY <1>3 DEF MaybeEnqueue, AppTyped
  <2>4. Ticked' /\ Answered'
    BY <2>1, <2>2 DEF Ticked, Answered, MailboxTypeOK, online, wlan, station, setup, sync, told
  <2> QED BY <1>3, <2>3, <2>4 DEF MaybeEnqueue, AppTyped
<1>4. CASE Drain
  <2>1. /\ UNCHANGED <<mailbox, online, failures, setup, sync, fatal, left, astray>>
        /\ events' = <<>>
    BY <1>4 DEF Drain
  <2>2. Ticked' /\ Answered'
    BY <2>1 DEF Ticked, Answered, MailboxTypeOK, mailbox, online, wlan, station, setup, sync
  <2>3. /\ sync_enabled' \in BOOLEAN /\ retry' \in 0..Retry
        /\ overlay' \in {"none", "setup"}
    BY <1>4, Ranges DEF Drain, Applied, AppTyped
  <2> QED BY <1>4, <2>2, <2>3 DEF Drain, AppTyped
<1>5. CASE Time
  <2>1. timer' \in 0..TimerMax /\ left' \in 0..Deadline /\ retry' \in 0..Retry
    BY <1>5, DownTyped DEF Time, Ticked, Answered, AppTyped, TimerMax
  <2>2. age' \in 0..Deadline
    BY <1>5 DEF Time, AppTyped
  <2> QED BY <1>5, <2>1, <2>2
          DEF Time, Ticked, Answered, AppTyped, MailboxTypeOK, mailbox, wlan, setup, sync, told
<1>6. CASE Radio
  <2>1. joining' = joining /\ link' \in BOOLEAN
    BY <1>6 DEF Radio, LinkUp, LinkDown
  <2> QED BY <1>6, <2>1
          DEF Radio, Ticked, Answered, AppTyped, MailboxTypeOK, mailbox, station, setup,
              sync, told, app
<1>7. CASE StepAborted \/ UNCHANGED vars
  <2>1. /\ UNCHANGED <<mailbox, coordinator, app, age>>
        /\ turn' \in {turn, "tick"}
    BY <1>7 DEF StepAborted, vars
  <2> QED BY <2>1
          DEF coordinator, online, wlan, station, setup, sync, told, app, mailbox,
              Ticked, Answered, AppTyped, MailboxTypeOK
<1> QED BY <1>1, <1>2, <1>3, <1>4, <1>5, <1>6, <1>7 DEF Next, Loop

LEMMA InitTyped == Init => TypeInv
<1> SUFFICES ASSUME Init PROVE Ticked /\ Answered /\ AppTyped
  BY TypeInvParts
<1>1. Answered
  BY Ranges DEF Init, CoordinatorInit, MailboxInit, Answered, MailboxTypeOK
<1>2. AppTyped
  BY Ranges DEF Init, AppTyped
<1>3. Ticked
  <2>1. /\ stored \in Networks \union {None} /\ mode \in Modes /\ mode # "STATION_ONLINE"
        /\ joining = None /\ candidate = None /\ kdf = None
    BY DEF Init, CoordinatorInit, Modes
  <2>2. /\ link \in BOOLEAN /\ armed \in BOOLEAN /\ started \in BOOLEAN /\ apActive \in BOOLEAN
        /\ timer = 0 /\ failures = 0 /\ streak = 0 /\ events = <<>> /\ astray \in BOOLEAN
    BY DEF Init, CoordinatorInit
  <2> QED BY <2>1, <2>2, Ranges DEF Ticked
<1> QED BY <1>1, <1>2, <1>3

\* Every variable of the loop keeps its type; in particular no chain of failed
\* attempts, drops and forced reconnects takes _station_failure_count or
\* _online_sync_fail_streak past its limit.
THEOREM ClockLoopTypes == Spec => []TypeOK
<1>1. TypeInv => TypeOK
  BY DEF TypeInv
<1> QED BY <1>1, InitTyped, NextKeepsTypes, PTL DEF Spec

LEMMA TypesAlways == Spec => []TypeInv
BY InitTyped, NextKeepsTypes, PTL DEF Spec

----------------------------------------------------------------------------

\* Why an answer still in time is fresh: what is left of its deadline and the
\* time it has waited never exceed the deadline together.
AgeInv == result # None /\ left > 0 => left + age <= Deadline

LEMMA TickLeavesDeadline == ASSUME tick \/ TickRaises PROVE left' = left
BY DEF tick, TickSetupAp, TickCandidateJoin, TickStoreStation, TickOnline, TickRaises

LEMMA NextKeepsAge == TypeInv /\ AgeInv /\ [Next]_vars => AgeInv'
<1> SUFFICES ASSUME left \in 0..Deadline, age \in 0..Deadline, AgeInv, [Next]_vars
             PROVE  AgeInv'
  BY TypeInvParts DEF Answered, AppTyped
<1>1. CASE CoordinatorTurn
  <2>1. left' = left
    BY <1>1, TickLeavesDeadline DEF CoordinatorTurn
  <2>2. age' = 0 \/ (age' = age /\ (result # None \/ result' = None))
    BY <1>1 DEF CoordinatorTurn
  <2> QED BY <2>1, <2>2 DEF AgeInv
<1>2. CASE Consume
  <2>1. result' = None
    BY <1>2 DEF Consume, TakeResult, mailbox
  <2> QED BY <2>1 DEF AgeInv
<1>3. CASE MaybeEnqueue
  <2>1. age' = age /\ ((result' = result /\ left' = left) \/ (result = None /\ result' = None))
    BY <1>3 DEF MaybeEnqueue, Enqueue, Accepts, mailbox
  <2> QED BY <2>1 DEF AgeInv
<1>4. CASE Time
  <2>1. /\ result' = result /\ left' = Down(left)
        /\ age' = IF result = None \/ age = Deadline THEN age ELSE age + 1
    BY <1>4 DEF Time, mailbox
  <2>2. ASSUME result # None, left' > 0
        PROVE  left' + age' <= Deadline
    <3>1. left > 0 /\ left' = left - 1
      BY <2>1, <2>2 DEF Down
    <3>2. age < Deadline
      BY <2>2, <3>1 DEF AgeInv
    <3> QED BY <2>1, <2>2, <3>1, <3>2 DEF AgeInv
  <2> QED BY <2>1, <2>2 DEF AgeInv
<1>5. CASE UNCHANGED <<result, left, age>>
  BY <1>5 DEF AgeInv
<1>6. CASE Drain \/ StepAborted \/ Radio \/ UNCHANGED vars
  BY <1>5, <1>6 DEF Drain, StepAborted, Radio, vars, coordinator, mailbox
<1> QED BY <1>1, <1>2, <1>3, <1>4, <1>6 DEF Next, Loop

\* Only Consume uses a result, and only while time is left to the deadline.
LEMMA UsedInTime ==
    ASSUME TypeInv, AgeInv, [Next]_vars,
           result # None, turn = "consume", turn' = "enqueue", trust' = "synced"
    PROVE  age < Deadline
<1>1. Consume
  BY DEF Next, Loop, CoordinatorTurn, MaybeEnqueue, Drain, StepAborted, Time, Radio, vars
<1>2. left > 0
  BY <1>1 DEF Consume, Applies
<1> QED BY <1>2, TypeInvParts DEF AgeInv, Answered, AppTyped

\* The wall clock is never set from an answer as old as the deadline of its
\* request, whatever delays the loop meets between the exchange and the step.
THEOREM FreshClockAlways == Spec => FreshClock
<1> DEFINE Used == result # None /\ turn = "consume" /\ turn' = "enqueue" /\ trust' = "synced"
                      => age < Deadline
<1>1. Init => AgeInv
  BY DEF Init, CoordinatorInit, MailboxInit, AgeInv
<1>2. TypeInv /\ AgeInv /\ [Next]_vars => [Used]_vars
  BY UsedInTime
<1> QED BY <1>1, <1>2, TypesAlways, NextKeepsAge, PTL DEF Spec, FreshClock

----------------------------------------------------------------------------

\* Why the queue tells App whether the access point is up: unless the last way
\* online went astray, every switch of it is announced, and the last event waiting
\* tells how it stands.
ScreenInv ==
    /\ apActive => mode = "SETUP_AP" \/ candidate # None
    /\ candidate # None => mode # "SETUP_AP"
    /\ ~astray /\ events = <<>> => (apActive <=> overlay = "setup") /\ (apActive => ~sync_enabled)
    /\ ~astray /\ events # <<>> => (apActive <=> events[Len(events)] = "setup")

screenVars == <<mode, candidate, apActive, told, overlay, sync_enabled>>

LEMMA LastAppended ==
    ASSUME TypeInv, NEW e \in Events, events' = Append(events, e)
    PROVE  events' # <<>> /\ events'[Len(events')] = e
<1>1. events \in Seq(Events)
  BY DEF TypeInv, TypeOK, CoordinatorTypeOK
<1> QED BY <1>1

\* A step that announces how the access point stands.
LEMMA AnnouncedKeepsScreen ==
    ASSUME TypeInv, NEW e \in Events, events' = Append(events, e),
           astray' \/ (apActive' <=> e = "setup"),
           apActive' => mode' = "SETUP_AP" \/ candidate' # None,
           candidate' # None => mode' # "SETUP_AP"
    PROVE  ScreenInv'
BY LastAppended DEF ScreenInv

\* A step that announces nothing leaves the access point as it stands, or goes
\* astray.
LEMMA SilentKeepsScreen ==
    ASSUME ScreenInv, UNCHANGED <<events, overlay, sync_enabled>>,
           astray' \/ UNCHANGED <<apActive, astray>>,
           apActive' => mode' = "SETUP_AP" \/ candidate' # None,
           candidate' # None => mode' # "SETUP_AP"
    PROVE  ScreenInv'
BY DEF ScreenInv

LEMMA ActivateKeepsScreen ==
    ASSUME TypeInv, ScreenInv, ActivateAp, mode' = "SETUP_AP", ~apActive, candidate' = None,
           UNCHANGED <<overlay, sync_enabled>>
    PROVE  ScreenInv'
<1>1. CASE apActive' = TRUE /\ events' = Append(events, "setup")
  BY <1>1, AnnouncedKeepsScreen DEF Events
<1>2. CASE apActive' = FALSE /\ UNCHANGED told
  <2>1. (apActive' <=> apActive) /\ UNCHANGED <<events, astray>>
    BY <1>2 DEF told
  <2> QED BY <2>1 DEF ScreenInv
<1> QED BY <1>1, <1>2 DEF ActivateAp

LEMMA StationKeepsScreen ==
    ASSUME TypeInv, ScreenInv, TickStoreStation, UNCHANGED app
    PROVE  ScreenInv'
<1>1. /\ mode = "STATION_CONNECTING" /\ candidate = None /\ candidate' = None /\ ~apActive
      /\ UNCHANGED <<overlay, sync_enabled>>
  BY DEF TickStoreStation, ScreenInv, app
<1>2. CASE FailStation
  <2>1. CASE mode' = "SETUP_AP" /\ ActivateAp
    BY <1>1, <2>1, ActivateKeepsScreen
  <2>2. CASE UNCHANGED <<apActive, told>>
    BY <1>1, <2>2, SilentKeepsScreen DEF told
  <2> QED BY <1>2, <2>1, <2>2 DEF FailStation
<1>3. CASE StationJoined /\ UNCHANGED apActive
  <2>1. CASE events' = Append(events, "online") /\ astray' = FALSE
    <3>1. "online" \in Events /\ ~apActive'
      BY <1>1, <1>3 DEF Events
    <3> QED BY <1>1, <2>1, <3>1, AnnouncedKeepsScreen
  <2>2. CASE UNCHANGED told
    BY <1>1, <1>3, <2>2, SilentKeepsScreen DEF told
  <2> QED BY <1>3, <2>1, <2>2 DEF StationJoined
<1>4. CASE UNCHANGED <<mode, apActive, told>>
  BY <1>1, <1>4, SilentKeepsScreen DEF told
<1> QED BY <1>2, <1>3, <1>4
        DEF TickStoreStation, BeginAttempt, AttemptTimesOut, AttemptProceeds

\* Going online is announced, or it goes astray.
LEMMA CandidateOnlineKeepsScreen ==
    ASSUME TypeInv, ScreenInv, NEW apDropped \in BOOLEAN, CandidateOnline(apDropped),
           apDropped => ~apActive',
           apActive' => candidate' # None, UNCHANGED <<overlay, sync_enabled>>
    PROVE  ScreenInv'
<1>1. mode' = "STATION_ONLINE"
  BY DEF CandidateOnline
<1>2. CASE events' = Append(events, "online") /\ astray' = ~apDropped
  <2>1. "online" \in Events
    BY DEF Events
  <2> QED BY <1>1, <1>2, <2>1, AnnouncedKeepsScreen
<1>3. CASE UNCHANGED events /\ astray' = TRUE
  BY <1>1, <1>3, SilentKeepsScreen
<1> QED BY <1>2, <1>3 DEF CandidateOnline

LEMMA CandidateKeepsScreen ==
    ASSUME TypeInv, ScreenInv, TickCandidateJoin, UNCHANGED app
    PROVE  ScreenInv'
<1>1. mode = "STATION_CONNECTING" /\ candidate # None /\ UNCHANGED <<overlay, sync_enabled>>
  BY DEF TickCandidateJoin, app
<1>2. CASE FailCandidate
  BY <1>1, <1>2, SilentKeepsScreen DEF FailCandidate, told
<1>3. CASE CandidateJoined
  BY <1>1, <1>3, CandidateOnlineKeepsScreen DEF CandidateJoined
<1>4. CASE UNCHANGED <<mode, candidate, apActive, told>>
  BY <1>1, <1>4, SilentKeepsScreen DEF told
<1> QED BY <1>2, <1>3, <1>4
        DEF TickCandidateJoin, CandidateTimesOut, CandidateProceeds, CandidateKdf, setup

LEMMA RaiseKeepsScreen ==
    ASSUME TypeInv, ScreenInv, TickRaises, UNCHANGED app
    PROVE  ScreenInv'
<1>1. /\ CandidateOnline(FALSE) /\ candidate' # None
      /\ UNCHANGED <<overlay, sync_enabled>>
  BY DEF TickRaises, CandidateLeftOver, app
<1> QED BY <1>1, CandidateOnlineKeepsScreen

LEMMA SetupKeepsScreen ==
    ASSUME TypeInv, ScreenInv, TickSetupAp, UNCHANGED app
    PROVE  ScreenInv'
<1>1. /\ mode = "SETUP_AP" /\ candidate = None
      /\ UNCHANGED <<overlay, sync_enabled>>
  BY DEF TickSetupAp, ScreenInv, app
<1>2. CASE ~apActive /\ ActivateAp /\ UNCHANGED <<mode, candidate>>
  BY <1>1, <1>2, ActivateKeepsScreen
<1>3. CASE StartCandidate /\ UNCHANGED <<apActive, told>>
  <2>1. candidate' # None /\ mode' = "STATION_CONNECTING"
    BY <1>3 DEF StartCandidate
  <2> QED BY <1>1, <1>3, <2>1, SilentKeepsScreen DEF told
<1>4. CASE UNCHANGED <<mode, candidate, apActive, told>>
  BY <1>1, <1>4, SilentKeepsScreen DEF told
<1> QED BY <1>2, <1>3, <1>4 DEF TickSetupAp

\* A drop or a failed exchange does not touch the access point.
LEMMA OnlineKeepsScreen ==
    ASSUME TypeInv, ScreenInv, TickOnline, UNCHANGED app
    PROVE  ScreenInv'
<1>1. /\ mode = "STATION_ONLINE"
      /\ UNCHANGED <<overlay, sync_enabled, candidate, apActive, told>>
  BY DEF TickOnline, app, setup
<1>2. mode' \in {mode, "STATION_CONNECTING"}
  BY DEF TickOnline, StationDropped, NothingToDo, TakesCommand, Exchanges, StartNtp, PollNtp,
         CommandExpires, Finish, SyncFailed, Arm, online
<1> QED BY <1>1, <1>2 DEF ScreenInv, told

LEMMA NextKeepsScreen == TypeInv /\ ScreenInv /\ [Next]_vars => ScreenInv'
<1> SUFFICES ASSUME TypeInv, ScreenInv, [Next]_vars
             PROVE  ScreenInv'
  OBVIOUS
<1>1. CASE CoordinatorTurn
  BY <1>1, StationKeepsScreen, CandidateKeepsScreen, RaiseKeepsScreen, SetupKeepsScreen,
     OnlineKeepsScreen
     DEF CoordinatorTurn, tick
<1>2. CASE Drain /\ events # <<>>
  <2>1. /\ apActive' = apActive /\ mode' = mode /\ candidate' = candidate /\ events' = <<>>
        /\ astray' = astray
        /\ sync_enabled' = (events[Len(events)] = "online")
        /\ overlay' = "setup" <=> events[Len(events)] = "setup"
    BY <1>2 DEF Drain, Applied, online, setup
  <2> QED BY <1>2, <2>1 DEF ScreenInv
<1>3. CASE UNCHANGED screenVars
  BY <1>3 DEF ScreenInv, screenVars, told
<1>4. CASE Drain /\ events = <<>>
  BY <1>3, <1>4 DEF Drain, online, setup, screenVars, told
<1>5. CASE StepAborted \/ UNCHANGED vars
  <2>1. UNCHANGED <<coordinator, sync_enabled, overlay>>
    BY <1>5 DEF StepAborted, vars, app
  <2> QED BY <1>3, <2>1 DEF coordinator, online, setup, screenVars
<1>6. CASE Consume \/ MaybeEnqueue
  BY <1>3, <1>6 DEF Consume, MaybeEnqueue, online, setup, screenVars
<1>7. CASE Time
  BY <1>3, <1>7 DEF Time, setup, screenVars
<1>8. CASE Radio
  BY <1>3, <1>8 DEF Radio, setup, app, screenVars
<1> QED BY <1>1, <1>2, <1>4, <1>5, <1>6, <1>7, <1>8 DEF Next, Loop

\* With its events drained App shows the set-up screen, and asks for no
\* synchronization, exactly while the access point is up, except after a way
\* online App could not be told of or that left the access point up: no order of
\* drops, failed joins, lost station events, retried activations and drains leaves
\* a stale overlay, and the next change App is told of ends the exception.
THEOREM SetupOnScreenAlways == Spec => []SetupOnScreen
<1>1. Init => ScreenInv
  BY DEF Init, CoordinatorInit, ScreenInv
<1>2. ScreenInv => SetupOnScreen
  BY DEF ScreenInv, SetupOnScreen
<1> QED BY <1>1, <1>2, TypesAlways, NextKeepsScreen, PTL DEF Spec
=============================================================================
