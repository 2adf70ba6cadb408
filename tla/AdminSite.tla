----------------------------- MODULE AdminSite -----------------------------
(***************************************************************************)
(* Config mode (src/src/device/config_mode.py) from the knock that asks    *)
(* for it to the reset that ends it: the administration site, served by    *)
(* the station half of the coordinator, with its sessions                  *)
(* (src/src/provisioning/session.py), logins and password changes.         *)
(*                                                                         *)
(* A tick is split where the code reads the outside world again: the key   *)
(* derivation, the new connections, the waiting answers, one request.      *)
(* Idle deadlines of sessions are a choice: a session may expire whenever. *)
(***************************************************************************)
EXTENDS HttpServer, FiniteSets

CONSTANTS
    SessionIds,
    SessionMax,   \* SESSION_MAX
    KdfSteps,     \* steps of a key derivation
    IdleLimit,    \* CONFIG_MODE_IDLE_MS, in units of Time
    NoMemory      \* whether building the answer to a derivation may raise

ASSUME SiteAssumption ==
    /\ SessionMax \in Nat \ {0} /\ KdfSteps \in Nat \ {0} /\ IdleLimit \in Nat \ {0}
    /\ IsFiniteSet(SessionIds) /\ Cardinality(SessionIds) >= SessionMax
    /\ NoMemory \in BOOLEAN /\ None \notin SessionIds

VARIABLES
    device,     \* "off", "clock" or "config"
    flag,       \* the config-mode flag file exists
    knocked,    \* observer: somebody knocked since config mode last took the flag away
    phase,      \* what config mode does next
    online,     \* the coordinator's mode is STATION_ONLINE
    backoff,    \* _web_next_retry has not come
    job,        \* _kdf_job with _kdf_acting_session_id and the browser that asked, or None
    sessions,   \* the session table, with the password each session was opened with
    password,   \* the verifier of the settings in memory
    flash,      \* the verifier on flash
    exit,       \* exit_requested
    idle        \* time left to idle_deadline

auth == <<job, sessions, password, flash>>
loop == <<online, backoff, exit, idle>>
vars == <<server, device, flag, knocked, phase, auth, loop>>

Sessions == [id : SessionIds, password : Passwords]
Jobs == [kind : {"login", "change"}, by : Browsers, password : Passwords,
         acting : SessionIds \union {None}, left : 1..KdfSteps]

Live == {s.id : s \in sessions}

Phases == {"kdf", "accept", "serve", "read", "loop"}

Tick(from, to) == device = "config" /\ phase = from /\ phase' = to /\ UNCHANGED <<device, flag, knocked>>

----------------------------------------------------------------------------
(* The key derivation. *)

\* SessionTable.create, for the password that was just verified.
CreateSession ==
    \/ Cardinality(sessions) >= SessionMax /\ UNCHANGED sessions   \* busy
    \/ /\ Cardinality(sessions) < SessionMax
       /\ \E id \in SessionIds \ Live :
              sessions' = sessions \union {[id |-> id, password |-> job.password]}

\* Mutant of FinishLogin: a session is opened although nobody waits for it.
FinishLoginUnheld ==
    /\ IF job.password = password THEN CreateSession ELSE UNCHANGED sessions
    /\ AnswerHeld
    /\ UNCHANGED <<password, flash>>

\* _finish_login_kdf
FinishLogin ==
    /\ IF job.password = password /\ held # None THEN CreateSession ELSE UNCHANGED sessions
    /\ AnswerHeld
    /\ UNCHANGED <<password, flash>>

\* SessionTable.keep_only
KeepOnly(id) ==
    sessions' = IF id \in Live THEN {[id |-> id, password |-> job.password]} ELSE {}

\* Mutant of FinishChange: the other sessions are kept.
FinishChangeKeepsAll ==
    /\ \/ password' = job.password /\ flash' = job.password
       \/ UNCHANGED password /\ flash' \in {flash, job.password}
    /\ AnswerHeld
    /\ UNCHANGED sessions

\* _commit_password_change: a commit that fails may have reached the flash.
StoreChange ==
    \/ password' = job.password /\ flash' = job.password /\ KeepOnly(job.acting)
    \/ UNCHANGED <<password, sessions>> /\ flash' \in {flash, job.password}

\* _finish_password_change_kdf
FinishChange == StoreChange /\ AnswerHeld

\* The derivation itself may fail.
FinishFails == AnswerHeld /\ UNCHANGED <<sessions, password, flash>>

FinishJob ==
    /\ job.left = 1
    /\ job' = None
    /\ \/ job.kind = "login" /\ FinishLogin
       \/ job.kind = "change" /\ FinishChange
       \/ FinishFails

\* Mutant of StepKdf: the job is not stepped while nobody waits for it.
StepKdfIfHeld ==
    /\ online
    /\ IF job = None \/ held = None THEN UNCHANGED <<server, auth>>
       ELSE \/ /\ job.left > 1
               /\ job' = [job EXCEPT !.left = @ - 1]
               /\ UNCHANGED <<server, sessions, password, flash>>
            \/ FinishJob
    /\ UNCHANGED loop

\* The first half of _tick_station_config.
StepKdf ==
    /\ online
    /\ IF job = None THEN UNCHANGED <<server, auth>>
       ELSE \/ /\ job.left > 1
               /\ job' = [job EXCEPT !.left = @ - 1]
               /\ UNCHANGED <<server, sessions, password, flash>>
            \/ FinishJob
    /\ UNCHANGED loop

\* The derivation ended but its answer could not be built: the exception leaves
\* the tick, and whoever is held stays held.
FinishRaises ==
    /\ NoMemory /\ online
    /\ job # None
    /\ job.left = 1
    /\ job' = None
    /\ \/ /\ job.kind = "login"
          /\ IF job.password = password /\ held # None THEN CreateSession ELSE UNCHANGED sessions
          /\ UNCHANGED <<password, flash>>
       \/ job.kind = "change" /\ held # None /\ StoreChange
    /\ UNCHANGED <<server, loop>>

\* _watch_station_drop, or the reconnect a streak of failed syncs forces:
\* _abort_config_auth cancels the job and closes the server.
StationDrops ==
    /\ online
    /\ online' = FALSE
    /\ job' = None
    /\ CloseAll
    /\ UNCHANGED <<sessions, password, flash, backoff, exit, idle>>

Reconnecting ==
    /\ ~online
    /\ online' \in BOOLEAN
    /\ UNCHANGED <<server, auth, backoff, exit, idle>>

\* Reconnecting failed until the device offered its setup network, and a setup
\* chose a password.  The sessions stay: from here on they count as the new
\* password's.
SetUp ==
    /\ ~online
    /\ \E p \in Passwords :
           /\ flash' = p
           /\ \/ /\ online' = TRUE /\ password' = p
                 /\ sessions' = {[id |-> id, password |-> p] : id \in Live}
              \/ UNCHANGED <<online, password, sessions>>   \* a commit that fails late
    /\ UNCHANGED <<server, job, backoff, exit, idle>>

KdfTurn ==
    \/ Tick("kdf", "accept") /\ StepKdf
    \/ Tick("kdf", "loop") /\ (FinishRaises \/ StationDrops \/ Reconnecting \/ SetUp)

----------------------------------------------------------------------------
(* One tick of the server. *)

\* After a failure the site waits for HTTP_RETRY_MS; whatever raises in the
\* server closes the clients, a socket that cannot be bound has none.
AcceptTurn ==
    \/ /\ Tick("accept", "loop")
       /\ backoff
       /\ UNCHANGED <<server, auth, loop>>
    \/ /\ Tick("accept", "loop")
       /\ ~backoff
       /\ CloseClients
       /\ backoff' = TRUE
       /\ UNCHANGED <<auth, online, exit, idle>>
    \/ /\ Tick("accept", "serve")
       /\ ~backoff
       /\ TryAccept
       /\ UNCHANGED <<auth, loop>>

ServeTurn ==
    /\ \/ Tick("serve", "loop") /\ WriteClient
       \/ Tick("serve", "read") /\ answers = {} /\ PollHeld
    /\ UNCHANGED <<auth, loop>>

\* kdf_busy
Busy == job # None \/ held # None

\* The request becomes the held client's job, unless it ends at once: no
\* verifier, or a job that fails when it is made.  Without memory for the job
\* every client is dropped.
StartJob(b, kind, pw, acting) ==
    \/ /\ job' = [kind |-> kind, by |-> b, password |-> pw, acting |-> acting, left |-> KdfSteps]
       /\ held' = b
       /\ asks' = [asks EXCEPT ![b] = None]
       /\ UNCHANGED <<wire, clients, answers, backoff>>
    \/ /\ Answer(b)
       /\ asks' = [asks EXCEPT ![b] = None]
       /\ UNCHANGED <<job, held, backoff>>
    \/ CloseClients /\ backoff' = TRUE /\ UNCHANGED job

Responds(b) ==
    /\ Answer(b)
    /\ asks' = [asks EXCEPT ![b] = None]
    /\ UNCHANGED <<held, job, backoff>>

\* _dispatch_config with route_config_request: a login and a change are refused
\* while a derivation runs, a change without a live session as well.  A page may
\* be the answer to leaving, or to saving alerts, which writes the whole record again.
Dispatch(b, q) ==
    /\ exit' \in {exit, exit \/ q.kind = "page"}
    /\ \/ flash' = flash
       \/ q.kind = "page" /\ ~Busy /\ Live # {} /\ flash' = password
    /\ \/ q.kind = "page" /\ Responds(b)
       \/ q.kind \in {"login", "change"} /\ Busy /\ Responds(b)
       \/ q.kind = "login" /\ ~Busy /\ StartJob(b, "login", q.password, None)
       \/ q.kind = "change" /\ Responds(b)
       \/ /\ q.kind = "change" /\ ~Busy
          /\ \E id \in Live : StartJob(b, "change", q.password, id)
    /\ UNCHANGED <<sessions, password, online, idle>>

ReadTurn ==
    /\ Tick("read", "loop")
    /\ \/ ReadsNothing /\ UNCHANGED <<auth, loop>>
       \/ /\ ~(Clients \subseteq {held}) /\ asks[Reader] # None
          /\ Dispatch(Reader, asks[Reader])

----------------------------------------------------------------------------
(* The rest of the loop, and the device around it. *)

Reset ==
    /\ device' = "off"
    /\ CloseAll
    /\ phase' = "kdf" /\ job' = None /\ sessions' = {} /\ password' = flash
    /\ online' = FALSE /\ backoff' = FALSE /\ exit' = FALSE /\ idle' = IdleLimit
    /\ UNCHANGED <<knocked, flash>>

\* Mutant of WebBusy: a session counts although no browser is there.
WebBusyInSession == job # None \/ clients # <<>> \/ sessions # {}

\* web_busy: a connection counts, whether it asks for anything or not.
WebBusy == job # None \/ clients # <<>>

\* run() after the tick: exit, a due alert or the idle timeout end config mode.
LoopTurn ==
    /\ device = "config" /\ phase = "loop"
    /\ LET left == IF WebBusy THEN IdleLimit ELSE idle
       IN  \/ Reset /\ UNCHANGED flag   \* a due alert always may; exit and timeout must
           \/ /\ ~exit /\ left > 0
              /\ phase' = "kdf" /\ idle' = left
              /\ UNCHANGED <<server, device, flag, knocked, auth, online, backoff, exit>>

\* Mutant of Boot: the flag is left for the end of the session.
BootKeepsFlag ==
    /\ device = "off"
    /\ device' = IF flag THEN "config" ELSE "clock"
    /\ knocked' = (knocked /\ ~flag)
    /\ UNCHANGED <<server, flag, phase, auth, loop>>

\* consume_config_mode: removing the flag may fail, and then it asks again.
Boot ==
    /\ device = "off"
    /\ device' = IF flag THEN "config" ELSE "clock"
    /\ flag' \in {FALSE, flag}
    /\ knocked' = (knocked /\ (flag => flag'))
    /\ UNCHANGED <<server, phase, auth, loop>>

\* ConfigModeKnock.tick: the flag is written and the device reset, or writing
\* fails, perhaps after the file was created.
Knock ==
    /\ device = "clock"
    /\ knocked' = TRUE
    /\ \/ flag' = TRUE /\ device' = "off"
       \/ flag' \in {flag, TRUE} /\ UNCHANGED device
    /\ UNCHANGED <<server, phase, auth, loop>>

PowerLoss ==
    /\ device # "off"
    /\ Reset
    /\ UNCHANGED flag

\* A session's idle deadline, the end of the back-off and the idle timeout.
Expires ==
    /\ device = "config"
    /\ \E s \in sessions : sessions' = sessions \ {s}
    /\ UNCHANGED <<server, device, flag, knocked, phase, job, password, flash, loop>>

Time ==
    /\ device = "config" /\ phase = "kdf"
    /\ backoff \/ idle > 0
    /\ backoff' \in {backoff, FALSE}
    /\ idle' = IF idle = 0 THEN 0 ELSE idle - 1
    /\ UNCHANGED <<server, device, flag, knocked, phase, auth, online, exit>>

Browse ==
    /\ device = "config"
    /\ \E b \in Browsers : (online /\ Opens(b)) \/ Sends(b) \/ Closes(b)
    /\ UNCHANGED <<device, flag, knocked, phase, auth, loop>>

Init ==
    /\ ServerInit
    /\ device = "off" /\ flag = FALSE /\ knocked = FALSE
    /\ phase = "kdf" /\ job = None /\ sessions = {}
    /\ password \in Passwords /\ flash = password
    /\ online = FALSE /\ backoff = FALSE /\ exit = FALSE /\ idle = IdleLimit

Loop == KdfTurn \/ AcceptTurn \/ ServeTurn \/ ReadTurn \/ LoopTurn

Next == Loop \/ Boot \/ Knock \/ PowerLoss \/ Expires \/ Time \/ Browse

\* The loop goes round and time passes while it does; nobody has to knock,
\* browse or pull the plug.
Fairness == WF_vars(Loop) /\ SF_vars(Time)

Spec == Init /\ [][Next]_vars /\ Fairness

----------------------------------------------------------------------------
(* Properties. *)

TypeOK ==
    /\ ServerTypeOK
    /\ device \in {"off", "clock", "config"} /\ flag \in BOOLEAN /\ knocked \in BOOLEAN
    /\ phase \in Phases /\ online \in BOOLEAN /\ backoff \in BOOLEAN /\ exit \in BOOLEAN
    /\ job \in Jobs \union {None} /\ idle \in 0..IdleLimit
    /\ sessions \subseteq Sessions /\ Cardinality(sessions) <= SessionMax
    /\ password \in Passwords /\ flash \in Passwords

\* SessionsCurrent: every session was opened with, has chosen, or has outlived
\* the setup of, the password that is in force: a change ends all other sessions,
\* and only if it is stored.
SessionsCurrent == \A s \in sessions : s.password = password

\* SessionEarned: a session appears only when the derivation of a login with
\* the password in force ends while the browser that sent it is still held.
SessionEarned ==
    [][Live' \ Live # {}
          => job # None /\ job.kind = "login" /\ job.password = password /\ held = job.by]_vars

\* OneKnockOneSession: config mode begins only if there was a knock since it
\* last began and took the flag away, whatever crashes lie between.
OneKnockOneSession ==
    [][device # "config" /\ device' = "config" => knocked]_vars

\* JobEnds: a derivation ends even if its browser is gone and the server fails.
JobEnds == job # None ~> job = None

\* AbandonedEnds: config mode does not go on for ever, online or not, without any
\* connection.
AbandonedEnds == []<>(device # "config" \/ clients # <<>> \/ job # None)
=============================================================================
