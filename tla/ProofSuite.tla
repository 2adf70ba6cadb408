---------------------------- MODULE ProofSuite ----------------------------
(***************************************************************************)
(* The flashable proof of the mailbox protocol: device/network/proof.py on *)
(* the main thread, and device/network/worker.py, which runs stubbed DNS   *)
(* and NTP operations on a thread of its own.  Both take the lock for each *)
(* call of the mailbox and for nothing else, so a call is one step and any *)
(* step of the other thread may come between two of them.                  *)
(*                                                                         *)
(* Time is not counted: a wait may time out at any moment and an operation *)
(* may pass its command's deadline at any moment.                          *)
(***************************************************************************)
EXTENDS Mailbox, Sequences

CONSTANT Iterations   \* PROOF_SUSTAINED_ITERATIONS: how long the last scenario is

ASSUME IterationsAssumption == Iterations \in Nat \ {0}

VARIABLES
    epoch,      \* the mailbox's epoch, bumped by each soft_reset
    mode,       \* what the stubbed operation answers
    busy,       \* whether it takes its time (delay_ms)
    job,        \* what the worker is doing, or None
    running,    \* the worker's _running
    fatal,      \* worker.fatal: an answer could not be published
    scenario,   \* which scenario of the suite runs
    at,         \* its next instruction, 0 while the mailbox settles after it
    failed,     \* something of it went wrong: it is marked FAIL
    \* What follows is observed for the properties.
    last,       \* the command accepted last
    late        \* something of the scenario took longer, or less, than it allows

worker == <<job, running>>
stubs == <<mode, busy>>
script == <<scenario, at>>
observed == <<last, late>>
suiteVars == <<mailbox, epoch, stubs, worker, fatal, script, failed, observed>>

Codes == {"ok", "dns_fail", "ntp_fail", "deadline", "planted"}
Answers == [id : Ids, code : Codes]
Jobs == [id : Ids, epoch : Nat, code : Codes \union {"begun", "busy", "working"}]

\* The script's command ids, and None is none of the values used.
ASSUME IdsAssumption ==
    /\ 1 .. 10 \union {90, 91} \union {1000 + k : k \in 0 .. Iterations - 1} \subseteq Ids
    /\ None \notin Ids
    /\ None \notin Answers \union Jobs

(***************************************************************************)
(* The scenarios, as the instructions they consist of.  `else' says how    *)
(* many instructions a scenario goes on when one of them goes wrong.       *)
(***************************************************************************)
GiveUp == 99

Ops(m) == [do |-> "ops", mode |-> m, busy |-> FALSE]
SlowOps(m) == [do |-> "ops", mode |-> m, busy |-> TRUE]
Enq(n, else) == [do |-> "enqueue", id |-> n, else |-> else]
Retry(n) == [do |-> "retry", id |-> n]           \* has to be refused
Await(ids, codes, else) == [do |-> "await", want |-> [id : ids, code : codes], else |-> else]
Do(what) == [do |-> what]

\* Iteration k: a command and its answer.
Sustained ==
    <<Ops("ok")>> \o
    [k \in 1 .. 2 * Iterations |->
        LET n == 1000 + (k - 1) \div 2
        IN  IF k % 2 = 1 THEN Enq(n, 2) ELSE Await({n}, {"ok"}, 1)]

Scenarios == <<
    <<Ops("ok"), Enq(1, GiveUp), Await({1}, {"ok"}, GiveUp)>>,
    <<Ops("dns_fail"), Enq(2, GiveUp), Await(Ids, {"dns_fail"}, GiveUp)>>,
    <<Ops("ntp_fail"), Enq(3, GiveUp), Await(Ids, {"ntp_fail"}, GiveUp)>>,
    <<SlowOps("ok"), Enq(91, GiveUp), Do("taken"), Do("plant"), Do("fatal"), Do("prior")>>,
    <<Ops("ok"), Enq(4, GiveUp), Await(Ids, Codes, GiveUp)>>,
    <<Ops("ok"), Enq(5, GiveUp), Retry(6), Await(Ids, Codes, GiveUp), Do("idle"),
      Enq(7, 1), Await({7}, Codes, GiveUp)>>,
    <<SlowOps("ok"), Enq(8, GiveUp), Do("reset"), Do("clean"),
      Ops("ok"), Enq(9, 1), Await({9}, Codes, GiveUp)>>,
    <<SlowOps("ok"), Enq(10, GiveUp), Do("look"), Do("poll")>>,
    Sustained>>

Over == scenario > Len(Scenarios)
Doing(what) == ~Over /\ at # 0 /\ Scenarios[scenario][at].do = what
Instr == Scenarios[scenario][at]

\* Go k instructions on; past the last one the mailbox settles.
Forward(k) ==
    /\ at' = IF at + k > Len(Scenarios[scenario]) THEN 0 ELSE at + k
    /\ UNCHANGED scenario

Wrong(k) == failed' = TRUE /\ Forward(k)
Right == UNCHANGED failed /\ Forward(1)

-----------------------------------------------------------------------------
(***************************************************************************)
(* The main thread: run_proof and its scenarios.                           *)
(***************************************************************************)
\* Mutant of Reset: the epoch stays, so the answer to a dropped command counts.
ResetSlotsOnly == SoftReset /\ UNCHANGED epoch

Reset == SoftReset /\ epoch' = epoch + 1

SetOps ==
    /\ Doing("ops")
    /\ mode' = Instr.mode
    /\ busy' = Instr.busy
    \* scenario_soft_reset clears the flag when it sets its second operation.
    /\ fatal' = (fatal /\ at = 1)
    /\ Right
    /\ UNCHANGED <<mailbox, epoch, worker, observed>>

EnqueueCommand ==
    /\ Doing("enqueue")
    /\ IF Accepts
       THEN Enqueue(Instr.id) /\ last' = Instr.id /\ Right
       ELSE UNCHANGED <<mailbox, last>> /\ Wrong(Instr.else)
    /\ UNCHANGED <<epoch, stubs, worker, fatal, late>>

RetryCommand ==
    /\ Doing("retry")
    /\ IF Accepts
       THEN Enqueue(Instr.id) /\ last' = Instr.id /\ Wrong(1)
       ELSE UNCHANGED <<mailbox, last>> /\ Right
    /\ UNCHANGED <<epoch, stubs, worker, fatal, late>>

\* _wait_result: an answer, or the deadline and a soft reset.
AwaitAnswer ==
    /\ Doing("await")
    /\ TakeResult
    /\ IF result \in Instr.want THEN Right ELSE Wrong(Instr.else)
    /\ late' = (late \/ result.code = "deadline")
    /\ UNCHANGED <<epoch, stubs, worker, fatal, last>>

AwaitExpires ==
    /\ Doing("await")
    /\ Reset
    /\ Wrong(Instr.else)
    /\ late' = TRUE
    /\ UNCHANGED <<stubs, worker, fatal, last>>

\* The other waits: for the worker to take the command, for its verdict, for an
\* empty or an idle mailbox.
Reached ==
    \/ Doing("taken") /\ command = None
    \/ Doing("fatal") /\ fatal
    \/ Doing("clean") /\ idle /\ command = None /\ result = None
    \/ Doing("idle") /\ idle

WaitEnds ==
    /\ Reached
    /\ Right
    /\ UNCHANGED <<mailbox, epoch, stubs, worker, fatal, observed>>

WaitExpires ==
    /\ \/ Doing("taken") /\ Reset /\ busy' = FALSE /\ Wrong(GiveUp)
       \/ Doing("fatal") /\ UNCHANGED <<mailbox, epoch, busy>> /\ Wrong(1)
       \/ Doing("clean") /\ UNCHANGED <<mailbox, epoch, busy>> /\ Wrong(GiveUp)
       \/ Doing("idle") /\ UNCHANGED <<mailbox, epoch, busy>> /\ Wrong(GiveUp)
    /\ late' = TRUE
    /\ UNCHANGED <<mode, worker, fatal, last>>

\* The slot is filled while the worker is busy; if it was too fast, the plant raises.
Plant ==
    /\ Doing("plant")
    /\ \/ Occupy([id |-> 90, code |-> "planted"]) /\ UNCHANGED <<epoch, busy, late>> /\ Right
       \/ /\ Saturated
          /\ Reset
          /\ busy' = FALSE
          /\ late' = (late \/ result.id = last)
          /\ Wrong(GiveUp)
    /\ UNCHANGED <<mode, worker, fatal, last>>

\* What is in the slot has to be what was planted; then everything is cleared.
CheckPrior ==
    /\ Doing("prior")
    /\ IF result # None /\ result.code = "planted" THEN Right ELSE Wrong(1)
    /\ Reset
    /\ fatal' = FALSE
    /\ busy' = FALSE
    /\ UNCHANGED <<mode, worker, observed>>

SoftResetBusy ==
    /\ Doing("reset")
    /\ Reset
    /\ Right
    /\ UNCHANGED <<stubs, worker, fatal, observed>>

\* scenario_render_continuity polls; an answer at the first look is too early
\* (the bound PROOF_RENDER_MIN_POLLS is two here).
Poll ==
    /\ \/ Doing("look") /\ result = None /\ Right /\ UNCHANGED <<mailbox, late, busy>>
       \/ Doing("look") /\ TakeResult /\ Wrong(GiveUp) /\ late' = TRUE /\ busy' = FALSE
       \/ Doing("poll") /\ TakeResult /\ Right /\ UNCHANGED late /\ busy' = FALSE
    /\ UNCHANGED <<epoch, mode, worker, fatal, last>>

PollExpires ==
    /\ Doing("poll")
    /\ Reset
    /\ busy' = FALSE
    /\ late' = TRUE
    /\ Wrong(GiveUp)
    /\ UNCHANGED <<mode, worker, fatal, last>>

\* _settle, between two scenarios: drain, then wait for idle, or clear.
NextScenario ==
    /\ scenario' = scenario + 1
    /\ at' = 1
    /\ failed' = FALSE
    /\ late' = FALSE
    /\ fatal' = FALSE
    /\ running' = (scenario # Len(Scenarios))

Drain ==
    /\ ~Over /\ at = 0
    /\ TakeResult
    /\ UNCHANGED <<epoch, stubs, worker, fatal, script, failed, observed>>

Settled ==
    /\ ~Over /\ at = 0
    /\ result = None /\ idle /\ command = None
    /\ NextScenario
    /\ UNCHANGED <<mailbox, epoch, stubs, job, last>>

SettleExpires ==
    /\ ~Over /\ at = 0
    /\ Reset
    /\ NextScenario
    /\ UNCHANGED <<stubs, job, last>>

Main ==
    \/ SetOps \/ EnqueueCommand \/ RetryCommand
    \/ AwaitAnswer \/ AwaitExpires \/ WaitEnds \/ WaitExpires
    \/ Plant \/ CheckPrior \/ SoftResetBusy \/ Poll \/ PollExpires
    \/ Drain \/ Settled \/ SettleExpires

-----------------------------------------------------------------------------
(***************************************************************************)
(* The worker's thread.                                                    *)
(***************************************************************************)
Take ==
    /\ running /\ job = None
    /\ TakeCommand
    /\ job' = [id |-> command, epoch |-> epoch, code |-> "begun"]
    /\ UNCHANGED <<epoch, stubs, running, fatal, script, failed, observed>>

\* _run_ops: a stub with a delay is busy with it first.
Begin ==
    /\ job # None /\ job.code = "begun"
    /\ job' = [job EXCEPT !.code = IF busy THEN "busy" ELSE "working"]
    /\ UNCHANGED <<mailbox, epoch, stubs, running, fatal, script, failed, observed>>

\* The stub reads its mode when it answers; the deadline is looked at all along.
Finish ==
    /\ job # None /\ job.code \in {"begun", "busy", "working"}
    /\ \E code \in {"deadline"} \union (IF job.code = "begun" THEN {} ELSE {mode}) :
          job' = [job EXCEPT !.code = code]
    /\ UNCHANGED <<mailbox, epoch, stubs, running, fatal, script, failed, observed>>

Answered == job # None /\ job.code \in Codes

\* publish_result: discarded after a soft reset, refused by an occupied slot.
\* Mutant of Orphaned: the epoch is not compared.
NeverOrphaned == FALSE

Orphaned == job.epoch # epoch

\* Mutant of PublishAnswer: what the operation has so far is published.
PublishEarly ==
    /\ job # None
    /\ job' = None
    /\ \/ Orphaned /\ UNCHANGED mailbox
       \/ ~Orphaned /\ ~Saturated /\ Publish([id |-> job.id, code |-> job.code]) /\ UNCHANGED command
    /\ UNCHANGED <<fatal, epoch, stubs, running, script, failed, observed>>

PublishAnswer ==
    /\ Answered
    /\ job' = None
    /\ \/ Orphaned /\ UNCHANGED <<mailbox, fatal>>
       \/ ~Orphaned /\ Saturated /\ fatal' = TRUE /\ UNCHANGED mailbox
       \/ /\ ~Orphaned /\ ~Saturated
          /\ Publish([id |-> job.id, code |-> job.code])
          /\ UNCHANGED <<command, fatal>>
    /\ UNCHANGED <<epoch, stubs, running, script, failed, observed>>

Work == Take \/ Begin \/ Finish \/ PublishAnswer

-----------------------------------------------------------------------------
SuiteInit ==
    /\ MailboxInit
    /\ epoch = 0
    /\ mode = "ok" /\ busy = FALSE
    /\ job = None /\ running = TRUE /\ fatal = FALSE
    /\ scenario = 1 /\ at = 1
    /\ failed = FALSE
    /\ last = None /\ late = FALSE

\* After the last scenario the process is only kept alive.
KeepAlive == Over /\ UNCHANGED suiteVars

SuiteNext == Main \/ Work \/ KeepAlive

SuiteSpec == SuiteInit /\ [][SuiteNext]_suiteVars

-----------------------------------------------------------------------------
(***************************************************************************)
(* Properties.                                                             *)
(***************************************************************************)
\* The worker holds a command that no soft reset has given up.
Working == job # None /\ ~(job.epoch # epoch)

\* No answer to an earlier command ever gets into the result slot: what is
\* there answers the command accepted last, or was planted (mailbox.py,
\* publish_result: orphans are discarded by their epoch).
OwnAnswers == result # None => result.id = last \/ result.code = "planted"

\* The idle flag tells the truth from both sides: an idle mailbox has no command
\* waiting and nobody at work on one, and a mailbox that is not idle has, unless
\* the worker has reported that it could not publish.
IdleTells ==
    /\ idle => command = None /\ ~Working
    /\ ~idle => command # None \/ Working \/ fatal

\* A scenario is marked FAIL only if something of it was late or too early: no
\* leftover of an earlier scenario, no race with the worker makes one fail.
FailsOnlyLate == failed => late
=============================================================================
