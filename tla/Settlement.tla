----------------------------- MODULE Settlement -----------------------------
(***************************************************************************)
(* From a match to a settled or failed trade: the matching handler that    *)
(* enqueues the settlement, the BullMQ queue in Redis, the worker of the   *)
(* API process, the administrator's retry and the recovery at startup.     *)
(* Each database transaction is one step; between the steps of a handler   *)
(* anything else may happen, the process crashing included.                *)
(*                                                                         *)
(* Balances are left to Trading; here a transaction commits or throws.     *)
(* The queue is external code, modelled from how the service uses it: a    *)
(* job identifier exists at most once, adding it again is ignored, a       *)
(* completed job is removed, a number of failed ones is kept, and a Redis  *)
(* that restarts has forgotten them all.                                   *)
(***************************************************************************)
EXTENDS Integers, SequencesExt

CONSTANTS
    Trades,
    NoTrade,
    Admins,         \* retry requests an administrator may send, each once
    KeepFailed,     \* removeOnFail of the queue: failed jobs it keeps
    MaxFaults,      \* bound: calls to PostgreSQL or Redis that throw, locks lost
    MaxCrashes,     \* bound: crashes of the API process
    MaxLosses       \* bound: restarts of Redis

ASSUME SettlementAssumption ==
    /\ NoTrade \notin Trades
    /\ KeepFailed \in Nat \ {0}
    /\ MaxFaults \in Nat /\ MaxCrashes \in Nat /\ MaxLosses \in Nat

\* attempts of buildJobOptions; maxStalledCount of the worker's defaults.
Attempts   == 3
MaxStalled == 1

VARIABLES
    phase,          \* of the API process
    trade,          \* status of each trade; "NONE" before its match commits
    job,            \* the job of each trade
    failedJobs,     \* the trades whose jobs failed, by the time they did
    matcher,        \* the handler that matched the trade
    worker,         \* the job in hand and how far it got (concurrency 1)
    admin,          \* each retry request
    recovering,     \* pending trades startup has still to enqueue
    lost,           \* history: trades whose jobs Redis forgot, or whose match was
                    \* committed by a call that threw, since the last startup
    faults, crashes, losses

queueVars   == <<job, failedJobs, lost, losses>>
handlerVars == <<matcher, worker, admin, recovering>>
vars        == <<phase, trade, queueVars, handlerVars, faults, crashes>>

Jobs       == [state    : {"none", "waiting", "active", "delayed", "failed"},
               attempts : Nat,
               stalls   : Nat]
NoJob      == [state |-> "none", attempts |-> 0, stalls |-> 0]
WaitingJob == [NoJob EXCEPT !.state = "waiting"]
IdleWorker == [trade |-> NoTrade, step |-> "idle"]
NewRequest == [trade |-> NoTrade, step |-> "new"]

TypeOK ==
    /\ phase \in {"down", "starting", "recovering", "serving"}
    /\ trade \in [Trades -> {"NONE", "PENDING_SETTLEMENT", "SETTLED", "FAILED"}]
    /\ job \in [Trades -> Jobs]
    /\ \A t \in Trades : job[t].state = "delayed" => job[t].attempts < Attempts
    /\ failedJobs \in Seq(Trades) /\ Len(failedJobs) <= KeepFailed
    /\ \A t \in Trades : job[t].state = "failed" <=> Contains(failedJobs, t)
    /\ matcher \in [Trades -> {"idle", "enqueue", "rollback", "done"}]
    /\ worker \in [trade : Trades \cup {NoTrade},
                   step  : {"idle", "settle", "mark", "completed", "failed"}]
    /\ (worker.trade = NoTrade) = (worker.step = "idle")
    /\ admin \in [Admins -> [trade : Trades \cup {NoTrade},
                             step  : {"new", "prepare", "look", "add", "retry", "over"}]]
    /\ recovering \subseteq Trades
    /\ lost \subseteq Trades
    /\ faults \in 0 .. MaxFaults
    /\ crashes \in 0 .. MaxCrashes
    /\ losses \in 0 .. MaxLosses

Init ==
    /\ phase = "serving"
    /\ trade = [t \in Trades |-> "NONE"]
    /\ job = [t \in Trades |-> NoJob]
    /\ failedJobs = <<>>
    /\ lost = {}
    /\ losses = 0
    /\ matcher = [t \in Trades |-> "idle"]
    /\ worker = IdleWorker
    /\ admin = [a \in Admins |-> NewRequest]
    /\ recovering = {}
    /\ faults = 0
    /\ crashes = 0

\* A call to PostgreSQL or Redis throws.
Fault == faults < MaxFaults /\ faults' = faults + 1

\* The failed jobs, oldest first, once the job of t is j.  Of too many the oldest
\* is dropped.
FailedJobs(t, j) ==
    LET more == Append(failedJobs, t)
        place == CHOOSE i \in 1 .. Len(failedJobs) : failedJobs[i] = t
    IN  CASE j.state = "failed" /\ job[t].state # "failed" ->
                 IF Len(more) > KeepFailed THEN Tail(more) ELSE more
          [] j.state # "failed" /\ job[t].state = "failed" -> RemoveAt(failedJobs, place)
          [] OTHER -> failedJobs

\* The job of t becomes j.
SetJob(t, j) ==
    /\ failedJobs' = FailedJobs(t, j)
    /\ job' = [x \in Trades |->
                  CASE x = t -> j
                    [] x # t /\ job[x].state = "failed" /\ ~Contains(failedJobs', x) -> NoJob
                    [] OTHER -> job[x]]
    /\ UNCHANGED losses

\* Queue.add: ignored if the job identifier exists, in whatever state.
Added(j) == IF j.state = "none" THEN WaitingJob ELSE j

Enqueue(t) == SetJob(t, Added(job[t])) /\ lost' = lost \ {t}

-----------------------------------------------------------------------------
(* tryMatchOrder, from the commit of the trade on.                         *)

MatchCommits(t) ==
    /\ phase = "serving"
    /\ trade[t] = "NONE"
    /\ trade' = [trade EXCEPT ![t] = "PENDING_SETTLEMENT"]
    /\ matcher' = [matcher EXCEPT ![t] = "enqueue"]
    /\ UNCHANGED <<phase, queueVars, worker, admin, recovering, faults, crashes>>

\* PostgreSQL has committed the match, but the call throws, as the answer is lost:
\* placeOrder logs the error, and nobody enqueues the trade.
MatchCommitThrows(t) ==
    /\ phase = "serving"
    /\ trade[t] = "NONE"
    /\ Fault
    /\ trade' = [trade EXCEPT ![t] = "PENDING_SETTLEMENT"]
    /\ matcher' = [matcher EXCEPT ![t] = "done"]
    /\ lost' = lost \cup {t}
    /\ UNCHANGED <<phase, job, failedJobs, losses, worker, admin, recovering, crashes>>

AddSettlementJob(t) ==
    /\ matcher[t] = "enqueue"
    /\ Enqueue(t)
    /\ matcher' = [matcher EXCEPT ![t] = "done"]
    /\ UNCHANGED <<phase, trade, worker, admin, recovering, faults, crashes>>

\* Wrong on purpose: the enqueue failure is only logged.
AddSettlementJobThrowsUnhandled(t) ==
    /\ matcher[t] = "enqueue"
    /\ Fault
    /\ Enqueue(t) \/ UNCHANGED queueVars
    /\ matcher' = [matcher EXCEPT ![t] = "done"]
    /\ UNCHANGED <<phase, trade, worker, admin, recovering, crashes>>

\* The call throws, before or after Redis added the job.
AddSettlementJobThrows(t) ==
    /\ matcher[t] = "enqueue"
    /\ Fault
    /\ Enqueue(t) \/ UNCHANGED queueVars
    /\ matcher' = [matcher EXCEPT ![t] = "rollback"]
    /\ UNCHANGED <<phase, trade, worker, admin, recovering, crashes>>

\* Wrong on purpose: the status is not read again under the lock.
FailedUnchecked(t) == [trade EXCEPT ![t] = "FAILED"]

\* Only a pending trade is failed.
Failed(t) == [trade EXCEPT ![t] = IF @ = "PENDING_SETTLEMENT" THEN "FAILED" ELSE @]

FailPendingTrade(t) ==
    /\ matcher[t] = "rollback"
    /\ trade' = Failed(t)
    /\ matcher' = [matcher EXCEPT ![t] = "done"]
    /\ UNCHANGED <<phase, queueVars, worker, admin, recovering, faults, crashes>>

\* The rollback throws too, which is logged.
FailPendingTradeThrows(t) ==
    /\ matcher[t] = "rollback"
    /\ Fault
    /\ matcher' = [matcher EXCEPT ![t] = "done"]
    /\ UNCHANGED <<phase, trade, queueVars, worker, admin, recovering, crashes>>

-----------------------------------------------------------------------------
(* The worker.  It starts before the recovery at startup does.             *)

TakeJob(t) ==
    /\ phase # "down"
    /\ worker = IdleWorker
    /\ job[t].state = "waiting"
    /\ SetJob(t, [job[t] EXCEPT !.state = "active"])
    /\ UNCHANGED lost
    /\ worker' = [trade |-> t, step |-> "settle"]
    /\ UNCHANGED <<phase, trade, matcher, admin, recovering, faults, crashes>>

WorkerAt(t, step) == worker = [trade |-> t, step |-> step]

\* Only a trade that is not failed is settled.
Settled(t) == [trade EXCEPT ![t] = IF @ = "FAILED" THEN @ ELSE "SETTLED"]

\* handleSettlement's transaction on a trade that is not failed.  A trade that
\* is settled already is left alone.
HandleSettlement(t) ==
    /\ WorkerAt(t, "settle")
    /\ trade[t] # "FAILED"
    /\ trade' = Settled(t)
    /\ worker' = [worker EXCEPT !.step = "completed"]
    /\ UNCHANGED <<phase, queueVars, matcher, admin, recovering, faults, crashes>>

\* Wrong on purpose: the settlement of a failed trade returns like any other.
SettlementIgnored(t) ==
    /\ WorkerAt(t, "settle")
    /\ trade[t] = "FAILED"
    /\ worker' = [worker EXCEPT !.step = "completed"]
    /\ UNCHANGED <<phase, trade, queueVars, matcher, admin, recovering, faults, crashes>>

\* It throws: the trade is marked as failed and requires manual recovery.
SettlementRefused(t) ==
    /\ WorkerAt(t, "settle")
    /\ trade[t] = "FAILED"
    /\ worker' = [worker EXCEPT !.step = "mark"]
    /\ UNCHANGED <<phase, trade, queueVars, matcher, admin, recovering, faults, crashes>>

\* It throws for any other reason: it is rolled back, or committed and the answer lost.
SettlementThrows(t) ==
    /\ WorkerAt(t, "settle")
    /\ Fault
    /\ trade' \in {trade, Settled(t)}
    /\ worker' = [worker EXCEPT !.step = "mark"]
    /\ UNCHANGED <<phase, queueVars, matcher, admin, recovering, crashes>>

MarkSettlementFailure(t) ==
    /\ WorkerAt(t, "mark")
    /\ trade' = Failed(t)
    /\ worker' = [worker EXCEPT !.step = "failed"]
    /\ UNCHANGED <<phase, queueVars, matcher, admin, recovering, faults, crashes>>

\* The failure handler throws as well; the error is rethrown in any case.
MarkSettlementFailureThrows(t) ==
    /\ WorkerAt(t, "mark")
    /\ Fault
    /\ worker' = [worker EXCEPT !.step = "failed"]
    /\ UNCHANGED <<phase, trade, queueVars, matcher, admin, recovering, crashes>>

\* Wrong on purpose: removeOnFail drops a failed job at once.
AfterFailureRemoved(j) ==
    IF j.attempts + 1 < Attempts
    THEN [j EXCEPT !.attempts = @ + 1, !.state = "delayed"]
    ELSE NoJob

\* Wrong on purpose: the attempts are not limited.
AfterFailureAgain(j) == [j EXCEPT !.attempts = @ + 1, !.state = "delayed"]

\* The queue learns the outcome: a completed job is removed, a failed one is
\* delayed until its attempts are used up.  A job whose lock the worker lost
\* in the meantime is no longer active, and stays as it is.
AfterFailure(j) ==
    [j EXCEPT !.attempts = @ + 1,
              !.state = IF j.attempts + 1 < Attempts THEN "delayed" ELSE "failed"]

FinishJob(t) ==
    /\ worker.trade = t
    /\ worker.step \in {"completed", "failed"}
    /\ SetJob(t, IF job[t].state # "active" THEN job[t]
                 ELSE IF worker.step = "completed" THEN NoJob
                 ELSE AfterFailure(job[t]))
    /\ worker' = IdleWorker
    /\ UNCHANGED lost
    /\ UNCHANGED <<phase, trade, matcher, admin, recovering, faults, crashes>>

BackoffElapses(t) ==
    /\ phase # "down"
    /\ job[t].state = "delayed"
    /\ SetJob(t, [job[t] EXCEPT !.state = "waiting"])
    /\ UNCHANGED lost
    /\ UNCHANGED <<phase, trade, handlerVars, faults, crashes>>

\* An active job whose lock expired is run again, once; the second time it
\* fails without the worker's handler being called.
Stalled(j) ==
    [j EXCEPT !.stalls = @ + 1,
              !.state = IF j.stalls + 1 > MaxStalled THEN "failed" ELSE "waiting"]

\* The stalled check finds a job that a crashed process left active.
StalledCheck(t) ==
    /\ phase # "down"
    /\ job[t].state = "active"
    /\ worker.trade # t
    /\ SetJob(t, Stalled(job[t]))
    /\ UNCHANGED lost
    /\ UNCHANGED <<phase, trade, handlerVars, faults, crashes>>

\* The worker fails to renew the lock of the job it is working on.
LockLost(t) ==
    /\ worker.trade = t
    /\ job[t].state = "active"
    /\ Fault
    /\ SetJob(t, Stalled(job[t]))
    /\ UNCHANGED lost
    /\ UNCHANGED <<phase, trade, handlerVars, crashes>>

-----------------------------------------------------------------------------
(* retryByTradeId and retryByJobId.                                        *)

At(a, t, step) == admin[a] = [trade |-> t, step |-> step]

Go(a, t, step) == admin' = [admin EXCEPT ![a] = [trade |-> t, step |-> step]]

\* retryByJobId: the job must exist; the rest is retryByTradeId.
FindJob(a, t) ==
    /\ phase = "serving"
    /\ admin[a].step = "new"
    /\ Go(a, t, IF job[t].state = "none" THEN "over" ELSE "prepare")
    /\ UNCHANGED <<phase, trade, queueVars, matcher, worker, recovering, faults, crashes>>

\* prepareTradeForRetry: a failed trade is armed again, a pending one is left
\* as it is, any other is refused.
PrepareTradeForRetry(a, t) ==
    /\ phase = "serving"
    /\ admin[a].step = "new" \/ At(a, t, "prepare")
    /\ trade[t] \in {"FAILED", "PENDING_SETTLEMENT"}
    /\ trade' = [trade EXCEPT ![t] = "PENDING_SETTLEMENT"]
    /\ Go(a, t, "look")
    /\ UNCHANGED <<phase, queueVars, matcher, worker, recovering, faults, crashes>>

PrepareRefused(a, t) ==
    /\ At(a, t, "prepare")
    /\ trade[t] = "SETTLED"
    /\ Go(a, t, "over")
    /\ UNCHANGED <<phase, trade, queueVars, matcher, worker, recovering, faults, crashes>>

\* retrySettlementByTradeId reads the job and its state, and acts on them in a
\* further call.
LookAtJob(a, t) ==
    /\ At(a, t, "look")
    /\ Go(a, t, CASE job[t].state = "none"   -> "add"
                  [] job[t].state = "failed" -> "retry"
                  [] OTHER                   -> "over")
    /\ UNCHANGED <<phase, trade, queueVars, matcher, worker, recovering, faults, crashes>>

RetryAdds(a, t) ==
    /\ At(a, t, "add")
    /\ Enqueue(t)
    /\ Go(a, t, "over")
    /\ UNCHANGED <<phase, trade, matcher, worker, recovering, faults, crashes>>

\* Job.retry moves a failed job back; on any other, or one that was dropped
\* meanwhile, it throws.  The attempts it has used stay used.
RetryJob(a, t) ==
    /\ At(a, t, "retry")
    /\ SetJob(t, IF job[t].state = "failed" THEN [job[t] EXCEPT !.state = "waiting"]
                 ELSE job[t])
    /\ UNCHANGED lost
    /\ Go(a, t, "over")
    /\ UNCHANGED <<phase, trade, matcher, worker, recovering, faults, crashes>>

RetryThrows(a, t) ==
    /\ admin[a].trade = t
    /\ admin[a].step \in {"prepare", "look", "add", "retry"}
    /\ Fault
    /\ Go(a, t, "over")
    /\ UNCHANGED <<phase, trade, queueVars, matcher, worker, recovering, crashes>>

-----------------------------------------------------------------------------
(* Crash and startup.                                                      *)

\* Handlers in flight die; an active job keeps its state in Redis.
Crash ==
    /\ phase # "down"
    /\ crashes < MaxCrashes
    /\ crashes' = crashes + 1
    /\ phase' = "down"
    /\ matcher' = [t \in Trades |-> IF matcher[t] = "idle" THEN "idle" ELSE "done"]
    /\ worker' = IdleWorker
    /\ admin' = [a \in Admins |-> IF admin[a].step = "new" THEN NewRequest
                                  ELSE [admin[a] EXCEPT !.step = "over"]]
    /\ recovering' = {}
    /\ UNCHANGED <<trade, queueVars, faults>>

\* Redis restarts with nothing in it: it keeps no data on disk.
RedisRestarts ==
    /\ losses < MaxLosses
    /\ losses' = losses + 1
    /\ job' = [t \in Trades |-> NoJob]
    /\ failedJobs' = <<>>
    /\ lost' = lost \cup {t \in Trades : job[t].state # "none"
                                        /\ trade[t] = "PENDING_SETTLEMENT"}
    /\ UNCHANGED <<phase, trade, handlerVars, faults, crashes>>

Restart ==
    /\ phase = "down"
    /\ phase' = "starting"
    /\ UNCHANGED <<trade, queueVars, handlerVars, faults, crashes>>

\* Wrong on purpose: startup leaves the pending trades alone.
ReadNoTrades ==
    /\ phase = "starting"
    /\ phase' = "recovering"
    /\ recovering' = {}
    /\ UNCHANGED <<trade, queueVars, matcher, worker, admin, faults, crashes>>

\* recoverPendingSettlementTrades reads the pending trades ...
ReadPendingTrades ==
    /\ phase = "starting"
    /\ phase' = "recovering"
    /\ recovering' = {t \in Trades : trade[t] = "PENDING_SETTLEMENT"}
    /\ lost' = {}
    /\ UNCHANGED <<trade, job, failedJobs, losses, matcher, worker, admin, faults, crashes>>

\* ... and adds a job for each of them.
RecoverTrade(t) ==
    /\ t \in recovering
    /\ Enqueue(t)
    /\ recovering' = recovering \ {t}
    /\ UNCHANGED <<phase, trade, matcher, worker, admin, faults, crashes>>

RecoverTradeThrows(t) ==
    /\ t \in recovering
    /\ Fault
    /\ recovering' = recovering \ {t}
    /\ UNCHANGED <<phase, trade, queueVars, matcher, worker, admin, crashes>>

\* The server listens once every startup hook has returned.
Listen ==
    /\ phase = "recovering"
    /\ recovering = {}
    /\ phase' = "serving"
    /\ UNCHANGED <<trade, queueVars, handlerVars, faults, crashes>>

-----------------------------------------------------------------------------
MatcherStep(t) == AddSettlementJob(t) \/ FailPendingTrade(t)

WorkerStep(t) ==
    \/ TakeJob(t) \/ HandleSettlement(t) \/ SettlementRefused(t)
    \/ MarkSettlementFailure(t) \/ FinishJob(t)

QueueStep(t) == BackoffElapses(t) \/ StalledCheck(t)

AdminStep(a, t) ==
    \/ At(a, t, "prepare") /\ PrepareTradeForRetry(a, t)
    \/ PrepareRefused(a, t) \/ LookAtJob(a, t) \/ RetryAdds(a, t) \/ RetryJob(a, t)

StartupStep == Restart \/ ReadPendingTrades \/ Listen

Trouble ==
    \/ Crash \/ RedisRestarts
    \/ \E t \in Trades :
          \/ MatchCommitThrows(t) \/ AddSettlementJobThrows(t) \/ FailPendingTradeThrows(t)
          \/ SettlementThrows(t) \/ MarkSettlementFailureThrows(t) \/ LockLost(t)
          \/ RecoverTradeThrows(t)
          \/ \E a \in Admins : RetryThrows(a, t)

Next ==
    \/ StartupStep
    \/ Trouble
    \/ \E t \in Trades :
          \/ MatchCommits(t) \/ MatcherStep(t) \/ WorkerStep(t) \/ QueueStep(t)
          \/ RecoverTrade(t)
          \/ \E a \in Admins : FindJob(a, t) \/ PrepareTradeForRetry(a, t) \/ AdminStep(a, t)

\* Handlers, the worker and the queue's timers go on while the process is up,
\* and Docker restarts it when it is not (restart: unless-stopped).  Nobody has
\* to match, to retry or to fail.
Fairness ==
    /\ WF_vars(StartupStep)
    /\ \A t \in Trades :
          /\ WF_vars(MatcherStep(t)) /\ WF_vars(QueueStep(t)) /\ WF_vars(RecoverTrade(t))
          /\ SF_vars(TakeJob(t)) /\ WF_vars(WorkerStep(t))
          /\ \A a \in Admins : WF_vars(AdminStep(a, t))

Spec == Init /\ [][Next]_vars /\ Fairness

-----------------------------------------------------------------------------
(* What must hold.                                                         *)

Lifecycle == INSTANCE TradeLifecycle

\* Jobs that run twice, failure handlers that come late and retries that cross
\* them move a trade only along its life cycle; a settled one never leaves it
\* (handleSettlement, markSettlementFailure, prepareTradeForRetry read the
\* status under the lock of the row).
ImplementsLifecycle == Lifecycle!Spec

\* Somebody still has the trade in hand: its job exists, or a handler or the
\* next startup is going to add one.
InHand(t) ==
    \/ job[t].state # "none"
    \/ matcher[t] \in {"enqueue", "rollback"}
    \/ \E a \in Admins : At(a, t, "look") \/ At(a, t, "add")
    \/ phase \in {"down", "starting"}
    \/ t \in recovering

\* A pending trade is never forgotten: one call that throws, but for the COMMIT of its
\* match, or one crash, wherever it falls, leaves it a job an administrator can see
\* and retry, or a handler that will add one (tryMatchOrder, retryByTradeId,
\* removeOnFail, recoverPendingSettlementTrades).  The recovery after a crash may
\* itself fail to add the job, which needs both.  A trade whose job Redis forgot, or
\* whose match was committed but the answer lost, is missed no longer than to the
\* next startup, nor after a retry.
PendingIsInHand ==
    faults + crashes < 2 =>
        \A t \in Trades : trade[t] = "PENDING_SETTLEMENT" => InHand(t) \/ t \in lost

\* While Redis is up, a job leaves the queue only when its trade is settled, or
\* when it has failed and more jobs than the queue keeps have failed after it:
\* no outcome is taken for a success while the trade waits for a retry
\* (handleSettlement throws on a failed trade, and rethrows after it marked one;
\* removeOnFail).
CompletedIsSettled ==
    [][\A t \in Trades : job[t].state # "none" /\ job'[t].state = "none"
            => \/ trade[t] = "SETTLED"
               \/ losses' # losses
               \/ /\ Len(failedJobs) = KeepFailed /\ failedJobs[1] = t
                  /\ failedJobs'[KeepFailed] # failedJobs[KeepFailed]]_vars

\* Unless a call throws, every match is settled in the end, a crash at any step of
\* the handler, of the worker or of the startup and a retry that crosses them
\* notwithstanding (recoverPendingSettlementTrades and the stalled check).  What
\* Redis forgot is settled after the next startup of the API, if there is one.
PendingSettles ==
    \A t \in Trades : trade[t] = "PENDING_SETTLEMENT"
                          ~> trade[t] = "SETTLED" \/ faults > 0 \/ t \in lost

\* Unless the process dies, Redis forgets or a retry intervenes, every match ends
\* settled or failed, and the collateral with it, also when one call throws, wherever
\* it falls but in the COMMIT of the match itself (the catch blocks of tryMatchOrder
\* and handleSettlement; the handler of a failure may itself fail, which takes two).
PendingEnds ==
    \A t \in Trades :
        trade[t] = "PENDING_SETTLEMENT"
            ~> \/ trade[t] \in {"SETTLED", "FAILED"}
               \/ t \in lost \/ faults > 1 \/ crashes > 0 \/ losses > 0
               \/ \E a \in Admins : admin[a].step # "new"

-----------------------------------------------------------------------------
(* What the documentation says and the code does not do.                   *)

\* "Settlement jobs can retry independently" (ADR-007): a job that is retried
\* after a failed attempt can still settle its trade.
RetriedJobCanSettle ==
    \A t \in Trades : job[t].state = "delayed" => trade[t] # "FAILED"
=============================================================================
