-------------------------- MODULE SettlementProofs --------------------------
(***************************************************************************)
(* Theorems about Settlement, for any trades, retries, crashes and calls   *)
(* that throw: nobody ever handles a trade that was not matched, so that   *)
(* every step moves a trade along its life cycle; a job leaves the queue   *)
(* only if its trade is settled, or is lost for a reason; and a pending    *)
(* trade is in hand after at most one mishap, because each mishap troubles *)
(* at most one trade.                                                      *)
(***************************************************************************)
EXTENDS Settlement, TLAPS

USE SettlementAssumption DEF Attempts, MaxStalled

\* The queue lists every failed job once.
ListedOnce ==
    \A i, j \in 1 .. Len(failedJobs) : failedJobs[i] = failedJobs[j] => i = j

Retrying == {"prepare", "look", "add", "retry"}

\* Every handler and every job is about a trade that was matched.
HandsMatched ==
    /\ \A t \in Trades : job[t].state # "none" \/ matcher[t] # "idle" \/ t \in recovering
                            => trade[t] # "NONE"
    /\ worker.trade # NoTrade => trade[worker.trade] # "NONE"
    /\ \A a \in Admins : admin[a].trade \in Trades /\ admin[a].step \in Retrying
                            => trade[admin[a].trade] # "NONE"

\* A worker that reports success has settled the trade.
SuccessIsSettled == worker.step = "completed" => trade[worker.trade] = "SETTLED"

\* The inductive invariant.  The life cycle rests on HandsMatched: who handles a
\* trade that is not failed or settled may take it for pending.
SettlementInv == TypeOK /\ ListedOnce /\ HandsMatched /\ SuccessIsSettled

\* The settlement of a trade that is dropped to make room for a newer failure.
MakesRoom(t) ==
    /\ Len(failedJobs) = KeepFailed /\ failedJobs[1] = t
    /\ failedJobs'[KeepFailed] # failedJobs[KeepFailed]

LEMMA InitEstablishes == Init => SettlementInv
  BY DEF Init, SettlementInv, TypeOK, ListedOnce, HandsMatched, SuccessIsSettled, NoJob,
         Jobs, IdleWorker, NewRequest, Retrying, Contains

\* What becomes of the queue when the job of one trade changes.
LEMMA JobSet ==
    ASSUME TypeOK, ListedOnce, NEW t \in Trades, NEW j \in Jobs, SetJob(t, j),
           j.state = "delayed" => j.attempts < Attempts
    PROVE  /\ job' \in [Trades -> Jobs]
           /\ \A x \in Trades : job'[x].state = "delayed" => job'[x].attempts < Attempts
           /\ failedJobs' \in Seq(Trades) /\ Len(failedJobs') <= KeepFailed
           /\ \A x \in Trades : job'[x].state = "failed" <=> Contains(failedJobs', x)
           /\ ListedOnce'
           /\ job'[t] = j /\ losses' = losses
           /\ \A x \in Trades \ {t} :
                 \/ job'[x] = job[x]
                 \/ job'[x] = NoJob /\ MakesRoom(x) /\ job'[t].state = "failed"
<1>1. /\ failedJobs' = FailedJobs(t, j) /\ losses' = losses
      /\ job' = [x \in Trades |->
                  CASE x = t -> j
                    [] x # t /\ job[x].state = "failed" /\ ~Contains(failedJobs', x) -> NoJob
                    [] OTHER -> job[x]]
  BY DEF SetJob
<1>2. NoJob \in Jobs /\ NoJob.state = "none"
  BY DEF NoJob, Jobs
<1>3. /\ job' \in [Trades -> Jobs] /\ job'[t] = j
      /\ \A x \in Trades \ {t} :
            IF job[x].state = "failed" /\ ~Contains(failedJobs', x)
            THEN job'[x] = NoJob ELSE job'[x] = job[x]
  BY <1>1, <1>2 DEF TypeOK
<1>4. \A x \in Trades : job'[x].state = "delayed" => job'[x].attempts < Attempts
  BY <1>2, <1>3 DEF TypeOK
<1> DEFINE Q == failedJobs
           n == Len(failedJobs)
<1>5. n \in 0 .. KeepFailed /\ Q \in Seq(Trades)
  BY DEF TypeOK
<1>6. \A x \in Trades : job[x].state = "failed" <=> \E i \in 1 .. n : Q[i] = x
  BY DEF TypeOK, Contains
<1>7. CASE j.state = "failed" /\ job[t].state # "failed"
  <2> DEFINE more == Append(Q, t)
  <2>1. /\ more \in Seq(Trades) /\ Len(more) = n + 1
        /\ more[n + 1] = t /\ \A i \in 1 .. n : more[i] = Q[i]
    BY <1>5
  <2>2. failedJobs' = IF n + 1 > KeepFailed THEN Tail(more) ELSE more
    BY <1>1, <1>7, <2>1 DEF FailedJobs
  <2>3. CASE n + 1 <= KeepFailed
    <3>1. failedJobs' = more
      BY <2>2, <2>3, <1>5
    <3>2. ListedOnce'
      BY <3>1, <2>1, <1>5, <1>6, <1>7 DEF ListedOnce
    <3>3. \A x \in Trades : Contains(failedJobs', x) <=> x = t \/ job[x].state = "failed"
      BY <3>1, <2>1, <1>5, <1>6 DEF Contains
    <3>. QED BY <3>1, <3>2, <3>3, <2>1, <2>3, <1>1, <1>2, <1>3, <1>4, <1>5, <1>7
  <2>4. CASE n = KeepFailed
    <3>1. /\ failedJobs' = Tail(more) /\ Len(failedJobs') = n
          /\ failedJobs' \in Seq(Trades)
          /\ \A i \in 1 .. n : failedJobs'[i] = more[i + 1]
      BY <2>1, <2>2, <2>4, <1>5
    <3>2. failedJobs'[n] = t /\ \A i \in 1 .. n - 1 : failedJobs'[i] = Q[i + 1]
      BY <3>1, <2>1, <1>5, <2>4
    <3>3. ListedOnce'
      <4> SUFFICES ASSUME NEW i \in 1 .. n, NEW k \in 1 .. n,
                          failedJobs'[i] = failedJobs'[k]
                   PROVE  i = k
        BY <3>1 DEF ListedOnce
      <4>1. \A m \in 1 .. n - 1 : failedJobs'[m] # t
        BY <3>2, <1>5, <1>6, <1>7
      <4>2. CASE i \in 1 .. n - 1 /\ k \in 1 .. n - 1
        BY <4>2, <3>2, <1>5 DEF ListedOnce
      <4>. QED BY <4>1, <4>2, <3>2, <1>5, <2>4
    <3>4. \A x \in Trades : Contains(failedJobs', x) <=>
              x = t \/ (job[x].state = "failed" /\ Q[1] # x)
      <4> SUFFICES ASSUME NEW x \in Trades
                   PROVE  (\E i \in 1 .. n : failedJobs'[i] = x)
                             <=> x = t \/ (job[x].state = "failed" /\ Q[1] # x)
        BY <3>1 DEF Contains
      <4>1. ASSUME NEW i \in 1 .. n, failedJobs'[i] = x, x # t
            PROVE  job[x].state = "failed" /\ Q[1] # x
        BY <4>1, <3>2, <1>5, <1>6 DEF ListedOnce
      <4>2. ASSUME job[x].state = "failed", Q[1] # x
            PROVE  \E i \in 1 .. n : failedJobs'[i] = x
        <5>1. PICK i \in 1 .. n : Q[i] = x
          BY <4>2, <1>6
        <5>2. i - 1 \in 1 .. n - 1 /\ failedJobs'[i - 1] = x
          BY <5>1, <4>2, <3>2, <1>5
        <5>. QED BY <5>2, <1>5
      <4>3. n \in 1 .. n /\ failedJobs'[n] = t
        BY <3>2, <1>5, <2>4
      <4>. QED BY <4>1, <4>2, <4>3
    <3>5. failedJobs'[KeepFailed] # Q[KeepFailed]
      BY <3>2, <2>4, <1>5, <1>6, <1>7
    <3>6. \A x \in Trades \ {t} :
             \/ job'[x] = job[x]
             \/ job'[x] = NoJob /\ MakesRoom(x) /\ job'[t].state = "failed"
      BY <3>4, <3>5, <2>4, <1>3, <1>7 DEF MakesRoom
    <3>7. \A x \in Trades : job'[x].state = "failed" <=> Contains(failedJobs', x)
      BY <3>4, <1>2, <1>3, <1>7
    <3>. QED BY <3>1, <3>3, <3>6, <3>7, <2>4, <1>1, <1>3, <1>4, <1>5
  <2>. QED BY <2>3, <2>4, <1>5
<1>8. CASE j.state # "failed" /\ job[t].state = "failed"
  <2> DEFINE place == CHOOSE i \in 1 .. n : Q[i] = t
  <2>1. place \in 1 .. n /\ Q[place] = t
    BY <1>6, <1>8
  <2>2. failedJobs' = SubSeq(Q, 1, place - 1) \o SubSeq(Q, place + 1, n)
    BY <1>1, <1>8 DEF FailedJobs, RemoveAt
  <2> HIDE DEF place
  <2>3. /\ failedJobs' \in Seq(Trades) /\ Len(failedJobs') = n - 1
        /\ \A i \in 1 .. n - 1 : failedJobs'[i] = IF i < place THEN Q[i] ELSE Q[i + 1]
    <3> DEFINE front == SubSeq(Q, 1, place - 1)
               back  == SubSeq(Q, place + 1, n)
    <3>1. /\ front \in Seq(Trades) /\ Len(front) = place - 1
          /\ \A i \in 1 .. place - 1 : front[i] = Q[i]
      BY <2>1, <1>5
    <3>2. /\ back \in Seq(Trades) /\ Len(back) = n - place
          /\ \A i \in 1 .. n - place : back[i] = Q[place + i]
      BY <2>1, <1>5
    <3> HIDE DEF front, back
    <3>3. /\ front \o back \in Seq(Trades) /\ Len(front \o back) = n - 1
          /\ \A i \in 1 .. n - 1 :
                (front \o back)[i] = IF i < place THEN front[i] ELSE back[i - (place - 1)]
      BY <3>1, <3>2, <2>1, <1>5
    <3>4. \A i \in 1 .. n - 1 : i >= place =>
              i - (place - 1) \in 1 .. n - place /\ place + (i - (place - 1)) = i + 1
      BY <2>1, <1>5
    <3>5. failedJobs' = front \o back
      BY <2>2 DEF front, back
    <3>. QED BY <3>1, <3>2, <3>3, <3>4, <3>5, <2>1, <1>5
  <2>4. ListedOnce'
    BY <2>1, <2>3, <1>5 DEF ListedOnce
  <2>5. \A x \in Trades : Contains(failedJobs', x) <=> x # t /\ job[x].state = "failed"
    <3> SUFFICES ASSUME NEW x \in Trades
                 PROVE  (\E i \in 1 .. n - 1 : failedJobs'[i] = x)
                           <=> x # t /\ job[x].state = "failed"
      BY <2>3 DEF Contains
    <3>1. ASSUME NEW i \in 1 .. n - 1, failedJobs'[i] = x
          PROVE  x # t /\ job[x].state = "failed"
      BY <3>1, <2>1, <2>3, <1>5, <1>6 DEF ListedOnce
    <3>2. ASSUME x # t, job[x].state = "failed"
          PROVE  \E i \in 1 .. n - 1 : failedJobs'[i] = x
      <4>1. PICK i \in 1 .. n : Q[i] = x
        BY <3>2, <1>6
      <4>2. CASE i < place
        BY <4>1, <4>2, <2>1, <2>3, <1>5
      <4>3. CASE i > place
        <5>1. i - 1 \in 1 .. n - 1 /\ failedJobs'[i - 1] = x
          BY <4>1, <4>3, <2>1, <2>3, <1>5
        <5>. QED BY <5>1
      <4>. QED BY <4>1, <4>2, <4>3, <3>2, <2>1, <1>5
    <3>. QED BY <3>1, <3>2
  <2>. QED BY <2>3, <2>4, <2>5, <1>1, <1>2, <1>3, <1>4, <1>5, <1>8
<1>9. CASE (j.state = "failed") = (job[t].state = "failed")
  <2>1. failedJobs' = Q
    BY <1>1, <1>9 DEF FailedJobs
  <2>. QED BY <2>1, <1>1, <1>2, <1>3, <1>4, <1>5, <1>6, <1>9 DEF ListedOnce, Contains
<1>. QED BY <1>7, <1>8, <1>9

\* The steps that touch the job of a trade.
TouchesJob(t) ==
    \/ AddSettlementJob(t) \/ AddSettlementJobThrows(t) \/ TakeJob(t) \/ FinishJob(t)
    \/ BackoffElapses(t) \/ StalledCheck(t) \/ LockLost(t) \/ RecoverTrade(t)
    \/ \E a \in Admins : RetryAdds(a, t) \/ RetryJob(a, t)

\* What such a step may do to the queue.
QueueMoves(t) ==
    /\ job' \in [Trades -> Jobs]
    /\ \A x \in Trades : job'[x].state = "delayed" => job'[x].attempts < Attempts
    /\ failedJobs' \in Seq(Trades) /\ Len(failedJobs') <= KeepFailed
    /\ \A x \in Trades : job'[x].state = "failed" <=> Contains(failedJobs', x)
    /\ ListedOnce'
    /\ lost' \subseteq Trades /\ losses' = losses
    /\ \A x \in Trades \ {t} :
          \/ job'[x] = job[x]
          \/ job'[x] = NoJob /\ MakesRoom(x) /\ job'[t].state = "failed"

\* A step that touches one job drops no other but to make room.
LEMMA JobMoves ==
    ASSUME TypeOK, ListedOnce, NEW t \in Trades, TouchesJob(t)
    PROVE  QueueMoves(t)
<1>1. job[t] \in Jobs
  BY DEF TypeOK
<1>2. WaitingJob \in Jobs /\ WaitingJob.state = "waiting" /\ NoJob \in Jobs /\ NoJob.state = "none"
  BY DEF WaitingJob, NoJob, Jobs
<1>3. ASSUME NEW j \in Jobs, SetJob(t, j), lost' \in {lost, lost \ {t}},
             j.state = "delayed" => j.attempts < Attempts
      PROVE  QueueMoves(t)
  BY <1>3, JobSet DEF QueueMoves, TypeOK
<1>4. ASSUME Enqueue(t) PROVE QueueMoves(t)
  <2>1. Added(job[t]) \in Jobs /\ (Added(job[t]).state = "delayed" => Added(job[t]).attempts < Attempts)
    BY <1>1, <1>2 DEF Added, TypeOK
  <2>. QED BY <1>3, <1>4, <2>1 DEF Enqueue
<1>5. ASSUME UNCHANGED queueVars PROVE QueueMoves(t)
  BY <1>5 DEF QueueMoves, queueVars, TypeOK, ListedOnce, Contains
<1>6. CASE AddSettlementJob(t) \/ AddSettlementJobThrows(t) \/ RecoverTrade(t)
           \/ \E a \in Admins : RetryAdds(a, t)
  BY <1>4, <1>5, <1>6 DEF AddSettlementJob, AddSettlementJobThrows, RecoverTrade,
                          RetryAdds
<1>7. CASE TakeJob(t) \/ BackoffElapses(t)
  <2>1. PICK st \in {"active", "waiting"} :
           SetJob(t, [job[t] EXCEPT !.state = st]) /\ lost' = lost
    BY <1>7 DEF TakeJob, BackoffElapses
  <2>2. [job[t] EXCEPT !.state = st] \in Jobs /\ [job[t] EXCEPT !.state = st].state = st
    BY <1>1 DEF Jobs
  <2>. QED BY <1>3, <2>1, <2>2
<1>8. CASE StalledCheck(t) \/ LockLost(t)
  <2>1. SetJob(t, Stalled(job[t])) /\ lost' = lost
    BY <1>8 DEF StalledCheck, LockLost
  <2>2. Stalled(job[t]) \in Jobs /\ Stalled(job[t]).state # "delayed"
    <3> DEFINE st == IF job[t].stalls + 1 > MaxStalled THEN "failed" ELSE "waiting"
    <3>1. Stalled(job[t]) = [job[t] EXCEPT !.stalls = job[t].stalls + 1, !.state = st]
      BY DEF Stalled
    <3>2. st \in {"failed", "waiting"} /\ job[t].stalls + 1 \in Nat
      BY <1>1 DEF Jobs
    <3> HIDE DEF st
    <3>. QED BY <1>1, <3>1, <3>2 DEF Jobs
  <2>. QED BY <1>3, <2>1, <2>2
<1>9. CASE FinishJob(t)
  <2>1. PICK j \in {job[t], NoJob, AfterFailure(job[t])} : SetJob(t, j) /\ lost' = lost
    BY <1>9 DEF FinishJob
  <2>2. /\ AfterFailure(job[t]) \in Jobs
        /\ AfterFailure(job[t]).state = "delayed" => AfterFailure(job[t]).attempts < Attempts
    <3> DEFINE st == IF job[t].attempts + 1 < Attempts THEN "delayed" ELSE "failed"
    <3>1. AfterFailure(job[t]) =
              [job[t] EXCEPT !.attempts = job[t].attempts + 1, !.state = st]
      BY DEF AfterFailure
    <3>2. /\ st \in {"delayed", "failed"} /\ job[t].attempts + 1 \in Nat
          /\ st = "delayed" => job[t].attempts + 1 < Attempts
      BY <1>1 DEF Jobs
    <3> HIDE DEF st
    <3>. QED BY <1>1, <3>1, <3>2 DEF Jobs
  <2>3. j \in Jobs /\ (j.state = "delayed" => j.attempts < Attempts)
    BY <1>1, <1>2, <2>2 DEF TypeOK
  <2>. QED BY <1>3, <2>1, <2>3
<1>10. CASE \E a \in Admins : RetryJob(a, t)
  <2>1. PICK j \in {job[t], [job[t] EXCEPT !.state = "waiting"]} : SetJob(t, j) /\ lost' = lost
    BY <1>10 DEF RetryJob
  <2>2. j \in Jobs /\ (j.state = "delayed" => j.attempts < Attempts)
    BY <1>1 DEF Jobs, TypeOK
  <2>. QED BY <1>3, <2>1, <2>2
<1>. QED BY <1>6, <1>7, <1>8, <1>9, <1>10 DEF TouchesJob

\* Every step keeps the types and the list of the failed jobs.
LEMMA TypesKept ==
    ASSUME TypeOK, ListedOnce, [Next]_vars
    PROVE  TypeOK' /\ ListedOnce'
<1>1. ASSUME NEW t \in Trades, MatchCommits(t)
      PROVE  TypeOK' /\ ListedOnce'
  BY <1>1 DEF MatchCommits, queueVars, TypeOK, ListedOnce
<1>2. ASSUME NEW t \in Trades, AddSettlementJob(t)
      PROVE  TypeOK' /\ ListedOnce'
  <2>1. QueueMoves(t)
    BY <1>2, JobMoves DEF TouchesJob
  <2>. QED BY <1>2, <2>1 DEF AddSettlementJob, QueueMoves, TypeOK, ListedOnce
<1>3. ASSUME NEW t \in Trades, FailPendingTrade(t)
      PROVE  TypeOK' /\ ListedOnce'
  BY <1>3 DEF FailPendingTrade, queueVars, Failed, TypeOK, ListedOnce
<1>4. ASSUME NEW t \in Trades, TakeJob(t)
      PROVE  TypeOK' /\ ListedOnce'
  <2>1. QueueMoves(t)
    BY <1>4, JobMoves DEF TouchesJob
  <2>. QED BY <1>4, <2>1 DEF TakeJob, IdleWorker, QueueMoves, TypeOK, ListedOnce
<1>5. ASSUME NEW t \in Trades, HandleSettlement(t)
      PROVE  TypeOK' /\ ListedOnce'
  BY <1>5 DEF HandleSettlement, queueVars, Settled, WorkerAt, TypeOK, ListedOnce
<1>6. ASSUME NEW t \in Trades, SettlementRefused(t)
      PROVE  TypeOK' /\ ListedOnce'
  BY <1>6 DEF SettlementRefused, queueVars, WorkerAt, TypeOK, ListedOnce
<1>7. ASSUME NEW t \in Trades, MarkSettlementFailure(t)
      PROVE  TypeOK' /\ ListedOnce'
  BY <1>7 DEF MarkSettlementFailure, queueVars, Failed, WorkerAt, TypeOK, ListedOnce
<1>8. ASSUME NEW t \in Trades, FinishJob(t)
      PROVE  TypeOK' /\ ListedOnce'
  <2>1. QueueMoves(t)
    BY <1>8, JobMoves DEF TouchesJob
  <2>. QED BY <1>8, <2>1 DEF FinishJob, IdleWorker, QueueMoves, TypeOK, ListedOnce
<1>9. ASSUME NEW t \in Trades, BackoffElapses(t)
      PROVE  TypeOK' /\ ListedOnce'
  <2>1. QueueMoves(t)
    BY <1>9, JobMoves DEF TouchesJob
  <2>. QED BY <1>9, <2>1 DEF BackoffElapses, handlerVars, QueueMoves, TypeOK, ListedOnce
<1>10. ASSUME NEW t \in Trades, StalledCheck(t)
      PROVE  TypeOK' /\ ListedOnce'
  <2>1. QueueMoves(t)
    BY <1>10, JobMoves DEF TouchesJob
  <2>. QED BY <1>10, <2>1 DEF StalledCheck, handlerVars, QueueMoves, TypeOK, ListedOnce
<1>11. ASSUME NEW t \in Trades, AddSettlementJobThrows(t)
      PROVE  TypeOK' /\ ListedOnce'
  <2>1. QueueMoves(t)
    BY <1>11, JobMoves DEF TouchesJob
  <2>2. /\ UNCHANGED <<phase, trade, worker, admin, recovering, crashes>>
        /\ matcher' = [matcher EXCEPT ![t] = "rollback"] /\ faults' \in 0 .. MaxFaults
    BY <1>11 DEF AddSettlementJobThrows, Fault, TypeOK
  <2>. QED BY <2>1, <2>2 DEF QueueMoves, TypeOK
<1>12. ASSUME NEW t \in Trades, FailPendingTradeThrows(t)
      PROVE  TypeOK' /\ ListedOnce'
  BY <1>12 DEF FailPendingTradeThrows, Fault, queueVars, TypeOK, ListedOnce
<1>13. ASSUME NEW t \in Trades, SettlementThrows(t)
      PROVE  TypeOK' /\ ListedOnce'
  BY <1>13 DEF SettlementThrows, Fault, queueVars, Settled, WorkerAt, TypeOK, ListedOnce
<1>14. ASSUME NEW t \in Trades, MarkSettlementFailureThrows(t)
      PROVE  TypeOK' /\ ListedOnce'
  BY <1>14 DEF MarkSettlementFailureThrows, Fault, queueVars, WorkerAt, TypeOK,
       ListedOnce
<1>15. ASSUME NEW t \in Trades, LockLost(t)
      PROVE  TypeOK' /\ ListedOnce'
  <2>1. QueueMoves(t)
    BY <1>15, JobMoves DEF TouchesJob
  <2>2. /\ UNCHANGED <<phase, trade, handlerVars, crashes>>
        /\ faults' \in 0 .. MaxFaults
    BY <1>15 DEF LockLost, Fault, TypeOK
  <2>. QED BY <2>1, <2>2 DEF QueueMoves, TypeOK, handlerVars
<1>16. ASSUME NEW t \in Trades, RecoverTrade(t)
      PROVE  TypeOK' /\ ListedOnce'
  <2>1. QueueMoves(t)
    BY <1>16, JobMoves DEF TouchesJob
  <2>. QED BY <1>16, <2>1 DEF RecoverTrade, QueueMoves, TypeOK, ListedOnce
<1>17. ASSUME NEW t \in Trades, RecoverTradeThrows(t)
      PROVE  TypeOK' /\ ListedOnce'
  BY <1>17 DEF RecoverTradeThrows, Fault, queueVars, TypeOK, ListedOnce
<1>18. ASSUME NEW a \in Admins, NEW t \in Trades, FindJob(a, t)
      PROVE  TypeOK' /\ ListedOnce'
  BY <1>18 DEF FindJob, queueVars, Go, TypeOK, ListedOnce
<1>19. ASSUME NEW a \in Admins, NEW t \in Trades, PrepareTradeForRetry(a, t)
      PROVE  TypeOK' /\ ListedOnce'
  BY <1>19 DEF PrepareTradeForRetry, queueVars, At, Go, TypeOK, ListedOnce
<1>20. ASSUME NEW a \in Admins, NEW t \in Trades, PrepareRefused(a, t)
      PROVE  TypeOK' /\ ListedOnce'
  BY <1>20 DEF PrepareRefused, queueVars, At, Go, TypeOK, ListedOnce
<1>21. ASSUME NEW a \in Admins, NEW t \in Trades, LookAtJob(a, t)
      PROVE  TypeOK' /\ ListedOnce'
  BY <1>21 DEF LookAtJob, queueVars, At, Go, TypeOK, ListedOnce
<1>22. ASSUME NEW a \in Admins, NEW t \in Trades, RetryAdds(a, t)
      PROVE  TypeOK' /\ ListedOnce'
  <2>1. QueueMoves(t)
    BY <1>22, JobMoves DEF TouchesJob
  <2>. QED BY <1>22, <2>1 DEF RetryAdds, At, Go, QueueMoves, TypeOK, ListedOnce
<1>23. ASSUME NEW a \in Admins, NEW t \in Trades, RetryJob(a, t)
      PROVE  TypeOK' /\ ListedOnce'
  <2>1. QueueMoves(t)
    BY <1>23, JobMoves DEF TouchesJob
  <2>. QED BY <1>23, <2>1 DEF RetryJob, At, Go, QueueMoves, TypeOK, ListedOnce
<1>24. ASSUME NEW a \in Admins, NEW t \in Trades, RetryThrows(a, t)
      PROVE  TypeOK' /\ ListedOnce'
  BY <1>24 DEF RetryThrows, Fault, queueVars, Go, TypeOK, ListedOnce
<1>25. ASSUME Crash
      PROVE  TypeOK' /\ ListedOnce'
  <2>1. /\ UNCHANGED <<trade, job, failedJobs, lost, losses, faults>>
        /\ phase' = "down" /\ crashes' \in 0 .. MaxCrashes /\ recovering' = {}
        /\ worker' = IdleWorker
    BY <1>25 DEF Crash, queueVars, TypeOK
  <2>2. matcher' \in [Trades -> {"idle", "enqueue", "rollback", "done"}]
    BY <1>25 DEF Crash
  <2>3. admin' \in [Admins -> [trade : Trades \cup {NoTrade},
                               step  : {"new", "prepare", "look", "add", "retry", "over"}]]
    <3> DEFINE Request == [trade : Trades \cup {NoTrade},
                           step  : {"new", "prepare", "look", "add", "retry", "over"}]
    <3>1. NewRequest \in Request
      BY DEF NewRequest
    <3>2. ASSUME NEW a \in Admins
          PROVE  [admin[a] EXCEPT !.step = "over"] \in Request
      <4>1. admin[a] \in Request
        BY DEF TypeOK
      <4>. QED BY <4>1
    <3>3. admin' = [a \in Admins |-> IF admin[a].step = "new" THEN NewRequest
                                     ELSE [admin[a] EXCEPT !.step = "over"]]
      BY <1>25 DEF Crash
    <3> HIDE DEF Request
    <3>4. admin' \in [Admins -> Request]
      BY <3>1, <3>2, <3>3
    <3>. QED BY <3>4 DEF Request
  <2>. QED BY <2>1, <2>2, <2>3 DEF TypeOK, ListedOnce, IdleWorker, Contains
<1>26. ASSUME RedisRestarts
      PROVE  TypeOK' /\ ListedOnce'
  <2>1. /\ UNCHANGED <<phase, trade, handlerVars, faults, crashes>>
        /\ losses' \in 0 .. MaxLosses /\ lost' \subseteq Trades
        /\ job' = [x \in Trades |-> NoJob] /\ failedJobs' = <<>>
    BY <1>26 DEF RedisRestarts, TypeOK
  <2>2. NoJob \in Jobs /\ NoJob.state = "none"
    BY DEF NoJob, Jobs
  <2>3. /\ failedJobs' \in Seq(Trades) /\ Len(failedJobs') = 0
        /\ \A x \in Trades : ~Contains(failedJobs', x)
    BY <2>1 DEF Contains
  <2>. QED BY <2>1, <2>2, <2>3 DEF TypeOK, ListedOnce, handlerVars
<1>27. ASSUME Restart
      PROVE  TypeOK' /\ ListedOnce'
  BY <1>27 DEF Restart, queueVars, handlerVars, TypeOK, ListedOnce
<1>28. ASSUME ReadPendingTrades
      PROVE  TypeOK' /\ ListedOnce'
  BY <1>28 DEF ReadPendingTrades, TypeOK, ListedOnce
<1>29. ASSUME Listen
      PROVE  TypeOK' /\ ListedOnce'
  BY <1>29 DEF Listen, queueVars, handlerVars, TypeOK, ListedOnce
<1>30. CASE UNCHANGED vars
  BY <1>30 DEF vars, queueVars, handlerVars, TypeOK, ListedOnce
<1>31. ASSUME NEW t \in Trades, MatchCommitThrows(t)
      PROVE  TypeOK' /\ ListedOnce'
  BY <1>31 DEF MatchCommitThrows, Fault, TypeOK, ListedOnce
<1>. QED
  BY <1>1, <1>2, <1>3, <1>4, <1>5, <1>6, <1>7, <1>8, <1>9, <1>10, <1>11, <1>12, <1>13,
       <1>14, <1>15, <1>16, <1>17, <1>18, <1>19, <1>20, <1>21, <1>22, <1>23, <1>24,
       <1>25, <1>26, <1>27, <1>28, <1>29, <1>30, <1>31 DEF Next, StartupStep, Trouble,
       MatcherStep, WorkerStep, QueueStep, AdminStep

\* No step takes up a trade that was not matched.
LEMMA HandsKept ==
    ASSUME TypeOK, ListedOnce, HandsMatched, SuccessIsSettled, [Next]_vars
    PROVE  HandsMatched' /\ SuccessIsSettled'
<1>1. ASSUME NEW t \in Trades, MatchCommits(t)
      PROVE  HandsMatched' /\ SuccessIsSettled'
  BY <1>1 DEF MatchCommits, queueVars, TypeOK, HandsMatched, SuccessIsSettled, Retrying,
       NoJob
<1>2. ASSUME NEW t \in Trades, AddSettlementJob(t)
      PROVE  HandsMatched' /\ SuccessIsSettled'
  <2>1. QueueMoves(t)
    BY <1>2, JobMoves DEF TouchesJob
  <2>. QED BY <1>2, <2>1 DEF AddSettlementJob, QueueMoves, TypeOK, HandsMatched,
       SuccessIsSettled, Retrying, NoJob
<1>3. ASSUME NEW t \in Trades, FailPendingTrade(t)
      PROVE  HandsMatched' /\ SuccessIsSettled'
  BY <1>3 DEF FailPendingTrade, queueVars, Failed, TypeOK, HandsMatched,
       SuccessIsSettled, Retrying, NoJob
<1>4. ASSUME NEW t \in Trades, TakeJob(t)
      PROVE  HandsMatched' /\ SuccessIsSettled'
  <2>1. QueueMoves(t)
    BY <1>4, JobMoves DEF TouchesJob
  <2>. QED BY <1>4, <2>1 DEF TakeJob, IdleWorker, QueueMoves, TypeOK, HandsMatched,
       SuccessIsSettled, Retrying, NoJob
<1>5. ASSUME NEW t \in Trades, HandleSettlement(t)
      PROVE  HandsMatched' /\ SuccessIsSettled'
  BY <1>5 DEF HandleSettlement, queueVars, Settled, WorkerAt, TypeOK, HandsMatched,
       SuccessIsSettled, Retrying, NoJob
<1>6. ASSUME NEW t \in Trades, SettlementRefused(t)
      PROVE  HandsMatched' /\ SuccessIsSettled'
  BY <1>6 DEF SettlementRefused, queueVars, WorkerAt, TypeOK, HandsMatched,
       SuccessIsSettled, Retrying, NoJob
<1>7. ASSUME NEW t \in Trades, MarkSettlementFailure(t)
      PROVE  HandsMatched' /\ SuccessIsSettled'
  BY <1>7 DEF MarkSettlementFailure, queueVars, Failed, WorkerAt, TypeOK, HandsMatched,
       SuccessIsSettled, Retrying, NoJob
<1>8. ASSUME NEW t \in Trades, FinishJob(t)
      PROVE  HandsMatched' /\ SuccessIsSettled'
  <2>1. QueueMoves(t)
    BY <1>8, JobMoves DEF TouchesJob
  <2>. QED BY <1>8, <2>1 DEF FinishJob, IdleWorker, QueueMoves, TypeOK, HandsMatched,
       SuccessIsSettled, Retrying, NoJob
<1>9. ASSUME NEW t \in Trades, BackoffElapses(t)
      PROVE  HandsMatched' /\ SuccessIsSettled'
  <2>1. QueueMoves(t)
    BY <1>9, JobMoves DEF TouchesJob
  <2>2. job[t].state # "none" /\ UNCHANGED <<trade, matcher, recovering, worker, admin>>
    BY <1>9 DEF BackoffElapses, handlerVars
  <2>3. \A x \in Trades : job'[x].state # "none" => job[x].state # "none"
    BY <2>1, <2>2 DEF QueueMoves, NoJob
  <2>. QED BY <2>2, <2>3 DEF HandsMatched, SuccessIsSettled, Retrying
<1>10. ASSUME NEW t \in Trades, StalledCheck(t)
      PROVE  HandsMatched' /\ SuccessIsSettled'
  <2>1. QueueMoves(t)
    BY <1>10, JobMoves DEF TouchesJob
  <2>. QED BY <1>10, <2>1 DEF StalledCheck, handlerVars, QueueMoves, TypeOK,
       HandsMatched, SuccessIsSettled, Retrying, NoJob
<1>11. ASSUME NEW t \in Trades, AddSettlementJobThrows(t)
      PROVE  HandsMatched' /\ SuccessIsSettled'
  <2>1. QueueMoves(t)
    BY <1>11, JobMoves DEF TouchesJob
  <2>. QED BY <1>11, <2>1 DEF AddSettlementJobThrows, Fault, queueVars, QueueMoves,
       TypeOK, HandsMatched, SuccessIsSettled, Retrying, NoJob
<1>12. ASSUME NEW t \in Trades, FailPendingTradeThrows(t)
      PROVE  HandsMatched' /\ SuccessIsSettled'
  BY <1>12 DEF FailPendingTradeThrows, Fault, queueVars, TypeOK, HandsMatched,
       SuccessIsSettled, Retrying, NoJob
<1>13. ASSUME NEW t \in Trades, SettlementThrows(t)
      PROVE  HandsMatched' /\ SuccessIsSettled'
  BY <1>13 DEF SettlementThrows, Fault, queueVars, Settled, WorkerAt, TypeOK, HandsMatched,
       SuccessIsSettled, Retrying, NoJob
<1>14. ASSUME NEW t \in Trades, MarkSettlementFailureThrows(t)
      PROVE  HandsMatched' /\ SuccessIsSettled'
  BY <1>14 DEF MarkSettlementFailureThrows, Fault, queueVars, WorkerAt, TypeOK,
       HandsMatched, SuccessIsSettled, Retrying, NoJob
<1>15. ASSUME NEW t \in Trades, LockLost(t)
      PROVE  HandsMatched' /\ SuccessIsSettled'
  <2>1. QueueMoves(t)
    BY <1>15, JobMoves DEF TouchesJob
  <2>2. UNCHANGED <<trade, handlerVars>> /\ trade[t] # "NONE"
    BY <1>15 DEF LockLost, TypeOK, HandsMatched
  <2>3. \A x \in Trades : job'[x].state # "none" => trade[x] # "NONE"
    BY <2>1, <2>2 DEF QueueMoves, HandsMatched, NoJob
  <2>. QED BY <2>2, <2>3 DEF HandsMatched, SuccessIsSettled, handlerVars
<1>16. ASSUME NEW t \in Trades, RecoverTrade(t)
      PROVE  HandsMatched' /\ SuccessIsSettled'
  <2>1. QueueMoves(t)
    BY <1>16, JobMoves DEF TouchesJob
  <2>. QED BY <1>16, <2>1 DEF RecoverTrade, QueueMoves, TypeOK, HandsMatched,
       SuccessIsSettled, Retrying, NoJob
<1>17. ASSUME NEW t \in Trades, RecoverTradeThrows(t)
      PROVE  HandsMatched' /\ SuccessIsSettled'
  BY <1>17 DEF RecoverTradeThrows, Fault, queueVars, TypeOK, HandsMatched,
       SuccessIsSettled, Retrying, NoJob
<1>18. ASSUME NEW a \in Admins, NEW t \in Trades, FindJob(a, t)
      PROVE  HandsMatched' /\ SuccessIsSettled'
  BY <1>18 DEF FindJob, queueVars, Go, TypeOK, HandsMatched, SuccessIsSettled, Retrying,
       NoJob
<1>19. ASSUME NEW a \in Admins, NEW t \in Trades, PrepareTradeForRetry(a, t)
      PROVE  HandsMatched' /\ SuccessIsSettled'
  BY <1>19 DEF PrepareTradeForRetry, queueVars, At, Go, TypeOK, HandsMatched,
       SuccessIsSettled, Retrying, NoJob
<1>20. ASSUME NEW a \in Admins, NEW t \in Trades, PrepareRefused(a, t)
      PROVE  HandsMatched' /\ SuccessIsSettled'
  BY <1>20 DEF PrepareRefused, queueVars, At, Go, TypeOK, HandsMatched,
       SuccessIsSettled, Retrying, NoJob
<1>21. ASSUME NEW a \in Admins, NEW t \in Trades, LookAtJob(a, t)
      PROVE  HandsMatched' /\ SuccessIsSettled'
  BY <1>21 DEF LookAtJob, queueVars, At, Go, TypeOK, HandsMatched, SuccessIsSettled,
       Retrying, NoJob
<1>22. ASSUME NEW a \in Admins, NEW t \in Trades, RetryAdds(a, t)
      PROVE  HandsMatched' /\ SuccessIsSettled'
  <2>1. QueueMoves(t)
    BY <1>22, JobMoves DEF TouchesJob
  <2>2. /\ UNCHANGED <<trade, matcher, worker, recovering>>
        /\ admin[a] = [trade |-> t, step |-> "add"]
        /\ admin' = [admin EXCEPT ![a] = [trade |-> t, step |-> "over"]]
    BY <1>22 DEF RetryAdds, At, Go
  <2>3. trade[t] # "NONE"
    BY <2>2 DEF HandsMatched, Retrying
  <2>4. \A b \in Admins : admin'[b].step \in Retrying => admin'[b] = admin[b]
    BY <2>2 DEF TypeOK, Retrying
  <2>5. \A x \in Trades : job'[x].state # "none" => trade[x] # "NONE"
    BY <2>1, <2>3 DEF QueueMoves, HandsMatched, NoJob
  <2>. QED BY <2>2, <2>4, <2>5 DEF HandsMatched, SuccessIsSettled
<1>23. ASSUME NEW a \in Admins, NEW t \in Trades, RetryJob(a, t)
      PROVE  HandsMatched' /\ SuccessIsSettled'
  <2>1. QueueMoves(t)
    BY <1>23, JobMoves DEF TouchesJob
  <2>2. /\ UNCHANGED <<trade, matcher, worker, recovering>>
        /\ admin[a] = [trade |-> t, step |-> "retry"]
        /\ admin' = [admin EXCEPT ![a] = [trade |-> t, step |-> "over"]]
    BY <1>23 DEF RetryJob, At, Go
  <2>3. trade[t] # "NONE"
    BY <2>2 DEF HandsMatched, Retrying
  <2>4. \A b \in Admins : admin'[b].step \in Retrying => admin'[b] = admin[b]
    BY <2>2 DEF TypeOK, Retrying
  <2>5. \A x \in Trades : job'[x].state # "none" => trade[x] # "NONE"
    BY <2>1, <2>3 DEF QueueMoves, HandsMatched, NoJob
  <2>. QED BY <2>2, <2>4, <2>5 DEF HandsMatched, SuccessIsSettled
<1>24. ASSUME NEW a \in Admins, NEW t \in Trades, RetryThrows(a, t)
      PROVE  HandsMatched' /\ SuccessIsSettled'
  BY <1>24 DEF RetryThrows, Fault, queueVars, Go, TypeOK, HandsMatched,
       SuccessIsSettled, Retrying, NoJob
<1>25. ASSUME Crash
      PROVE  HandsMatched' /\ SuccessIsSettled'
  BY <1>25 DEF Crash, queueVars, IdleWorker, NewRequest, TypeOK, HandsMatched,
       SuccessIsSettled, Retrying, NoJob
<1>26. ASSUME RedisRestarts
      PROVE  HandsMatched' /\ SuccessIsSettled'
  BY <1>26 DEF RedisRestarts, handlerVars, NoJob, TypeOK, HandsMatched,
       SuccessIsSettled, Retrying, NoJob
<1>27. ASSUME Restart
      PROVE  HandsMatched' /\ SuccessIsSettled'
  BY <1>27 DEF Restart, queueVars, handlerVars, TypeOK, HandsMatched, SuccessIsSettled,
       Retrying, NoJob
<1>28. ASSUME ReadPendingTrades
      PROVE  HandsMatched' /\ SuccessIsSettled'
  BY <1>28 DEF ReadPendingTrades, TypeOK, HandsMatched, SuccessIsSettled, Retrying,
       NoJob
<1>29. ASSUME Listen
      PROVE  HandsMatched' /\ SuccessIsSettled'
  BY <1>29 DEF Listen, queueVars, handlerVars, TypeOK, HandsMatched, SuccessIsSettled,
       Retrying, NoJob
<1>30. CASE UNCHANGED vars
  BY <1>30 DEF vars, queueVars, handlerVars, TypeOK, HandsMatched, SuccessIsSettled,
       Retrying, NoJob
<1>31. ASSUME NEW t \in Trades, MatchCommitThrows(t)
      PROVE  HandsMatched' /\ SuccessIsSettled'
  BY <1>31 DEF MatchCommitThrows, TypeOK, HandsMatched, SuccessIsSettled, Retrying, NoJob
<1>. QED
  BY <1>1, <1>2, <1>3, <1>4, <1>5, <1>6, <1>7, <1>8, <1>9, <1>10, <1>11, <1>12, <1>13,
       <1>14, <1>15, <1>16, <1>17, <1>18, <1>19, <1>20, <1>21, <1>22, <1>23, <1>24,
       <1>25, <1>26, <1>27, <1>28, <1>29, <1>30, <1>31 DEF Next, StartupStep, Trouble,
       MatcherStep, WorkerStep, QueueStep, AdminStep

\* The invariant holds throughout.
THEOREM SettlementInvariant == Spec => []SettlementInv
<1>1. SettlementInv /\ [Next]_vars => SettlementInv'
  BY TypesKept, HandsKept DEF SettlementInv
<1>. QED BY <1>1, InitEstablishes, PTL DEF Spec

\* The state is well typed: the queue keeps no more failed jobs than it may, and
\* a delayed job has attempts left (the options of the queue).
THEOREM SettlementTypeCorrect == Spec => []TypeOK
  BY SettlementInvariant, PTL DEF SettlementInv

\* However jobs are repeated, late or taken up by a retry, a settlement moves a
\* trade along its life cycle, one trade at a time (handleSettlement,
\* markSettlementFailure, failPendingTradeAndReleaseFunds, prepareTradeForRetry).
THEOREM SettlementImplementsLifecycle == Spec => ImplementsLifecycle
<1>1. Init => Lifecycle!Init
  BY DEF Init, Lifecycle!Init
<1>2. SettlementInv /\ [Next]_vars => [Lifecycle!Next]_trade
  <2> SUFFICES ASSUME SettlementInv, [Next]_vars, trade' # trade
               PROVE  Lifecycle!Next
    OBVIOUS
  <2>1. ASSUME NEW t \in Trades, NEW move \in Lifecycle!Moves,
               trade[t] = move[1], trade' = [trade EXCEPT ![t] = move[2]]
        PROVE  Lifecycle!Next
    BY <2>1 DEF Lifecycle!Next
  <2>2. ASSUME NEW t \in Trades, MatchCommits(t) \/ MatchCommitThrows(t)
        PROVE  Lifecycle!Next
    <3>1. <<"NONE", "PENDING_SETTLEMENT">> \in Lifecycle!Moves
      BY DEF Lifecycle!Moves
    <3>. QED BY <2>1, <2>2, <3>1 DEF MatchCommits, MatchCommitThrows
  <2>3. ASSUME NEW t \in Trades, trade' = Failed(t)
        PROVE  Lifecycle!Next
    <3>1. <<"PENDING_SETTLEMENT", "FAILED">> \in Lifecycle!Moves
      BY DEF Lifecycle!Moves
    <3>2. trade[t] = "PENDING_SETTLEMENT" /\ trade' = [trade EXCEPT ![t] = "FAILED"]
      BY <2>3 DEF Failed, SettlementInv, TypeOK
    <3>. QED BY <2>1, <3>1, <3>2
  <2>4. ASSUME NEW t \in Trades, HandleSettlement(t) \/ SettlementThrows(t)
        PROVE  Lifecycle!Next
    <3>1. <<"PENDING_SETTLEMENT", "SETTLED">> \in Lifecycle!Moves
      BY DEF Lifecycle!Moves
    <3>2. trade[t] # "NONE" /\ trade' = Settled(t)
      BY <2>4 DEF HandleSettlement, SettlementThrows, WorkerAt, SettlementInv, TypeOK,
                  HandsMatched
    <3>3. ASSUME trade[t] \in {"FAILED", "SETTLED"} PROVE FALSE
      <4>1. Settled(t) = [trade EXCEPT ![t] = trade[t]]
        BY <3>3 DEF Settled
      <4>2. [trade EXCEPT ![t] = trade[t]] = trade
        BY DEF SettlementInv, TypeOK
      <4>. QED BY <3>2, <4>1, <4>2
    <3>4. trade[t] = "PENDING_SETTLEMENT" /\ trade' = [trade EXCEPT ![t] = "SETTLED"]
      <4>1. trade[t] \in {"NONE", "PENDING_SETTLEMENT", "SETTLED", "FAILED"}
        BY DEF SettlementInv, TypeOK
      <4>2. trade[t] = "PENDING_SETTLEMENT"
        BY <3>2, <3>3, <4>1
      <4>. QED BY <3>2, <4>2 DEF Settled
    <3>. QED BY <2>1, <3>1, <3>4
  <2>5. ASSUME NEW a \in Admins, NEW t \in Trades, PrepareTradeForRetry(a, t)
        PROVE  Lifecycle!Next
    <3>1. <<"FAILED", "PENDING_SETTLEMENT">> \in Lifecycle!Moves
      BY DEF Lifecycle!Moves
    <3>2. trade[t] = "FAILED" /\ trade' = [trade EXCEPT ![t] = "PENDING_SETTLEMENT"]
      BY <2>5 DEF PrepareTradeForRetry, SettlementInv, TypeOK
    <3>. QED BY <2>1, <3>1, <3>2
  <2>6. PICK t \in Trades : \/ MatchCommits(t) \/ MatchCommitThrows(t)
                            \/ HandleSettlement(t) \/ SettlementThrows(t)
                            \/ trade' = Failed(t)
                            \/ \E a \in Admins : PrepareTradeForRetry(a, t)
    <3>1. /\ ~StartupStep /\ ~Crash /\ ~RedisRestarts
          /\ ~UNCHANGED vars
      BY DEF StartupStep, Restart, ReadPendingTrades, Listen, Crash, RedisRestarts, vars
    <3>2. \A t \in Trades :
             ~(\/ AddSettlementJobThrows(t) \/ FailPendingTradeThrows(t)
               \/ MarkSettlementFailureThrows(t) \/ LockLost(t)
               \/ RecoverTradeThrows(t) \/ \E a \in Admins : RetryThrows(a, t))
      BY DEF AddSettlementJobThrows, FailPendingTradeThrows, MarkSettlementFailureThrows, LockLost, RecoverTradeThrows, RetryThrows
    <3>3. \A t \in Trades :
             ~(\/ AddSettlementJob(t) \/ TakeJob(t) \/ SettlementRefused(t) \/ FinishJob(t)
               \/ QueueStep(t) \/ RecoverTrade(t))
      BY DEF AddSettlementJob, TakeJob, SettlementRefused, FinishJob, QueueStep,
             BackoffElapses, StalledCheck, RecoverTrade
    <3>4. \A t \in Trades, a \in Admins :
             ~(\/ FindJob(a, t) \/ PrepareRefused(a, t) \/ LookAtJob(a, t)
               \/ RetryAdds(a, t) \/ RetryJob(a, t))
      BY DEF FindJob, PrepareRefused, LookAtJob, RetryAdds, RetryJob
    <3>. QED
      BY <3>1, <3>2, <3>3, <3>4
         DEF Next, Trouble, MatcherStep, FailPendingTrade, WorkerStep,
             MarkSettlementFailure, AdminStep
  <2>. QED BY <2>2, <2>3, <2>4, <2>5, <2>6
<1>. QED BY <1>1, <1>2, SettlementInvariant, PTL DEF Spec, ImplementsLifecycle, Lifecycle!Spec

\* The job of another trade has failed.
FailsOther(t) == \E x \in Trades \ {t} : job'[x].state = "failed"

\* Which step takes a job out of the queue.
LEMMA JobLeaves ==
    ASSUME SettlementInv, [Next]_vars, NEW t \in Trades,
           job[t].state # "none", job'[t].state = "none"
    PROVE  trade[t] = "SETTLED" \/ RedisRestarts \/ (MakesRoom(t) /\ FailsOther(t))
<1>1. CASE RedisRestarts
  BY <1>1 DEF RedisRestarts, SettlementInv, TypeOK
<1>2. ASSUME NEW x \in Trades, TouchesJob(x)
      PROVE  trade[t] = "SETTLED" \/ (MakesRoom(t) /\ FailsOther(t))
  <2>1. QueueMoves(x)
    BY <1>2, JobMoves DEF SettlementInv
  <2>2. CASE t # x
    BY <2>1, <2>2 DEF QueueMoves, FailsOther
  <2>3. CASE t = x
    <3>1. \A j : SetJob(t, j) => job'[t] = j
      BY DEF SetJob
    <3>2. CASE FinishJob(t)
      <4>1. AfterFailure(job[t]).state # "none"
        BY DEF AfterFailure, SettlementInv, TypeOK, Jobs
      <4>2. worker.step = "completed" /\ worker.trade = t
        BY <3>1, <3>2, <4>1 DEF FinishJob
      <4>. QED BY <4>2 DEF SettlementInv, SuccessIsSettled
    <3>3. CASE Enqueue(t) \/ UNCHANGED queueVars
      BY <3>1, <3>3 DEF Enqueue, Added, queueVars
    <3>4. CASE TakeJob(t) \/ BackoffElapses(t)
      BY <3>1, <3>4 DEF TakeJob, BackoffElapses, SettlementInv, TypeOK, Jobs
    <3>5. CASE StalledCheck(t) \/ LockLost(t)
      <4>1. Stalled(job[t]).state # "none"
        BY DEF Stalled, SettlementInv, TypeOK, Jobs
      <4>. QED BY <3>1, <3>5, <4>1 DEF StalledCheck, LockLost
    <3>6. CASE \E a \in Admins : RetryJob(a, t)
      BY <3>1, <3>6 DEF RetryJob, SettlementInv, TypeOK, Jobs
    <3>. QED BY <2>3, <1>2, <3>2, <3>3, <3>4, <3>5, <3>6
             DEF TouchesJob, AddSettlementJob, AddSettlementJobThrows, RecoverTrade, RetryAdds
  <2>. QED BY <2>2, <2>3
<1>3. CASE ~RedisRestarts /\ \A x \in Trades : ~TouchesJob(x)
  <2>1. UNCHANGED job
    <3>1. CASE StartupStep \/ Crash
      BY <3>1 DEF StartupStep, Restart, ReadPendingTrades, Listen, Crash, queueVars
    <3>2. ASSUME NEW x \in Trades,
                 \/ FailPendingTradeThrows(x) \/ SettlementThrows(x)
                 \/ MarkSettlementFailureThrows(x) \/ RecoverTradeThrows(x)
                 \/ \E a \in Admins : RetryThrows(a, x)
          PROVE  UNCHANGED job
      BY <3>2 DEF FailPendingTradeThrows, SettlementThrows, MarkSettlementFailureThrows,
                  RecoverTradeThrows, RetryThrows, queueVars
    <3>3. ASSUME NEW x \in Trades,
                 \/ MatchCommits(x) \/ MatchCommitThrows(x) \/ FailPendingTrade(x)
                 \/ HandleSettlement(x) \/ SettlementRefused(x) \/ MarkSettlementFailure(x)
          PROVE  UNCHANGED job
      BY <3>3 DEF MatchCommits, MatchCommitThrows, FailPendingTrade, HandleSettlement, SettlementRefused,
                  MarkSettlementFailure, queueVars
    <3>4. ASSUME NEW x \in Trades, NEW a \in Admins,
                 \/ FindJob(a, x) \/ PrepareTradeForRetry(a, x)
                 \/ PrepareRefused(a, x) \/ LookAtJob(a, x)
          PROVE  UNCHANGED job
      BY <3>4 DEF FindJob, PrepareTradeForRetry, PrepareRefused, LookAtJob, queueVars
    <3>5. CASE UNCHANGED vars
      BY <3>5 DEF vars, queueVars
    <3>. QED
      BY <1>3, <3>1, <3>2, <3>3, <3>4, <3>5
         DEF Next, Trouble, MatcherStep, WorkerStep, QueueStep, AdminStep, TouchesJob
  <2>. QED BY <2>1
<1>. QED BY <1>1, <1>2, <1>3

\* A job leaves the queue only if its trade is settled, or Redis restarts, or it
\* has failed and newer failures take its place (handleSettlement, the options
\* of the queue).
THEOREM JobsLeaveForAReason == Spec => CompletedIsSettled
<1>1. SettlementInv /\ [Next]_vars =>
         [\A t \in Trades : job[t].state # "none" /\ job'[t].state = "none"
              => \/ trade[t] = "SETTLED"
                 \/ losses' # losses
                 \/ /\ Len(failedJobs) = KeepFailed /\ failedJobs[1] = t
                    /\ failedJobs'[KeepFailed] # failedJobs[KeepFailed]]_vars
  BY JobLeaves DEF MakesRoom, RedisRestarts, SettlementInv, TypeOK
<1>. QED BY <1>1, SettlementInvariant, PTL DEF Spec, CompletedIsSettled

-----------------------------------------------------------------------------
(* A pending trade is in hand.                                             *)

\* Calls that threw and crashes, together.
Mishaps == faults + crashes

\* Something went wrong with the trade, or is about to show.
Troubled(t) ==
    \/ trade[t] = "FAILED"
    \/ job[t].state = "failed" \/ job[t].attempts > 0 \/ job[t].stalls > 0
    \/ job[t].state = "active" /\ worker.trade # t
    \/ worker.trade = t /\ worker.step \in {"mark", "failed"}
    \/ matcher[t] = "rollback"

\* As long as nothing went wrong, its job or the handler that matched it has every
\* pending trade in hand that Redis did not forget.
Calm ==
    Mishaps = 0 =>
        \A t \in Trades :
            /\ ~Troubled(t)
            /\ trade[t] = "PENDING_SETTLEMENT"
                  => job[t].state # "none" \/ matcher[t] = "enqueue" \/ t \in lost

\* One mishap troubles one trade.
OneTroubled ==
    Mishaps < 2 => \A s, t \in Trades : Troubled(s) /\ Troubled(t) => s = t

\* Startup follows a crash.
ServingUnlessCrashed == crashes = 0 => phase = "serving" /\ recovering = {}

\* A step troubles no other trade than the one it handles.
LEMMA OthersTrouble ==
    ASSUME NEW t \in Trades, NEW x \in Trades, x # t, TypeOK,
           QueueMoves(t) \/ job' = job,
           trade'[x] = trade[x], matcher'[x] = matcher[x],
           worker' = worker \/ (worker.trade # x /\ worker'.trade # x)
    PROVE  Troubled(x)' => Troubled(x)
<1>1. job'[x] = job[x] \/ job'[x] = NoJob
  BY DEF QueueMoves
<1>2. ~(NoJob.state \in {"failed", "active"}) /\ ~(NoJob.attempts > 0) /\ ~(NoJob.stalls > 0)
  BY DEF NoJob
<1>. QED BY <1>1, <1>2 DEF Troubled

Quiet == Mishaps' = Mishaps /\ \A x \in Trades : Troubled(x)' => Troubled(x)

Mishap ==
    /\ Mishaps' = Mishaps + 1
    /\ \E u : \A x \in Trades : Troubled(x)' => Troubled(x) \/ x = u

\* A step that changes the job of a trade, and what the trade was through before.
LEMMA JobTrouble ==
    ASSUME SettlementInv, NEW t \in Trades,
           \/ AddSettlementJob(t) \/ RecoverTrade(t) \/ TakeJob(t) \/ FinishJob(t)
           \/ BackoffElapses(t) \/ StalledCheck(t)
           \/ \E a \in Admins : RetryAdds(a, t) \/ RetryJob(a, t)
    PROVE  Quiet
<1>1. QueueMoves(t) /\ TypeOK
  BY JobMoves DEF TouchesJob, SettlementInv
<1>2. UNCHANGED <<trade, faults, crashes>> /\ \A x \in Trades : matcher'[x] # matcher[x] => matcher'[x] = "done"
  BY <1>1 DEF AddSettlementJob, RecoverTrade, TakeJob, FinishJob, BackoffElapses, StalledCheck,
              RetryAdds, RetryJob, handlerVars, TypeOK
<1>3. ASSUME NEW x \in Trades, x # t
      PROVE  Troubled(x)' => Troubled(x)
  <2>1. matcher'[x] = matcher[x] /\ trade'[x] = trade[x]
    BY <1>1, <1>3 DEF AddSettlementJob, RecoverTrade, TakeJob, FinishJob, BackoffElapses,
                      StalledCheck, RetryAdds, RetryJob, handlerVars, TypeOK
  <2>2. worker' = worker \/ (worker.trade # x /\ worker'.trade # x)
    BY <1>3 DEF AddSettlementJob, RecoverTrade, TakeJob, FinishJob, BackoffElapses,
                StalledCheck, RetryAdds, RetryJob, handlerVars, IdleWorker
  <2>. QED BY <1>1, <1>3, <2>1, <2>2, OthersTrouble
<1>4. Troubled(t)' => Troubled(t)
  <2>1. \A j : SetJob(t, j) => job'[t] = j
    BY DEF SetJob
  <2>2. job[t] \in Jobs /\ worker.trade \in Trades \cup {NoTrade}
    BY <1>1 DEF TypeOK
  <2>3. WaitingJob = [state |-> "waiting", attempts |-> 0, stalls |-> 0]
    BY DEF WaitingJob, NoJob
  <2>4. CASE AddSettlementJob(t) \/ RecoverTrade(t) \/ \E a \in Admins : RetryAdds(a, t)
    <3>1. job'[t] = Added(job[t]) /\ worker' = worker
      BY <2>1, <2>4 DEF AddSettlementJob, RecoverTrade, RetryAdds, Enqueue
    <3>2. job'[t] = job[t] \/ job'[t] = WaitingJob
      BY <3>1 DEF Added
    <3>. QED BY <1>2, <2>3, <3>1, <3>2 DEF Troubled
  <2>5. CASE TakeJob(t)
    <3>1. job'[t] = [job[t] EXCEPT !.state = "active"] /\ worker' = [trade |-> t, step |-> "settle"]
      BY <2>1, <2>5 DEF TakeJob
    <3>. QED BY <1>2, <2>2, <3>1 DEF Troubled, Jobs
  <2>6. CASE FinishJob(t)
    <3>1. worker.trade = t /\ worker.step \in {"completed", "failed"} /\ worker' = IdleWorker
      BY <2>6 DEF FinishJob
    <3>2. CASE worker.step = "failed"
      BY <3>1, <3>2 DEF Troubled
    <3>3. CASE worker.step = "completed"
      <4>1. job'[t] = (IF job[t].state # "active" THEN job[t] ELSE NoJob)
        BY <2>1, <2>6, <3>3 DEF FinishJob
      <4>. QED BY <1>2, <2>2, <3>1, <4>1 DEF Troubled, NoJob, Jobs, IdleWorker
    <3>. QED BY <3>1, <3>2, <3>3
  <2>7. CASE BackoffElapses(t) \/ \E a \in Admins : RetryJob(a, t)
    <3>1. job'[t] \in {job[t], [job[t] EXCEPT !.state = "waiting"]} /\ worker' = worker
      BY <2>1, <2>7 DEF BackoffElapses, RetryJob, handlerVars
    <3>. QED BY <1>2, <2>2, <3>1 DEF Troubled, Jobs
  <2>8. CASE StalledCheck(t)
    BY <2>8 DEF StalledCheck, Troubled
  <2>. QED BY <2>4, <2>5, <2>6, <2>7, <2>8
<1>. QED BY <1>2, <1>3, <1>4 DEF Quiet, Mishaps

\* A step that changes what becomes of a trade, but not its job.
LEMMA TradeTrouble ==
    ASSUME SettlementInv, NEW t \in Trades,
           \/ MatchCommits(t) \/ FailPendingTrade(t)
           \/ HandleSettlement(t) \/ SettlementRefused(t) \/ MarkSettlementFailure(t)
           \/ \E a \in Admins : \/ FindJob(a, t) \/ PrepareTradeForRetry(a, t)
                                \/ PrepareRefused(a, t) \/ LookAtJob(a, t)
    PROVE  Quiet
<1>1. TypeOK /\ job' = job /\ UNCHANGED <<faults, crashes>>
  BY DEF SettlementInv, MatchCommits, FailPendingTrade, HandleSettlement, SettlementRefused,
         MarkSettlementFailure, FindJob, PrepareTradeForRetry, PrepareRefused, LookAtJob, queueVars
<1>2. ASSUME NEW x \in Trades, x # t
      PROVE  Troubled(x)' => Troubled(x)
  <2>1. matcher'[x] = matcher[x] /\ trade'[x] = trade[x]
    BY <1>1, <1>2 DEF MatchCommits, FailPendingTrade, HandleSettlement, SettlementRefused,
              MarkSettlementFailure, FindJob, PrepareTradeForRetry, PrepareRefused, LookAtJob,
              Failed, Settled, TypeOK
  <2>2. worker' = worker \/ (worker.trade # x /\ worker'.trade # x)
    BY <1>1, <1>2 DEF MatchCommits, FailPendingTrade, HandleSettlement, SettlementRefused, WorkerAt,
              MarkSettlementFailure, FindJob, PrepareTradeForRetry, PrepareRefused, LookAtJob, TypeOK
  <2>. QED BY <1>1, <1>2, <2>1, <2>2, OthersTrouble
<1>3. Troubled(t)' => Troubled(t)
  <2>1. CASE MatchCommits(t)
    BY <1>1, <2>1 DEF MatchCommits, Troubled, TypeOK
  <2>2. CASE FailPendingTrade(t)
    BY <2>2 DEF FailPendingTrade, Troubled
  <2>3. CASE HandleSettlement(t)
    BY <1>1, <2>3 DEF HandleSettlement, Settled, WorkerAt, Troubled, TypeOK
  <2>4. CASE SettlementRefused(t)
    BY <2>4 DEF SettlementRefused, Troubled
  <2>5. CASE MarkSettlementFailure(t)
    BY <2>5 DEF MarkSettlementFailure, WorkerAt, Troubled
  <2>6. ASSUME NEW a \in Admins, FindJob(a, t) \/ PrepareRefused(a, t) \/ LookAtJob(a, t)
        PROVE  Troubled(t)' => Troubled(t)
    BY <1>1, <2>6 DEF FindJob, PrepareRefused, LookAtJob, Troubled
  <2>7. ASSUME NEW a \in Admins, PrepareTradeForRetry(a, t)
        PROVE  Troubled(t)' => Troubled(t)
    BY <1>1, <2>7 DEF PrepareTradeForRetry, Troubled, TypeOK
  <2>. QED BY <2>1, <2>2, <2>3, <2>4, <2>5, <2>6, <2>7
<1>. QED BY <1>1, <1>2, <1>3 DEF Quiet, Mishaps

\* A call that throws troubles at most the trade it is about.
LEMMA FaultTroubles ==
    ASSUME SettlementInv, NEW t \in Trades,
           \/ MatchCommitThrows(t) \/ AddSettlementJobThrows(t) \/ FailPendingTradeThrows(t)
           \/ SettlementThrows(t) \/ MarkSettlementFailureThrows(t) \/ LockLost(t)
           \/ RecoverTradeThrows(t) \/ \E a \in Admins : RetryThrows(a, t)
    PROVE  Mishap
<1>1. TypeOK /\ (QueueMoves(t) \/ job' = job)
  BY JobMoves DEF TouchesJob, SettlementInv, MatchCommitThrows, AddSettlementJobThrows,
                  FailPendingTradeThrows, SettlementThrows, MarkSettlementFailureThrows, LockLost, RecoverTradeThrows,
                  RetryThrows, queueVars
<1>2. faults' = faults + 1 /\ crashes' = crashes
  BY DEF MatchCommitThrows, AddSettlementJobThrows, FailPendingTradeThrows, SettlementThrows,
         MarkSettlementFailureThrows, LockLost, RecoverTradeThrows, RetryThrows, Fault
<1>3. ASSUME NEW x \in Trades, x # t
      PROVE  Troubled(x)' => Troubled(x)
  <2>1. matcher'[x] = matcher[x] /\ trade'[x] = trade[x]
    BY <1>1, <1>3 DEF MatchCommitThrows, AddSettlementJobThrows, FailPendingTradeThrows,
         SettlementThrows, Settled, MarkSettlementFailureThrows, LockLost, RecoverTradeThrows, RetryThrows, handlerVars, TypeOK
  <2>2. worker' = worker \/ (worker.trade # x /\ worker'.trade # x)
    BY <1>1, <1>3 DEF MatchCommitThrows, AddSettlementJobThrows, FailPendingTradeThrows,
         SettlementThrows, WorkerAt, MarkSettlementFailureThrows, LockLost, RecoverTradeThrows, RetryThrows, handlerVars, TypeOK
  <2>. QED BY <1>1, <1>3, <2>1, <2>2, OthersTrouble
<1>4. Mishaps' = Mishaps + 1
  BY <1>1, <1>2 DEF Mishaps, TypeOK
<1>. QED BY <1>3, <1>4 DEF Mishap

\* A crash troubles the trade the worker has in hand.
LEMMA CrashTroubles == ASSUME SettlementInv, Crash PROVE Mishap
<1>1. TypeOK /\ UNCHANGED <<trade, job, faults>> /\ crashes' = crashes + 1 /\ worker' = IdleWorker
  BY DEF Crash, SettlementInv, queueVars
<1>2. \A x \in Trades : matcher'[x] # "rollback"
  BY DEF Crash
<1>3. ASSUME NEW x \in Trades, Troubled(x)', x # worker.trade
      PROVE  Troubled(x)
  BY <1>1, <1>2, <1>3 DEF Troubled, IdleWorker
<1>4. Mishaps' = Mishaps + 1
  BY <1>1 DEF Mishaps, TypeOK
<1>. QED BY <1>3, <1>4 DEF Mishap

\* Every step counts the trouble it makes.
LEMMA TroubleCounts == ASSUME SettlementInv, [Next]_vars PROVE Quiet \/ Mishap
<1>1. CASE StartupStep
  BY <1>1 DEF StartupStep, Restart, ReadPendingTrades, Listen, queueVars, handlerVars, Quiet,
              Mishaps, Troubled
<1>2. CASE RedisRestarts
  <2>1. UNCHANGED <<trade, matcher, worker, faults, crashes>>
    BY <1>2 DEF RedisRestarts, handlerVars
  <2>2. \A x \in Trades : job'[x] = NoJob
    BY <1>2 DEF RedisRestarts
  <2>. QED BY <2>1, <2>2 DEF Quiet, Mishaps, Troubled, NoJob
<1>3. CASE UNCHANGED vars
  BY <1>3 DEF vars, queueVars, handlerVars, Quiet, Mishaps, Troubled
<1>. QED BY <1>1, <1>2, <1>3, JobTrouble, TradeTrouble, FaultTroubles, CrashTroubles
         DEF Next, Trouble, MatcherStep, WorkerStep, QueueStep, AdminStep

\* The steps by who takes them.
WorkerMoves(x) ==
    \/ TakeJob(x) \/ HandleSettlement(x) \/ SettlementRefused(x) \/ SettlementThrows(x)
    \/ MarkSettlementFailure(x) \/ MarkSettlementFailureThrows(x) \/ FinishJob(x)
    \/ BackoffElapses(x) \/ StalledCheck(x) \/ LockLost(x)

MatcherMoves(x) ==
    \/ MatchCommits(x) \/ MatchCommitThrows(x)
    \/ AddSettlementJob(x) \/ AddSettlementJobThrows(x)
    \/ FailPendingTrade(x) \/ FailPendingTradeThrows(x)

AdminMoves(a, x) ==
    \/ FindJob(a, x) \/ PrepareTradeForRetry(a, x) \/ PrepareRefused(a, x)
    \/ LookAtJob(a, x) \/ RetryAdds(a, x) \/ RetryJob(a, x) \/ RetryThrows(a, x)

RecoveryMoves == StartupStep \/ \E x \in Trades : RecoverTrade(x) \/ RecoverTradeThrows(x)

LEMMA StepIs ==
    ASSUME [Next]_vars
    PROVE  \/ \E x \in Trades : WorkerMoves(x) \/ MatcherMoves(x) \/ \E a \in Admins : AdminMoves(a, x)
           \/ RecoveryMoves \/ Crash \/ RedisRestarts \/ UNCHANGED vars
  BY DEF Next, Trouble, MatcherStep, WorkerStep, QueueStep, AdminStep, WorkerMoves, MatcherMoves,
         AdminMoves, RecoveryMoves

LEMMA WorkerMovesAlone ==
    ASSUME NEW x \in Trades, WorkerMoves(x)
    PROVE  UNCHANGED <<phase, matcher, admin, recovering, lost, crashes>>
  BY DEF WorkerMoves, TakeJob, HandleSettlement, SettlementRefused, SettlementThrows,
         MarkSettlementFailure, MarkSettlementFailureThrows, FinishJob, BackoffElapses,
         StalledCheck, LockLost, queueVars, handlerVars

\* Whatever adds a job has added it, or leaves the queue as it was.
LEMMA AddingAdds ==
    ASSUME NEW x \in Trades, Enqueue(x), TypeOK
    PROVE  job'[x].state # "none" /\ \A t \in Trades : t # x /\ t \in lost => t \in lost'
  BY DEF Enqueue, SetJob, Added, WaitingJob, NoJob, TypeOK

LEMMA MatcherMovesAlone ==
    ASSUME NEW x \in Trades, MatcherMoves(x), TypeOK
    PROVE  /\ UNCHANGED <<phase, admin, recovering, crashes>>
           /\ \A t \in Trades \ {x} : matcher'[t] = matcher[t]
           /\ \A t \in Trades : t \in lost => t \in lost' \/ (t = x /\ job'[x].state # "none")
  BY AddingAdds
     DEF MatcherMoves, MatchCommits, MatchCommitThrows, AddSettlementJob,
         AddSettlementJobThrows, FailPendingTrade, FailPendingTradeThrows, queueVars, TypeOK

LEMMA AdminMovesAlone ==
    ASSUME NEW a \in Admins, NEW x \in Trades, AdminMoves(a, x), TypeOK
    PROVE  /\ UNCHANGED <<phase, matcher, recovering, crashes>>
           /\ \A b \in Admins \ {a} : admin'[b] = admin[b]
           /\ \A t \in Trades : t \in lost => t \in lost' \/ (t = x /\ job'[x].state # "none")
  BY AddingAdds
     DEF AdminMoves, FindJob, PrepareTradeForRetry, PrepareRefused, LookAtJob, RetryAdds, RetryJob,
         RetryThrows, Go, queueVars, TypeOK

\* What holds beside the types while a step is looked at.
HandInv == Calm /\ OneTroubled /\ ServingUnlessCrashed /\ PendingIsInHand

\* With less than two mishaps, no job of a pending trade is dropped but by Redis.
LEMMA JobStays ==
    ASSUME SettlementInv, HandInv, [Next]_vars, Mishaps' < 2, NEW t \in Trades,
           trade[t] = "PENDING_SETTLEMENT", job[t].state # "none"
    PROVE  job'[t].state # "none" \/ t \in lost'
<1> SUFFICES ASSUME job'[t].state = "none" PROVE t \in lost'
  OBVIOUS
<1>1. CASE RedisRestarts
  BY <1>1 DEF RedisRestarts
<1>2. CASE MakesRoom(t) /\ FailsOther(t)
  <2>1. Troubled(t)
    <3>1. failedJobs[1] = t /\ Len(failedJobs) = KeepFailed /\ KeepFailed \in Nat \ {0}
      BY <1>2 DEF MakesRoom
    <3>2. job[t].state = "failed"
      BY <3>1 DEF SettlementInv, TypeOK, Contains
    <3>. QED BY <3>2 DEF Troubled
  <2>2. PICK y \in Trades \ {t} : Troubled(y)'
    BY <1>2 DEF FailsOther, Troubled
  <2>3. Mishaps \in Nat /\ Mishaps # 0
    BY <2>1 DEF HandInv, Calm, Mishaps, SettlementInv, TypeOK
  <2>4. Quiet
    BY <2>3, TroubleCounts DEF Mishap
  <2>5. Troubled(y) /\ Mishaps < 2
    BY <2>2, <2>4 DEF Quiet
  <2>. QED BY <2>1, <2>2, <2>5 DEF HandInv, OneTroubled
<1>. QED BY <1>1, <1>2, JobLeaves

\* Only a match and a retry make a trade pending.
LEMMA BecomesPending ==
    ASSUME SettlementInv, [Next]_vars, NEW t \in Trades,
           trade[t] # "PENDING_SETTLEMENT", trade'[t] = "PENDING_SETTLEMENT"
    PROVE  \/ MatchCommits(t) \/ MatchCommitThrows(t)
           \/ \E a \in Admins : PrepareTradeForRetry(a, t)
<1>1. TypeOK
  BY DEF SettlementInv
<1>2. ASSUME NEW x \in Trades, WorkerMoves(x) PROVE FALSE
  BY <1>1, <1>2 DEF WorkerMoves, TakeJob, HandleSettlement, SettlementRefused, SettlementThrows,
         MarkSettlementFailure, MarkSettlementFailureThrows, FinishJob, BackoffElapses,
         StalledCheck, LockLost, Failed, Settled, TypeOK
<1>3. ASSUME NEW x \in Trades, MatcherMoves(x)
      PROVE  x = t /\ (MatchCommits(x) \/ MatchCommitThrows(x))
  BY <1>1, <1>3 DEF MatcherMoves, MatchCommits, MatchCommitThrows, AddSettlementJob, AddSettlementJobThrows, FailPendingTrade,
         FailPendingTradeThrows, Failed, TypeOK
<1>4. ASSUME NEW a \in Admins, NEW x \in Trades, AdminMoves(a, x)
      PROVE  x = t /\ PrepareTradeForRetry(a, x)
  BY <1>1, <1>4 DEF AdminMoves, FindJob, PrepareTradeForRetry, PrepareRefused, LookAtJob,
         RetryAdds, RetryJob, RetryThrows, TypeOK
<1>5. CASE RecoveryMoves \/ Crash \/ RedisRestarts \/ UNCHANGED vars
  BY <1>5 DEF RecoveryMoves, StartupStep, Restart, ReadPendingTrades, Listen, RecoverTrade,
         RecoverTradeThrows, Crash, RedisRestarts, vars
<1>. QED BY <1>2, <1>3, <1>4, <1>5, StepIs

LEMMA ServingKept ==
    ASSUME SettlementInv, ServingUnlessCrashed, [Next]_vars
    PROVE  ServingUnlessCrashed'
<1>1. TypeOK
  BY DEF SettlementInv
<1>2. ASSUME NEW x \in Trades, WorkerMoves(x) \/ MatcherMoves(x) \/ \E a \in Admins : AdminMoves(a, x)
      PROVE  UNCHANGED <<phase, recovering, crashes>>
  BY <1>1, <1>2, WorkerMovesAlone, MatcherMovesAlone, AdminMovesAlone
<1>3. CASE RecoveryMoves
  BY <1>3 DEF RecoveryMoves, StartupStep, Restart, ReadPendingTrades, Listen, RecoverTrade,
              RecoverTradeThrows, ServingUnlessCrashed
<1>4. CASE Crash
  BY <1>1, <1>4 DEF Crash, TypeOK, ServingUnlessCrashed
<1>5. CASE RedisRestarts \/ UNCHANGED vars
  BY <1>5 DEF RedisRestarts, vars, handlerVars, ServingUnlessCrashed
<1>. QED BY <1>2, <1>3, <1>4, <1>5, StepIs DEF ServingUnlessCrashed

\* A second mishap needs a first, and nothing is undone.
LEMMA MishapsGrow ==
    ASSUME SettlementInv, [Next]_vars
    PROVE  /\ Mishaps \in Nat /\ Mishaps' \in Nat /\ Mishaps <= Mishaps'
           /\ \A t \in Trades : FailPendingTradeThrows(t) \/ RecoverTradeThrows(t)
                  \/ (\E a \in Admins : RetryThrows(a, t)) => Mishaps' = Mishaps + 1
           /\ Crash => Mishaps' = Mishaps + 1
<1>1. TypeOK
  BY DEF SettlementInv
<1>2. Mishaps \in Nat
  BY <1>1 DEF Mishaps, TypeOK
<1>3. Mishaps' = Mishaps \/ Mishaps' = Mishaps + 1
  BY TroubleCounts DEF Quiet, Mishap
<1>4. ASSUME NEW t \in Trades, FailPendingTradeThrows(t) \/ RecoverTradeThrows(t)
                               \/ \E a \in Admins : RetryThrows(a, t)
      PROVE  Mishaps' = Mishaps + 1
  BY <1>4, FaultTroubles DEF Mishap
<1>5. Crash => Mishaps' = Mishaps + 1
  BY CrashTroubles DEF Mishap
<1>. QED BY <1>2, <1>3, <1>4, <1>5

\* While nothing went wrong, the matcher enqueues, and the job stays.
LEMMA CalmHand ==
    ASSUME SettlementInv, HandInv, [Next]_vars, Mishaps' = 0, NEW t \in Trades,
           trade'[t] = "PENDING_SETTLEMENT"
    PROVE  job'[t].state # "none" \/ matcher'[t] = "enqueue" \/ t \in lost'
<1>1. TypeOK /\ Mishaps = 0 /\ crashes = 0 /\ ~Crash
  BY MishapsGrow DEF SettlementInv, Mishaps, TypeOK
<1>2. CASE trade[t] # "PENDING_SETTLEMENT"
  <2>1. ASSUME NEW a \in Admins, PrepareTradeForRetry(a, t) PROVE FALSE
    BY <1>1, <1>2, <2>1 DEF PrepareTradeForRetry, HandInv, Calm, Troubled
  <2>2. CASE MatchCommits(t)
    BY <1>1, <2>2 DEF MatchCommits, TypeOK
  <2>3. CASE MatchCommitThrows(t)
    BY <2>3 DEF MatchCommitThrows
  <2>. QED BY <1>2, <2>1, <2>2, <2>3, BecomesPending
<1>3. CASE trade[t] = "PENDING_SETTLEMENT" /\ job[t].state # "none"
  BY <1>1, <1>3, JobStays
<1>4. CASE matcher[t] = "enqueue" \/ t \in lost
  <2>1. ASSUME NEW x \in Trades, WorkerMoves(x)
        PROVE  matcher'[t] = matcher[t] /\ lost' = lost
    BY <2>1, WorkerMovesAlone
  <2>2. ASSUME NEW x \in Trades, MatcherMoves(x)
        PROVE  job'[t].state # "none" \/ matcher'[t] = "enqueue" \/ t \in lost'
    <3>1. CASE x # t \/ t \in lost
      BY <1>1, <1>4, <2>2, <3>1, MatcherMovesAlone
    <3>2. CASE x = t /\ matcher[t] = "enqueue"
      <4>1. ~AddSettlementJobThrows(t)
        <5>1. AddSettlementJobThrows(t) => Mishaps' = Mishaps + 1
          BY FaultTroubles DEF Mishap
        <5>. QED BY <1>1, <5>1
      <4>2. MatchCommits(t) \/ MatchCommitThrows(t) \/ AddSettlementJob(t)
        BY <2>2, <3>2, <4>1 DEF MatcherMoves, FailPendingTrade, FailPendingTradeThrows
      <4>. QED BY <1>1, <4>2, AddingAdds
               DEF MatchCommits, MatchCommitThrows, AddSettlementJob, TypeOK
    <3>. QED BY <1>4, <3>1, <3>2
  <2>3. ASSUME NEW a \in Admins, NEW x \in Trades, AdminMoves(a, x)
        PROVE  job'[t].state # "none" \/ matcher'[t] = "enqueue" \/ t \in lost'
    BY <1>1, <1>4, <2>3, AdminMovesAlone
  <2>4. ~RecoveryMoves
    BY <1>1 DEF RecoveryMoves, StartupStep, Restart, ReadPendingTrades, Listen, RecoverTrade,
                RecoverTradeThrows, HandInv, ServingUnlessCrashed
  <2>5. CASE RedisRestarts \/ UNCHANGED vars
    BY <1>4, <2>5 DEF RedisRestarts, vars, queueVars, handlerVars
  <2>. QED BY <1>1, <1>4, <2>1, <2>2, <2>3, <2>4, <2>5, StepIs
<1>. QED BY <1>1, <1>2, <1>3, <1>4 DEF HandInv, Calm

\* Who else has the trade in hand, when it has no job.
Promised(t) ==
    \/ matcher[t] \in {"enqueue", "rollback"}
    \/ \E a \in Admins : At(a, t, "look") \/ At(a, t, "add")
    \/ phase \in {"down", "starting"}
    \/ t \in recovering
    \/ t \in lost

\* A promise is kept, or passed on: the handler adds the job, its failure goes to
\* the rollback, a crash to the next startup.
LEMMA PromiseKept ==
    ASSUME SettlementInv, HandInv, [Next]_vars, Mishaps' < 2, NEW t \in Trades,
           trade[t] = "PENDING_SETTLEMENT", trade'[t] = "PENDING_SETTLEMENT",
           job[t].state = "none", Promised(t)
    PROVE  job'[t].state # "none" \/ Promised(t)'
<1> USE DEF Promised, At
<1>1. TypeOK
  BY DEF SettlementInv
<1>2. ASSUME NEW x \in Trades, WorkerMoves(x)
      PROVE  Promised(t)'
  BY <1>2, WorkerMovesAlone
<1>3. ASSUME NEW x \in Trades, MatcherMoves(x)
      PROVE  job'[t].state # "none" \/ Promised(t)'
  <2>1. CASE x # t \/ matcher[t] \notin {"enqueue", "rollback"}
    BY <1>1, <1>3, <2>1, MatcherMovesAlone
  <2>2. CASE x = t /\ matcher[t] = "enqueue"
    <3>1. AddSettlementJob(t) \/ AddSettlementJobThrows(t)
      BY <1>3, <2>2 DEF MatcherMoves, MatchCommits, MatchCommitThrows, FailPendingTrade,
                        FailPendingTradeThrows
    <3>. QED BY <1>1, <3>1, AddingAdds DEF AddSettlementJob, AddSettlementJobThrows, TypeOK
  <2>3. CASE x = t /\ matcher[t] = "rollback"
    <3>1. ~FailPendingTrade(t)
      BY <1>1 DEF FailPendingTrade, Failed, TypeOK
    <3>2. ~FailPendingTradeThrows(t)
      <4>1. Mishaps \in Nat /\ Mishaps # 0
        BY <2>3, MishapsGrow DEF HandInv, Calm, Troubled
      <4>2. FailPendingTradeThrows(t) => Mishaps' = Mishaps + 1
        BY MishapsGrow
      <4>. QED BY <4>1, <4>2
    <3>. QED BY <1>3, <2>3, <3>1, <3>2
             DEF MatcherMoves, MatchCommits, MatchCommitThrows, AddSettlementJob,
                 AddSettlementJobThrows
  <2>. QED BY <2>1, <2>2, <2>3
<1>4. ASSUME NEW a \in Admins, NEW x \in Trades, AdminMoves(a, x)
      PROVE  job'[t].state # "none" \/ Promised(t)'
  <2>1. CASE ~(At(a, t, "look") \/ At(a, t, "add"))
    BY <1>1, <1>4, <2>1, AdminMovesAlone
  <2>2. CASE At(a, t, "look") \/ At(a, t, "add")
    <3>1. CASE RetryThrows(a, x)
      <4>1. Mishaps = 0
        BY <3>1, MishapsGrow
      <4>2. matcher[t] = "enqueue" \/ t \in lost
        BY <4>1 DEF HandInv, Calm
      <4>. QED BY <1>1, <1>4, <4>2, AdminMovesAlone
    <3>2. CASE ~RetryThrows(a, x)
      <4>1. x = t /\ (LookAtJob(a, t) \/ RetryAdds(a, t))
        BY <1>4, <2>2, <3>2 DEF AdminMoves, FindJob, PrepareTradeForRetry, PrepareRefused,
                                LookAtJob, RetryAdds, RetryJob
      <4>2. CASE LookAtJob(a, t)
        <5>1. admin'[a] = [trade |-> t, step |-> "add"]
          BY <1>1, <4>2 DEF LookAtJob, Go, TypeOK
        <5>. QED BY <5>1
      <4>3. CASE RetryAdds(a, t)
        BY <1>1, <4>3, AddingAdds DEF RetryAdds
      <4>. QED BY <4>1, <4>2, <4>3
    <3>. QED BY <3>1, <3>2
  <2>. QED BY <2>1, <2>2
<1>5. CASE StartupStep
  BY <1>1, <1>5 DEF StartupStep, Restart, ReadPendingTrades, Listen, queueVars, handlerVars
<1>6. ASSUME NEW x \in Trades, RecoverTrade(x)
      PROVE  job'[t].state # "none" \/ Promised(t)'
  BY <1>1, <1>6, AddingAdds DEF RecoverTrade
<1>7. ASSUME NEW x \in Trades, RecoverTradeThrows(x)
      PROVE  Promised(t)'
  \* Recovery follows a crash: this is the second mishap.
  <2>1. crashes # 0
    BY <1>7 DEF RecoverTradeThrows, HandInv, ServingUnlessCrashed
  <2>2. Mishaps' = Mishaps + 1 /\ Mishaps \in Nat
    BY <1>7, MishapsGrow
  <2>. QED BY <1>1, <2>1, <2>2 DEF Mishaps, TypeOK
<1>8. CASE Crash
  BY <1>8 DEF Crash
<1>9. CASE RedisRestarts \/ UNCHANGED vars
  BY <1>9 DEF RedisRestarts, vars, queueVars, handlerVars
<1>. QED BY <1>2, <1>3, <1>4, <1>5, <1>6, <1>7, <1>8, <1>9, StepIs DEF RecoveryMoves

LEMMA HandKept ==
    ASSUME SettlementInv, HandInv, [Next]_vars, Mishaps' < 2, NEW t \in Trades,
           trade'[t] = "PENDING_SETTLEMENT"
    PROVE  InHand(t)' \/ t \in lost'
<1>1. TypeOK /\ Mishaps < 2
  BY MishapsGrow DEF SettlementInv
<1>2. CASE trade[t] # "PENDING_SETTLEMENT"
  <2>1. CASE MatchCommits(t)
    BY <1>1, <2>1 DEF MatchCommits, InHand, TypeOK
  <2>2. CASE MatchCommitThrows(t)
    BY <2>2 DEF MatchCommitThrows
  <2>3. ASSUME NEW a \in Admins, PrepareTradeForRetry(a, t)
        PROVE  InHand(t)'
    BY <1>1, <2>3 DEF PrepareTradeForRetry, Go, At, InHand, TypeOK
  <2>. QED BY <1>2, <2>1, <2>2, <2>3, BecomesPending
<1>3. CASE trade[t] = "PENDING_SETTLEMENT" /\ job[t].state # "none"
  BY <1>3, JobStays DEF InHand
<1>4. CASE trade[t] = "PENDING_SETTLEMENT" /\ job[t].state = "none"
  <2>1. Promised(t)
    BY <1>1, <1>4 DEF HandInv, PendingIsInHand, InHand, Promised, Mishaps
  <2>. QED BY <1>4, <2>1, PromiseKept DEF InHand, Promised
<1>. QED BY <1>2, <1>3, <1>4

\* A pending trade is never forgotten: one crash, or one call that throws, but for the
\* COMMIT of its own match, leaves it a job, or somebody who will add one (the catch
\* blocks of tryMatchOrder and handleSettlement, retryByTradeId,
\* recoverPendingSettlementTrades).
THEOREM PendingStaysInHand == Spec => []PendingIsInHand
<1>1. Init => HandInv
  BY DEF Init, HandInv, Calm, OneTroubled, Troubled, Mishaps, ServingUnlessCrashed,
         PendingIsInHand, NoJob, IdleWorker
<1>2. SettlementInv /\ HandInv /\ [Next]_vars => HandInv'
  <2> SUFFICES ASSUME SettlementInv, HandInv, [Next]_vars PROVE HandInv'
    OBVIOUS
  <2>1. Calm'
    <3> SUFFICES ASSUME Mishaps' = 0, NEW t \in Trades
                 PROVE  /\ ~Troubled(t)'
                        /\ trade'[t] = "PENDING_SETTLEMENT"
                              => job'[t].state # "none" \/ matcher'[t] = "enqueue" \/ t \in lost'
      BY DEF Calm
    <3>1. Mishaps = 0 /\ Quiet
      BY MishapsGrow, TroubleCounts DEF Mishap
    <3>2. ~Troubled(t)'
      BY <3>1 DEF Quiet, HandInv, Calm
    <3>. QED BY <3>2, CalmHand
  <2>2. OneTroubled'
    <3> SUFFICES ASSUME Mishaps' < 2, NEW s \in Trades, NEW t \in Trades,
                        Troubled(s)', Troubled(t)'
                 PROVE  s = t
      BY DEF OneTroubled
    <3>1. Mishaps \in Nat /\ Mishaps <= Mishaps' /\ Mishaps' \in Nat
      BY MishapsGrow
    <3>2. CASE Quiet
      BY <3>1, <3>2 DEF Quiet, HandInv, OneTroubled
    <3>3. CASE Mishap
      BY <3>1, <3>3 DEF Mishap, HandInv, Calm
    <3>. QED BY <3>2, <3>3, TroubleCounts
  <2>3. ServingUnlessCrashed'
    BY ServingKept DEF HandInv
  <2>4. PendingIsInHand'
    BY HandKept DEF PendingIsInHand, Mishaps
  <2>. QED BY <2>1, <2>2, <2>3, <2>4 DEF HandInv
<1>. QED BY <1>1, <1>2, SettlementInvariant, PTL DEF Spec, HandInv
=============================================================================
