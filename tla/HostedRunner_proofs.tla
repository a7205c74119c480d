------------------------- MODULE HostedRunner_proofs -------------------------
(***************************************************************************)
(* Theorems about HostedRunner for every set of workers, runners and       *)
(* profiles and every bound, by one inductive invariant in named parts.    *)
(***************************************************************************)
EXTENDS HostedRunner, FiniteSetTheorems, TLAPS

-----------------------------------------------------------------------------
(* How the helpers change a row.                                           *)

(* An UPDATE by job_id replaces one row and leaves the others alone.       *)
LEMMA PutRow ==
    ASSUME jobs \in [Jobs -> Row], NEW j \in Jobs, NEW row \in Row, Put(j, row)
    PROVE  /\ jobs' \in [Jobs -> Row]
           /\ jobs'[j] = row
           /\ \A i \in Jobs : i # j => jobs'[i] = jobs[i]
  BY DEF Put

(* A worker's step replaces its own local state and no other's.            *)
LEMMA GoState ==
    ASSUME worker \in [Workers -> WorkerState], NEW w \in Workers,
           NEW state \in WorkerState, Go(w, state)
    PROVE  /\ worker' \in [Workers -> WorkerState]
           /\ worker'[w] = state
           /\ \A v \in Workers : v # w => worker'[v] = worker[v]
  BY DEF Go

(* The worker at rest holds nothing.                                       *)
LEMMA RestingType ==
    /\ Resting \in WorkerState
    /\ Resting.epoch = 0
    /\ Resting.pc = "idle"
    /\ Resting.job = 0
  BY DEF Resting, WorkerState, Steps

(* The row of a job not yet submitted.                                     *)
LEMMA NoRowType ==
    /\ NoRow \in Row
    /\ NoRow.status = "ABSENT"
    /\ NoRow.lease_owner = NoRunner
    /\ ~NoRow.lapsed
    /\ NoRow.attempts = 0
    /\ NoRow.expiries = 0
    /\ NoRow.recorded = 0
    /\ NoRow.retried = {}
  <1>1. (CHOOSE p \in Profiles : TRUE) \in Profiles
    BY ProfilesAssumption
  <1>2. {} \in SUBSET Nat
    OBVIOUS
  <1> QED
    BY <1>1, <1>2, BoundsAssumption DEF NoRow, Row, Statuses, Verdicts

(* submit writes a fresh row.                                              *)
LEMMA SubmittedRow ==
    ASSUME NEW p \in Profiles, NEW m \in 1..MaxAttempts, NEW delay \in {0, 1}
    PROVE  /\ Submitted(p, m, delay) \in Row
           /\ Submitted(p, m, delay).status = "QUEUED"
           /\ Submitted(p, m, delay).lease_owner = NoRunner
           /\ ~Submitted(p, m, delay).lapsed
           /\ Submitted(p, m, delay).attempts = 0
           /\ Submitted(p, m, delay).expiries = 0
           /\ Submitted(p, m, delay).recorded = 0
           /\ Submitted(p, m, delay).retried = {}
  BY NoRowType DEF Submitted, Row, Statuses, Verdicts

(* recover_expired_leases requeues a lapsed row and keeps its counters.    *)
LEMMA RecoveredRow ==
    ASSUME NEW row \in Row
    PROVE  /\ Recovered(row) \in Row
           /\ Recovered(row).needs = row.needs
           /\ Recovered(row).attempts = row.attempts
           /\ Recovered(row).max_attempts = row.max_attempts
           /\ Recovered(row).recorded = row.recorded
           /\ Recovered(row).retried = row.retried
           /\ \/ Recovered(row) = row
              \/ /\ row.status = "RUNNING"
                 /\ row.lapsed
                 /\ Recovered(row).status = "QUEUED"
                 /\ Recovered(row).lease_owner = NoRunner
                 /\ ~Recovered(row).lapsed
                 /\ Recovered(row).expiries = row.expiries + 1
  <1>1. CASE row.status = "RUNNING" /\ row.lapsed
    <2>1. Recovered(row) = [Unleased(row) EXCEPT !.status = "QUEUED", !.expiries = @ + 1]
      BY <1>1 DEF Recovered
    <2>2. /\ Unleased(row) \in Row
          /\ Unleased(row).expiries = row.expiries
          /\ Unleased(row).lease_owner = NoRunner
          /\ ~Unleased(row).lapsed
          /\ Unleased(row).needs = row.needs
          /\ Unleased(row).attempts = row.attempts
          /\ Unleased(row).max_attempts = row.max_attempts
          /\ Unleased(row).recorded = row.recorded
          /\ Unleased(row).retried = row.retried
      BY DEF Unleased, Row
    <2>3. PICK n \in Nat : n = row.expiries + 1
      BY DEF Row
    <2>4. Recovered(row) = [Unleased(row) EXCEPT !.status = "QUEUED", !.expiries = n]
      BY <2>1, <2>2, <2>3
    <2>5. /\ Recovered(row) \in Row
          /\ Recovered(row).status = "QUEUED"
          /\ Recovered(row).expiries = n
          /\ Recovered(row).lease_owner = NoRunner
          /\ ~Recovered(row).lapsed
          /\ Recovered(row).needs = row.needs
          /\ Recovered(row).attempts = row.attempts
          /\ Recovered(row).max_attempts = row.max_attempts
          /\ Recovered(row).recorded = row.recorded
          /\ Recovered(row).retried = row.retried
      BY <2>2, <2>4 DEF Row, Statuses, Verdicts
    <2> QED
      BY <1>1, <2>3, <2>5
  <1>2. CASE ~(row.status = "RUNNING" /\ row.lapsed)
    BY <1>2 DEF Recovered
  <1> QED
    BY <1>1, <1>2

(* lease starts the next attempt of a row.                                 *)
LEMMA LeasedRow ==
    ASSUME NEW row \in Row, NEW r \in Runners
    PROVE  Leased(row, r) \in Row
  <1>1. PICK n \in Nat : n = row.attempts + 1
    BY DEF Row
  <1>2. Leased(row, r) = [row EXCEPT !.status = "RUNNING", !.lease_owner = r,
                                     !.lapsed = FALSE, !.attempts = n]
    BY <1>1 DEF Leased
  <1> QED
    BY <1>1, <1>2 DEF Row, Statuses, Verdicts

(* complete writes status and outcome over whatever the row holds.         *)
LEMMA WrittenRow ==
    ASSUME NEW row \in Row, NEW s \in Verdicts \cup {"QUEUED"}, NEW e \in Nat
    PROVE  Written(row, s, e) \in Row
  BY ZenonT(60) DEF Written, Unleased, Row, Statuses, Verdicts

(* cancel clears the lease and keeps the counters.                         *)
LEMMA CancelledRow ==
    ASSUME NEW row \in Row
    PROVE  /\ Cancelled(row) \in Row
           /\ Cancelled(row).status = "CANCELLED"
           /\ Cancelled(row).lease_owner = NoRunner
           /\ ~Cancelled(row).lapsed
           /\ Cancelled(row).attempts = row.attempts
           /\ Cancelled(row).max_attempts = row.max_attempts
           /\ Cancelled(row).expiries = row.expiries
           /\ Cancelled(row).recorded = row.recorded
           /\ Cancelled(row).retried = row.retried
           /\ Cancelled(row).needs = row.needs
  BY DEF Cancelled, Unleased, Row, Statuses, Verdicts

-----------------------------------------------------------------------------
(* Type correctness and the shape of the workers' local states.            *)

(* A worker holds an attempt exactly in the steps after its claim; the job *)
(* it selected exists, the attempt is not in the future of that job and    *)
(* has not been written back yet.                                          *)
WorkersInStep ==
    \A w \in Workers :
        /\ worker[w].epoch # 0 <=> worker[w].pc \in {"invoke", "complete", "complete_blocked", "write"}
        /\ worker[w].pc = "claim" => worker[w].job \in Jobs
        /\ worker[w].pc \in {"complete", "complete_blocked"} => worker[w].verdict \in Verdicts
        /\ worker[w].pc = "write" => worker[w].verdict \in Verdicts \cup {"QUEUED"}
        /\ worker[w].epoch # 0 => /\ worker[w].job \in Jobs
                                  /\ worker[w].epoch <= jobs[worker[w].job].attempts
                                  /\ worker[w].epoch \notin jobs[worker[w].job].retried

(* Attempts written back lie in the past of their job; a job not submitted *)
(* has had none and shows no outcome.                                      *)
RowsInStep ==
    \A j \in Jobs : /\ jobs[j].retried \subseteq 1..jobs[j].attempts
                    /\ jobs[j].status = "ABSENT" => jobs[j].attempts = 0 /\ jobs[j].recorded = 0

(* The inductive invariant of the queue.                                   *)
CoreInv == TypeOK /\ LeaseIffRunning /\ WorkersInStep /\ RowsInStep /\ AttemptsAreExclusive

(* The part of a row only lease, complete and recovery may change.         *)
SameHistory(old, new) ==
    /\ new.attempts = old.attempts
    /\ new.max_attempts = old.max_attempts
    /\ new.expiries = old.expiries
    /\ new.recorded = old.recorded
    /\ new.retried = old.retried
    /\ new.needs = old.needs

(* A step that concerns one job leaves the others.                         *)
OthersSame(j) == \A i \in Jobs : i # j => jobs'[i] = jobs[i]

(* A step of one worker leaves the others.                                 *)
OtherWorkersSame(w) == \A v \in Workers : v # w => worker'[v] = worker[v]

(* submit, seen from outside.                                              *)
LEMMA SubmitStep ==
    ASSUME TypeOK, NEW j \in Jobs, Submit(j)
    PROVE  /\ TypeOK'
           /\ OthersSame(j)
           /\ worker' = worker
           /\ jobs[j].status = "ABSENT"
           /\ jobs'[j].status = "QUEUED"
           /\ jobs'[j].lease_owner = NoRunner
           /\ ~jobs'[j].lapsed
           /\ jobs'[j].attempts = 0
           /\ jobs'[j].expiries = 0
           /\ jobs'[j].recorded = 0
           /\ jobs'[j].retried = {}
  <1>1. PICK p \in Profiles, m \in 1..MaxAttempts, delay \in {0, 1} : Put(j, Submitted(p, m, delay))
    BY DEF Submit
  <1>2. jobs' \in [Jobs -> Row] /\ jobs'[j] = Submitted(p, m, delay) /\ OthersSame(j)
    BY <1>1, SubmittedRow, PutRow DEF TypeOK, OthersSame
  <1>3. TypeOK' /\ worker' = worker /\ jobs[j].status = "ABSENT"
    BY <1>2 DEF TypeOK, Submit
  <1>4. p \in Profiles /\ m \in 1..MaxAttempts /\ delay \in {0, 1}
    BY <1>1
  <1>5. /\ Submitted(p, m, delay).status = "QUEUED"
        /\ Submitted(p, m, delay).lease_owner = NoRunner
        /\ Submitted(p, m, delay).attempts = 0
        /\ Submitted(p, m, delay).expiries = 0
        /\ Submitted(p, m, delay).recorded = 0
        /\ Submitted(p, m, delay).retried = {}
    BY <1>4, SubmittedRow
  <1>6. ~Submitted(p, m, delay).lapsed
    BY <1>4, SubmittedRow
  <1> QED
    BY <1>2, <1>3, <1>5, <1>6

(* The write of cancel, seen from outside.                                 *)
LEMMA CancelWriteStep ==
    ASSUME TypeOK, NEW j \in Jobs, CancelWrite(j)
    PROVE  /\ TypeOK'
           /\ OthersSame(j)
           /\ worker' = worker
           /\ SameHistory(jobs[j], jobs'[j])
           /\ jobs'[j].status = "CANCELLED"
           /\ jobs'[j].lease_owner = NoRunner
           /\ ~jobs'[j].lapsed
  <1>1. jobs[j] \in Row
    BY DEF TypeOK
  <1>2. jobs' \in [Jobs -> Row] /\ jobs'[j] = Cancelled(jobs[j]) /\ OthersSame(j)
    BY <1>1, CancelledRow, PutRow DEF TypeOK, OthersSame, CancelWrite
  <1> QED
    BY <1>1, <1>2, CancelledRow DEF TypeOK, CancelWrite, SameHistory

(* available_at comes or lease_until passes: only the clock flags move.    *)
LEMMA ClockStep ==
    ASSUME TypeOK, NEW j \in Jobs, BecomeAvailable(j) \/ LapseAbandoned(j) \/ LapseEarly(j)
    PROVE  /\ TypeOK'
           /\ OthersSame(j)
           /\ worker' = worker
           /\ SameHistory(jobs[j], jobs'[j])
           /\ jobs'[j].status = jobs[j].status
           /\ jobs'[j].lease_owner = jobs[j].lease_owner
           /\ jobs'[j].lapsed => jobs[j].lapsed \/ jobs[j].status = "RUNNING"
  <1>1. jobs[j] \in Row
    BY DEF TypeOK
  <1>2. PICK row \in Row :
           /\ Put(j, row)
           /\ SameHistory(jobs[j], row)
           /\ row.status = jobs[j].status
           /\ row.lease_owner = jobs[j].lease_owner
           /\ row.lapsed => jobs[j].lapsed \/ jobs[j].status = "RUNNING"
    <2>1. CASE BecomeAvailable(j)
      <3>1. [jobs[j] EXCEPT !.available = TRUE] \in Row
        BY <1>1 DEF Row
      <3> QED
        BY <1>1, <2>1, <3>1 DEF BecomeAvailable, SameHistory, Row
    <2>2. CASE LapseAbandoned(j) \/ LapseEarly(j)
      <3>1. [jobs[j] EXCEPT !.lapsed = TRUE] \in Row
        BY <1>1 DEF Row
      <3>2. Lapse(j)
        BY <2>2 DEF LapseAbandoned, LapseEarly
      <3> QED
        BY <1>1, <3>1, <3>2 DEF Lapse, SameHistory, Row
    <2> QED
      BY <2>1, <2>2
  <1>3. jobs' \in [Jobs -> Row] /\ jobs'[j] = row /\ OthersSame(j)
    BY <1>2, PutRow DEF TypeOK, OthersSame
  <1>4. /\ UNCHANGED <<offer, worker, cancelling>>
        /\ budget' \in [registrations : Nat, crashes : Nat, lapses : Nat]
    BY DEF TypeOK, BecomeAvailable, LapseAbandoned, LapseEarly, Lapse
  <1> QED
    BY <1>2, <1>3, <1>4 DEF TypeOK

(* heartbeat, read of the registration and recovery, seen from outside.    *)
LEMMA PollStep ==
    ASSUME TypeOK, WorkersInStep, NEW w \in Workers, Poll(w)
    PROVE  /\ TypeOK'
           /\ OtherWorkersSame(w)
           /\ worker[w].epoch = 0
           /\ worker'[w].epoch = 0
           /\ worker'[w].pc = "select"
           /\ \A i \in Jobs : jobs'[i] = Recovered(jobs[i])
  <1>1. worker[w].epoch = 0
    BY DEF WorkersInStep, Poll
  <1>2. jobs' \in [Jobs -> Row] /\ \A i \in Jobs : jobs'[i] = Recovered(jobs[i])
    BY RecoveredRow DEF TypeOK, Poll
  <1> DEFINE state == [Resting EXCEPT !.pc = "select", !.seen = offer[IdOf[w]]]
  <1>3. state \in WorkerState /\ state.epoch = 0 /\ state.pc = "select"
    <2>1. offer[IdOf[w]] \in SUBSET Profiles
      BY RunnersAssumption, ProfilesAssumption DEF TypeOK
    <2> QED
      BY <2>1, RestingType DEF WorkerState, Steps
  <1>4. Go(w, state)
    BY DEF Poll
  <1> HIDE DEF state
  <1>5. worker' \in [Workers -> WorkerState] /\ worker'[w] = state /\ OtherWorkersSame(w)
    BY <1>3, <1>4, GoState DEF TypeOK, OtherWorkersSame
  <1>6. UNCHANGED <<offer, cancelling, budget>>
    BY DEF Poll
  <1> QED
    BY <1>1, <1>2, <1>3, <1>5, <1>6 DEF TypeOK

(* Steps that leave the table alone and the worker without an attempt.     *)
Quiet(w) == Select(w) \/ FindNothing(w) \/ LoseClaim(w) \/ RaiseRefused(w) \/ Crash(w)

(* Such a step, seen from outside.                                         *)
LEMMA QuietStep ==
    ASSUME TypeOK, WorkersInStep, NEW w \in Workers, Quiet(w)
    PROVE  /\ TypeOK'
           /\ jobs' = jobs
           /\ OtherWorkersSame(w)
           /\ worker'[w].epoch = 0
           /\ worker'[w].pc \in {"idle", "claim"}
           /\ worker'[w].pc = "claim" => worker'[w].job \in Jobs
  <1>1. CASE Select(w)
    <2>1. PICK j \in Jobs : Go(w, [worker[w] EXCEPT !.pc = "claim", !.job = j])
      BY <1>1 DEF Select, Ready
    <2> DEFINE state == [worker[w] EXCEPT !.pc = "claim", !.job = j]
    <2>2. worker[w] \in WorkerState /\ worker[w].epoch = 0
      BY <1>1 DEF TypeOK, Select, WorkersInStep
    <2>3. state \in WorkerState /\ state.epoch = 0 /\ state.pc = "claim" /\ state.job = j
      BY <2>1, <2>2 DEF WorkerState, Steps
    <2>4. Go(w, state)
      BY <2>1
    <2> HIDE DEF state
    <2>5. worker' \in [Workers -> WorkerState] /\ worker'[w] = state /\ OtherWorkersSame(w)
      BY <2>3, <2>4, GoState DEF TypeOK, OtherWorkersSame
    <2>6. UNCHANGED <<jobs, offer, cancelling, budget>>
      BY <1>1 DEF Select
    <2> QED
      BY <2>1, <2>3, <2>5, <2>6 DEF TypeOK
  <1>2. CASE FindNothing(w) \/ LoseClaim(w) \/ RaiseRefused(w) \/ Crash(w)
    <2>1. Go(w, Resting)
      BY <1>2 DEF FindNothing, LoseClaim, RaiseRefused, Crash
    <2>2. worker' \in [Workers -> WorkerState] /\ worker'[w] = Resting /\ OtherWorkersSame(w)
      BY <2>1, GoState, RestingType DEF TypeOK, OtherWorkersSame
    <2>3. /\ UNCHANGED <<jobs, offer, cancelling>>
          /\ budget' \in [registrations : Nat, crashes : Nat, lapses : Nat]
      BY <1>2 DEF TypeOK, FindNothing, LoseClaim, RaiseRefused, Crash
    <2> QED
      BY <2>2, <2>3, RestingType DEF TypeOK
  <1> QED
    BY <1>1, <1>2 DEF Quiet

(* Steps of a worker that keeps its attempt and leaves the table alone.    *)
Busy(w) == Invoke(w) \/ CompleteRead(w) \/ CompleteRefused(w)

(* Such a step, seen from outside.                                         *)
LEMMA BusyStep ==
    ASSUME TypeOK, WorkersInStep, NEW w \in Workers, Busy(w)
    PROVE  /\ TypeOK'
           /\ jobs' = jobs
           /\ OtherWorkersSame(w)
           /\ worker[w].epoch # 0
           /\ worker'[w].epoch = worker[w].epoch
           /\ worker'[w].job = worker[w].job
           /\ worker'[w].pc \in {"complete", "complete_blocked", "write"}
           /\ worker'[w].pc \in {"complete", "complete_blocked"} => worker'[w].verdict \in Verdicts
           /\ worker'[w].pc = "write" => worker'[w].verdict \in Verdicts \cup {"QUEUED"}
           /\ worker'[w].verdict = "QUEUED" =>
                  jobs[worker[w].job].attempts < jobs[worker[w].job].max_attempts
           /\ jobs[worker[w].job].needs \in Gated =>
                  \/ worker'[w].verdict \in {"BLOCKED_APPROVAL", "BLOCKED_POLICY"}
                  \/ worker'[w].verdict = worker[w].verdict /\ worker[w].pc # "invoke"
                  \/ worker'[w].verdict = "QUEUED" /\ worker[w].verdict = "FAIL" /\ worker[w].pc # "invoke"
  <1>1. /\ worker[w] \in WorkerState
        /\ worker[w].epoch # 0
        /\ worker[w].pc \in {"invoke", "complete", "complete_blocked"}
    BY ZenonT(60) DEF TypeOK, WorkersInStep, Busy, Invoke, CompleteRead, CompleteRefused
  <1>2. PICK p \in {"complete", "complete_blocked", "write"}, v \in Verdicts \cup {"QUEUED"} :
           /\ Go(w, [worker[w] EXCEPT !.pc = p, !.verdict = v])
           /\ p # "write" => v \in Verdicts
           /\ v = "QUEUED" => jobs[worker[w].job].attempts < jobs[worker[w].job].max_attempts
           /\ jobs[worker[w].job].needs \in Gated =>
                  \/ v \in {"BLOCKED_APPROVAL", "BLOCKED_POLICY"}
                  \/ v = worker[w].verdict /\ worker[w].pc # "invoke"
                  \/ v = "QUEUED" /\ worker[w].verdict = "FAIL" /\ worker[w].pc # "invoke"
    <2>1. CASE Invoke(w)
      BY <2>1, ZenonT(60) DEF Invoke, Verdicts
    <2>2. CASE CompleteRead(w)
      <3> DEFINE v == Settlement(worker[w].verdict, jobs[worker[w].job])
      <3>1. worker[w].verdict \in Verdicts /\ worker[w].pc # "invoke"
        BY <2>2 DEF WorkersInStep, CompleteRead
      <3>2. /\ v \in Verdicts \cup {"QUEUED"}
            /\ v = "QUEUED" => /\ jobs[worker[w].job].attempts < jobs[worker[w].job].max_attempts
                               /\ worker[w].verdict = "FAIL"
            /\ v # "QUEUED" => v = worker[w].verdict
        BY <3>1 DEF Settlement, Verdicts
      <3>3. Go(w, [worker[w] EXCEPT !.pc = "write", !.verdict = v])
        BY <2>2 DEF CompleteRead
      <3> HIDE DEF v
      <3> QED
        BY <3>1, <3>2, <3>3
    <2>3. CASE CompleteRefused(w)
      BY <2>3 DEF CompleteRefused, Verdicts
    <2> QED
      BY <2>1, <2>2, <2>3 DEF Busy
  <1> DEFINE state == [worker[w] EXCEPT !.pc = p, !.verdict = v]
  <1>3. /\ state \in WorkerState
        /\ state.epoch = worker[w].epoch
        /\ state.job = worker[w].job
        /\ state.pc = p
        /\ state.verdict = v
    BY <1>1, <1>2 DEF WorkerState, Steps
  <1>4. Go(w, state)
    BY <1>2
  <1> HIDE DEF state
  <1>5. worker' \in [Workers -> WorkerState] /\ worker'[w] = state /\ OtherWorkersSame(w)
    BY <1>3, <1>4, GoState DEF TypeOK, OtherWorkersSame
  <1>6. UNCHANGED <<jobs, offer, cancelling, budget>>
    BY DEF Busy, Invoke, CompleteRead, CompleteRefused
  <1>7. TypeOK' /\ jobs' = jobs
    BY <1>5, <1>6 DEF TypeOK
  <1> QED
    BY <1>1, <1>2, <1>3, <1>5, <1>7

(* The conditional UPDATE of lease, seen from outside.                     *)
LEMMA ClaimStep ==
    ASSUME TypeOK, WorkersInStep, NEW w \in Workers, Claim(w), NEW j, j = worker[w].job
    PROVE  /\ TypeOK'
           /\ j \in Jobs
           /\ OthersSame(j)
           /\ OtherWorkersSame(w)
           /\ worker[w].epoch = 0
           /\ worker'[w].epoch = jobs[j].attempts + 1
           /\ worker'[w].job = j
           /\ worker'[w].pc = "invoke"
           /\ jobs[j].status = "QUEUED"
           /\ jobs'[j].status = "RUNNING"
           /\ jobs'[j].lease_owner = IdOf[w]
           /\ ~jobs'[j].lapsed
           /\ jobs'[j].attempts = jobs[j].attempts + 1
           /\ jobs'[j].max_attempts = jobs[j].max_attempts
           /\ jobs'[j].expiries = jobs[j].expiries
           /\ jobs'[j].needs = jobs[j].needs
           /\ jobs'[j].recorded = jobs[j].recorded
           /\ jobs'[j].retried = jobs[j].retried
  <1>1. j \in Jobs /\ worker[w].epoch = 0 /\ worker[w] \in WorkerState
    BY DEF TypeOK, WorkersInStep, Claim
  <1>2. jobs[j] \in Row /\ IdOf[w] \in Runners
    BY <1>1, RunnersAssumption DEF TypeOK
  <1>3. jobs' \in [Jobs -> Row] /\ jobs'[j] = Leased(jobs[j], IdOf[w]) /\ OthersSame(j)
    BY <1>1, <1>2, LeasedRow, PutRow DEF TypeOK, OthersSame, Claim
  <1>4. PICK n \in Nat : n = jobs[j].attempts + 1
    BY <1>2 DEF Row
  <1> DEFINE state == [worker[w] EXCEPT !.pc = "invoke", !.epoch = n, !.seen = {}]
  <1>5. /\ state \in WorkerState
        /\ state.pc = "invoke"
        /\ state.epoch = n
        /\ state.job = j
    BY <1>1, <1>4 DEF WorkerState, Steps
  <1>6. Go(w, state)
    BY <1>4 DEF Claim
  <1> HIDE DEF state
  <1>7. worker' \in [Workers -> WorkerState] /\ worker'[w] = state /\ OtherWorkersSame(w)
    BY <1>5, <1>6, GoState DEF TypeOK, OtherWorkersSame
  <1>8. TypeOK'
    BY <1>3, <1>7 DEF TypeOK, Claim
  <1>9. jobs[j].status = "QUEUED"
    BY DEF Claim, Claimable
  <1>10. jobs'[j] = [jobs[j] EXCEPT !.status = "RUNNING", !.lease_owner = IdOf[w],
                                    !.lapsed = FALSE, !.attempts = n]
    BY <1>3, <1>4 DEF Leased
  <1>11. /\ jobs'[j].status = "RUNNING"
         /\ jobs'[j].lease_owner = IdOf[w]
         /\ jobs'[j].attempts = n
         /\ jobs'[j].max_attempts = jobs[j].max_attempts
         /\ jobs'[j].expiries = jobs[j].expiries
         /\ jobs'[j].needs = jobs[j].needs
         /\ jobs'[j].recorded = jobs[j].recorded
         /\ jobs'[j].retried = jobs[j].retried
    BY <1>2, <1>10 DEF Row
  <1>12. ~jobs'[j].lapsed
    BY <1>2, <1>10 DEF Row
  <1> QED
    BY <1>1, <1>3, <1>4, <1>5, <1>7, <1>8, <1>9, <1>11, <1>12

(* The unconditional UPDATE of complete, seen from outside.                *)
LEMMA WriteStep ==
    ASSUME TypeOK, WorkersInStep, NEW w \in Workers, CompleteWrite(w), NEW j, j = worker[w].job
    PROVE  /\ TypeOK'
           /\ j \in Jobs
           /\ OthersSame(j)
           /\ OtherWorkersSame(w)
           /\ worker[w].epoch # 0
           /\ worker[w].pc = "write"
           /\ worker[w].verdict \in Verdicts \cup {"QUEUED"}
           /\ worker'[w].epoch = 0
           /\ worker'[w].pc = "idle"
           /\ jobs'[j].status = worker[w].verdict
           /\ jobs'[j].lease_owner = NoRunner
           /\ ~jobs'[j].lapsed
           /\ jobs'[j].attempts = jobs[j].attempts
           /\ jobs'[j].max_attempts = jobs[j].max_attempts
           /\ jobs'[j].expiries = jobs[j].expiries
           /\ jobs'[j].needs = jobs[j].needs
           /\ jobs'[j].recorded = worker[w].epoch
           /\ jobs'[j].retried = IF worker[w].verdict = "QUEUED"
                                 THEN jobs[j].retried \cup {worker[w].epoch}
                                 ELSE jobs[j].retried
  <1>1. /\ j \in Jobs
        /\ worker[w].epoch # 0
        /\ worker[w].epoch \in Nat
        /\ worker[w].pc = "write"
        /\ worker[w].verdict \in Verdicts \cup {"QUEUED"}
    BY DEF TypeOK, WorkersInStep, CompleteWrite, WorkerState
  <1>2. jobs[j] \in Row
    BY <1>1 DEF TypeOK
  <1>3. /\ jobs' \in [Jobs -> Row]
        /\ jobs'[j] = Written(jobs[j], worker[w].verdict, worker[w].epoch)
        /\ OthersSame(j)
    <2>1. Written(jobs[j], worker[w].verdict, worker[w].epoch) \in Row
      BY <1>1, <1>2, WrittenRow
    <2>2. Put(j, Written(jobs[j], worker[w].verdict, worker[w].epoch))
      BY DEF CompleteWrite
    <2> QED
      BY <1>1, <2>1, <2>2, PutRow DEF TypeOK, OthersSame
  <1>4. worker' \in [Workers -> WorkerState] /\ worker'[w] = Resting /\ OtherWorkersSame(w)
    BY GoState, RestingType DEF TypeOK, OtherWorkersSame, CompleteWrite
  <1>5. TypeOK'
    BY <1>3, <1>4 DEF TypeOK, CompleteWrite
  <1>6. /\ jobs'[j].status = worker[w].verdict
        /\ jobs'[j].lease_owner = NoRunner
        /\ jobs'[j].attempts = jobs[j].attempts
        /\ jobs'[j].max_attempts = jobs[j].max_attempts
        /\ jobs'[j].expiries = jobs[j].expiries
        /\ jobs'[j].needs = jobs[j].needs
        /\ jobs'[j].recorded = worker[w].epoch
    BY <1>1, <1>2, <1>3 DEF Written, Unleased, Row
  <1>7. ~jobs'[j].lapsed
    BY <1>1, <1>2, <1>3 DEF Written, Unleased, Row
  <1>8. jobs'[j].retried = IF worker[w].verdict = "QUEUED"
                          THEN jobs[j].retried \cup {worker[w].epoch}
                          ELSE jobs[j].retried
    BY <1>1, <1>2, <1>3 DEF Written, Unleased, Row
  <1> QED
    BY <1>1, <1>3, <1>4, <1>5, <1>6, <1>7, <1>8, RestingType

(* What the write of complete leaves alone.                                *)
LEMMA WriteFrame ==
    ASSUME TypeOK, WorkersInStep, NEW w \in Workers, CompleteWrite(w)
    PROVE  /\ worker[w].job \in Jobs
           /\ worker[w].epoch # 0
           /\ OthersSame(worker[w].job)
           /\ OtherWorkersSame(w)
           /\ worker'[w].epoch = 0
  <1>1. PICK j : j = worker[w].job
    OBVIOUS
  <1> QED
    BY <1>1, WriteStep

(* register_runner and the read of cancel touch neither jobs nor workers.  *)
LEMMA OutsideStep ==
    ASSUME TypeOK, \/ \E r \in Runners : Register(r)
                   \/ \E j \in Jobs : CancelRead(j)
                   \/ UNCHANGED vars
    PROVE  TypeOK' /\ jobs' = jobs /\ worker' = worker
  <1>1. CASE \E r \in Runners : Register(r)
    BY <1>1 DEF TypeOK, Register
  <1>2. CASE \E j \in Jobs : CancelRead(j)
    BY <1>2 DEF TypeOK, CancelRead
  <1>3. CASE UNCHANGED vars
    BY <1>3 DEF TypeOK, vars
  <1> QED
    BY <1>1, <1>2, <1>3

-----------------------------------------------------------------------------
(* The core invariant.                                                     *)

(* The core invariant holds at the start.                                  *)
LEMMA CoreInit == Init => CoreInv
  <1> SUFFICES ASSUME Init PROVE CoreInv
    OBVIOUS
  <1>1. \A j \in Jobs : jobs[j] = NoRow
    BY DEF Init
  <1>2. \A w \in Workers : worker[w] = Resting
    BY DEF Init
  <1>3. TypeOK
    BY NoRowType, RestingType DEF Init, TypeOK
  <1>4. LeaseIffRunning /\ RowsInStep
    BY <1>1, NoRowType DEF LeaseIffRunning, RowsInStep
  <1>5. WorkersInStep
    BY <1>2, RestingType DEF WorkersInStep
  <1>6. AttemptsAreExclusive
    BY <1>2, RestingType DEF AttemptsAreExclusive, Working
  <1> QED
    BY <1>3, <1>4, <1>5, <1>6 DEF CoreInv

(* A step of a client or of the clock on one row, no attempt of which is   *)
(* in the worker's future, keeps the core invariant.                       *)
LEMMA CoreRowStep ==
    ASSUME CoreInv, NEW j \in Jobs,
           Submit(j) \/ CancelWrite(j) \/ BecomeAvailable(j) \/ LapseAbandoned(j) \/ LapseEarly(j)
    PROVE  CoreInv'
  <1> USE DEF CoreInv
  <1>1. TypeOK' /\ OthersSame(j) /\ worker' = worker
    BY SubmitStep, CancelWriteStep, ClockStep
  <1>2. /\ jobs'[j].status = "RUNNING" <=> jobs'[j].lease_owner # NoRunner
        /\ jobs'[j].lapsed => jobs'[j].status = "RUNNING"
    BY SubmitStep, CancelWriteStep, ClockStep DEF LeaseIffRunning
  <1>3. LeaseIffRunning'
    BY <1>1, <1>2 DEF LeaseIffRunning, OthersSame
  <1>4. /\ jobs'[j].attempts = jobs[j].attempts
        /\ jobs'[j].retried = jobs[j].retried \/ jobs'[j].retried = {}
        /\ jobs'[j].recorded = jobs[j].recorded
        /\ jobs'[j].status = "ABSENT" => jobs[j].status = "ABSENT"
    BY SubmitStep, CancelWriteStep, ClockStep DEF SameHistory, RowsInStep
  <1>5. RowsInStep'
    BY <1>1, <1>4 DEF RowsInStep, OthersSame
  <1>6. WorkersInStep'
    BY <1>1, <1>4 DEF WorkersInStep, OthersSame
  <1>7. AttemptsAreExclusive'
    BY <1>1 DEF AttemptsAreExclusive, Working
  <1> QED
    BY <1>1, <1>3, <1>5, <1>6, <1>7

(* Recovery of lapsed leases keeps the core invariant.                     *)
LEMMA CorePoll ==
    ASSUME CoreInv, NEW w \in Workers, Poll(w)
    PROVE  CoreInv'
  <1> USE DEF CoreInv
  <1>1. TypeOK' /\ OtherWorkersSame(w) /\ worker'[w].epoch = 0 /\ worker'[w].pc = "select"
    BY PollStep
  <1>2. ASSUME NEW i \in Jobs
        PROVE  /\ jobs'[i].attempts = jobs[i].attempts
               /\ jobs'[i].retried = jobs[i].retried
               /\ jobs'[i].recorded = jobs[i].recorded
               /\ jobs'[i].status = "ABSENT" => jobs[i].status = "ABSENT"
               /\ jobs'[i].status = "RUNNING" <=> jobs'[i].lease_owner # NoRunner
               /\ jobs'[i].lapsed => jobs'[i].status = "RUNNING"
    <2>1. jobs[i] \in Row /\ jobs'[i] = Recovered(jobs[i])
      BY PollStep DEF TypeOK
    <2>2. /\ jobs'[i].attempts = jobs[i].attempts
          /\ jobs'[i].retried = jobs[i].retried
          /\ jobs'[i].recorded = jobs[i].recorded
      BY <2>1, RecoveredRow
    <2>3. CASE jobs'[i] = jobs[i]
      BY <2>3 DEF LeaseIffRunning
    <2>4. CASE jobs'[i] # jobs[i]
      <3>1. /\ jobs'[i].status = "QUEUED"
            /\ jobs'[i].lease_owner = NoRunner
            /\ ~jobs'[i].lapsed
        BY <2>1, <2>4, RecoveredRow
      <3> QED
        BY <2>2, <3>1
    <2> QED
      BY <2>3, <2>4
  <1>3. LeaseIffRunning'
    BY <1>2 DEF LeaseIffRunning
  <1>4. RowsInStep'
    BY <1>2 DEF RowsInStep
  <1>5. WorkersInStep'
    BY <1>1, <1>2 DEF WorkersInStep, OtherWorkersSame
  <1>6. AttemptsAreExclusive'
    BY <1>1 DEF AttemptsAreExclusive, Working, OtherWorkersSame
  <1> QED
    BY <1>1, <1>3, <1>4, <1>5, <1>6

(* A step inside a worker keeps the core invariant.                        *)
LEMMA CoreLocal ==
    ASSUME CoreInv, NEW w \in Workers, Quiet(w) \/ Busy(w)
    PROVE  CoreInv'
  <1> USE DEF CoreInv
  <1>1. TypeOK' /\ jobs' = jobs /\ OtherWorkersSame(w)
    BY QuietStep, BusyStep
  <1>2. LeaseIffRunning' /\ RowsInStep'
    BY <1>1 DEF LeaseIffRunning, RowsInStep
  <1>3. CASE Quiet(w)
    <2>1. WorkersInStep'
      BY <1>1, <1>3, QuietStep DEF WorkersInStep, OtherWorkersSame
    <2>2. AttemptsAreExclusive'
      BY <1>1, <1>3, QuietStep DEF AttemptsAreExclusive, Working, OtherWorkersSame
    <2> QED
      BY <1>1, <1>2, <2>1, <2>2
  <1>4. CASE Busy(w)
    <2>1. WorkersInStep'
      BY <1>1, <1>4, BusyStep DEF WorkersInStep, OtherWorkersSame
    <2>2. AttemptsAreExclusive'
      BY <1>1, <1>4, BusyStep DEF AttemptsAreExclusive, Working, OtherWorkersSame
    <2> QED
      BY <1>1, <1>2, <2>1, <2>2
  <1> QED
    BY <1>3, <1>4

(* The next attempt is new to every worker.                                *)
LEMMA CoreClaim ==
    ASSUME CoreInv, NEW w \in Workers, Claim(w)
    PROVE  CoreInv'
  <1> USE DEF CoreInv
  <1> DEFINE j == worker[w].job
  <1>1. /\ TypeOK'
        /\ j \in Jobs
        /\ OthersSame(j)
        /\ OtherWorkersSame(w)
        /\ worker'[w].epoch = jobs[j].attempts + 1
        /\ worker'[w].job = j
        /\ worker'[w].pc = "invoke"
    BY ClaimStep
  <1>2. jobs[j] \in Row /\ IdOf[w] \in Runners /\ jobs[j].attempts \in Nat
    BY <1>1, RunnersAssumption DEF TypeOK, Row
  <1>3. /\ jobs'[j].status = "RUNNING"
        /\ jobs'[j].lease_owner = IdOf[w]
        /\ ~jobs'[j].lapsed
        /\ jobs'[j].attempts = jobs[j].attempts + 1
        /\ jobs'[j].retried = jobs[j].retried
    BY ClaimStep
  <1> HIDE DEF j
  <1>4. LeaseIffRunning'
    BY <1>1, <1>2, <1>3, RunnersAssumption DEF LeaseIffRunning, OthersSame
  <1>5. RowsInStep'
    BY <1>1, <1>2, <1>3 DEF RowsInStep, OthersSame
  <1>6. \A v \in Workers : Working(v, j) => worker[v].epoch <= jobs[j].attempts /\ worker[v].epoch \in Nat
    BY DEF WorkersInStep, Working, TypeOK, WorkerState
  <1>7. jobs[j].attempts + 1 \notin jobs[j].retried
    BY <1>1, <1>2 DEF RowsInStep
  <1>8. WorkersInStep'
    <2> SUFFICES ASSUME NEW v \in Workers
                 PROVE  WorkersInStep!(v)'
      BY DEF WorkersInStep
    <2>1. CASE v = w
      BY <1>1, <1>2, <1>3, <1>7, <2>1
    <2>2. CASE v # w
      <3>1. worker'[v] = worker[v] /\ worker[v].epoch \in Nat
        BY <1>1, <2>2 DEF OtherWorkersSame, TypeOK, WorkerState
      <3> QED
        BY <1>1, <1>2, <1>3, <2>2, <3>1 DEF WorkersInStep, OthersSame
    <2> QED
      BY <2>1, <2>2
  <1>9. AttemptsAreExclusive'
    <2> SUFFICES ASSUME NEW i \in Jobs, NEW u \in Workers, NEW v \in Workers,
                        u # v, Working(u, i)', Working(v, i)'
                 PROVE  worker'[u].epoch # worker'[v].epoch
      BY DEF AttemptsAreExclusive
    <2>1. CASE u # w /\ v # w
      BY <1>1, <2>1 DEF AttemptsAreExclusive, Working, OtherWorkersSame
    <2>2. CASE u = w
      <3>1. i = j /\ worker'[v] = worker[v] /\ Working(v, j)
        BY <1>1, <2>2 DEF Working, OtherWorkersSame
      <3> QED
        BY <1>1, <1>2, <1>6, <2>2, <3>1
    <2>3. CASE v = w
      <3>1. i = j /\ worker'[u] = worker[u] /\ Working(u, j)
        BY <1>1, <2>3 DEF Working, OtherWorkersSame
      <3> QED
        BY <1>1, <1>2, <1>6, <2>3, <3>1
    <2> QED
      BY <2>1, <2>2, <2>3
  <1> QED
    BY <1>1, <1>4, <1>5, <1>8, <1>9

(* Writing an attempt back lets no other worker of the job hold it.        *)
LEMMA CoreWrite ==
    ASSUME CoreInv, NEW w \in Workers, CompleteWrite(w)
    PROVE  CoreInv'
  <1> DEFINE j == worker[w].job
             e == worker[w].epoch
  <1>0. TypeOK /\ WorkersInStep
    BY DEF CoreInv
  <1>1. /\ TypeOK'
        /\ j \in Jobs
        /\ OthersSame(j)
        /\ OtherWorkersSame(w)
        /\ e # 0
        /\ worker[w].verdict \in Verdicts \cup {"QUEUED"}
        /\ worker'[w].epoch = 0
        /\ worker'[w].pc = "idle"
    BY <1>0, WriteStep, ZenonT(60)
  <1>2. /\ jobs'[j].status = worker[w].verdict
        /\ jobs'[j].lease_owner = NoRunner
        /\ ~jobs'[j].lapsed
        /\ jobs'[j].attempts = jobs[j].attempts
        /\ jobs'[j].retried = jobs[j].retried \/ jobs'[j].retried = jobs[j].retried \cup {e}
    BY <1>0, WriteStep, ZenonT(60)
  <1> USE DEF CoreInv
  <1>3. jobs[j] \in Row /\ e \in Nat /\ jobs[j].attempts \in Nat /\ e <= jobs[j].attempts
    BY <1>1 DEF TypeOK, Row, WorkerState, WorkersInStep
  <1>4. jobs'[j].status \notin {"RUNNING", "ABSENT"}
    BY <1>1, <1>2 DEF Verdicts
  <1>5. LeaseIffRunning'
    BY <1>1, <1>2, <1>4 DEF LeaseIffRunning, OthersSame
  <1>6. RowsInStep'
    BY <1>1, <1>2, <1>3, <1>4 DEF RowsInStep, OthersSame
  <1>7. \A v \in Workers : (v # w /\ Working(v, j)) => worker[v].epoch # e
    BY <1>1 DEF AttemptsAreExclusive, Working
  <1> HIDE DEF j, e
  <1>8. WorkersInStep'
    <2> SUFFICES ASSUME NEW v \in Workers
                 PROVE  WorkersInStep!(v)'
      BY DEF WorkersInStep
    <2>1. CASE v = w
      BY <1>1, <2>1
    <2>2. CASE v # w
      <3>1. worker'[v] = worker[v]
        BY <1>1, <2>2 DEF OtherWorkersSame
      <3>2. CASE worker[v].epoch # 0 /\ worker[v].job = j
        BY <1>2, <1>7, <2>2, <3>1, <3>2 DEF WorkersInStep, Working
      <3>3. CASE ~(worker[v].epoch # 0 /\ worker[v].job = j)
        BY <1>1, <2>2, <3>1, <3>3 DEF WorkersInStep, OthersSame
      <3> QED
        BY <3>2, <3>3
    <2> QED
      BY <2>1, <2>2
  <1>9. AttemptsAreExclusive'
    BY <1>1 DEF AttemptsAreExclusive, Working, OtherWorkersSame
  <1> QED
    BY <1>1, <1>5, <1>6, <1>8, <1>9

(* The disjuncts of Next by what they touch.                               *)
LEMMA StepKinds ==
    ASSUME [Next]_vars
    PROVE  \/ \E j \in Jobs : \/ Submit(j) \/ CancelWrite(j) \/ BecomeAvailable(j)
                              \/ LapseAbandoned(j) \/ LapseEarly(j)
           \/ \/ \E r \in Runners : Register(r)
              \/ \E j \in Jobs : CancelRead(j)
              \/ UNCHANGED vars
           \/ \E w \in Workers : Poll(w) \/ Quiet(w) \/ Busy(w) \/ Claim(w) \/ CompleteWrite(w)
  BY DEF Next, RunOnce, Quiet, Busy

(* The core invariant is inductive.                                        *)
LEMMA CoreNext == CoreInv /\ [Next]_vars => CoreInv'
  <1> SUFFICES ASSUME CoreInv, [Next]_vars PROVE CoreInv'
    OBVIOUS
  <1>1. ASSUME NEW j \in Jobs,
               Submit(j) \/ CancelWrite(j) \/ BecomeAvailable(j) \/ LapseAbandoned(j) \/ LapseEarly(j)
        PROVE  CoreInv'
    BY <1>1, CoreRowStep
  <1>2. CASE \/ \E r \in Runners : Register(r)
             \/ \E j \in Jobs : CancelRead(j)
             \/ UNCHANGED vars
    <2>1. TypeOK' /\ jobs' = jobs /\ worker' = worker
      BY <1>2, OutsideStep DEF CoreInv
    <2> QED
      BY <2>1 DEF CoreInv, LeaseIffRunning, WorkersInStep, RowsInStep, AttemptsAreExclusive, Working
  <1>3. ASSUME NEW w \in Workers, Poll(w) PROVE CoreInv'
    BY <1>3, CorePoll
  <1>4. ASSUME NEW w \in Workers, Quiet(w) \/ Busy(w) PROVE CoreInv'
    BY <1>4, CoreLocal
  <1>5. ASSUME NEW w \in Workers, Claim(w) PROVE CoreInv'
    BY <1>5, CoreClaim
  <1>6. ASSUME NEW w \in Workers, CompleteWrite(w) PROVE CoreInv'
    BY <1>6, CoreWrite
  <1> QED
    BY <1>1, <1>2, <1>3, <1>4, <1>5, <1>6, StepKinds

(* The core invariant holds in every reachable state.                      *)
THEOREM CoreInvariant == Spec => []CoreInv
  BY CoreInit, CoreNext, PTL DEF Spec

(* Every value the queue and its workers hold has its type.                *)
THEOREM TypeCorrect == Spec => []TypeOK
  <1>1. CoreInv => TypeOK
    BY DEF CoreInv
  <1> QED
    BY <1>1, CoreInvariant, PTL

(* Whatever stale cancel or complete wrote a row last, its lease columns   *)
(* are set exactly while it is RUNNING.                                    *)
THEOREM LeaseColumns == Spec => []LeaseIffRunning
  <1>1. CoreInv => LeaseIffRunning
    BY DEF CoreInv
  <1> QED
    BY <1>1, CoreInvariant, PTL

(* No attempt of a job is ever given to two workers.                       *)
THEOREM ExclusiveAttempts == Spec => []AttemptsAreExclusive
  <1>1. CoreInv => AttemptsAreExclusive
    BY DEF CoreInv
  <1> QED
    BY <1>1, CoreInvariant, PTL
-----------------------------------------------------------------------------
(* One attempt at a time, until a lease is recovered.                      *)

(* While no lease of the job has been recovered, at most one worker holds  *)
(* an attempt of it, that attempt is the latest, a job nobody has leased   *)
(* or that is settled is held by nobody, and a settled job shows its       *)
(* latest attempt.  A cancelled job may still be held: cancel stops no     *)
(* tool.                                                                   *)
SoleWhileUnexpired(j) ==
    jobs[j].expiries = 0 =>
        /\ \A v, w \in Workers : Working(v, j) /\ Working(w, j) => v = w
        /\ \A w \in Workers :
              Working(w, j) => /\ worker[w].epoch = jobs[j].attempts
                              /\ jobs[j].status \notin Verdicts \cup {"ABSENT", "QUEUED"}
        /\ jobs[j].status \in Verdicts => jobs[j].recorded = jobs[j].attempts

(* So it is with every job.                                                *)
SoleInv == \A j \in Jobs : SoleWhileUnexpired(j)

(* No attempt is held and no outcome is shown at the start.                *)
LEMMA SoleInit == Init => SoleInv
  <1> SUFFICES ASSUME Init, NEW j \in Jobs PROVE SoleWhileUnexpired(j)
    BY DEF SoleInv
  <1>1. \A w \in Workers : ~Working(w, j)
    BY RestingType DEF Init, Working
  <1>2. jobs[j].status \notin Verdicts
    BY NoRowType DEF Init, Verdicts
  <1> QED
    BY <1>1, <1>2 DEF SoleWhileUnexpired

(* What a step may do to one row without disturbing its holder.            *)
LEMMA SoleKept ==
    ASSUME NEW j \in Jobs, SoleWhileUnexpired(j),
           \A w \in Workers : Working(w, j)' => Working(w, j) /\ worker'[w].epoch = worker[w].epoch,
           jobs'[j].attempts = jobs[j].attempts,
           jobs'[j].expiries = 0 => jobs[j].expiries = 0,
           \/ jobs'[j].status = jobs[j].status /\ jobs'[j].recorded = jobs[j].recorded
           \/ jobs'[j].status \in {"RUNNING", "CANCELLED"}
           \/ jobs'[j].expiries # 0
    PROVE  SoleWhileUnexpired(j)'
  BY DEF SoleWhileUnexpired, Verdicts

(* The invariant of an unexpired job is inductive given the core invariant.*)
LEMMA SoleNext == CoreInv /\ SoleInv /\ [Next]_vars => SoleInv'
  <1> SUFFICES ASSUME CoreInv, SoleInv, [Next]_vars PROVE SoleInv'
    OBVIOUS
  <1>t. TypeOK /\ WorkersInStep
    BY DEF CoreInv
  <1> SUFFICES ASSUME NEW i \in Jobs PROVE SoleWhileUnexpired(i)'
    BY DEF SoleInv
  <1>s. SoleWhileUnexpired(i) /\ jobs[i] \in Row
    BY <1>t DEF SoleInv, TypeOK
  <1>1. ASSUME NEW j \in Jobs, CancelWrite(j) \/ BecomeAvailable(j) \/ LapseAbandoned(j) \/ LapseEarly(j)
        PROVE  SoleWhileUnexpired(i)'
    <2>1. worker' = worker
      BY <1>1, <1>t, CancelWriteStep, ClockStep
    <2>2. CASE i # j
      <3>1. jobs'[i] = jobs[i]
        BY <1>1, <1>t, <2>2, CancelWriteStep, ClockStep DEF OthersSame
      <3> QED
        BY <1>s, <2>1, <3>1, SoleKept DEF Working
    <2>3. CASE i = j
      <3>1. /\ SameHistory(jobs[i], jobs'[i])
            /\ jobs'[i].status = jobs[i].status \/ jobs'[i].status = "CANCELLED"
        BY <1>1, <1>t, <2>3, CancelWriteStep, ClockStep
      <3> QED
        BY <1>s, <2>1, <3>1, SoleKept DEF Working, SameHistory
    <2> QED
      BY <2>2, <2>3
  <1>2. ASSUME NEW j \in Jobs, Submit(j)
        PROVE  SoleWhileUnexpired(i)'
    <2>1. CASE i # j
      BY <1>s, <1>t, <1>2, <2>1, SubmitStep, SoleKept DEF Working, OthersSame
    <2>2. CASE i = j
      <3>1. \A w \in Workers : ~Working(w, i)
        BY <1>t, <1>2, <2>2, SubmitStep DEF CoreInv, WorkersInStep, RowsInStep, Working, TypeOK, WorkerState
      <3> QED
        BY <1>t, <1>2, <2>2, <3>1, SubmitStep DEF SoleWhileUnexpired, Working, Verdicts
    <2> QED
      BY <2>1, <2>2
  <1>3. CASE \/ \E r \in Runners : Register(r)
             \/ \E j \in Jobs : CancelRead(j)
             \/ UNCHANGED vars
    BY <1>s, <1>t, <1>3, OutsideStep, SoleKept DEF Working
  <1>4. ASSUME NEW w \in Workers, Poll(w)
        PROVE  SoleWhileUnexpired(i)'
    <2>1. \A v \in Workers : Working(v, i)' => Working(v, i) /\ worker'[v].epoch = worker[v].epoch
      BY <1>t, <1>4, PollStep DEF Working, OtherWorkersSame
    <2>2. jobs'[i] = Recovered(jobs[i])
      BY <1>t, <1>4, PollStep
    <2>3. CASE jobs'[i] = jobs[i]
      BY <1>s, <2>1, <2>3, SoleKept
    <2>4. CASE jobs'[i] # jobs[i]
      <3>1. jobs'[i].attempts = jobs[i].attempts /\ jobs'[i].expiries = jobs[i].expiries + 1
        BY <1>s, <2>2, <2>4, RecoveredRow
      <3>2. jobs'[i].expiries # 0
        BY <1>s, <3>1 DEF Row
      <3> QED
        BY <3>2 DEF SoleWhileUnexpired
    <2> QED
      BY <2>3, <2>4
  <1>5. ASSUME NEW w \in Workers, Quiet(w)
        PROVE  SoleWhileUnexpired(i)'
    BY <1>s, <1>t, <1>5, QuietStep, SoleKept DEF Working, OtherWorkersSame
  <1>6. ASSUME NEW w \in Workers, Busy(w)
        PROVE  SoleWhileUnexpired(i)'
    BY <1>s, <1>t, <1>6, BusyStep, SoleKept DEF Working, OtherWorkersSame
  <1>7. ASSUME NEW w \in Workers, Claim(w)
        PROVE  SoleWhileUnexpired(i)'
    <2>1. CASE i # worker[w].job
      BY <1>s, <1>t, <1>7, <2>1, ClaimStep, SoleKept DEF Working, OtherWorkersSame, OthersSame
    <2>2. CASE i = worker[w].job
      <3>1. /\ jobs[i].status = "QUEUED"
            /\ jobs'[i].status = "RUNNING"
            /\ jobs'[i].expiries = jobs[i].expiries
            /\ jobs'[i].attempts = worker'[w].epoch
            /\ OtherWorkersSame(w)
        BY <1>t, <1>7, <2>2, ClaimStep
      <3>2. jobs[i].expiries = 0 => \A v \in Workers : ~Working(v, i)
        BY <1>s, <3>1 DEF SoleWhileUnexpired
      <3>3. jobs[i].expiries = 0 => \A v \in Workers : Working(v, i)' => v = w
        BY <3>1, <3>2 DEF Working, OtherWorkersSame
      <3> QED
        BY <3>1, <3>3 DEF SoleWhileUnexpired, Verdicts
    <2> QED
      BY <2>1, <2>2
  <1>8. ASSUME NEW w \in Workers, CompleteWrite(w)
        PROVE  SoleWhileUnexpired(i)'
    <2>1. CASE i # worker[w].job
      <3>1. jobs'[i] = jobs[i] /\ worker'[w].epoch = 0 /\ OtherWorkersSame(w)
        BY <1>t, <1>8, <2>1, WriteFrame DEF OthersSame
      <3>2. \A v \in Workers : Working(v, i)' => Working(v, i) /\ worker'[v].epoch = worker[v].epoch
        BY <3>1 DEF Working, OtherWorkersSame
      <3> QED
        BY <1>s, <3>1, <3>2, SoleKept
    <2>2. CASE i = worker[w].job
      <3>1. /\ jobs'[i].expiries = jobs[i].expiries
            /\ jobs'[i].attempts = jobs[i].attempts
            /\ jobs'[i].recorded = worker[w].epoch
            /\ worker'[w].epoch = 0
            /\ OtherWorkersSame(w)
            /\ worker[w].epoch # 0
        BY <1>t, <1>8, <2>2, WriteStep, ZenonT(60)
      <3>2. jobs[i].expiries = 0 => \A v \in Workers : ~Working(v, i)'
        BY <1>s, <2>2, <3>1 DEF SoleWhileUnexpired, Working, OtherWorkersSame
      <3>3. jobs[i].expiries = 0 => worker[w].epoch = jobs[i].attempts
        BY <1>s, <2>2, <3>1 DEF SoleWhileUnexpired, Working
      <3> QED
        BY <3>1, <3>2, <3>3 DEF SoleWhileUnexpired
    <2> QED
      BY <2>1, <2>2
  <1> QED
    BY <1>1, <1>2, <1>3, <1>4, <1>5, <1>6, <1>7, <1>8, StepKinds

(* Both invariants hold in every reachable state.                          *)
LEMMA SoleInvariant == Spec => [](CoreInv /\ SoleInv)
  <1>1. Init => CoreInv /\ SoleInv
    BY CoreInit, SoleInit
  <1>2. CoreInv /\ SoleInv /\ [Next]_vars => (CoreInv /\ SoleInv)'
    BY CoreNext, SoleNext
  <1> QED
    BY <1>1, <1>2, PTL DEF Spec

(* Until a lease of the job is recovered no two workers run its tool.      *)
THEOREM ExclusiveExecution == Spec => []ExclusiveUntilExpiry
  <1>1. CoreInv /\ SoleInv => ExclusiveUntilExpiry
    <2> SUFFICES ASSUME CoreInv, SoleInv, NEW j \in Jobs, NEW v \in Workers, NEW w \in Workers,
                        v # w, Executing(v, j), Executing(w, j)
                 PROVE  jobs[j].expiries > 0
      BY DEF ExclusiveUntilExpiry
    <2>1. jobs[j].expiries # 0
      BY DEF SoleInv, SoleWhileUnexpired, Executing
    <2>2. jobs[j].expiries \in Nat
      BY DEF CoreInv, TypeOK, Row
    <2> QED
      BY <2>1, <2>2
  <1> QED
    BY <1>1, SoleInvariant, PTL

(* A settled job whose lease was never recovered shows its latest attempt. *)
THEOREM LatestOutcome == Spec => []OutcomeIsLatestUntilExpiry
  <1>1. SoleInv => OutcomeIsLatestUntilExpiry
    BY DEF SoleInv, SoleWhileUnexpired, OutcomeIsLatestUntilExpiry
  <1> QED
    BY <1>1, SoleInvariant, PTL

(* Nothing but a cancellation replaces the outcome of a settled job whose  *)
(* lease was never recovered.                                              *)
THEOREM FinalOutcome == Spec => OutcomeIsFinalUntilExpiry
  <1>1. CoreInv /\ SoleInv /\ [Next]_vars
            => [\A j \in Jobs : (jobs[j].status \in Verdicts /\ jobs[j].expiries = 0)
                   => jobs'[j].status \in {jobs[j].status, "CANCELLED"}]_vars
    <2> SUFFICES ASSUME CoreInv, SoleInv, [Next]_vars, NEW i \in Jobs,
                        jobs[i].status \in Verdicts, jobs[i].expiries = 0
                 PROVE  jobs'[i].status \in {jobs[i].status, "CANCELLED"}
      OBVIOUS
    <2>t. /\ TypeOK /\ WorkersInStep
          /\ jobs[i].status \notin {"ABSENT", "QUEUED", "RUNNING"}
          /\ \A w \in Workers : ~Working(w, i)
      BY DEF CoreInv, SoleInv, SoleWhileUnexpired, Verdicts
    <2>1. ASSUME NEW j \in Jobs,
                 Submit(j) \/ CancelWrite(j) \/ BecomeAvailable(j) \/ LapseAbandoned(j) \/ LapseEarly(j)
          PROVE  jobs'[i].status \in {jobs[i].status, "CANCELLED"}
      BY <2>t, <2>1, SubmitStep, CancelWriteStep, ClockStep DEF OthersSame
    <2>2. CASE \/ \E r \in Runners : Register(r)
               \/ \E j \in Jobs : CancelRead(j)
               \/ UNCHANGED vars
      BY <2>t, <2>2, OutsideStep
    <2>3. ASSUME NEW w \in Workers, Poll(w)
          PROVE  jobs'[i].status \in {jobs[i].status, "CANCELLED"}
      <3>1. jobs'[i] = Recovered(jobs[i])
        BY <2>t, <2>3, PollStep
      <3> QED
        BY <2>t, <3>1 DEF Recovered
    <2>4. ASSUME NEW w \in Workers, Quiet(w) \/ Busy(w)
          PROVE  jobs'[i].status \in {jobs[i].status, "CANCELLED"}
      BY <2>t, <2>4, QuietStep, BusyStep
    <2>5. ASSUME NEW w \in Workers, Claim(w)
          PROVE  jobs'[i].status \in {jobs[i].status, "CANCELLED"}
      <3>1. i # worker[w].job
        BY <2>t, <2>5, ClaimStep
      <3> QED
        BY <2>t, <2>5, <3>1, ClaimStep DEF OthersSame
    <2>6. ASSUME NEW w \in Workers, CompleteWrite(w)
          PROVE  jobs'[i].status \in {jobs[i].status, "CANCELLED"}
      <3>1. i # worker[w].job
        BY <2>t, <2>6, WriteFrame DEF Working
      <3>2. jobs'[i] = jobs[i]
        BY <2>t, <2>6, <3>1, WriteFrame DEF OthersSame
      <3> QED
        BY <3>2
    <2> QED
      BY <2>1, <2>2, <2>3, <2>4, <2>5, <2>6, StepKinds
  <1> QED
    BY <1>1, SoleInvariant, PTL DEF Spec, OutcomeIsFinalUntilExpiry
-----------------------------------------------------------------------------
(* The budget of attempts.                                                 *)

(* The workers inside a job, and those of them about to write it back as   *)
(* QUEUED: each of these stands for an attempt that may still be granted,  *)
(* and so does the row itself while it is QUEUED.                          *)
Holders(j) == {w \in Workers : Working(w, j)}

(* The workers about to put a job back into the queue.                     *)
Requeuers(j) == {w \in Holders(j) : worker[w].pc = "write" /\ worker[w].verdict = "QUEUED"}

(* A job in the queue counts as one more holder and one more attempt to    *)
(* come.                                                                   *)
Waiting(j) == IF jobs[j].status = "QUEUED" THEN 1 ELSE 0

(* Each recovered lease lets one more worker into the job and grants one   *)
(* more attempt.  The first bound is what a requeue needs: it was decided  *)
(* when attempts were left, and whoever decides so is a holder.            *)
WithinBudget(j) ==
    /\ IsFiniteSet(Holders(j))
    /\ Cardinality(Holders(j)) + Waiting(j) <= 1 + jobs[j].expiries
    /\ jobs[j].attempts + Cardinality(Requeuers(j)) + Waiting(j)
          <= jobs[j].max_attempts + jobs[j].expiries

(* So it is with every job.                                                *)
BudgetInv == \A j \in Jobs : WithinBudget(j)

(* A part of a finite set has no more elements.                            *)
LEMMA PartCount ==
    ASSUME NEW S, IsFiniteSet(S), NEW T, T \subseteq S
    PROVE  /\ IsFiniteSet(T)
           /\ Cardinality(S) \in Nat /\ Cardinality(T) \in Nat
           /\ Cardinality(T) <= Cardinality(S)
  BY FS_Subset, FS_CardinalityType

(* An element more counts for one at most.                                 *)
LEMMA OneCount ==
    ASSUME NEW S, IsFiniteSet(S), NEW x
    PROVE  /\ IsFiniteSet(S \cup {x})
           /\ Cardinality(S \cup {x}) <= Cardinality(S) + 1
  BY FS_CardinalityType, FS_AddElement

(* Without one of its elements a set counts less.                          *)
LEMMA LessCount ==
    ASSUME NEW S, IsFiniteSet(S), NEW x, x \in S, NEW T, T \subseteq S \ {x}
    PROVE  /\ IsFiniteSet(T)
           /\ Cardinality(S) \in Nat /\ Cardinality(T) \in Nat
           /\ Cardinality(T) <= Cardinality(S) - 1
  <1>1. IsFiniteSet(S \ {x}) /\ Cardinality(S \ {x}) = Cardinality(S) - 1
    BY FS_RemoveElement
  <1>2. Cardinality(S) \in Nat
    BY PartCount
  <1> QED
    BY <1>1, <1>2, PartCount

(* The numbers of a row.                                                   *)
LEMMA RowNumbers ==
    ASSUME NEW row \in Row
    PROVE  /\ row.attempts \in Nat /\ row.expiries \in Nat
           /\ row.max_attempts \in Nat /\ row.max_attempts >= 1
  BY BoundsAssumption DEF Row

(* Nobody is inside a job at the start.                                    *)
LEMMA BudgetInit == Init => BudgetInv
  <1> SUFFICES ASSUME Init, NEW j \in Jobs PROVE WithinBudget(j)
    BY DEF BudgetInv
  <1>1. Holders(j) = {} /\ Requeuers(j) = {}
    BY RestingType DEF Init, Holders, Requeuers, Working
  <1>2. jobs[j] = NoRow /\ NoRow.max_attempts = 1
    BY DEF Init, NoRow
  <1> QED
    BY <1>1, <1>2, NoRowType, FS_EmptySet DEF WithinBudget, Waiting

(* A step that lets nobody in and lets nobody decide to requeue keeps the  *)
(* budget, if it pays for a row that waits again with an expiry.           *)
LEMMA BudgetKept ==
    ASSUME TypeOK, TypeOK', NEW j \in Jobs, WithinBudget(j),
           Holders(j)' \subseteq Holders(j), Requeuers(j)' \subseteq Requeuers(j),
           jobs'[j].attempts = jobs[j].attempts,
           jobs'[j].max_attempts = jobs[j].max_attempts,
           \/ jobs'[j].status = jobs[j].status /\ jobs'[j].expiries = jobs[j].expiries
           \/ jobs'[j].status # "QUEUED" /\ jobs'[j].expiries = jobs[j].expiries
           \/ jobs'[j].expiries = jobs[j].expiries + 1
    PROVE  WithinBudget(j)'
  <1>1. /\ IsFiniteSet(Holders(j)')
        /\ Cardinality(Holders(j)) \in Nat /\ Cardinality(Holders(j)') \in Nat
        /\ Cardinality(Holders(j)') <= Cardinality(Holders(j))
    BY PartCount DEF WithinBudget
  <1>2. /\ Cardinality(Requeuers(j)) \in Nat /\ Cardinality(Requeuers(j)') \in Nat
        /\ Cardinality(Requeuers(j)') <= Cardinality(Requeuers(j))
    <2>1. IsFiniteSet(Requeuers(j))
      BY PartCount DEF WithinBudget, Requeuers
    <2> QED
      BY <2>1, PartCount
  <1>3. /\ jobs[j].attempts \in Nat /\ jobs[j].expiries \in Nat /\ jobs'[j].expiries \in Nat
        /\ jobs[j].max_attempts \in Nat
    BY RowNumbers DEF TypeOK
  <1>4. Waiting(j)' + jobs[j].expiries <= Waiting(j) + jobs'[j].expiries
    BY <1>3 DEF Waiting
  <1>5. Waiting(j) \in Nat /\ Waiting(j)' \in Nat
    BY DEF Waiting
  <1> HIDE DEF Waiting, Holders, Requeuers
  <1> QED
    BY <1>1, <1>2, <1>3, <1>4, <1>5 DEF WithinBudget

(* Steps of others and of the clock.                                       *)
LEMMA BudgetRowStep ==
    ASSUME CoreInv, NEW i \in Jobs, WithinBudget(i), NEW j \in Jobs,
           Submit(j) \/ CancelWrite(j) \/ BecomeAvailable(j) \/ LapseAbandoned(j) \/ LapseEarly(j)
    PROVE  WithinBudget(i)'
  <1>t. TypeOK
    BY DEF CoreInv
  <1>1. TypeOK' /\ OthersSame(j) /\ worker' = worker
    BY <1>t, SubmitStep, CancelWriteStep, ClockStep
  <1>2. Holders(i)' = Holders(i) /\ Requeuers(i)' = Requeuers(i)
    BY <1>1 DEF Holders, Requeuers, Working
  <1>3. CASE i # j
    BY <1>1, <1>2, <1>3, <1>t, BudgetKept DEF OthersSame
  <1>4. CASE i = j /\ ~Submit(j)
    <2>1. /\ SameHistory(jobs[i], jobs'[i])
          /\ jobs'[i].status = jobs[i].status \/ jobs'[i].status = "CANCELLED"
      BY <1>4, <1>t, CancelWriteStep, ClockStep
    <2> QED
      BY <1>1, <1>2, <1>t, <2>1, BudgetKept DEF SameHistory
  <1>5. CASE i = j /\ Submit(j)
    <2>1. /\ jobs'[i].attempts = 0
          /\ jobs'[i].expiries = 0
          /\ jobs[i].status = "ABSENT"
      BY <1>5, <1>t, SubmitStep
    <2>2. Holders(i)' = {} /\ Requeuers(i)' = {}
      <3>1. jobs[i].attempts = 0
        BY <2>1 DEF CoreInv, RowsInStep
      <3>2. ASSUME NEW w \in Workers PROVE ~Working(w, i)
        <4>1. worker[w].epoch \in Nat
          BY <1>t DEF TypeOK, WorkerState
        <4>2. worker[w].epoch # 0 => worker[w].epoch <= jobs[worker[w].job].attempts
          BY DEF CoreInv, WorkersInStep
        <4> QED
          BY <3>1, <4>1, <4>2 DEF Working
      <3> QED
        BY <1>2, <3>2 DEF Holders, Requeuers
    <2>3. jobs'[i].max_attempts \in Nat /\ jobs'[i].max_attempts >= 1
      BY <1>1, RowNumbers DEF TypeOK
    <2> QED
      BY <2>1, <2>2, <2>3, FS_EmptySet DEF WithinBudget, Waiting
  <1> QED
    BY <1>3, <1>4, <1>5

(* A poll may put a lapsed row back in the queue, and counts the expiry.   *)
LEMMA BudgetPoll ==
    ASSUME CoreInv, NEW i \in Jobs, WithinBudget(i), NEW w \in Workers, Poll(w)
    PROVE  WithinBudget(i)'
  <1>t. TypeOK /\ WorkersInStep
    BY DEF CoreInv
  <1>1. TypeOK' /\ OtherWorkersSame(w) /\ worker'[w].epoch = 0 /\ jobs'[i] = Recovered(jobs[i])
    BY <1>t, PollStep
  <1>2. Holders(i)' \subseteq Holders(i) /\ Requeuers(i)' \subseteq Requeuers(i)
    BY <1>1 DEF Holders, Requeuers, Working, OtherWorkersSame
  <1>3. jobs[i] \in Row
    BY <1>t DEF TypeOK
  <1>4. /\ jobs'[i].attempts = jobs[i].attempts
        /\ jobs'[i].max_attempts = jobs[i].max_attempts
        /\ jobs'[i] = jobs[i] \/ jobs'[i].expiries = jobs[i].expiries + 1
    BY <1>1, <1>3, RecoveredRow
  <1> QED
    BY <1>t, <1>1, <1>2, <1>4, BudgetKept

(* Inside a worker: attempts are left when it decides to requeue, and it   *)
(* is one of the holders.                                                  *)
LEMMA BudgetLocal ==
    ASSUME CoreInv, NEW i \in Jobs, WithinBudget(i), NEW w \in Workers, Quiet(w) \/ Busy(w)
    PROVE  WithinBudget(i)'
  <1>t. TypeOK /\ WorkersInStep
    BY DEF CoreInv
  <1>1. TypeOK' /\ jobs' = jobs /\ OtherWorkersSame(w)
    BY <1>t, QuietStep, BusyStep
  <1>2. CASE Quiet(w)
    <2>1. Holders(i)' \subseteq Holders(i) /\ Requeuers(i)' \subseteq Requeuers(i)
      BY <1>1, <1>2, <1>t, QuietStep DEF Holders, Requeuers, Working, OtherWorkersSame
    <2> QED
      BY <1>t, <1>1, <2>1, BudgetKept
  <1>3. CASE Busy(w)
    <2>1. Holders(i)' \subseteq Holders(i)
      BY <1>1, <1>3, <1>t, BusyStep DEF Holders, Working, OtherWorkersSame
    <2>2. CASE jobs[i].attempts < jobs[i].max_attempts
      <3>1. /\ IsFiniteSet(Holders(i)')
            /\ Cardinality(Holders(i)) \in Nat /\ Cardinality(Holders(i)') \in Nat
            /\ Cardinality(Holders(i)') <= Cardinality(Holders(i))
        BY <2>1, PartCount DEF WithinBudget
      <3>2. Cardinality(Requeuers(i)') \in Nat /\ Cardinality(Requeuers(i)') <= Cardinality(Holders(i)')
        BY <3>1, PartCount DEF Requeuers
      <3>3. /\ jobs[i].attempts \in Nat /\ jobs[i].expiries \in Nat /\ jobs[i].max_attempts \in Nat
            /\ Waiting(i) \in Nat /\ Waiting(i)' = Waiting(i)
        BY <1>1, <1>t, RowNumbers DEF TypeOK, Waiting
      <3> QED
        BY <1>1, <2>2, <3>1, <3>2, <3>3 DEF WithinBudget
    <2>3. CASE ~(jobs[i].attempts < jobs[i].max_attempts)
      <3>1. /\ worker'[w].job = worker[w].job
            /\ worker'[w].verdict = "QUEUED" =>
                  jobs[worker[w].job].attempts < jobs[worker[w].job].max_attempts
        BY <1>3, <1>t, BusyStep
      <3>2. Requeuers(i)' \subseteq Requeuers(i)
        BY <1>1, <2>3, <3>1 DEF Holders, Requeuers, Working, OtherWorkersSame
      <3> QED
        BY <1>t, <1>1, <2>1, <3>2, BudgetKept
    <2> QED
      BY <2>2, <2>3
  <1> QED
    BY <1>2, <1>3

(* A lease takes the row out of the queue and lets one worker in.          *)
LEMMA BudgetClaim ==
    ASSUME CoreInv, NEW i \in Jobs, WithinBudget(i), NEW w \in Workers, Claim(w)
    PROVE  WithinBudget(i)'
  <1>t. TypeOK /\ WorkersInStep
    BY DEF CoreInv
  <1>1. /\ TypeOK' /\ OthersSame(worker[w].job) /\ OtherWorkersSame(w)
        /\ worker[w].epoch = 0
        /\ worker'[w].job = worker[w].job
        /\ worker'[w].pc = "invoke"
    BY <1>t, ClaimStep
  <1>2. Requeuers(i)' \subseteq Requeuers(i)
    BY <1>1 DEF Holders, Requeuers, Working, OtherWorkersSame
  <1>3. CASE i # worker[w].job
    <2>1. Holders(i)' \subseteq Holders(i)
      BY <1>1, <1>3 DEF Holders, Working, OtherWorkersSame
    <2> QED
      BY <1>t, <1>1, <1>2, <1>3, <2>1, BudgetKept DEF OthersSame
  <1>4. CASE i = worker[w].job
    <2>1. /\ jobs[i].status = "QUEUED" /\ jobs'[i].status = "RUNNING"
          /\ jobs'[i].attempts = jobs[i].attempts + 1
          /\ jobs'[i].max_attempts = jobs[i].max_attempts
          /\ jobs'[i].expiries = jobs[i].expiries
      BY <1>4, <1>t, ClaimStep
    <2>2. Holders(i)' \subseteq Holders(i) \cup {w}
      BY <1>1 DEF Holders, Working, OtherWorkersSame
    <2>3. IsFiniteSet(Holders(i)) /\ IsFiniteSet(Holders(i) \cup {w})
      BY OneCount DEF WithinBudget
    <2>4. /\ IsFiniteSet(Holders(i)')
          /\ Cardinality(Holders(i)) \in Nat /\ Cardinality(Holders(i)') \in Nat
          /\ Cardinality(Holders(i)') <= Cardinality(Holders(i)) + 1
      <3>1. /\ IsFiniteSet(Holders(i)') /\ Cardinality(Holders(i)') \in Nat
            /\ Cardinality(Holders(i) \cup {w}) \in Nat
            /\ Cardinality(Holders(i)') <= Cardinality(Holders(i) \cup {w})
        BY <2>2, <2>3, PartCount
      <3>2. Cardinality(Holders(i)) \in Nat
        BY <2>3, PartCount
      <3>3. Cardinality(Holders(i) \cup {w}) <= Cardinality(Holders(i)) + 1
        BY <2>3, OneCount
      <3> QED
        BY <3>1, <3>2, <3>3
    <2>5. /\ Cardinality(Requeuers(i)) \in Nat /\ Cardinality(Requeuers(i)') \in Nat
          /\ Cardinality(Requeuers(i)') <= Cardinality(Requeuers(i))
      <3>1. IsFiniteSet(Requeuers(i))
        BY <2>3, PartCount DEF Requeuers
      <3> QED
        BY <1>2, <3>1, PartCount
    <2>6. Waiting(i) = 1 /\ Waiting(i)' = 0
      BY <2>1 DEF Waiting
    <2>7. jobs[i].attempts \in Nat /\ jobs[i].expiries \in Nat /\ jobs[i].max_attempts \in Nat
      BY <1>t, RowNumbers DEF TypeOK
    <2> QED
      BY <2>1, <2>4, <2>5, <2>6, <2>7 DEF WithinBudget
  <1> QED
    BY <1>3, <1>4

(* Whoever writes the row back as QUEUED was counted before.               *)
LEMMA BudgetWrite ==
    ASSUME CoreInv, NEW i \in Jobs, WithinBudget(i), NEW w \in Workers, CompleteWrite(w)
    PROVE  WithinBudget(i)'
  <1>t. TypeOK /\ WorkersInStep
    BY DEF CoreInv
  <1>1. /\ worker[w].epoch # 0
        /\ OthersSame(worker[w].job)
        /\ OtherWorkersSame(w)
        /\ worker'[w].epoch = 0
    BY <1>t, WriteFrame
  <1>2. TypeOK'
    BY <1>t, WriteStep
  <1>3. Holders(i)' \subseteq Holders(i) \ {w} /\ Requeuers(i)' \subseteq Requeuers(i) \ {w}
    BY <1>1 DEF Holders, Requeuers, Working, OtherWorkersSame
  <1>4. CASE i # worker[w].job
    BY <1>t, <1>1, <1>2, <1>3, <1>4, BudgetKept DEF OthersSame
  <1>5. CASE i = worker[w].job
    <2>1. /\ worker[w].pc = "write"
          /\ jobs'[i].status = worker[w].verdict
          /\ jobs'[i].attempts = jobs[i].attempts
          /\ jobs'[i].max_attempts = jobs[i].max_attempts
          /\ jobs'[i].expiries = jobs[i].expiries
      BY <1>5, <1>t, WriteStep, ZenonT(60)
    <2>2. CASE worker[w].verdict # "QUEUED"
      BY <1>t, <1>2, <1>3, <2>1, <2>2, BudgetKept
    <2>3. CASE worker[w].verdict = "QUEUED"
      <3>1. w \in Holders(i) /\ w \in Requeuers(i)
        BY <1>1, <1>5, <2>1, <2>3 DEF Holders, Requeuers, Working
      <3>2. IsFiniteSet(Holders(i)) /\ IsFiniteSet(Requeuers(i))
        BY PartCount DEF WithinBudget, Requeuers
      <3>3. /\ IsFiniteSet(Holders(i)')
            /\ Cardinality(Holders(i)) \in Nat /\ Cardinality(Holders(i)') \in Nat
            /\ Cardinality(Holders(i)') <= Cardinality(Holders(i)) - 1
        BY <1>3, <3>1, <3>2, LessCount
      <3>4. /\ Cardinality(Requeuers(i)) \in Nat /\ Cardinality(Requeuers(i)') \in Nat
            /\ Cardinality(Requeuers(i)') <= Cardinality(Requeuers(i)) - 1
        BY <1>3, <3>1, <3>2, LessCount
      <3>5. /\ jobs[i].attempts \in Nat /\ jobs[i].expiries \in Nat /\ jobs[i].max_attempts \in Nat
            /\ Waiting(i) \in Nat /\ Waiting(i)' = 1
        BY <1>t, <2>1, <2>3, RowNumbers DEF TypeOK, Waiting
      <3> QED
        BY <2>1, <3>3, <3>4, <3>5 DEF WithinBudget
    <2> QED
      BY <2>2, <2>3
  <1> QED
    BY <1>4, <1>5

(* The budget is inductive given the core invariant.                       *)
LEMMA BudgetNext == CoreInv /\ BudgetInv /\ [Next]_vars => BudgetInv'
  <1> SUFFICES ASSUME CoreInv, BudgetInv, [Next]_vars, NEW i \in Jobs PROVE WithinBudget(i)'
    BY DEF BudgetInv
  <1>s. WithinBudget(i) /\ TypeOK
    BY DEF BudgetInv, CoreInv
  <1>1. CASE \/ \E r \in Runners : Register(r)
             \/ \E j \in Jobs : CancelRead(j)
             \/ UNCHANGED vars
    <2>1. TypeOK' /\ jobs' = jobs /\ worker' = worker
      BY <1>s, <1>1, OutsideStep
    <2> QED
      BY <1>s, <2>1, BudgetKept DEF Holders, Requeuers, Working
  <1> QED
    BY <1>s, <1>1, BudgetRowStep, BudgetPoll, BudgetLocal, BudgetClaim, BudgetWrite, StepKinds

(* Beyond max_attempts every attempt is owed to a recovered lease, however *)
(* many workers share a runner id and however stale their completions are. *)
THEOREM RetriesWithinBudget == Spec => []RetryBudget
  <1>1. Init => CoreInv /\ BudgetInv
    BY CoreInit, BudgetInit
  <1>2. CoreInv /\ BudgetInv /\ [Next]_vars => (CoreInv /\ BudgetInv)'
    BY CoreNext, BudgetNext
  <1>3. CoreInv /\ BudgetInv => RetryBudget
    <2> SUFFICES ASSUME CoreInv, NEW j \in Jobs, WithinBudget(j)
                 PROVE  jobs[j].attempts <= jobs[j].max_attempts + jobs[j].expiries
      BY DEF BudgetInv, RetryBudget
    <2>1. IsFiniteSet(Requeuers(j))
      BY PartCount DEF WithinBudget, Requeuers
    <2>2. Cardinality(Requeuers(j)) \in Nat /\ Waiting(j) \in Nat
      BY <2>1, PartCount DEF Waiting
    <2>3. jobs[j].attempts \in Nat /\ jobs[j].expiries \in Nat /\ jobs[j].max_attempts \in Nat
      BY RowNumbers DEF CoreInv, TypeOK
    <2> QED
      BY <2>2, <2>3 DEF WithinBudget
  <1> QED
    BY <1>1, <1>2, <1>3, PTL DEF Spec

-----------------------------------------------------------------------------
(* The ledger.                                                             *)

(* What the mapping makes of a worker's local state.                       *)
Entry(w) == [job |-> IF worker[w].epoch = 0 THEN 0 ELSE worker[w].job,
             attempt |-> worker[w].epoch]

(* A step that changes neither counters nor entries is a stutter.          *)
LEMMA LedgerStutter ==
    ASSUME \A j \in Jobs : /\ jobs'[j].attempts = jobs[j].attempts
                           /\ jobs'[j].recorded = jobs[j].recorded,
           \A w \in Workers : Entry(w)' = Entry(w)
    PROVE  UNCHANGED Ledger!ledgerVars
  BY DEF Ledger!ledgerVars, Entry

(* The initial table has granted nothing.                                  *)
LEMMA LedgerInit == Init => Ledger!Init
  BY NoRowType, RestingType DEF Init, Ledger!Init, Ledger!Nothing

(* A worker that gives up its attempt, or has none, and leaves the table   *)
(* alone.                                                                  *)
LEMMA LedgerDropped ==
    ASSUME NEW w \in Workers, OtherWorkersSame(w), worker'[w].epoch = 0,
           \A j \in Jobs : /\ jobs'[j].attempts = jobs[j].attempts
                           /\ jobs'[j].recorded = jobs[j].recorded
    PROVE  [Ledger!Next]_Ledger!ledgerVars
  <1>1. \A v \in Workers : v # w => Entry(v)' = Entry(v)
    BY DEF OtherWorkersSame, Entry
  <1>2. CASE worker[w].epoch = 0
    <2>1. Entry(w)' = Entry(w)
      BY <1>2 DEF Entry
    <2> QED
      BY <1>1, <2>1, LedgerStutter
  <1>3. CASE worker[w].epoch # 0
    <2>1. Ledger!Abandon(w)
      BY <1>1, <1>3 DEF Ledger!Abandon, Ledger!Nothing, Entry
    <2> QED
      BY <2>1 DEF Ledger!Next
  <1> QED
    BY <1>2, <1>3

(* A lease grants the next attempt of the row to the worker that took it.  *)
LEMMA LedgerGrant ==
    ASSUME CoreInv, NEW w \in Workers, Claim(w)
    PROVE  [Ledger!Next]_Ledger!ledgerVars
  <1>t. TypeOK /\ WorkersInStep
    BY DEF CoreInv
  <1>1. PICK j : j = worker[w].job
    OBVIOUS
  <1>2. /\ j \in Jobs
        /\ OthersSame(j) /\ OtherWorkersSame(w)
        /\ worker[w].epoch = 0
        /\ worker'[w].epoch = jobs[j].attempts + 1
        /\ worker'[w].job = j
        /\ jobs'[j].attempts = jobs[j].attempts + 1
        /\ jobs'[j].recorded = jobs[j].recorded
    BY <1>t, <1>1, ClaimStep
  <1>3. jobs[j].attempts \in Nat
    BY <1>t, <1>2, RowNumbers DEF TypeOK
  <1>4. /\ Entry(w)' = [job |-> j, attempt |-> jobs[j].attempts + 1]
        /\ Entry(w) = [job |-> 0, attempt |-> 0]
        /\ \A v \in Workers : v # w => Entry(v)' = Entry(v)
    BY <1>2, <1>3 DEF Entry, OtherWorkersSame
  <1>5. \A i \in Jobs : /\ jobs'[i].recorded = jobs[i].recorded
                        /\ i # j => jobs'[i].attempts = jobs[i].attempts
    BY <1>2 DEF OthersSame
  <1>6. Ledger!Grant(w, j)
    BY <1>2, <1>4, <1>5 DEF Ledger!Grant, Ledger!Nothing, Entry
  <1> QED
    BY <1>2, <1>6 DEF Ledger!Next

(* The write of complete reports the attempt its worker holds.             *)
LEMMA LedgerReport ==
    ASSUME CoreInv, NEW w \in Workers, CompleteWrite(w)
    PROVE  [Ledger!Next]_Ledger!ledgerVars
  <1>t. TypeOK /\ WorkersInStep
    BY DEF CoreInv
  <1>1. PICK j : j = worker[w].job
    OBVIOUS
  <1>2. /\ j \in Jobs
        /\ OthersSame(j) /\ OtherWorkersSame(w)
        /\ worker[w].epoch # 0
        /\ worker'[w].epoch = 0
        /\ jobs'[j].attempts = jobs[j].attempts
        /\ jobs'[j].recorded = worker[w].epoch
    BY <1>t, <1>1, WriteStep
  <1>3. /\ Entry(w)' = [job |-> 0, attempt |-> 0]
        /\ Entry(w) = [job |-> j, attempt |-> worker[w].epoch]
        /\ \A v \in Workers : v # w => Entry(v)' = Entry(v)
    BY <1>1, <1>2 DEF Entry, OtherWorkersSame
  <1>4. \A i \in Jobs : /\ jobs'[i].attempts = jobs[i].attempts
                        /\ i # j => jobs'[i].recorded = jobs[i].recorded
    BY <1>2 DEF OthersSame
  <1>5. Entry(w).job = j /\ Entry(w).attempt = worker[w].epoch
    BY <1>3
  <1>6. [i \in Jobs |-> jobs'[i].recorded]
            = [[i \in Jobs |-> jobs[i].recorded] EXCEPT ![Entry(w).job] = Entry(w).attempt]
    BY <1>2, <1>4, <1>5
  <1>7. [v \in Workers |-> Entry(v)']
            = [[v \in Workers |-> Entry(v)] EXCEPT ![w] = Ledger!Nothing]
    BY <1>3 DEF Ledger!Nothing
  <1>8. [i \in Jobs |-> jobs'[i].attempts] = [i \in Jobs |-> jobs[i].attempts]
    BY <1>4
  <1>9. [v \in Workers |-> Entry(v)][w] = Entry(w) /\ Entry(w) # Ledger!Nothing
    BY <1>2, <1>3 DEF Ledger!Nothing
  <1>10. Ledger!Report(w)
    BY <1>6, <1>7, <1>8, <1>9 DEF Ledger!Report, Entry
  <1> QED
    BY <1>10 DEF Ledger!Next

(* Clients and the clock leave attempts, outcomes and workers as they are. *)
LEMMA LedgerRowStep ==
    ASSUME CoreInv, NEW j \in Jobs,
           Submit(j) \/ CancelWrite(j) \/ BecomeAvailable(j) \/ LapseAbandoned(j) \/ LapseEarly(j)
    PROVE  [Ledger!Next]_Ledger!ledgerVars
  <1>1. OthersSame(j) /\ worker' = worker
    BY SubmitStep, CancelWriteStep, ClockStep DEF CoreInv
  <1>2. jobs'[j].attempts = jobs[j].attempts /\ jobs'[j].recorded = jobs[j].recorded
    BY SubmitStep, CancelWriteStep, ClockStep DEF CoreInv, SameHistory, RowsInStep
  <1>3. \A i \in Jobs : /\ jobs'[i].attempts = jobs[i].attempts
                        /\ jobs'[i].recorded = jobs[i].recorded
    BY <1>1, <1>2 DEF OthersSame
  <1>4. \A w \in Workers : Entry(w)' = Entry(w)
    BY <1>1 DEF Entry
  <1> QED
    BY <1>3, <1>4, LedgerStutter

(* Recovery of lapsed leases is invisible to the ledger: no attempt is     *)
(* taken back from the worker that still holds it.                         *)
LEMMA LedgerPoll ==
    ASSUME CoreInv, NEW w \in Workers, Poll(w)
    PROVE  [Ledger!Next]_Ledger!ledgerVars
  <1>1. /\ OtherWorkersSame(w)
        /\ worker'[w].epoch = 0
        /\ \A i \in Jobs : jobs'[i] = Recovered(jobs[i])
    BY PollStep DEF CoreInv
  <1>2. \A i \in Jobs : jobs[i] \in Row
    BY DEF CoreInv, TypeOK
  <1>3. \A i \in Jobs : /\ jobs'[i].attempts = jobs[i].attempts
                        /\ jobs'[i].recorded = jobs[i].recorded
    BY <1>1, <1>2, RecoveredRow
  <1> QED
    BY <1>1, <1>3, LedgerDropped

(* A step inside a worker keeps its attempt or abandons it.                *)
LEMMA LedgerLocal ==
    ASSUME CoreInv, NEW w \in Workers, Quiet(w) \/ Busy(w)
    PROVE  [Ledger!Next]_Ledger!ledgerVars
  <1>1. TypeOK /\ WorkersInStep
    BY DEF CoreInv
  <1>2. CASE Quiet(w)
    <2>1. jobs' = jobs /\ OtherWorkersSame(w) /\ worker'[w].epoch = 0
      BY <1>1, <1>2, QuietStep
    <2> QED
      BY <2>1, LedgerDropped
  <1>3. CASE Busy(w)
    <2>1. /\ jobs' = jobs
          /\ OtherWorkersSame(w)
          /\ worker'[w].epoch = worker[w].epoch
          /\ worker'[w].job = worker[w].job
      BY <1>1, <1>3, BusyStep
    <2>2. \A v \in Workers : Entry(v)' = Entry(v)
      BY <2>1 DEF Entry, OtherWorkersSame
    <2> QED
      BY <2>1, <2>2, LedgerStutter
  <1> QED
    BY <1>2, <1>3

(* Every step of the queue is a step of the ledger or leaves it alone.     *)
LEMMA LedgerNext == CoreInv /\ [Next]_vars => [Ledger!Next]_Ledger!ledgerVars
  <1> SUFFICES ASSUME CoreInv, [Next]_vars PROVE [Ledger!Next]_Ledger!ledgerVars
    OBVIOUS
  <1>1. ASSUME NEW j \in Jobs,
               Submit(j) \/ CancelWrite(j) \/ BecomeAvailable(j) \/ LapseAbandoned(j) \/ LapseEarly(j)
        PROVE  [Ledger!Next]_Ledger!ledgerVars
    BY <1>1, LedgerRowStep
  <1>2. CASE \/ \E r \in Runners : Register(r)
             \/ \E j \in Jobs : CancelRead(j)
             \/ UNCHANGED vars
    <2>1. jobs' = jobs /\ worker' = worker
      BY <1>2, OutsideStep DEF CoreInv
    <2>2. \A w \in Workers : Entry(w)' = Entry(w)
      BY <2>1 DEF Entry
    <2> QED
      BY <2>1, <2>2, LedgerStutter
  <1>3. ASSUME NEW w \in Workers, Poll(w) PROVE [Ledger!Next]_Ledger!ledgerVars
    BY <1>3, LedgerPoll
  <1>4. ASSUME NEW w \in Workers, Quiet(w) \/ Busy(w) PROVE [Ledger!Next]_Ledger!ledgerVars
    BY <1>4, LedgerLocal
  <1>5. ASSUME NEW w \in Workers, Claim(w) PROVE [Ledger!Next]_Ledger!ledgerVars
    BY <1>5, LedgerGrant
  <1>6. ASSUME NEW w \in Workers, CompleteWrite(w) PROVE [Ledger!Next]_Ledger!ledgerVars
    BY <1>6, LedgerReport
  <1> QED
    BY <1>1, <1>2, <1>3, <1>4, <1>5, <1>6, StepKinds

(* The queue implements the ledger of attempts: whatever lapses, crashes,  *)
(* cancels and stale writes happen, attempts are granted one by one to one *)
(* worker each, and the outcome a row shows was reported, once, by the     *)
(* worker that held the attempt it is attributed to.                       *)
THEOREM QueueImplementsLedger == Spec => ImplementsLedger
  BY LedgerInit, LedgerNext, CoreInvariant, PTL DEF Spec, ImplementsLedger, Ledger!Spec
=============================================================================
