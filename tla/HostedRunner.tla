---------------------------- MODULE HostedRunner ----------------------------
(***************************************************************************)
(* The durable hosted job queue of runners/hosted.py: one SQLite table of  *)
(* jobs, leased by runner processes, each statement committed on its own.  *)
(*                                                                         *)
(* A worker is one caller of run_once: the loop of run_hosted_runner.py or *)
(* an API thread behind the hosted_runner_run_once tool.  Several workers  *)
(* may present the same runner id.  Every read and every write of the      *)
(* table that run_once, complete and cancel issue is a step of its own, so *)
(* other processes run between them.                                       *)
(*                                                                         *)
(* Time is not a number here.  A lease "has lapsed" once lease_until is in *)
(* the past and a delayed job "is available" once available_at has come;   *)
(* both happen at any moment.  A job's number is its place in the order of *)
(* created_at.                                                             *)
(***************************************************************************)
EXTENDS Naturals

CONSTANTS
    Workers,          \* callers of run_once
    Runners,          \* runner ids
    IdOf,             \* the runner id each worker presents
    NumJobs,          \* bound: jobs ever submitted
    Profiles,         \* classes of (tool, workspace policy, approval) a job may have
    Gated,            \* profiles the registry refuses for want of approval
    Offers,           \* sets of profiles a registration may advertise
    MaxAttempts,      \* bound: the largest max_attempts submitted
    MaxRegistrations, \* bound: runner re-registrations
    MaxCrashes,       \* bound: worker crashes
    MaxEarlyLapses,   \* bound: leases that lapse under a live worker
    NoRunner          \* lease_owner IS NULL

ASSUME RunnersAssumption == IdOf \in [Workers -> Runners] /\ NoRunner \notin Runners

ASSUME BoundsAssumption ==
    /\ NumJobs \in Nat
    /\ MaxAttempts \in Nat \ {0}
    /\ MaxRegistrations \in Nat
    /\ MaxCrashes \in Nat
    /\ MaxEarlyLapses \in Nat

ASSUME ProfilesAssumption ==
    /\ Profiles # {}
    /\ Gated \subseteq Profiles
    /\ Offers \subseteq SUBSET Profiles

VARIABLES
    jobs,       \* hosted_jobs
    offer,      \* hosted_runners: the profiles each runner id can take
    worker,     \* the local state of each run_once
    cancelling, \* jobs whose cancel() has read the status and not yet written
    budget      \* how much of each bound has been used

vars == <<jobs, offer, worker, cancelling, budget>>

-----------------------------------------------------------------------------

Jobs == 1..NumJobs

Verdicts == {"SUCCESS", "FAIL", "BLOCKED_APPROVAL", "BLOCKED_POLICY"}
Statuses == Verdicts \cup {"ABSENT", "QUEUED", "RUNNING", "CANCELLED"}

(* A row of hosted_jobs.  The last three fields are history: how often the *)
(* lease was recovered, the attempt whose outcome the row holds, and the   *)
(* attempts whose failure was written back as QUEUED.                      *)
Row == [status : Statuses, needs : Profiles, lease_owner : Runners \cup {NoRunner},
        lapsed : BOOLEAN, available : BOOLEAN, attempts : Nat,
        max_attempts : 1..MaxAttempts,
        expiries : Nat, recorded : Nat, retried : SUBSET Nat]

NoRow == [status |-> "ABSENT", needs |-> CHOOSE p \in Profiles : TRUE, lease_owner |-> NoRunner,
          lapsed |-> FALSE, available |-> FALSE, attempts |-> 0, max_attempts |-> 1,
          expiries |-> 0, recorded |-> 0, retried |-> {}]

(* A worker's place in run_once, the job it selected, the status it is     *)
(* about to write, the attempt its lease was (history) and the profiles it *)
(* read from its own registration.                                         *)
Steps == {"idle", "select", "claim", "invoke", "complete", "complete_blocked", "write"}
WorkerState == [pc : Steps, job : Jobs \cup {0}, verdict : Verdicts \cup {"QUEUED", "NONE"},
                epoch : Nat, seen : SUBSET Profiles]

Resting == [pc |-> "idle", job |-> 0, verdict |-> "NONE", epoch |-> 0, seen |-> {}]

Put(j, row) == jobs' = [jobs EXCEPT ![j] = row]

Go(w, state) == worker' = [worker EXCEPT ![w] = state]

Unleased(row) == [row EXCEPT !.lease_owner = NoRunner, !.lapsed = FALSE]

Init ==
    /\ jobs = [j \in Jobs |-> NoRow]
    /\ offer \in [Runners -> Offers]
    /\ worker = [w \in Workers |-> Resting]
    /\ cancelling = {}
    /\ budget = [registrations |-> 0, crashes |-> 0, lapses |-> 0]

-----------------------------------------------------------------------------
(* Clients of the queue.                                                   *)

(* submit: a new row, QUEUED, available at once or after a delay.          *)
Submitted(p, m, delay) ==
    [NoRow EXCEPT !.status = "QUEUED", !.needs = p, !.max_attempts = m, !.available = (delay = 0)]

Submit(j) ==
    /\ jobs[j].status = "ABSENT"
    /\ \A i \in 1..(j - 1) : jobs[i].status # "ABSENT"
    /\ \E p \in Profiles, m \in 1..MaxAttempts, delay \in {0, 1} :
          Put(j, Submitted(p, m, delay))
    /\ UNCHANGED <<offer, worker, cancelling, budget>>

(* register_runner, or a heartbeat that carries metadata.                  *)
Register(r) ==
    /\ budget.registrations < MaxRegistrations
    /\ budget' = [budget EXCEPT !.registrations = @ + 1]
    /\ \E o \in Offers : offer' = [offer EXCEPT ![r] = o]
    /\ UNCHANGED <<jobs, worker, cancelling>>

(* cancel reads the status and returns the job untouched when it is over.  *)
CancelRead(j) ==
    /\ jobs[j].status \notin {"ABSENT", "SUCCESS", "FAIL", "CANCELLED"}
    /\ j \notin cancelling
    /\ cancelling' = cancelling \cup {j}
    /\ UNCHANGED <<jobs, offer, worker, budget>>

(* Its UPDATE names the job only: whatever the row holds now is cancelled. *)
Cancelled(row) == [Unleased(row) EXCEPT !.status = "CANCELLED"]

CancelWrite(j) ==
    /\ j \in cancelling
    /\ cancelling' = cancelling \ {j}
    /\ Put(j, Cancelled(jobs[j]))
    /\ UNCHANGED <<offer, worker, budget>>

-----------------------------------------------------------------------------
(* One run_once.                                                           *)

(* Variants: a recovery that forgets the attempts made, and one that asks  *)
(* for attempts left as complete does.                                     *)
RecoveredAfresh(row) ==
    IF row.status = "RUNNING" /\ row.lapsed
    THEN [Unleased(row) EXCEPT !.status = "QUEUED", !.expiries = @ + 1, !.attempts = 0]
    ELSE row

RecoveredWithinBudget(row) ==
    IF row.status = "RUNNING" /\ row.lapsed /\ row.attempts < row.max_attempts
    THEN [Unleased(row) EXCEPT !.status = "QUEUED", !.expiries = @ + 1]
    ELSE row

(* recover_expired_leases: every lapsed RUNNING job is QUEUED again, with  *)
(* no look at attempts.                                                    *)
Recovered(row) ==
    IF row.status = "RUNNING" /\ row.lapsed
    THEN [Unleased(row) EXCEPT !.status = "QUEUED", !.expiries = @ + 1]
    ELSE row

(* heartbeat, then lease reads the registration and recovers leases.       *)
Poll(w) ==
    /\ worker[w].pc = "idle"
    /\ jobs' = [j \in Jobs |-> Recovered(jobs[j])]
    /\ Go(w, [Resting EXCEPT !.pc = "select", !.seen = offer[IdOf[w]]])
    /\ UNCHANGED <<offer, cancelling, budget>>

(* The jobs lease may select: queued, available, compatible.               *)
Ready(w) == {j \in Jobs : /\ jobs[j].status = "QUEUED"
                          /\ jobs[j].available
                          /\ jobs[j].needs \in worker[w].seen}

Select(w) ==
    /\ worker[w].pc = "select"
    /\ \E j \in Ready(w) :
          /\ \A i \in Ready(w) : j <= i
          /\ Go(w, [worker[w] EXCEPT !.pc = "claim", !.job = j])
    /\ UNCHANGED <<jobs, offer, cancelling, budget>>

(* Nothing to lease: run_once reports IDLE or BLOCKED_ISOLATION.           *)
FindNothing(w) ==
    /\ worker[w].pc = "select"
    /\ Ready(w) = {}
    /\ Go(w, Resting)
    /\ UNCHANGED <<jobs, offer, cancelling, budget>>

(* Variants: UPDATE ... WHERE job_id = ?, and one that excludes RUNNING.   *)
ClaimableAlways(row) == row.status # "ABSENT"

ClaimableUnlessRunning(row) == row.status # "RUNNING"

(* UPDATE ... WHERE job_id = ? AND status = 'QUEUED'.                      *)
Claimable(row) == row.status = "QUEUED"

Leased(row, r) == [row EXCEPT !.status = "RUNNING", !.lease_owner = r,
                              !.lapsed = FALSE, !.attempts = @ + 1]

Claim(w) ==
    LET j == worker[w].job IN
    /\ worker[w].pc = "claim"
    /\ Claimable(jobs[j])
    /\ Put(j, Leased(jobs[j], IdOf[w]))
    /\ Go(w, [worker[w] EXCEPT !.pc = "invoke", !.epoch = jobs[j].attempts + 1, !.seen = {}])
    /\ UNCHANGED <<offer, cancelling, budget>>

(* rowcount is 0: another worker was faster.                               *)
LoseClaim(w) ==
    /\ worker[w].pc = "claim"
    /\ ~Claimable(jobs[worker[w].job])
    /\ Go(w, Resting)
    /\ UNCHANGED <<jobs, offer, cancelling, budget>>

(* registry.invoke.  A tool that returns is completed inside the try       *)
(* block; one that raises, or that the registry refuses, is completed by   *)
(* an except branch.  A tool may raise a PermissionError of its own.       *)
Invoke(w) ==
    /\ worker[w].pc = "invoke"
    /\ \/ /\ jobs[worker[w].job].needs \notin Gated
          /\ \E v \in {"SUCCESS", "FAIL"} :
                Go(w, [worker[w] EXCEPT !.pc = "complete", !.verdict = v])
       \/ /\ jobs[worker[w].job].needs \notin Gated
          /\ \E v \in Verdicts \ {"SUCCESS"} :
                Go(w, [worker[w] EXCEPT !.pc = "complete_blocked", !.verdict = v])
       \/ /\ jobs[worker[w].job].needs \in Gated
          /\ Go(w, [worker[w] EXCEPT !.pc = "complete_blocked", !.verdict = "BLOCKED_APPROVAL"])
    /\ UNCHANGED <<jobs, offer, cancelling, budget>>

(* complete reads the row and asks whether this runner id holds the lease; *)
(* lease_until is not looked at.                                           *)
OwnsLease(w, row) == row.status = "RUNNING" /\ row.lease_owner = IdOf[w]

(* Variant: an off-by-one.                                                 *)
SettlementOneMore(verdict, row) ==
    IF verdict = "FAIL" /\ row.attempts <= row.max_attempts THEN "QUEUED" ELSE verdict

(* A FAIL with attempts left will be written as QUEUED.                    *)
Settlement(verdict, row) ==
    IF verdict = "FAIL" /\ row.attempts < row.max_attempts THEN "QUEUED" ELSE verdict

CompleteRead(w) ==
    LET row == jobs[worker[w].job] IN
    /\ worker[w].pc \in {"complete", "complete_blocked"}
    /\ OwnsLease(w, row)
    /\ Go(w, [worker[w] EXCEPT !.pc = "write", !.verdict = Settlement(@, row)])
    /\ UNCHANGED <<jobs, offer, cancelling, budget>>

(* PermissionError inside the try: run_once's own handler takes it for a   *)
(* refused tool and completes the job as BLOCKED_POLICY.                   *)
CompleteRefused(w) ==
    /\ worker[w].pc = "complete"
    /\ ~OwnsLease(w, jobs[worker[w].job])
    /\ Go(w, [worker[w] EXCEPT !.pc = "complete_blocked", !.verdict = "BLOCKED_POLICY"])
    /\ UNCHANGED <<jobs, offer, cancelling, budget>>

(* PermissionError inside an except branch: run_once raises.               *)
RaiseRefused(w) ==
    /\ worker[w].pc = "complete_blocked"
    /\ ~OwnsLease(w, jobs[worker[w].job])
    /\ Go(w, Resting)
    /\ UNCHANGED <<jobs, offer, cancelling, budget>>

(* UPDATE ... WHERE job_id = ?: no second look at owner or status.         *)
Written(row, status, epoch) ==
    [Unleased(row) EXCEPT
        !.status = status,
        !.available = (status # "QUEUED") /\ @,
        !.recorded = epoch,
        !.retried = IF status = "QUEUED" THEN @ \cup {epoch} ELSE @]

CompleteWrite(w) ==
    LET j == worker[w].job IN
    /\ worker[w].pc = "write"
    /\ Put(j, Written(jobs[j], worker[w].verdict, worker[w].epoch))
    /\ Go(w, Resting)
    /\ UNCHANGED <<offer, cancelling, budget>>

-----------------------------------------------------------------------------
(* The environment: crashes and the passing of time.                       *)

Crash(w) ==
    /\ worker[w] # Resting
    /\ budget.crashes < MaxCrashes
    /\ budget' = [budget EXCEPT !.crashes = @ + 1]
    /\ Go(w, Resting)
    /\ UNCHANGED <<jobs, offer, cancelling>>

(* available_at comes.                                                     *)
BecomeAvailable(j) ==
    /\ jobs[j].status = "QUEUED"
    /\ ~jobs[j].available
    /\ Put(j, [jobs[j] EXCEPT !.available = TRUE])
    /\ UNCHANGED <<offer, worker, cancelling, budget>>

Working(w, j) == worker[w].job = j /\ worker[w].epoch # 0

(* Some live worker still works under the current lease of j.              *)
Attended(j) == \E w \in Workers : Working(w, j) /\ worker[w].epoch = jobs[j].attempts

(* lease_until passes.  Nothing renews a lease, so it also passes under a  *)
(* worker whose tool takes longer than lease_seconds.                      *)
Lapse(j) ==
    /\ jobs[j].status = "RUNNING"
    /\ ~jobs[j].lapsed
    /\ Put(j, [jobs[j] EXCEPT !.lapsed = TRUE])
    /\ UNCHANGED <<offer, worker, cancelling>>

LapseAbandoned(j) == ~Attended(j) /\ Lapse(j) /\ UNCHANGED budget

LapseEarly(j) ==
    /\ Attended(j)
    /\ budget.lapses < MaxEarlyLapses
    /\ Lapse(j)
    /\ budget' = [budget EXCEPT !.lapses = @ + 1]

-----------------------------------------------------------------------------

RunOnce(w) ==
    \/ Poll(w) \/ Select(w) \/ FindNothing(w) \/ Claim(w) \/ LoseClaim(w) \/ Invoke(w)
    \/ CompleteRead(w) \/ CompleteRefused(w) \/ RaiseRefused(w) \/ CompleteWrite(w)

Next ==
    \/ \E j \in Jobs : \/ Submit(j) \/ CancelRead(j) \/ CancelWrite(j)
                       \/ BecomeAvailable(j) \/ LapseAbandoned(j) \/ LapseEarly(j)
    \/ \E r \in Runners : Register(r)
    \/ \E w \in Workers : RunOnce(w) \/ Crash(w)

Spec == Init /\ [][Next]_vars

(* The loop of run_hosted_runner.py polls for ever and its container is    *)
(* restarted; time passes.  Nothing obliges anyone to submit or to cancel. *)
Fairness ==
    /\ \A w \in Workers : WF_vars(RunOnce(w))
    /\ \A j \in Jobs : WF_vars(BecomeAvailable(j)) /\ WF_vars(LapseAbandoned(j))

LiveSpec == Spec /\ Fairness

-----------------------------------------------------------------------------
(* Properties.                                                             *)

TypeOK ==
    /\ jobs \in [Jobs -> Row]
    /\ offer \in [Runners -> Offers]
    /\ worker \in [Workers -> WorkerState]
    /\ cancelling \subseteq Jobs
    /\ budget \in [registrations : Nat, crashes : Nat, lapses : Nat]

(* The lease columns are set exactly while the job is RUNNING, whatever    *)
(* stale cancel or complete wrote the row last: a QUEUED or settled job    *)
(* with an owner would be unreachable or owned for ever.                   *)
LeaseIffRunning ==
    \A j \in Jobs : /\ jobs[j].status = "RUNNING" <=> jobs[j].lease_owner # NoRunner
                    /\ jobs[j].lapsed => jobs[j].status = "RUNNING"

(* The conditional UPDATE of lease hands every attempt of a job to one     *)
(* worker: two run_once calls in the same job hold different attempts.     *)
AttemptsAreExclusive ==
    \A j \in Jobs, v, w \in Workers :
        (v # w /\ Working(v, j) /\ Working(w, j)) => worker[v].epoch # worker[w].epoch

Executing(w, j) == Working(w, j) /\ worker[w].pc = "invoke"

(* Until some lease of the job has been recovered no two workers run its   *)
(* tool at once, whatever cancels, retries and stale writes happen.        *)
ExclusiveUntilExpiry ==
    \A j \in Jobs, v, w \in Workers :
        (v # w /\ Executing(v, j) /\ Executing(w, j)) => jobs[j].expiries > 0

(* The outcome a settled job shows is that of its latest attempt, unless a *)
(* lease of it was recovered while an earlier attempt was still running.   *)
OutcomeIsLatestUntilExpiry ==
    \A j \in Jobs :
        (jobs[j].status \in Verdicts /\ jobs[j].expiries = 0) => jobs[j].recorded = jobs[j].attempts

(* Failures alone never use more than max_attempts attempts: every attempt *)
(* beyond it is owed to a recovered lease, stale completions included.     *)
RetryBudget ==
    \A j \in Jobs : jobs[j].attempts <= jobs[j].max_attempts + jobs[j].expiries

(* A settled outcome is replaced by nothing but a cancellation that had    *)
(* already read the status, unless a lease of the job was recovered.       *)
OutcomeIsFinalUntilExpiry ==
    [][\A j \in Jobs :
          (jobs[j].status \in Verdicts /\ jobs[j].expiries = 0)
              => jobs'[j].status \in {jobs[j].status, "CANCELLED"}]_vars

(* The table and the workers' locals implement the ledger of attempts.     *)
Ledger == INSTANCE AttemptLedger WITH
    granted <- [j \in Jobs |-> jobs[j].attempts],
    held <- [w \in Workers |-> [job |-> IF worker[w].epoch = 0 THEN 0 ELSE worker[w].job,
                                attempt |-> worker[w].epoch]],
    shown <- [j \in Jobs |-> jobs[j].recorded]

(* Attempts are granted one by one to one worker each and reported at most *)
(* once by their holder: no expiry, crash or stale write breaks this.      *)
ImplementsLedger == Ledger!Spec

(* A cancelled job is not put back in the queue, where the next lease      *)
(* would take it (tests/test_hosted_runner.py,                             *)
(* test_hosted_runner_cancel_prevents_leasing).  The code breaks this: a   *)
(* complete that has read the row before the cancellation writes QUEUED.   *)
CancelPreventsLeasing ==
    [][\A j \in Jobs : jobs[j].status = "CANCELLED" => jobs'[j].status # "QUEUED"]_vars

(* Every job submitted is eventually settled, through failures, retries,   *)
(* crashes and lapsed leases, unless at some moment no worker's            *)
(* registration offers what it needs: the code leaves such a job QUEUED.   *)
Servable(j) == \E w \in Workers : jobs[j].needs \in offer[IdOf[w]]

EventuallySettled ==
    \A j \in Jobs :
        jobs[j].status = "QUEUED"
            ~> jobs[j].status \in Verdicts \cup {"CANCELLED"} \/ ~Servable(j)
=============================================================================
