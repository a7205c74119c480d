----------------------------- MODULE Automations -----------------------------
(***************************************************************************)
(* Scheduled automations: automations/scheduler.py over one SQLite table.  *)
(*                                                                         *)
(* A dispatcher is one caller of run_due or queue_due_hosted: the loop of  *)
(* run_automation_worker.py, or a tool call with a service of its own on   *)
(* the same file.  A sweep reads the due rows once and then, row by row,   *)
(* runs (or submits) the tool and writes the row: everyone else runs in    *)
(* between, and the write looks at nothing but the row's id.               *)
(*                                                                         *)
(* One tick of the clock is the second that create and set_enabled take    *)
(* off the time; no period is that short.  An automation's number is its   *)
(* place in the order of ids.                                              *)
(***************************************************************************)
EXTENDS Integers, FiniteSets

CONSTANTS
    NumAutomations, \* bound: automations ever created
    Schedule,       \* the schedule of each: type, period, at
    Backend,        \* "local" or "hosted"
    Guarded,        \* automations whose tool needs approval
    Broken,         \* automations whose tool name the registry does not know
    Dispatchers,
    Workers,        \* the dispatchers that are worker loops
    Limit,          \* the limit of a sweep
    Horizon,        \* bound: the last tick
    MaxRequests,    \* bound: enable, disable, approve, revoke and delete requests
    MaxCrashes      \* bound: dispatchers that die in a sweep

Automations == 1..NumAutomations

ASSUME SchedulesAssumption ==
    /\ NumAutomations \in Nat
    /\ Schedule \in [Automations -> [type : {"interval", "clock", "once"},
                                     period : Nat \ {0, 1}, at : Nat]]
    /\ Backend \in [Automations -> {"local", "hosted"}]
    /\ Guarded \subseteq Automations
    /\ Broken \subseteq Automations

ASSUME DispatchAssumption ==
    /\ Workers \subseteq Dispatchers
    /\ Limit \in Nat \ {0}
    /\ Horizon \in Nat
    /\ MaxRequests \in Nat
    /\ MaxCrashes \in Nat

VARIABLES
    now,
    row,    \* automations
    sweep,  \* the local state of each dispatcher
    past,   \* history of each automation, for the properties
    budget  \* how much of each bound has been used

vars == <<now, row, sweep, past, budget>>

-----------------------------------------------------------------------------

Never == -1

(* A row of automations; next and last are next_run_at and last_run_at.    *)
Row == [present : BOOLEAN, enabled : BOOLEAN, approved : BOOLEAN,
        next : Nat \cup {Never}, last : Nat \cup {Never}, runs : Nat]

NoRow == [present |-> FALSE, enabled |-> FALSE, approved |-> FALSE,
          next |-> Never, last |-> Never, runs |-> 0]

(* What a sweep read of a due row.                                         *)
Item == [id : Automations, approved : BOOLEAN, next : Nat]

Sweep == [step : {"rest", "invoke", "advance"}, current : Nat, batch : SUBSET Item]

Resting == [step |-> "rest", current |-> 0, batch |-> {}]

(* Whether it was ever created; how often it was dispatched, how often     *)
(* with authority to act, and how many dispatches a crash left unrecorded; *)
(* whether two sweeps ever held it at once, it was enabled again, and it   *)
(* was disabled (or deleted) or revoked while no sweep held it.            *)
Past == [born : BOOLEAN, fired : Nat, acted : Nat, lost : Nat, overlapped : BOOLEAN,
         rearmed : BOOLEAN, stopped : BOOLEAN, revoked : BOOLEAN]

NoPast == [born |-> FALSE, fired |-> 0, acted |-> 0, lost |-> 0, overlapped |-> FALSE,
           rearmed |-> FALSE, stopped |-> FALSE, revoked |-> FALSE]

Init ==
    /\ now = 0
    /\ row = [a \in Automations |-> NoRow]
    /\ sweep = [d \in Dispatchers |-> Resting]
    /\ past = [a \in Automations |-> NoPast]
    /\ budget = [requests |-> 0, crashes |-> 0]

-----------------------------------------------------------------------------
(* next_run.                                                               *)

(* The first instant after t on the clock's grid: hourly, daily, cron.     *)
NextOnClock(s, t) == t + s.period - ((t - s.at) % s.period)

(* Variant: a one-shot whose time may be the instant it is asked about.    *)
NextRunInclusive(s, t) ==
    CASE s.type = "interval" -> t + s.period
      [] s.type = "clock" -> NextOnClock(s, t)
      [] s.type = "once" -> IF s.at >= t THEN s.at ELSE Never

NextRun(s, t) ==
    CASE s.type = "interval" -> t + s.period
      [] s.type = "clock" -> NextOnClock(s, t)
      [] s.type = "once" -> IF s.at > t THEN s.at ELSE Never

-----------------------------------------------------------------------------
(* Requests.                                                               *)

Held(a) == \E d \in Dispatchers : \E item \in sweep[d].batch : item.id = a

Created(a, enabled, approved) ==
    [NoRow EXCEPT !.present = TRUE, !.enabled = enabled, !.approved = approved,
                  !.next = IF enabled THEN NextRun(Schedule[a], now - 1) ELSE Never]

Create(a) ==
    /\ ~past[a].born
    /\ \E enabled, approved \in BOOLEAN :
          /\ row' = [row EXCEPT ![a] = Created(a, enabled, approved)]
          /\ past' = [past EXCEPT ![a].born = TRUE,
                                  ![a].stopped = ~enabled, ![a].revoked = ~approved]
    /\ UNCHANGED <<now, sweep, budget>>

(* Variant: a revocation that does not take.                               *)
WithApprovalKept(r, approved) == [r EXCEPT !.approved = @ \/ approved]

WithApproval(r, approved) == [r EXCEPT !.approved = approved]

Request == budget.requests < MaxRequests /\ budget' = [budget EXCEPT !.requests = @ + 1]

SetApproved(a) ==
    /\ Request
    /\ row[a].present
    /\ \E approved \in BOOLEAN :
          /\ row' = [row EXCEPT ![a] = WithApproval(@, approved)]
          /\ past' = [past EXCEPT ![a].revoked = ~approved /\ (@ \/ ~Held(a))]
    /\ UNCHANGED <<now, sweep>>

WithEnabled(a, r, enabled) ==
    [r EXCEPT !.enabled = enabled,
              !.next = IF enabled THEN NextRun(Schedule[a], now - 1) ELSE Never]

SetEnabled(a) ==
    /\ Request
    /\ row[a].present
    /\ \E enabled \in BOOLEAN :
          /\ row' = [row EXCEPT ![a] = WithEnabled(a, @, enabled)]
          /\ past' = [past EXCEPT ![a].stopped = ~enabled /\ (@ \/ ~Held(a)),
                                  ![a].rearmed = @ \/ enabled]
    /\ UNCHANGED <<now, sweep>>

Delete(a) ==
    /\ Request
    /\ row[a].present
    /\ row' = [row EXCEPT ![a] = NoRow]
    /\ past' = [past EXCEPT ![a].stopped = @ \/ ~Held(a)]
    /\ UNCHANGED <<now, sweep>>

-----------------------------------------------------------------------------
(* One sweep.                                                              *)

(* Variant: a strict comparison.                                           *)
IsDueStrictly(r) == r.enabled /\ r.next # Never /\ r.next < now

IsDue(r) == r.enabled /\ r.next # Never /\ r.next <= now

Due(backend) ==
    {[id |-> a, approved |-> row[a].approved, next |-> row[a].next] :
        a \in {b \in Automations : Backend[b] = backend /\ IsDue(row[b])}}

(* ORDER BY next_run_at, automation_id.                                    *)
Before(x, y) == x.next < y.next \/ (x.next = y.next /\ x.id < y.id)

First(batch) == CHOOSE x \in batch : \A y \in batch \ {x} : Before(x, y)

(* The first Limit rows, in that order.                                    *)
Batches(due) ==
    {batch \in SUBSET due :
        /\ Cardinality(batch) <= Limit
        /\ batch # due => Cardinality(batch) = Limit
        /\ \A x \in batch, y \in due \ batch : Before(x, y)}

BeginSweep(d, backend) ==
    /\ sweep[d] = Resting
    /\ Due(backend) # {}
    /\ \E batch \in Batches(Due(backend)) :
          /\ sweep' = [sweep EXCEPT ![d] = [step |-> "invoke", current |-> now, batch |-> batch]]
          /\ past' = [a \in Automations |->
                        [past[a] EXCEPT !.overlapped =
                            @ \/ (Held(a) /\ \E item \in batch : item.id = a)]]
    /\ UNCHANGED <<now, row, budget>>

Resolves(a) == Backend[a] = "hosted" \/ a \notin Broken

(* The registry lets the invocation through, or the hosted job carries the *)
(* approval: as the sweep read it.                                         *)
Permitted(item) == item.approved \/ item.id \notin Guarded

(* registry.invoke or hosted.submit, whose failures are caught.            *)
Dispatch(d) ==
    LET item == First(sweep[d].batch) IN
    /\ sweep[d].step = "invoke"
    /\ Resolves(item.id)
    /\ sweep' = [sweep EXCEPT ![d].step = "advance"]
    /\ past' = [past EXCEPT ![item.id].fired = @ + 1,
                            ![item.id].acted = @ + (IF Permitted(item) THEN 1 ELSE 0)]
    /\ UNCHANGED <<now, row, budget>>

(* registry.describe stands before the try: run_due raises and the rest of *)
(* the batch is dropped.                                                   *)
Abort(d) ==
    /\ sweep[d].step = "invoke"
    /\ ~Resolves(First(sweep[d].batch).id)
    /\ sweep' = [sweep EXCEPT ![d] = Resting]
    /\ UNCHANGED <<now, row, past, budget>>

(* Variant: next_run_at counted from the time the row was due.             *)
AdvancedCatchingUp(a, r, current) ==
    LET next == NextRun(Schedule[a], IF r.next = Never THEN current ELSE r.next) IN
    [r EXCEPT !.last = current, !.next = next, !.runs = @ + 1,
              !.enabled = ~(Schedule[a].type = "once" /\ next = Never)]

(* The UPDATE: whatever the row says now, it is scheduled from the sweep's *)
(* own time and enabled, but for a one-shot whose time has passed.         *)
Advanced(a, r, current) ==
    LET next == NextRun(Schedule[a], current) IN
    [r EXCEPT !.last = current, !.next = next, !.runs = @ + 1,
              !.enabled = ~(Schedule[a].type = "once" /\ next = Never)]

(* WHERE automation_id = ? finds no row that was deleted.                  *)
Matched(r) == r.present

Advance(d) ==
    LET item == First(sweep[d].batch)
        a == item.id
        left == sweep[d].batch \ {item}
    IN
    /\ sweep[d].step = "advance"
    /\ row' = [row EXCEPT ![a] = IF Matched(@) THEN Advanced(a, @, sweep[d].current) ELSE @]
    /\ sweep' = [sweep EXCEPT ![d] = IF left = {} THEN Resting
                                     ELSE [@ EXCEPT !.step = "invoke", !.batch = left]]
    /\ UNCHANGED <<now, past, budget>>

(* The process dies, or the UPDATE raises (a locked database).             *)
Crash(d) ==
    /\ sweep[d] # Resting
    /\ budget.crashes < MaxCrashes
    /\ budget' = [budget EXCEPT !.crashes = @ + 1]
    /\ sweep' = [sweep EXCEPT ![d] = Resting]
    /\ past' = IF sweep[d].step = "advance"
               THEN [past EXCEPT ![First(sweep[d].batch).id].lost = @ + 1]
               ELSE past
    /\ UNCHANGED <<now, row>>

Tick ==
    /\ now < Horizon
    /\ now' = now + 1
    /\ UNCHANGED <<row, sweep, past, budget>>

-----------------------------------------------------------------------------

Continue(d) == Dispatch(d) \/ Abort(d) \/ Advance(d)

Next ==
    \/ \E a \in Automations : Create(a) \/ SetApproved(a) \/ SetEnabled(a) \/ Delete(a)
    \/ \E d \in Dispatchers : \/ \E backend \in {"local", "hosted"} : BeginSweep(d, backend)
                              \/ Continue(d) \/ Crash(d)
    \/ Tick

Spec == Init /\ [][Next]_vars

(* A worker polls for ever (and is started again if it dies); a sweep once *)
(* begun runs on; the clock runs.                                          *)
LiveSpec ==
    /\ Spec
    /\ WF_vars(Tick)
    /\ \A d \in Workers : WF_vars(BeginSweep(d, "local"))
    /\ \A d \in Dispatchers : WF_vars(Continue(d))

-----------------------------------------------------------------------------
(* Properties.                                                             *)

TypeOK ==
    /\ now \in 0..Horizon
    /\ row \in [Automations -> Row]
    /\ \A a \in Automations : row[a].present \/ row[a] = NoRow
    /\ sweep \in [Dispatchers -> Sweep]
    /\ past \in [Automations -> Past]
    /\ budget \in [requests : 0..MaxRequests, crashes : 0..MaxCrashes]

(* A one-shot is dispatched at most once, however late the sweep and       *)
(* whatever is requested meanwhile, unless two sweeps held it at once, a   *)
(* crash left its dispatch unrecorded, or it was enabled again.            *)
OneShotOnce ==
    \A a \in Automations :
        (Schedule[a].type = "once" /\ past[a].fired > 1)
            => past[a].overlapped \/ past[a].lost > 0 \/ past[a].rearmed

(* The recorded runs of an interval automation are a period apart (a tick  *)
(* less once it was enabled again), however late sweeps are, unless two    *)
(* sweeps held it at once: the slower one then moves next_run_at back.     *)
IntervalSpacing ==
    [][\A a \in Automations :
          (/\ Schedule[a].type = "interval"
           /\ row[a].last # Never
           /\ row'[a].runs = row[a].runs + 1
           /\ ~past[a].overlapped)
              => row'[a].last - row[a].last
                    >= Schedule[a].period - (IF past[a].rearmed THEN 1 ELSE 0)]_vars

(* What is disabled, deleted or revoked while no sweep holds it stays      *)
(* quiet: no dispatch after the one, no dispatch with authority after the  *)
(* other.  No sweep of anything else brings it back.                       *)
WithdrawnIsQuiet ==
    [][\A a \in Automations :
          /\ past[a].stopped => past'[a].fired = past[a].fired
          /\ (past[a].revoked /\ a \in Guarded) => past'[a].acted = past[a].acted]_vars

(* Run all due automations once (tools/builtin.py, automation_run_due):    *)
(* under a worker that polls for ever a due local automation is dispatched *)
(* or stops being due.  The code breaks it when the tool name of another   *)
(* automation does not resolve: every sweep then raises before its turn.   *)
Overdue(a) == Backend[a] = "local" /\ row[a].enabled /\ row[a].next \in 0..now

DueIsDispatched ==
    \A a \in Automations \ Broken, n \in {0, 1} :
        Overdue(a) /\ past[a].fired = n ~> past[a].fired > n \/ ~Overdue(a)

(* Enable or disable a persistent ADE automation (tools/builtin.py,        *)
(* automation_enable): only a request to enable makes a disabled one       *)
(* enabled.  The code breaks it: the write that ends a dispatch enables.   *)
DisabledStaysDisabled ==
    [][\A a \in Automations :
          (row[a].present /\ ~row[a].enabled /\ row'[a].enabled)
              => budget'.requests # budget.requests]_vars
=============================================================================
