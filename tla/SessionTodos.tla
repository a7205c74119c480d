----------------------------- MODULE SessionTodos -----------------------------
(***************************************************************************)
(* The todos of a session: session/store.py, as the session_todo tools of  *)
(* tools/builtin.py call it.  Every call opens the database for itself;    *)
(* a call reads rows, decides, and writes one row, so that calls of the    *)
(* API, the CLI and an agent interleave between their statements.          *)
(*                                                                         *)
(* Texts, positions, progress and evidence are left out: a call that asks  *)
(* for DONE brings evidence.  BLOCKED is treated like IN_PROGRESS.         *)
(***************************************************************************)
EXTENDS Naturals, FiniteSets

CONSTANTS
    Todos,
    TodoCalls,
    MaxTodoCalls, \* bound: calls ever begun
    MaxPlanSteps  \* bound: the steps of a plan

ASSUME TodoBoundsAssumption == MaxTodoCalls \in Nat /\ MaxPlanSteps \in Nat \ {0}

VARIABLES
    todo,      \* session_todos
    todoCall,  \* where each call stands, and what it holds
    begun,     \* how many calls were begun
    vouched,   \* history: todos a caller verified since they were last reopened
    outdated,  \* history: todos overwritten by a call that had read an older row
    regressed, \* history: todos that were DONE and are, or were, not any more
    rewired,   \* history: todos whose dependencies were set after they were added
    crossed    \* history: todos removed while a call was making another depend on them

todoVars == <<todo, todoCall, begun, vouched, outdated, regressed, rewired, crossed>>

todoHistory == <<vouched, outdated, regressed, rewired, crossed>>

-----------------------------------------------------------------------------

TodoStatuses == {"OPEN", "IN_PROGRESS", "DONE"}

TodoRows == [status : TodoStatuses, verified : BOOLEAN, dependencies : SUBSET Todos]

Absent == [status |-> "NEW", verified |-> FALSE, dependencies |-> {}]
Removed == [Absent EXCEPT !.status = "REMOVED"]

Idle == [at |-> "idle"]

TodoCallStates ==
    {Idle}
    \cup [at : {"update"}, todo : Todos, status : TodoStatuses, seen : TodoRows,
          verified : BOOLEAN, says : {"vouch", "withdraw", "keep"}, unread : SUBSET Todos]
    \cup [at : {"add", "between"}, dependencies : SUBSET Todos, steps : 1..MaxPlanSteps]
    \cup [at : {"rewire"}, todo : Todos, dependencies : SUBSET Todos, unread : SUBSET Todos]
    \cup [at : {"remove"}, todo : Todos]

There == {t \in Todos : todo[t].status \in TodoStatuses}

DependentsOf(t) == {u \in There : t \in todo[u].dependencies}

Finished(t) == todo[t].status = "DONE" /\ todo[t].verified

TodoInit ==
    /\ todo = [t \in Todos |-> Absent]
    /\ todoCall = [c \in TodoCalls |-> Idle]
    /\ begun = 0
    /\ vouched = {} /\ outdated = {} /\ regressed = {} /\ rewired = {} /\ crossed = {}

Begin(c, call) ==
    /\ todoCall[c] = Idle
    /\ begun < MaxTodoCalls
    /\ begun' = begun + 1
    /\ todoCall' = [todoCall EXCEPT ![c] = call]

(* A call is answered, or raises.                                          *)
End(c) == todoCall' = [todoCall EXCEPT ![c] = Idle] /\ UNCHANGED begun

(* Todos that calls underway will make others depend on, or will remove.   *)
Wanted ==
    UNION {todoCall[c].dependencies :
               c \in {d \in TodoCalls : todoCall[d].at \in {"add", "between", "rewire"}}}

Leaving == {todoCall[c].todo : c \in {d \in TodoCalls : todoCall[d].at = "remove"}}

-----------------------------------------------------------------------------
(* update_todo, complete_todo and reopen_todo.                             *)

(* Alone, as a variant: only a call that says so withdraws the verification*)
KeptVerified(status, verified, row) ==
    CASE verified = "keep" -> row.verified
      [] verified = "yes"  -> TRUE
      [] verified = "no"   -> FALSE

(* next_verified, for what the call says of it.                            *)
NextVerified(status, verified, row) ==
    IF status = "OPEN" THEN FALSE ELSE KeptVerified(status, verified, row)

Says(status, verified) ==
    CASE status = "OPEN" \/ verified = "no"     -> "withdraw"
      [] status # "OPEN" /\ verified = "keep" -> "keep"
      [] status # "OPEN" /\ verified = "yes"  -> "vouch"

(* The row is read; DONE without verification is refused here.             *)
BeginUpdate(c) ==
    \E t \in There, status \in TodoStatuses, verified \in {"keep", "yes", "no"} :
        LET next == NextVerified(status, verified, todo[t])
        IN  /\ status = "DONE" => next
            /\ Begin(c, [at |-> "update", todo |-> t, status |-> status, seen |-> todo[t],
                         verified |-> next, says |-> Says(status, verified),
                         unread |-> IF status = "DONE" THEN todo[t].dependencies ELSE {}])
            /\ UNCHANGED <<todo, todoHistory>>

(* Variant: a dependency counts as soon as it is verified.                 *)
AcceptVerified(c) ==
    /\ todoCall[c].at = "update"
    /\ \E d \in todoCall[c].unread :
          /\ todo[d].verified
          /\ todoCall' = [todoCall EXCEPT ![c].unread = @ \ {d}]
    /\ UNCHANGED <<todo, begun, todoHistory>>

(* _dependencies_complete reads one dependency after the other.            *)
AcceptDependency(c) ==
    /\ todoCall[c].at = "update"
    /\ \E d \in todoCall[c].unread :
          /\ Finished(d)
          /\ todoCall' = [todoCall EXCEPT ![c].unread = @ \ {d}]
    /\ UNCHANGED <<todo, begun, todoHistory>>

RefuseDependency(c) ==
    /\ todoCall[c].at = "update"
    /\ \E d \in todoCall[c].unread : ~Finished(d)
    /\ End(c)
    /\ UNCHANGED <<todo, todoHistory>>

(* The UPDATE, of a row that may be gone.                                  *)
WriteTodo(c) ==
    LET call == todoCall[c]
        t == call.todo
    IN  /\ call.at = "update"
        /\ call.unread = {}
        /\ End(c)
        /\ \/ /\ t \notin There
              /\ UNCHANGED <<todo, todoHistory>>
           \/ /\ t \in There
              /\ todo' = [todo EXCEPT ![t].status = call.status, ![t].verified = call.verified]
              /\ vouched' = CASE call.says = "vouch"    -> vouched \cup {t}
                              [] call.says = "keep"     -> vouched
                              [] call.says = "withdraw" -> vouched \ {t}
              /\ outdated' = IF call.seen = todo[t] THEN outdated ELSE outdated \cup {t}
              /\ regressed' = IF todo[t].status = "DONE" /\ call.status # "DONE"
                              THEN regressed \cup {t} ELSE regressed
              /\ UNCHANGED <<rewired, crossed>>

-----------------------------------------------------------------------------
(* add_todo, and todos_from_plan, which calls it for one step after the    *)
(* other, each depending on the one before.                                *)

BeginAdd(c) ==
    /\ \E dependencies \in SUBSET There, steps \in 1..MaxPlanSteps :
          /\ steps > 1 => dependencies = {}
          /\ Begin(c, [at |-> "add", dependencies |-> dependencies, steps |-> steps])
    /\ UNCHANGED <<todo, todoHistory>>

Insert(c) ==
    LET call == todoCall[c]
    IN  /\ call.at = "add"
        /\ \E t \in Todos :
              /\ todo[t] = Absent
              /\ todo' = [todo EXCEPT ![t] = [status |-> "OPEN", verified |-> FALSE,
                                              dependencies |-> call.dependencies]]
              /\ \/ call.steps = 1 /\ End(c)
                 \/ /\ call.steps > 1
                    /\ todoCall' = [todoCall EXCEPT ![c] = [at |-> "between", dependencies |-> {t},
                                                            steps |-> call.steps - 1]]
                    /\ UNCHANGED begun
        /\ crossed' = crossed \cup (call.dependencies \cap Leaving)
        /\ UNCHANGED <<vouched, outdated, regressed, rewired>>

(* The step before has to be there for the next.                           *)
NextStep(c) ==
    /\ todoCall[c].at = "between"
    /\ \/ /\ todoCall[c].dependencies \subseteq There
          /\ todoCall' = [todoCall EXCEPT ![c].at = "add"]
          /\ UNCHANGED begun
       \/ ~(todoCall[c].dependencies \subseteq There) /\ End(c)
    /\ UNCHANGED <<todo, todoHistory>>

-----------------------------------------------------------------------------
(* set_todo_dependencies: each dependency is looked up, then the row is    *)
(* written.                                                                *)

BeginRewire(c) ==
    /\ \E t \in There, dependencies \in SUBSET Todos :
          /\ t \notin dependencies
          /\ Begin(c, [at |-> "rewire", todo |-> t, dependencies |-> dependencies,
                       unread |-> dependencies])
    /\ UNCHANGED <<todo, todoHistory>>

FindDependency(c) ==
    /\ todoCall[c].at = "rewire"
    /\ \E d \in todoCall[c].unread :
          \/ /\ d \in There
             /\ todoCall' = [todoCall EXCEPT ![c].unread = @ \ {d}]
             /\ UNCHANGED begun
          \/ d \notin There /\ End(c)
    /\ UNCHANGED <<todo, todoHistory>>

WriteDependencies(c) ==
    LET t == todoCall[c].todo
    IN  /\ todoCall[c].at = "rewire"
        /\ todoCall[c].unread = {}
        /\ End(c)
        /\ \/ t \notin There /\ UNCHANGED <<todo, rewired, crossed>>
           \/ /\ t \in There
              /\ todo' = [todo EXCEPT ![t].dependencies = todoCall[c].dependencies]
              /\ rewired' = rewired \cup {t}
              /\ crossed' = crossed \cup (todoCall[c].dependencies \cap Leaving)
        /\ UNCHANGED <<vouched, outdated, regressed>>

-----------------------------------------------------------------------------
(* remove_todo.                                                            *)

(* Variant: only a dependent that was begun stands in the way.             *)
BeginRemoveUnneeded(c) ==
    /\ \E t \in There :
          /\ \A u \in DependentsOf(t) \ {t} : todo[u].status = "OPEN"
          /\ Begin(c, [at |-> "remove", todo |-> t])
    /\ UNCHANGED <<todo, todoHistory>>

BeginRemove(c) ==
    /\ \E t \in There :
          /\ DependentsOf(t) \ {t} = {}
          /\ Begin(c, [at |-> "remove", todo |-> t])
    /\ UNCHANGED <<todo, todoHistory>>

Delete(c) ==
    LET t == todoCall[c].todo
    IN  /\ todoCall[c].at = "remove"
        /\ End(c)
        /\ todo' = [todo EXCEPT ![t] = Removed]
        /\ crossed' = crossed \cup ({t} \cap Wanted)
        /\ UNCHANGED <<vouched, outdated, regressed, rewired>>

-----------------------------------------------------------------------------

TodoNext ==
    \E c \in TodoCalls :
        \/ BeginUpdate(c) \/ AcceptDependency(c) \/ RefuseDependency(c) \/ WriteTodo(c)
        \/ BeginAdd(c) \/ Insert(c) \/ NextStep(c)
        \/ BeginRewire(c) \/ FindDependency(c) \/ WriteDependencies(c)
        \/ BeginRemove(c) \/ Delete(c)

TodoSpec == TodoInit /\ [][TodoNext]_todoVars

-----------------------------------------------------------------------------

TodoTypeOK ==
    /\ todo \in [Todos -> TodoRows \cup {Absent, Removed}]
    /\ todoCall \in [TodoCalls -> TodoCallStates]
    /\ begun \in 0..MaxTodoCalls
    /\ \A history \in {vouched, outdated, regressed, rewired, crossed} : history \subseteq Todos

(* A row that says verified was verified by a caller after it was last     *)
(* reopened, unless a call wrote it over another's: update_todo writes the *)
(* flag it has read, so that a note of progress undoes a reopening.        *)
VerifiedByCaller ==
    \A t \in There \ outdated : todo[t].verified => t \in vouched

(* What a DONE todo depends on is DONE and verified, unless it was reopened*)
(* or the dependencies were set later: _dependencies_complete reads them   *)
(* one by one, before the row is written, and no call looks at dependents. *)
DoneRestsOnDone ==
    \A t \in There \ rewired :
        todo[t].status = "DONE" =>
            \A d \in (todo[t].dependencies \cap There) \ regressed : Finished(d)

ClosedUpstream(set) == \A t \in set \cap There : todo[t].dependencies \subseteq set

Upstream(t) ==
    {d \in Todos : \A set \in SUBSET Todos :
                      ClosedUpstream(set) /\ todo[t].dependencies \subseteq set => d \in set}

(* A todo can be completed in the end: nothing it depends on, directly or  *)
(* through others, was removed (remove_todo looks for dependents first) or *)
(* waits for itself, unless the removal ran beside a call that made the    *)
(* dependency, or set_todo_dependencies closed the cycle.                  *)
StuckForCause ==
    \A t \in There : \A d \in Upstream(t) :
        /\ d \notin There => d \in crossed
        /\ d \in Upstream(d) => rewired \cap Upstream(d) # {}
=============================================================================
