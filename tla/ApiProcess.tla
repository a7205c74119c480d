------------------------------ MODULE ApiProcess ------------------------------
(***************************************************************************)
(* The API process: calls of the tool job_submit, which is mutating, come  *)
(* through the approval gate, and submit their job on the request thread   *)
(* that was cleared.  The call and its job have one name.  The process     *)
(* dies with its request threads and its pools at once; the rows of        *)
(* approvals and of background_jobs are in two databases.  Requests that   *)
(* list, show or cancel jobs come at any time: job_cancel is mutating and  *)
(* passes the gate, too, under approvals of its own, which are left out.   *)
(***************************************************************************)
EXTENDS ApprovalGate, BackgroundJobs

ASSUME CallsAreJobs == Calls = Jobs

apiVars == <<gateVars, jobVars>>

ApiInit == GateInit /\ JobInit

(* The handler runs within the invocation of a cleared call.               *)
Handle(j) ==
    /\ gate[j] = "cleared"
    /\ FindEngine(j) \/ MakeEngine(j) \/ InsertRow(j) \/ Enqueue(j)
    /\ UNCHANGED gateVars

Answer(j) == EnterFuture(j) /\ Invoke(j)

HandlerRaises(j) == RequestFails(j) /\ InvokeRaises(j)

(* invoke_governed refuses the call (the mode of the actor, or the tool    *)
(* the job is to run), before the handler has done anything.               *)
Refuse(j) ==
    /\ handler[j] = "idle"
    /\ InvokeRaises(j)
    /\ UNCHANGED jobVars

ApiCrash == GateCrash /\ JobCrash

ApiStep(j) == Handle(j) \/ Answer(j)

ApiNext ==
    \/ GateStep /\ UNCHANGED jobVars
    \/ \E j \in Jobs : ApiStep(j) \/ HandlerRaises(j) \/ Refuse(j)
    \/ \E j \in Jobs : Background(j) /\ UNCHANGED gateVars
    \/ \E l \in Lookups : Lookup(l) /\ UNCHANGED gateVars
    \/ ApiCrash

ApiSpec == ApiInit /\ [][ApiNext]_apiVars
=============================================================================
