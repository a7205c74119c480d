----------------------------- MODULE ApprovalGate -----------------------------
(***************************************************************************)
(* The approval gate of POST /tools/{tool_name} in api/app.py, with        *)
(* authentication on: a mutating call names a persisted approval, which is *)
(* read and compared, the tool is invoked, and the approval is marked as   *)
(* used when the invocation has returned.  Each call has a request thread  *)
(* of its own, and a row of approvals is read and written by single        *)
(* statements.  A read-only tool passes without approval and a destructive *)
(* one never: neither is a call here.                                      *)
(***************************************************************************)
EXTENDS Naturals

CONSTANTS
    Calls,
    Approvals,      \* approval ids
    Scopes,         \* what an approval and a call have to agree on
    MaxInstant,     \* bound: the last instant of the clock
    MaxGateCrashes, \* bound: crashes of the process
    MaxGateFaults   \* bound: an UPDATE of approvals that fails

ASSUME ApprovalsAssumption == "NONE" \notin Approvals
ASSUME GateBoundsAssumption ==
    MaxInstant \in Nat /\ MaxGateCrashes \in Nat /\ MaxGateFaults \in Nat

VARIABLES
    approval, \* approvals: the row of each id
    instant,  \* now
    gate,     \* where the request thread of each call stands
    under,    \* the approval a call was cleared with
    overlaps, \* history: pairs of calls that were underway at once, under one approval
    gateCrashes, gateFaults \* bounds used so far

gateVars == <<approval, instant, gate, under, overlaps, gateCrashes, gateFaults>>

-----------------------------------------------------------------------------

(* The run, the tool and the environment are one scope; there is no row    *)
(* whose approved is false or whose action is not "execute".               *)
Rows == [scope : Scopes, expires : 0..MaxInstant, used : BOOLEAN]

NoRow == [scope |-> "NONE"]

GateStates == {"idle", "cleared", "ran", "done", "refused", "failed", "lost"}

GateInit ==
    /\ approval = [a \in Approvals |-> NoRow]
    /\ instant = 0
    /\ gate = [c \in Calls |-> "idle"]
    /\ under = [c \in Calls |-> "NONE"]
    /\ overlaps = {}
    /\ gateCrashes = 0
    /\ gateFaults = 0

-----------------------------------------------------------------------------

(* POST /approvals by an administrator; the id is new.                     *)
Approve(a) ==
    /\ approval[a] = NoRow
    /\ \E scope \in Scopes, expires \in instant + 1..MaxInstant :
          approval' = [approval EXCEPT ![a] =
                          [scope |-> scope, expires |-> expires, used |-> FALSE]]
    /\ UNCHANGED <<instant, gate, under, overlaps, gateCrashes, gateFaults>>

(* Variant: without the test of used_at.                                   *)
AuthorizesUsed(a, scope) ==
    /\ approval[a] # NoRow
    /\ approval[a].scope = scope
    /\ approval[a].expires > instant

Authorizes(a, scope) ==
    /\ approval[a] # NoRow
    /\ ~approval[a].used
    /\ approval[a].scope = scope
    /\ approval[a].expires > instant

Underway(a) == {c \in Calls : under[c] = a /\ gate[c] \in {"cleared", "ran"}}

(* _resolve_server_approval, for a payload with approval a.                *)
Resolve(c) ==
    /\ gate[c] = "idle"
    /\ \E a \in Approvals, scope \in Scopes :
          \/ /\ Authorizes(a, scope)
             /\ gate' = [gate EXCEPT ![c] = "cleared"]
             /\ under' = [under EXCEPT ![c] = a]
             /\ overlaps' = overlaps \cup {{c, d} : d \in Underway(a)}
          \/ /\ ~Authorizes(a, scope)
             /\ gate' = [gate EXCEPT ![c] = "refused"]
             /\ UNCHANGED <<under, overlaps>>
    /\ UNCHANGED <<approval, instant, gateCrashes, gateFaults>>

(* invoke_governed: the tool is called, or the call is refused by mode or  *)
(* policy, or the tool raises; only a return goes on to consume.           *)
Invoke(c) ==
    /\ gate[c] = "cleared"
    /\ gate' = [gate EXCEPT ![c] = "ran"]
    /\ UNCHANGED <<approval, instant, under, overlaps, gateCrashes, gateFaults>>

InvokeRaises(c) ==
    /\ gate[c] = "cleared"
    /\ gate' = [gate EXCEPT ![c] = "failed"]
    /\ UNCHANGED <<approval, instant, under, overlaps, gateCrashes, gateFaults>>

(* consume_approval: a row that is used already stays as it is.            *)
Consume(c) ==
    /\ gate[c] = "ran"
    /\ approval' = [approval EXCEPT ![under[c]].used = TRUE]
    /\ gate' = [gate EXCEPT ![c] = "done"]
    /\ UNCHANGED <<instant, under, overlaps, gateCrashes, gateFaults>>

ConsumeFails(c) ==
    /\ gate[c] = "ran"
    /\ gateFaults < MaxGateFaults
    /\ gateFaults' = gateFaults + 1
    /\ gate' = [gate EXCEPT ![c] = "lost"]
    /\ UNCHANGED <<approval, instant, under, overlaps, gateCrashes>>

Tick ==
    /\ instant < MaxInstant
    /\ instant' = instant + 1
    /\ UNCHANGED <<approval, gate, under, overlaps, gateCrashes, gateFaults>>

GateCrash ==
    /\ gateCrashes < MaxGateCrashes
    /\ gateCrashes' = gateCrashes + 1
    /\ gate' = [c \in Calls |-> IF gate[c] \in {"cleared", "ran"} THEN "lost" ELSE gate[c]]
    /\ UNCHANGED <<approval, instant, under, overlaps, gateFaults>>

(* All that goes on beside the invocations.                                *)
GateStep ==
    \/ \E a \in Approvals : Approve(a)
    \/ \E c \in Calls : Resolve(c) \/ Consume(c) \/ ConsumeFails(c)
    \/ Tick

GateNext ==
    GateStep \/ GateCrash \/ \E c \in Calls : Invoke(c) \/ InvokeRaises(c)

GateSpec == GateInit /\ [][GateNext]_gateVars

-----------------------------------------------------------------------------

GateTypeOK ==
    /\ approval \in [Approvals -> Rows \cup {NoRow}]
    /\ instant \in 0..MaxInstant
    /\ gate \in [Calls -> GateStates]
    /\ under \in [Calls -> Approvals \cup {"NONE"}]
    /\ overlaps \subseteq SUBSET Calls
    /\ gateCrashes \in 0..MaxGateCrashes
    /\ gateFaults \in 0..MaxGateFaults

(* Two calls under one approval, each answered after it was consumed, were *)
(* underway at once: the second was cleared before the first was done      *)
(* (api/app.py, _resolve_server_approval and _invoke_tool_payload).        *)
SingleUseUnlessOverlap ==
    \A c, d \in Calls :
        (/\ c # d
         /\ gate[c] = "done" /\ gate[d] = "done"
         /\ under[c] = under[d])
        => {c, d} \in overlaps
=============================================================================
