----------------------------- MODULE MCServices -----------------------------
(* Instances of nine services for TLC.  They share no state, so that it   *)
(* is enough to let one of them run at a time: focus, chosen at the start. *)
EXTENDS AcpAgent, AgentLoop, ApiProcess, Billing, DocumentIndex, MemoryStore, SessionTodos,
        WarehouseDiff, WorkspaceFiles, TLC

CONSTANTS j1, j2, l1, e1, e2, e3, p, q, A, B, w1, w2, t1, t2, k1, s1, s2, d1, d2, m1, m2, m3, null

(* Two subscriptions of one principal.                                     *)
PrincipalOf == s1 :> k1 @@ s2 :> k1

Mutation(op, path, dest, content) == [op |-> op, path |-> path, dest |-> dest, content |-> content]

(* Every operation: on the file p, or making the file q.                   *)
Mutations == {Mutation("write", p, "NONE", B), Mutation("patch", p, "NONE", B),
              Mutation("delete", p, "NONE", A), Mutation("move", p, q, A),
              Mutation("create", q, "NONE", A)}

OneFile == p :> A @@ q :> "MISSING"

(* No call, one, and one followed by a call of an unknown tool.            *)
Asks == {<<>>, <<"query">>, <<"query", "nothing">>}

(* Four keys; the last and the missing one are in one bucket.              *)
Prefixes == 1 :> <<0, 0>> @@ 2 :> <<0, 1>> @@ 4 :> <<1, 0>> @@ null :> <<1, 0>>

(* NULL is rendered like the string <NULL>, which is a value, and key 4.   *)
Hashes == {1, 2, 4} \X {"x", "y"}
RowDigest ==
    [r \in AllKeys \X Values |->
        <<IF r[1] = null THEN 4 ELSE r[1], IF r[2] = "v" THEN "y" ELSE "x">>]

(* Strings in the order of Python, and in one that takes the first of them *)
(* for the last and the others for equal.                                  *)
Orders == {1 :> 1 @@ 2 :> 2 @@ 4 :> 4, 1 :> 2 @@ 2 :> 1 @@ 4 :> 1}

RowBag(values) == [v \in Values |-> IF v \in values THEN 1 ELSE 0]

KeyedRows(one, two, four, none) ==
    1 :> RowBag(one) @@ 2 :> RowBag(two) @@ 4 :> RowBag(four) @@ null :> RowBag(none)

(* Up to five rows; one key twice, one changed, one missing in the target, *)
(* where its row may be without a key instead; and two tables that share   *)
(* no key.                                                                 *)
SomeTables ==
    {[source |-> KeyedRows({"NULL", "<NULL>"}, {"v"}, {"v"}, none),
      target |-> KeyedRows({"NULL"}, {"v"}, four, {"v"})] :
        four \in {{}, {"v"}}, none \in {{}, {"v"}}}
    \cup {[source |-> KeyedRows({}, {"v"}, {"v"}, {}), target |-> KeyedRows({"v"}, {}, {}, {})]}

(* Two sections.                                                           *)
SectionFiles == {<<"naming", "grain">>}

(* The same pages under other metadata, and a selection of them.           *)
VersionChunks == "all" :> {1, 2} @@ "tagged" :> {1, 2} @@ "some" :> {1}
VersionConfigs == "all" :> "plain" @@ "tagged" :> "tags" @@ "some" :> "pages"

VARIABLE focus

vars == <<acpVars, agentVars, apiVars, billingVars, indexVars, memoryVars, todoVars,
          diffVars, workspaceVars, focus>>

Init ==
    /\ AcpInit /\ AgentInit /\ ApiInit /\ BillingInit /\ IndexInit
    /\ MemoryInit /\ TodoInit /\ DiffInit /\ WorkspaceInit
    /\ focus \in {"acp", "agent", "api", "billing", "index", "memory", "todos", "diff",
                  "workspace"}
    /\ focus # "diff" =>
           table = (CHOOSE t \in Tables : TRUE) /\ strategy = "RANGE" /\ pushdown

(* Requests that list, show or cancel jobs, where the gate is checked,     *)
(* come to a process without a mishap.                                     *)
QuietLookups ==
    (\E l \in Lookups : handler[l] # "idle") =>
        gateCrashes + gateFaults + jobCrashes + jobFaults = 0

Next ==
    /\ UNCHANGED focus
    /\ \/ /\ focus = "acp" /\ AcpNext
          /\ UNCHANGED <<agentVars, apiVars, billingVars, indexVars, memoryVars,
                         todoVars, diffVars, workspaceVars>>
       \/ /\ focus = "agent" /\ AgentNext
          /\ UNCHANGED <<acpVars, apiVars, billingVars, indexVars, memoryVars,
                         todoVars, diffVars, workspaceVars>>
       \/ /\ focus = "api" /\ ApiNext /\ QuietLookups'
          /\ UNCHANGED <<acpVars, agentVars, billingVars, indexVars, memoryVars,
                         todoVars, diffVars, workspaceVars>>
       \/ /\ focus = "billing" /\ BillingNext
          /\ UNCHANGED <<acpVars, agentVars, apiVars, indexVars, memoryVars,
                         todoVars, diffVars, workspaceVars>>
       \/ /\ focus = "index" /\ IndexNext
          /\ UNCHANGED <<acpVars, agentVars, apiVars, billingVars, memoryVars,
                         todoVars, diffVars, workspaceVars>>
       \/ /\ focus = "memory" /\ MemoryNext
          /\ UNCHANGED <<acpVars, agentVars, apiVars, billingVars, indexVars,
                         todoVars, diffVars, workspaceVars>>
       \/ /\ focus = "todos" /\ TodoNext
          /\ UNCHANGED <<acpVars, agentVars, apiVars, billingVars, indexVars,
                         memoryVars, diffVars, workspaceVars>>
       \/ /\ focus = "diff" /\ DiffNext
          /\ UNCHANGED <<acpVars, agentVars, apiVars, billingVars, indexVars,
                         memoryVars, todoVars, workspaceVars>>
       \/ /\ focus = "workspace" /\ WorkspaceNext
          /\ UNCHANGED <<acpVars, agentVars, apiVars, billingVars, indexVars,
                         memoryVars, todoVars, diffVars>>

Spec == Init /\ [][Next]_vars
=============================================================================
