----------------------------- MODULE MCAgentTeams -----------------------------
(* Instances of AgentTeams for TLC.                                        *)
EXTENDS AgentTeams

CONSTANTS t1, t2, t3, m1, m2

Dependencies(pairs) == [t \in Tasks |-> {d \in Tasks : <<t, d>> \in pairs}]

(* One teammate has the first task, the other has the rest.                *)
Assignee == [t \in Tasks |-> IF t = t1 THEN m1 ELSE m2]

Ask(edges) == {[depends |-> Dependencies(pairs), assignee |-> Assignee] : pairs \in edges}

(* Every graph of three tasks up to renaming, and the three shapes of a    *)
(* cycle.                                                                  *)
Shapes ==
    Ask({{}, {<<t2, t1>>}, {<<t2, t1>>, <<t3, t1>>}, {<<t3, t1>>, <<t3, t2>>},
         {<<t2, t1>>, <<t3, t2>>}, {<<t2, t1>>, <<t3, t1>>, <<t3, t2>>},
         {<<t1, t1>>}, {<<t1, t2>>, <<t2, t1>>}, {<<t1, t3>>, <<t2, t1>>, <<t3, t2>>}})

(* A chain.                                                                *)
Chain == Ask({{<<t2, t1>>, <<t3, t2>>}})
=============================================================================
