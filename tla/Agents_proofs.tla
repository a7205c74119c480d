--------------------------- MODULE Agents_proofs ----------------------------
(***************************************************************************)
(* What the agent runtime guarantees, for any number of turns, prompts,    *)
(* todos and calls: the conversation and the rows of tool calls of         *)
(* AgentRuntime.run, the cancellation flag of the editor's agent server,   *)
(* and the status and the verified flag of the todos.                      *)
(***************************************************************************)
EXTENDS AcpAgent, AgentLoop, SessionTodos, Integers, FiniteSetTheorems, TLAPS

-----------------------------------------------------------------------------
(***************************************************************************)
(* The shared cancellation flag of acp_server.py, for any number of        *)
(* prompts, chunks and cancellations.                                      *)
(***************************************************************************)

(* The prompts that were answered as cancelled.                            *)
AnsweredPrompts == {p \in Prompts : prompt[p] = "cancelled"}

(* A prompt that was there when a cancellation came, and from which none   *)
(* was taken, still has the flag before it, or is over without an answer.  *)
StruckPromptsStop ==
    \A p \in struck \ robbed :
        \/ prompt[p] \in {"cancelled", "raised"}
        \/ cancelled /\ prompt[p] \in InFlight /\ LooksAtFlag(p)

(* The inductive invariant of the flag.                                    *)
CancelInv == AcpTypeOK /\ StruckPromptsStop

-----------------------------------------------------------------------------

(* The types of acp_server.py's state are kept by every step.              *)
LEMMA AcpTypeStep == AcpTypeOK /\ [AcpNext]_acpVars => AcpTypeOK'
<1> SUFFICES ASSUME AcpTypeOK, [AcpNext]_acpVars PROVE AcpTypeOK'
    OBVIOUS
<1> USE DEF AcpTypeOK, PromptStates, InFlight
<1>1. CASE CancelSession
    BY <1>1, AcpBoundsAssumption DEF CancelSession
<1>2. ASSUME NEW p \in Prompts,
             PromptEmpty(p) \/ PromptBegin(p) \/ AnswerCancelled(p) \/ AnswerArrives(p)
             \/ SendNext(p) \/ EndTurn(p) \/ PromptRaises(p)
      PROVE AcpTypeOK'
    <2>1. CASE PromptEmpty(p)
        BY <2>1 DEF PromptEmpty, Now
    <2>2. CASE PromptBegin(p)
        BY <2>2 DEF PromptBegin, Now
    <2>3. CASE AnswerCancelled(p)
        BY <2>3 DEF AnswerCancelled, Now
    <2>4. CASE AnswerArrives(p)
        BY <2>4, AcpBoundsAssumption DEF AnswerArrives, Now
    <2>5. CASE SendNext(p)
        BY <2>5, AcpBoundsAssumption DEF SendNext
    <2>6. CASE EndTurn(p)
        BY <2>6 DEF EndTurn, Now
    <2>7. CASE PromptRaises(p)
        BY <2>7 DEF PromptRaises, Now
    <2> QED
        BY <1>2, <2>1, <2>2, <2>3, <2>4, <2>5, <2>6, <2>7
<1>3. CASE UNCHANGED acpVars
    BY <1>3 DEF acpVars
<1> QED
    BY <1>1, <1>2, <1>3 DEF AcpNext

(* The flag stays before a struck prompt until it, or another, takes it.   *)
LEMMA StruckStep == CancelInv /\ [AcpNext]_acpVars => StruckPromptsStop'
<1> SUFFICES ASSUME CancelInv, [AcpNext]_acpVars PROVE StruckPromptsStop'
    OBVIOUS
<1> USE DEF CancelInv, AcpTypeOK, StruckPromptsStop, InFlight, LooksAtFlag
<1>1. CASE CancelSession
    BY <1>1 DEF CancelSession
<1>2. ASSUME NEW p \in Prompts,
             PromptEmpty(p) \/ PromptBegin(p) \/ AnswerCancelled(p) \/ AnswerArrives(p)
             \/ SendNext(p) \/ EndTurn(p) \/ PromptRaises(p)
      PROVE StruckPromptsStop'
    <2>1. CASE PromptEmpty(p)
        BY <2>1 DEF PromptEmpty, Now
    <2>2. CASE PromptBegin(p)
        BY <2>2 DEF PromptBegin, Now
    <2>3. CASE AnswerCancelled(p)
        BY <2>3 DEF AnswerCancelled, Now
    <2>4. CASE AnswerArrives(p)
        BY <2>4 DEF AnswerArrives, Now
    <2>5. CASE SendNext(p)
        BY <2>5 DEF SendNext
    <2>6. CASE EndTurn(p)
        BY <2>6 DEF EndTurn, Now
    <2>7. CASE PromptRaises(p)
        BY <2>7 DEF PromptRaises, Now
    <2> QED
        BY <1>2, <2>1, <2>2, <2>3, <2>4, <2>5, <2>6, <2>7
<1>3. CASE UNCHANGED acpVars
    BY <1>3 DEF acpVars
<1> QED
    BY <1>1, <1>2, <1>3 DEF AcpNext

(* Types, and the flag before every struck prompt, in every state.         *)
THEOREM CancelInvariant == AcpSpec => []CancelInv
<1>1. AcpInit => CancelInv
    <2> SUFFICES ASSUME AcpInit PROVE CancelInv
        OBVIOUS
    <2>1. AcpTypeOK
        <3>1. cancelled \in BOOLEAN
            BY DEF AcpInit
        <3>2. prompt \in [Prompts -> PromptStates]
            BY DEF AcpInit, PromptStates
        <3>3. left \in [Prompts -> 0..MaxChunks] /\ cancels \in 0..MaxCancels
            BY AcpBoundsAssumption DEF AcpInit
        <3>4. struck \subseteq Prompts /\ robbed \subseteq Prompts
            BY DEF AcpInit
        <3> QED
            BY <3>1, <3>2, <3>3, <3>4 DEF AcpTypeOK
    <2>2. StruckPromptsStop
        BY DEF AcpInit, StruckPromptsStop
    <2> QED
        BY <2>1, <2>2 DEF CancelInv
<1>2. CancelInv /\ [AcpNext]_acpVars => CancelInv'
    BY AcpTypeStep, StruckStep DEF CancelInv
<1> QED
    BY <1>1, <1>2, PTL DEF AcpSpec

(* A cancellation that comes while a prompt thinks, or has a chunk to send,*)
(* stops it, unless it raises or another prompt takes the flag             *)
(* (acp_server.py, prompt and cancel).                                     *)
THEOREM StruckPromptsAreStopped == AcpSpec => []CancelStopsPrompt
<1>1. CancelInv => CancelStopsPrompt
    BY DEF CancelInv, StruckPromptsStop, CancelStopsPrompt, InFlight
<1> QED
    BY <1>1, CancelInvariant, PTL

-----------------------------------------------------------------------------

(* Only AnswerCancelled makes a prompt cancelled, and at the cost of the   *)
(* flag.                                                                   *)
LEMMA AnsweredStep ==
    ASSUME AcpTypeOK, AcpNext
    PROVE  \/ AnsweredPrompts' = AnsweredPrompts /\ cancels' = cancels /\ cancelled' = cancelled
           \/ AnsweredPrompts' = AnsweredPrompts /\ cancels' = cancels + 1 /\ cancelled' = TRUE
           \/ /\ cancelled /\ ~cancelled' /\ cancels' = cancels
              /\ \E p \in Prompts : AnsweredPrompts' = AnsweredPrompts \cup {p}
<1> USE DEF AcpTypeOK, AnsweredPrompts, InFlight
<1>1. CASE CancelSession
    BY <1>1 DEF CancelSession
<1>2. ASSUME NEW p \in Prompts, AnswerCancelled(p)
      PROVE  /\ cancelled /\ ~cancelled' /\ cancels' = cancels
             /\ AnsweredPrompts' = AnsweredPrompts \cup {p}
    BY <1>2 DEF AnswerCancelled, Now
<1>3. ASSUME NEW p \in Prompts,
             PromptEmpty(p) \/ PromptBegin(p) \/ AnswerArrives(p)
             \/ SendNext(p) \/ EndTurn(p) \/ PromptRaises(p)
      PROVE AnsweredPrompts' = AnsweredPrompts /\ cancels' = cancels /\ cancelled' = cancelled
    <2>1. CASE PromptEmpty(p) \/ PromptBegin(p) \/ EndTurn(p) \/ PromptRaises(p)
        BY <2>1 DEF PromptEmpty, PromptBegin, EndTurn, PromptRaises, Now
    <2>2. CASE AnswerArrives(p)
        BY <2>2 DEF AnswerArrives, Now
    <2>3. CASE SendNext(p)
        BY <2>3 DEF SendNext
    <2> QED
        BY <1>3, <2>1, <2>2, <2>3
<1> QED
    BY <1>1, <1>2, <1>3 DEF AcpNext

(* The prompts answered as cancelled, and the flag, are paid for.          *)
LEMMA OnePromptStep ==
    ASSUME AcpTypeOK, CancelStopsOnePrompt, [AcpNext]_acpVars
    PROVE  CancelStopsOnePrompt'
<1> DEFINE flag == IF cancelled THEN 1 ELSE 0
<1>1. IsFiniteSet(AnsweredPrompts) /\ Cardinality(AnsweredPrompts) \in Nat
    BY PromptsAssumption, FS_Subset, FS_CardinalityType DEF AnsweredPrompts
<1>2. Cardinality(AnsweredPrompts) + flag <= cancels /\ cancels \in Nat
    BY AcpBoundsAssumption DEF CancelStopsOnePrompt, AnsweredPrompts, AcpTypeOK
<1>3. CASE UNCHANGED acpVars
    BY <1>3 DEF acpVars, CancelStopsOnePrompt
<1>4. CASE AcpNext
    <2>1. ASSUME NEW p \in Prompts
          PROVE  Cardinality(AnsweredPrompts \cup {p}) \in {Cardinality(AnsweredPrompts), Cardinality(AnsweredPrompts) + 1}
        <3>1. Cardinality(AnsweredPrompts \cup {p}) =
                  IF p \in AnsweredPrompts THEN Cardinality(AnsweredPrompts) ELSE Cardinality(AnsweredPrompts) + 1
            BY <1>1, FS_AddElement
        <3> QED
            BY <3>1
    <2>2. Cardinality(AnsweredPrompts') + flag' <= cancels'
        <3>1. CASE AnsweredPrompts' = AnsweredPrompts /\ cancels' = cancels /\ cancelled' = cancelled
            BY <3>1, <1>2
        <3>2. CASE AnsweredPrompts' = AnsweredPrompts /\ cancels' = cancels + 1 /\ cancelled' = TRUE
            BY <3>2, <1>1, <1>2
        <3>3. ASSUME NEW p \in Prompts, AnsweredPrompts' = AnsweredPrompts \cup {p},
                     cancelled, ~cancelled', cancels' = cancels
              PROVE  Cardinality(AnsweredPrompts') + flag' <= cancels'
            <4>1. Cardinality(AnsweredPrompts') \in {Cardinality(AnsweredPrompts), Cardinality(AnsweredPrompts) + 1}
                BY <3>3, <2>1
            <4>2. flag = 1 /\ flag' = 0
                BY <3>3
            <4> HIDE DEF flag
            <4> QED
                BY <3>3, <4>1, <4>2, <1>1, <1>2
        <3> QED
            BY <3>1, <3>2, <3>3, <1>4, AnsweredStep
    <2> QED
        BY <2>2 DEF CancelStopsOnePrompt, AnsweredPrompts
<1> QED
    BY <1>3, <1>4

(* No cancellation stops two prompts (acp_server.py, the one flag of a     *)
(* session).                                                               *)
THEOREM OnePromptIsStopped == AcpSpec => []CancelStopsOnePrompt
<1>1. AcpInit => CancelStopsOnePrompt
    <2> SUFFICES ASSUME AcpInit PROVE CancelStopsOnePrompt
        OBVIOUS
    <2>1. {p \in Prompts : prompt[p] = "cancelled"} = {}
        BY DEF AcpInit
    <2> QED
        BY <2>1, FS_EmptySet DEF AcpInit, CancelStopsOnePrompt
<1>2. AcpTypeOK /\ CancelStopsOnePrompt /\ [AcpNext]_acpVars => CancelStopsOnePrompt'
    BY OnePromptStep
<1>3. AcpSpec => []AcpTypeOK
    BY CancelInvariant, PTL DEF CancelInv
<1> QED
    BY <1>1, <1>2, <1>3, PTL DEF AcpSpec

-----------------------------------------------------------------------------
(***************************************************************************)
(* The turns of a session: AgentRuntime.run and the tables of              *)
(* RuntimeStore.                                                           *)
(***************************************************************************)

(* The stations of a turn within one tool call.                            *)
InCall == {"calling", "opened", "invoked", "recorded"}

(* Turns that are underway at once know of each other.                     *)
Overlaps ==
    \A t, u \in Turns : t # u /\ turn[t] \in Working /\ turn[u] \in Working => t \in beside

(* A turn at work has begun a step, and one within a call stands at one of *)
(* the calls it was given.                                                 *)
Placed(t) ==
    /\ turn[t] \in Working => step[t] \in Steps
    /\ turn[t] \in InCall => place[t] \in 1..Len(response[t])

(* A row, by its call.                                                     *)
RowHolds(id) ==
    toolRow[id] # NoToolRow =>
        /\ IdOf(toolRow[id].call) = id
        /\ \/ toolRow[id].status = "FINISHED" /\ toolRow[id].call \in ran
           \/ /\ toolRow[id].status = "RUNNING"
              /\ toolRow[id].call = Current(toolRow[id].call.turn)
              /\ turn[toolRow[id].call.turn] \in {"opened", "invoked", "stopped"}
           \/ toolRow[id].call.turn \in beside

(* The row of the call that a turn has come to, unless another took it.    *)
OpenRow(t) ==
    /\ turn[t] \in {"opened", "invoked"} =>
          \/ toolRow[IdOf(Current(t))] = [call |-> Current(t), status |-> "RUNNING"]
          \/ /\ toolRow[IdOf(Current(t))] # NoToolRow
             /\ toolRow[IdOf(Current(t))].call.turn \in beside
    /\ turn[t] = "invoked" => Current(t) \in ran

(* The inductive invariant of the rows: where each turn stands, which row  *)
(* it has open, and what each row says.                                    *)
TurnInv ==
    /\ AgentTypeOK
    /\ Overlaps
    /\ \A t \in Turns : Placed(t) /\ OpenRow(t)
    /\ \A id \in ToolIds : RowHolds(id)

-----------------------------------------------------------------------------

(* What a provider answers is a sequence of calls within the bound.        *)
LEMMA CallSequences ==
    ASSUME NEW calls \in Responses \cup {<<>>}
    PROVE  calls \in Seq(Signatures) /\ Len(calls) \in 0..MaxCalls
<1>1. CASE calls \in Responses
    BY <1>1, ResponsesAssumption
<1>2. CASE calls = <<>>
    BY <1>2, ResponsesAssumption
<1> QED
    BY <1>1, <1>2

(* The types of what a turn holds.                                         *)
LEMMA TurnTypes ==
    ASSUME AgentTypeOK, NEW t \in Turns
    PROVE  /\ transcript \in Seq(Messages) /\ toolRow \in [ToolIds -> ToolRows]
           /\ turn[t] \in TurnStates /\ step[t] \in 0..MaxSteps
           /\ response[t] \in Responses \cup {<<>>} /\ response[t] \in Seq(Signatures)
           /\ Len(response[t]) \in 0..MaxCalls /\ place[t] \in 0..MaxCalls + 1
           /\ signatures[t] \in [Signatures -> Nat]
           /\ MaxCalls \in Nat /\ MaxSteps \in Nat
BY CallSequences, ResponsesAssumption, LimitsAssumption DEF AgentTypeOK

(* The call a turn stands at is one of the calls there are.                *)
LEMMA CallTypes ==
    ASSUME AgentTypeOK, NEW t \in Turns, Placed(t), turn[t] \in InCall
    PROVE  /\ Current(t) \in ToolCalls /\ IdOf(Current(t)) \in ToolIds
           /\ Current(t).turn = t /\ Called(t) \in Signatures
           /\ place[t] \in 1..Len(response[t]) /\ step[t] \in Steps
<1>1. place[t] \in 1..Len(response[t]) /\ step[t] \in Steps
    BY DEF Placed, InCall, Working
<1>2. place[t] \in 1..MaxCalls /\ Called(t) \in Signatures
    BY <1>1, TurnTypes DEF Called
<1>3. Current(t) \in ToolCalls /\ Current(t).turn = t
    BY <1>1, <1>2 DEF Current, ToolCalls
<1> QED
    BY <1>1, <1>2, <1>3 DEF ToolIds

(* A message is built of the fields it is given.                           *)
LEMMA MessageTypes ==
    ASSUME NEW role \in {"user", "assistant", "tool"}, NEW t \in Turns, NEW s \in 0..MaxSteps,
           NEW calls \in 0..MaxCalls, NEW at \in 0..MaxCalls
    PROVE  /\ Message(role, t, s, calls, at) \in Messages
           /\ Message(role, t, s, calls, at).role = role /\ Message(role, t, s, calls, at).turn = t
           /\ Message(role, t, s, calls, at).step = s /\ Message(role, t, s, calls, at).calls = calls
           /\ Message(role, t, s, calls, at).place = at
BY DEF Message, Messages

(* What a turn adds to the transcript, if anything.                        *)
LEMMA Added ==
    ASSUME transcript \in Seq(Messages), NEW m \in Messages, transcript' = Append(transcript, m)
    PROVE  /\ transcript' \in Seq(Messages) /\ Len(transcript') = Len(transcript) + 1
           /\ transcript'[Len(transcript) + 1] = m
           /\ \A i \in 1..Len(transcript) : transcript'[i] = transcript[i]
OBVIOUS

(* A turn does not touch another.                                          *)
Apart(t) ==
    \A u \in Turns \ {t} : /\ turn'[u] = turn[u] /\ step'[u] = step[u]
                           /\ response'[u] = response[u] /\ place'[u] = place[u]
                           /\ sent'[u] = sent[u]

(* The steps of one turn.                                                  *)
TurnAction(t) ==
    \/ BeginTurn(t) \/ AskProvider(t) \/ ProviderRaises(t) \/ Respond(t)
    \/ RefuseUnknown(t) \/ RefuseRepeated(t)
    \/ OpenCall(t) \/ InvokeTool(t) \/ RecordCall(t) \/ AddResult(t)
    \/ StopTurn(t)

(* A step of one turn leaves what the others hold.                         *)
LEMMA TurnsApart ==
    ASSUME AgentTypeOK, NEW t \in Turns, TurnAction(t)
    PROVE  Apart(t)
BY DEF AgentTypeOK, Apart, TurnAction, BeginTurn, AskProvider, ProviderRaises, Respond, RefuseUnknown,
       RefuseRepeated, OpenCall, InvokeTool, RecordCall, AddResult, StopTurn

(* A turn that goes on was underway, and no one else joins it.             *)
LEMMA OverlapsKept ==
    ASSUME TurnInv, NEW t \in Turns, TurnAction(t)
    PROVE  Overlaps' /\ beside \subseteq beside' /\ beside' \subseteq Turns
<1>1. Apart(t) /\ turn \in [Turns -> TurnStates] /\ beside \subseteq Turns /\ Overlaps
    BY TurnsApart DEF TurnInv, AgentTypeOK
<1>2. CASE BeginTurn(t)
    <2>1. beside' = IF Others(t) = {} THEN beside ELSE beside \cup Others(t) \cup {t}
        BY <1>2 DEF BeginTurn
    <2>2. \A u \in Turns \ {t} : turn'[u] \in Working => t \in beside' /\ u \in beside'
        BY <1>1, <2>1 DEF Apart, Others
    <2>3. \A u, v \in Turns \ {t} : u # v /\ turn'[u] \in Working /\ turn'[v] \in Working =>
              u \in beside'
        BY <1>1, <2>1 DEF Apart, Overlaps
    <2> QED
        BY <1>1, <2>1, <2>2, <2>3 DEF Overlaps, Others
<1>3. CASE ~BeginTurn(t)
    <2>1. beside' = beside
        BY <1>3 DEF TurnAction, BeginTurn, AskProvider, ProviderRaises, Respond, RefuseUnknown,
                    RefuseRepeated, OpenCall, InvokeTool, RecordCall, AddResult, StopTurn
    <2>2. turn[t] \in Working
        BY <1>3 DEF TurnAction, AskProvider, ProviderRaises, Respond, RefuseUnknown, Working,
                    RefuseRepeated, OpenCall, InvokeTool, RecordCall, AddResult, StopTurn
    <2> QED
        BY <1>1, <2>1, <2>2 DEF Overlaps, Apart
<1> QED
    BY <1>2, <1>3

(* A step that leaves the rows alone.                                      *)
LEMMA RowsStay ==
    ASSUME TurnInv, AgentTypeOK', Overlaps', NEW t \in Turns, Apart(t), beside \subseteq beside',
           toolRow' = toolRow, ran \subseteq ran', Placed(t)',
           turn'[t] \in {"opened", "invoked", "stopped"} => place'[t] = place[t] /\ step'[t] = step[t],
           turn'[t] = "opened" => turn[t] = "opened",
           turn'[t] = "invoked" => turn[t] \in {"opened", "invoked"} /\ Current(t) \in ran',
           turn[t] \in {"opened", "invoked", "stopped"} =>
              turn'[t] \in {"opened", "invoked", "stopped"}
    PROVE  TurnInv'
<1>1. \A u \in Turns : turn'[u] \in {"opened", "invoked", "stopped"} => Current(u)' = Current(u)
    <2> TAKE u \in Turns
    <2>1. CASE u = t
        BY <2>1 DEF Current
    <2>2. CASE u # t
        BY <2>2 DEF Apart, Current
    <2> QED
        BY <2>1, <2>2
<1>2. ASSUME NEW u \in Turns
      PROVE  Placed(u)' /\ OpenRow(u)'
    <2>1. Placed(u) /\ OpenRow(u)
        BY DEF TurnInv
    <2>2. CASE u = t
        <3>1. turn'[t] \in {"opened", "invoked"} => turn[t] \in {"opened", "invoked"}
            OBVIOUS
        <3> QED
            BY <1>1, <2>1, <2>2, <3>1 DEF OpenRow
    <2>3. CASE u # t
        <3>1. /\ turn'[u] = turn[u] /\ step'[u] = step[u] /\ response'[u] = response[u]
              /\ place'[u] = place[u]
            BY <2>3 DEF Apart
        <3>2. Placed(u)'
            BY <2>1, <3>1 DEF Placed
        <3>3. OpenRow(u)'
            BY <1>1, <2>1, <3>1 DEF OpenRow
        <3> QED
            BY <3>2, <3>3
    <2> QED
        BY <2>2, <2>3
<1>3. ASSUME NEW id \in ToolIds
      PROVE  RowHolds(id)'
    <2> DEFINE r == toolRow[id]
    <2> SUFFICES ASSUME r # NoToolRow
                 PROVE  RowHolds(id)'
        BY DEF RowHolds
    <2>1. r \in [call : ToolCalls, status : {"RUNNING", "FINISHED"}] /\ r.call.turn \in Turns
        BY DEF TurnInv, AgentTypeOK, ToolRows, ToolCalls
    <2>2. /\ IdOf(r.call) = id
          /\ \/ r.status = "FINISHED" /\ r.call \in ran
             \/ /\ r.status = "RUNNING" /\ r.call = Current(r.call.turn)
                /\ turn[r.call.turn] \in {"opened", "invoked", "stopped"}
             \/ r.call.turn \in beside
        BY DEF TurnInv, RowHolds
    <2>3. turn[r.call.turn] \in {"opened", "invoked", "stopped"} =>
              /\ turn'[r.call.turn] \in {"opened", "invoked", "stopped"}
              /\ Current(r.call.turn)' = Current(r.call.turn)
        BY <1>1, <2>1 DEF Apart
    <2> QED
        BY <2>2, <2>3 DEF RowHolds
<1> QED
    BY <1>2, <1>3 DEF TurnInv

(* Beginning a turn keeps the invariant: the turns that it overlaps know   *)
(* it.                                                                     *)
LEMMA BeginTurnKeeps ==
    ASSUME TurnInv, NEW t \in Turns, BeginTurn(t)
    PROVE  TurnInv'
<1>1. AgentTypeOK /\ Apart(t) /\ Overlaps' /\ beside \subseteq beside' /\ beside' \subseteq Turns
    BY TurnsApart, OverlapsKept DEF TurnInv, TurnAction
<1>2. Message("user", t, 0, 0, 0) \in Messages
    BY MessageTypes, <1>1, TurnTypes
<1>3. turn' = [turn EXCEPT ![t] = "reading"] /\ step' = [step EXCEPT ![t] = 1] /\ 1 \in Steps
    BY LimitsAssumption DEF BeginTurn, Steps
<1>4. AgentTypeOK'
    <2>1. transcript' \in Seq(Messages)
        BY <1>1, <1>2, TurnTypes, Added DEF BeginTurn
    <2>2. turn' \in [Turns -> TurnStates] /\ step' \in [Turns -> 0..MaxSteps]
        BY <1>1, <1>3 DEF AgentTypeOK, TurnStates, Working, Steps
    <2> QED
        BY <1>1, <2>1, <2>2 DEF BeginTurn, AgentTypeOK
<1>5. turn'[t] = "reading" /\ step'[t] \in Steps
    BY <1>1, <1>3 DEF AgentTypeOK
<1>6. Placed(t)'
    BY <1>5 DEF Placed, InCall, Steps
<1>7. toolRow' = toolRow /\ ran' = ran /\ turn[t] = "idle"
    BY DEF BeginTurn
<1> QED
    BY <1>1, <1>4, <1>5, <1>6, <1>7, RowsStay

(* The steps of a turn in which it opens and closes no row.                *)
LEMMA TurnStateKept ==
    ASSUME TurnInv, NEW t \in Turns, TurnAction(t), AgentTypeOK', toolRow' = toolRow, ran \subseteq ran',
           Placed(t)',
           turn'[t] \in {"opened", "invoked", "stopped"} => place'[t] = place[t] /\ step'[t] = step[t],
           turn'[t] = "opened" => turn[t] = "opened",
           turn'[t] = "invoked" => turn[t] \in {"opened", "invoked"} /\ Current(t) \in ran',
           turn[t] \in {"opened", "invoked", "stopped"} =>
              turn'[t] \in {"opened", "invoked", "stopped"}
    PROVE  TurnInv'
<1>1. AgentTypeOK /\ Apart(t) /\ Overlaps' /\ beside \subseteq beside'
    BY TurnsApart, OverlapsKept DEF TurnInv
<1> QED
    BY <1>1, RowsStay

(* Asking the provider keeps it.                                           *)
LEMMA AskProviderKeeps ==
    ASSUME TurnInv, NEW t \in Turns, AskProvider(t)
    PROVE  TurnInv'
<1>1. AgentTypeOK /\ Placed(t) /\ turn[t] = "reading"
    BY DEF TurnInv, AskProvider
<1>2. PICK from \in 1..Len(transcript) :
          sent' = [sent EXCEPT ![t] = [from |-> from, upto |-> Len(transcript)]]
    BY DEF AskProvider
<1>3. [from |-> from, upto |-> Len(transcript)] \in [from : Nat, upto : Nat]
    BY <1>1, TurnTypes
<1>4. sent' \in [Turns -> [from : Nat, upto : Nat]]
    BY <1>1, <1>2, <1>3 DEF AgentTypeOK
<1>5. /\ turn' = [turn EXCEPT ![t] = "asked"]
      /\ UNCHANGED <<transcript, toolRow, step, response, place, signatures, ran, beside>>
    BY DEF AskProvider
<1>6. AgentTypeOK' /\ turn'[t] = "asked"
    BY <1>1, <1>4, <1>5 DEF AgentTypeOK, TurnStates, Working
<1>7. Placed(t)'
    BY <1>1, <1>5, <1>6 DEF Placed, InCall, Working, Steps
<1> QED
    BY <1>1, <1>5, <1>6, <1>7, TurnStateKept DEF TurnAction

(* The provider's answer keeps it.                                         *)
LEMMA RespondKeeps ==
    ASSUME TurnInv, NEW t \in Turns, Respond(t)
    PROVE  TurnInv'
<1>1. AgentTypeOK /\ Placed(t) /\ turn[t] = "asked" /\ step[t] \in Steps
    BY DEF TurnInv, Respond, Placed, Working
<1>2. PICK calls \in Responses, text \in BOOLEAN :
          /\ turn' = [turn EXCEPT ![t] = IF calls = <<>> THEN "ended" ELSE "calling"]
          /\ response' = [response EXCEPT ![t] = calls]
          /\ transcript' = Spoken(t, calls, text)
    BY DEF Respond
<1>3. calls \in Seq(Signatures) /\ Len(calls) \in 0..MaxCalls
    BY CallSequences
<1>4. Message("assistant", t, step[t], Len(calls), 0) \in Messages
    BY <1>1, <1>3, MessageTypes, TurnTypes
<1>5. transcript' \in Seq(Messages)
    BY <1>1, <1>2, <1>4, TurnTypes, Added DEF Spoken
<1>6. /\ place' = [place EXCEPT ![t] = 1] /\ sent' = [sent EXCEPT ![t] = NothingSent]
      /\ UNCHANGED <<toolRow, step, signatures, ran, beside>>
    BY DEF Respond
<1>7. AgentTypeOK'
    <2>1. response' \in [Turns -> Responses \cup {<<>>}]
        BY <1>1, <1>2 DEF AgentTypeOK
    <2>2. turn' \in [Turns -> TurnStates]
        BY <1>1, <1>2 DEF AgentTypeOK, TurnStates, Working
    <2>3. place' \in [Turns -> 0..MaxCalls + 1] /\ sent' \in [Turns -> [from : Nat, upto : Nat]]
        BY <1>1, <1>6, ResponsesAssumption DEF AgentTypeOK, NothingSent
    <2> QED
        BY <1>1, <1>5, <1>6, <2>1, <2>2, <2>3 DEF AgentTypeOK
<1>8. Placed(t)'
    <2>1. turn'[t] \in {"ended", "calling"} /\ (turn'[t] = "calling" => calls # <<>>)
        BY <1>1, <1>2 DEF AgentTypeOK
    <2>2. response'[t] = calls /\ place'[t] = 1 /\ step'[t] = step[t]
        BY <1>1, <1>2, <1>6 DEF AgentTypeOK
    <2>3. calls # <<>> => 1 \in 1..Len(calls)
        BY <1>3
    <2> QED
        BY <1>1, <2>1, <2>2, <2>3 DEF Placed, InCall, Working, Steps
<1>9. turn'[t] \in {"ended", "calling"}
    BY <1>1, <1>2 DEF AgentTypeOK
<1> QED
    BY <1>1, <1>6, <1>7, <1>8, <1>9, TurnStateKept DEF TurnAction

(* The steps that end a turn.                                              *)
LEMMA EndingKeeps ==
    ASSUME TurnInv, NEW t \in Turns,
           ProviderRaises(t) \/ RefuseUnknown(t) \/ RefuseRepeated(t) \/ StopTurn(t)
    PROVE  TurnInv'
<1>1. AgentTypeOK /\ Placed(t)
    BY DEF TurnInv
<1>2. /\ turn' = [turn EXCEPT ![t] = IF StopTurn(t) THEN "stopped" ELSE "failed"]
      /\ UNCHANGED <<transcript, toolRow, step, response, place, ran, beside>>
      /\ sent' \in {sent, [sent EXCEPT ![t] = NothingSent]}
    <2>1. CASE StopTurn(t)
        BY <2>1 DEF StopTurn
    <2>2. CASE ~StopTurn(t)
        BY <2>2 DEF ProviderRaises, RefuseUnknown, RefuseRepeated
    <2> QED
        BY <2>1, <2>2
<1>3. signatures' \in [Turns -> [Signatures -> Nat]]
    <2>1. CASE RefuseRepeated(t)
        <3>1. Called(t) \in Signatures
            BY <1>1, <2>1, CallTypes DEF RefuseRepeated, InCall
        <3> QED
            BY <1>1, <2>1, <3>1 DEF RefuseRepeated, Counted, AgentTypeOK
    <2>2. CASE ~RefuseRepeated(t)
        BY <1>1, <2>2 DEF ProviderRaises, RefuseUnknown, StopTurn, AgentTypeOK
    <2> QED
        BY <2>1, <2>2
<1>4. AgentTypeOK'
    <2>1. turn' \in [Turns -> TurnStates]
        BY <1>1, <1>2 DEF AgentTypeOK, TurnStates
    <2>2. NothingSent \in [from : Nat, upto : Nat]
        BY DEF NothingSent
    <2>3. sent' \in [Turns -> [from : Nat, upto : Nat]]
        <3>1. CASE sent' = sent
            BY <1>1, <3>1 DEF AgentTypeOK
        <3>2. CASE sent' = [sent EXCEPT ![t] = NothingSent]
            BY <1>1, <2>2, <3>2 DEF AgentTypeOK
        <3> QED
            BY <1>2, <3>1, <3>2
    <2> QED
        BY <1>1, <1>2, <1>3, <2>1, <2>3 DEF AgentTypeOK
<1>5. turn'[t] = IF StopTurn(t) THEN "stopped" ELSE "failed"
    BY <1>1, <1>2 DEF AgentTypeOK
<1>6. Placed(t)'
    BY <1>5 DEF Placed, InCall, Working
<1>7. turn[t] \in {"opened", "invoked", "stopped"} => StopTurn(t)
    BY DEF ProviderRaises, RefuseUnknown, RefuseRepeated
<1> QED
    BY <1>1, <1>2, <1>4, <1>5, <1>6, <1>7, TurnStateKept DEF TurnAction

(* The call of the tool keeps it.                                          *)
LEMMA InvokeToolKeeps ==
    ASSUME TurnInv, NEW t \in Turns, InvokeTool(t)
    PROVE  TurnInv'
<1>1. AgentTypeOK /\ Placed(t) /\ turn[t] = "opened" /\ Current(t) \in ToolCalls
    BY CallTypes DEF TurnInv, InvokeTool, InCall
<1>2. /\ turn' = [turn EXCEPT ![t] = "invoked"] /\ ran' = ran \cup {Current(t)}
      /\ UNCHANGED <<transcript, toolRow, step, response, place, signatures, sent, beside>>
    BY DEF InvokeTool
<1>3. AgentTypeOK' /\ turn'[t] = "invoked"
    BY <1>1, <1>2 DEF AgentTypeOK, TurnStates, Working
<1>4. Placed(t)'
    BY <1>1, <1>2, <1>3 DEF Placed, InCall, Working, Steps
<1> QED
    BY <1>1, <1>2, <1>3, <1>4, TurnStateKept DEF TurnAction

(* Adding the result to the transcript keeps it.                           *)
LEMMA AddResultKeeps ==
    ASSUME TurnInv, NEW t \in Turns, AddResult(t)
    PROVE  TurnInv'
<1>1. AgentTypeOK /\ Placed(t) /\ turn[t] = "recorded"
    BY DEF TurnInv, AddResult
<1>2. /\ place[t] \in 1..Len(response[t]) /\ step[t] \in Steps
      /\ Len(response[t]) \in 0..MaxCalls /\ MaxCalls \in Nat /\ MaxSteps \in Nat
    BY <1>1, CallTypes, TurnTypes DEF InCall
<1>3. /\ transcript' = Append(transcript, Message("tool", t, step[t], 0, place[t]))
      /\ UNCHANGED <<toolRow, response, signatures, sent, ran, beside>>
    BY DEF AddResult
<1>4. transcript' \in Seq(Messages)
    <2>1. Message("tool", t, step[t], 0, place[t]) \in Messages
        BY <1>2, MessageTypes DEF Steps
    <2> QED
        BY <1>1, <1>3, <2>1, TurnTypes, Added
<1>5. \/ /\ place[t] < Len(response[t])
         /\ place' = [place EXCEPT ![t] = place[t] + 1]
         /\ turn' = [turn EXCEPT ![t] = "calling"] /\ step' = step
      \/ /\ step[t] < MaxSteps
         /\ step' = [step EXCEPT ![t] = step[t] + 1]
         /\ turn' = [turn EXCEPT ![t] = "reading"] /\ place' = place
      \/ turn' = [turn EXCEPT ![t] = "failed"] /\ place' = place /\ step' = step
    BY DEF AddResult
<1>6. AgentTypeOK'
    <2>1. turn' \in [Turns -> TurnStates]
        BY <1>1, <1>5 DEF AgentTypeOK, TurnStates, Working
    <2>2. place[t] + 1 \in 0..MaxCalls + 1 /\ (step[t] < MaxSteps => step[t] + 1 \in 0..MaxSteps)
        BY <1>2 DEF Steps
    <2>3. place' \in [Turns -> 0..MaxCalls + 1] /\ step' \in [Turns -> 0..MaxSteps]
        BY <1>1, <1>5, <2>2 DEF AgentTypeOK
    <2> QED
        BY <1>1, <1>3, <1>4, <2>1, <2>3 DEF AgentTypeOK
<1>7. Placed(t)' /\ turn'[t] \in {"calling", "reading", "failed"}
    BY <1>1, <1>2, <1>3, <1>5 DEF AgentTypeOK, Placed, InCall, Working, Steps
<1> QED
    BY <1>1, <1>3, <1>6, <1>7, TurnStateKept DEF TurnAction

(* The other turns stand at the calls they stood at.                       *)
LEMMA OthersStand ==
    ASSUME NEW t \in Turns, Apart(t)
    PROVE  \A u \in Turns : u # t => turn'[u] = turn[u] /\ Current(u)' = Current(u)
BY DEF Apart, Current

(* A call has one row.                                                     *)
LEMMA OpenCallKeeps ==
    ASSUME TurnInv, NEW t \in Turns, OpenCall(t)
    PROVE  TurnInv'
<1> DEFINE call == Current(t)
           own == IdOf(Current(t))
           new == [call |-> call, status |-> "RUNNING"]
<1>1. AgentTypeOK /\ Placed(t) /\ turn[t] = "calling" /\ Overlaps
    BY DEF TurnInv, OpenCall
<1>2. /\ call \in ToolCalls /\ own \in ToolIds /\ call.turn = t /\ Called(t) \in Signatures
      /\ own = IdOf(call)
    BY <1>1, CallTypes DEF InCall
<1>3. /\ Apart(t) /\ Overlaps' /\ beside' = beside
    BY <1>1, TurnsApart, OverlapsKept DEF TurnAction, OpenCall
<1>4. /\ turn' = [turn EXCEPT ![t] = "opened"] /\ signatures' = Counted(t)
      /\ toolRow' = [toolRow EXCEPT ![own] = new]
      /\ UNCHANGED <<transcript, step, response, place, sent, ran, beside>>
    BY DEF OpenCall
<1>5. Current(t)' = call
    BY <1>4 DEF Current
<1> HIDE DEF call, own
<1>6. new \in [call : ToolCalls, status : {"RUNNING", "FINISHED"}]
    BY <1>2
<1>7. new # NoToolRow
    BY DEF NoToolRow
<1> HIDE DEF new
<1>8. AgentTypeOK'
    <2>1. signatures' \in [Turns -> [Signatures -> Nat]]
        BY <1>1, <1>2, <1>4 DEF AgentTypeOK, Counted
    <2>2. toolRow' \in [ToolIds -> ToolRows]
        BY <1>1, <1>2, <1>4, <1>6 DEF AgentTypeOK, ToolRows
    <2>3. turn' \in [Turns -> TurnStates]
        BY <1>1, <1>4 DEF AgentTypeOK, TurnStates, Working
    <2> QED
        BY <1>1, <1>4, <2>1, <2>2, <2>3 DEF AgentTypeOK
<1>9. /\ turn'[t] = "opened" /\ toolRow'[own] = new
      /\ \A id \in ToolIds \ {own} : toolRow'[id] = toolRow[id]
    BY <1>1, <1>2, <1>4 DEF AgentTypeOK
<1>10. new.call = call /\ new.status = "RUNNING"
    BY DEF new
<1>11. \A u \in Turns \ {t} : turn[u] \in {"opened", "invoked"} => t \in beside
    BY <1>1 DEF Overlaps, Working
<1>12. ASSUME NEW u \in Turns
       PROVE  Placed(u)' /\ OpenRow(u)'
    <2>1. CASE u = t
        <3>1. Placed(u)'
            BY <1>1, <1>4, <1>9, <2>1 DEF Placed, InCall, Working
        <3>2. OpenRow(u)'
            <4>1. IdOf(Current(t)') = own
                BY <1>2, <1>5
            <4>2. toolRow'[own] = [call |-> Current(t)', status |-> "RUNNING"]
                BY <1>5, <1>9 DEF new
            <4> QED
                BY <1>9, <2>1, <4>1, <4>2 DEF OpenRow
        <3> QED
            BY <3>1, <3>2
    <2>2. CASE u # t
        <3>1. /\ turn'[u] = turn[u] /\ Current(u)' = Current(u) /\ Placed(u)'
            BY <1>3, <2>2 DEF Apart, Current, Placed, TurnInv
        <3>2. OpenRow(u) /\ Placed(u)
            BY DEF TurnInv
        <3>3. SUFFICES ASSUME turn[u] \in {"opened", "invoked"}
                       PROVE  OpenRow(u)'
            BY <3>1 DEF OpenRow
        <3>4. IdOf(Current(u)) \in ToolIds
            BY <1>1, <3>2, <3>3, CallTypes DEF InCall
        <3>5. t \in beside
            BY <1>11, <2>2, <3>3
        <3>6. CASE IdOf(Current(u)) = own
            <4>1. toolRow'[IdOf(Current(u)')] = new /\ new.call.turn \in beside'
                BY <1>2, <1>3, <1>9, <1>10, <3>1, <3>5, <3>6
            <4> QED
                BY <1>4, <1>7, <3>1, <3>2, <4>1 DEF OpenRow, NoToolRow, NoCall
        <3>7. CASE IdOf(Current(u)) # own
            <4>1. toolRow'[IdOf(Current(u)')] = toolRow[IdOf(Current(u))]
                BY <1>9, <3>1, <3>4, <3>7
            <4> QED
                BY <1>4, <3>1, <3>2, <4>1 DEF OpenRow
        <3> QED
            BY <3>1, <3>6, <3>7
    <2> QED
        BY <2>1, <2>2
<1>13. ASSUME NEW id \in ToolIds
       PROVE  RowHolds(id)'
    <2>1. CASE id = own
        BY <1>2, <1>5, <1>9, <1>10, <2>1 DEF RowHolds
    <2>2. CASE id # own
        <3>0. toolRow[id] \in ToolRows
            BY DEF TurnInv, AgentTypeOK
        <3> PICK r \in ToolRows : r = toolRow[id]
            BY <3>0
        <3>1. toolRow'[id] = r
            BY <1>9, <2>2
        <3> SUFFICES ASSUME r # NoToolRow
                     PROVE  RowHolds(id)'
            BY <3>1 DEF RowHolds
        <3>2. r.call.turn \in Turns
            BY DEF ToolRows, ToolCalls
        <3>3. /\ IdOf(r.call) = id
              /\ \/ r.status = "FINISHED" /\ r.call \in ran
                 \/ /\ r.status = "RUNNING" /\ r.call = Current(r.call.turn)
                    /\ turn[r.call.turn] \in {"opened", "invoked", "stopped"}
                 \/ r.call.turn \in beside
            BY DEF TurnInv, RowHolds
        <3>4. turn[r.call.turn] \in {"opened", "invoked", "stopped"} =>
                  /\ turn'[r.call.turn] \in {"opened", "invoked", "stopped"}
                  /\ Current(r.call.turn)' = Current(r.call.turn)
            <4>1. CASE r.call.turn = t
                BY <1>1, <4>1
            <4>2. CASE r.call.turn # t
                BY <1>3, <3>2, <4>2, OthersStand
            <4> QED
                BY <4>1, <4>2
        <3> QED
            BY <1>4, <3>1, <3>3, <3>4 DEF RowHolds
    <2> QED
        BY <2>1, <2>2
<1> QED
    BY <1>3, <1>8, <1>12, <1>13 DEF TurnInv

(* Recording the outcome keeps it: the row written is the row the call has *)
(* opened, or an overlap took it.                                          *)
LEMMA RecordCallKeeps ==
    ASSUME TurnInv, NEW t \in Turns, RecordCall(t)
    PROVE  TurnInv'
<1> DEFINE call == Current(t)
           own == IdOf(Current(t))
           row == toolRow[own]
<1>1. AgentTypeOK /\ Placed(t) /\ turn[t] = "invoked" /\ Overlaps /\ OpenRow(t)
    BY DEF TurnInv, RecordCall
<1>2. /\ call \in ToolCalls /\ own \in ToolIds /\ call.turn = t /\ call \in ran
    BY <1>1, CallTypes DEF InCall, OpenRow
<1>3. /\ Apart(t) /\ Overlaps' /\ beside' = beside
    BY <1>1, TurnsApart, OverlapsKept DEF TurnAction, RecordCall
<1>4. /\ turn' = [turn EXCEPT ![t] = "recorded"]
      /\ toolRow' = [toolRow EXCEPT ![own] = [row EXCEPT !.status = "FINISHED"]]
      /\ UNCHANGED <<transcript, step, response, place, signatures, sent, ran, beside>>
    BY DEF RecordCall
<1>5. /\ row # NoToolRow
      /\ row.call = call \/ row.call.turn \in beside
    <2>1. [call |-> call, status |-> "RUNNING"] # NoToolRow
        BY DEF NoToolRow
    <2> QED
        BY <1>1, <2>1 DEF OpenRow
<1>6. row \in [call : ToolCalls, status : {"RUNNING", "FINISHED"}]
    BY <1>1, <1>2, <1>5 DEF AgentTypeOK, ToolRows
<1>7. RowHolds(own) /\ IdOf(row.call) = own
    BY <1>2, <1>5 DEF TurnInv, RowHolds
<1> DEFINE done == [row EXCEPT !.status = "FINISHED"]
<1>8. /\ done \in [call : ToolCalls, status : {"RUNNING", "FINISHED"}]
      /\ done.call = row.call /\ done.status = "FINISHED"
    BY <1>6
<1>9. done # NoToolRow
    BY <1>8 DEF NoToolRow
<1> HIDE DEF call, own, done, row
<1>10. /\ turn'[t] = "recorded" /\ toolRow'[own] = done
       /\ \A id \in ToolIds \ {own} : toolRow'[id] = toolRow[id]
    BY <1>1, <1>2, <1>4 DEF AgentTypeOK, done, row
<1>11. AgentTypeOK'
    <2>1. toolRow' \in [ToolIds -> ToolRows]
        <3>1. toolRow' = [toolRow EXCEPT ![own] = done]
            BY <1>4 DEF done
        <3> QED
            BY <1>1, <1>8, <3>1 DEF AgentTypeOK, ToolRows
    <2>2. turn' \in [Turns -> TurnStates]
        BY <1>1, <1>4 DEF AgentTypeOK, TurnStates, Working
    <2> QED
        BY <1>1, <1>4, <2>1, <2>2 DEF AgentTypeOK
<1>12. \A u \in Turns \ {t} : turn[u] \in {"opened", "invoked"} => t \in beside /\ u \in beside
    BY <1>1 DEF Overlaps, Working
<1>13. ASSUME NEW u \in Turns
       PROVE  Placed(u)' /\ OpenRow(u)'
    <2>1. CASE u = t
        BY <1>1, <1>4, <1>10, <2>1 DEF Placed, InCall, Working, OpenRow
    <2>2. CASE u # t
        <3>1. turn'[u] = turn[u] /\ Current(u)' = Current(u) /\ Placed(u)'
            BY <1>3, <2>2 DEF Apart, Current, Placed, TurnInv
        <3>2. OpenRow(u) /\ Placed(u)
            BY DEF TurnInv
        <3>3. SUFFICES ASSUME turn[u] \in {"opened", "invoked"}
                       PROVE  OpenRow(u)'
            BY <3>1 DEF OpenRow
        <3>4. IdOf(Current(u)) \in ToolIds
            BY <1>1, <3>2, <3>3, CallTypes DEF InCall
        <3>5. t \in beside
            BY <1>12, <2>2, <3>3
        <3>6. CASE IdOf(Current(u)) = own
            <4>1. done.call.turn \in beside
                BY <1>2, <1>5, <1>8, <3>5
            <4>2. toolRow'[IdOf(Current(u)')] = done
                BY <1>10, <3>1, <3>6
            <4> QED
                BY <1>4, <1>9, <3>1, <3>2, <4>1, <4>2 DEF OpenRow
        <3>7. CASE IdOf(Current(u)) # own
            <4>1. toolRow'[IdOf(Current(u)')] = toolRow[IdOf(Current(u))]
                BY <1>10, <3>1, <3>4, <3>7
            <4>2. ran' = ran /\ beside' = beside
                BY <1>4
            <4>3. /\ Current(u)' = Current(u) /\ turn'[u] = turn[u]
                BY <3>1
            <4> QED
                BY <3>2, <4>1, <4>2, <4>3 DEF OpenRow
        <3> QED
            BY <3>6, <3>7
    <2> QED
        BY <2>1, <2>2
<1>14. ASSUME NEW id \in ToolIds
       PROVE  RowHolds(id)'
    <2>1. CASE id = own
        BY <1>2, <1>4, <1>5, <1>7, <1>8, <1>10, <2>1 DEF RowHolds
    <2>2. CASE id # own
        <3>0. toolRow[id] \in ToolRows
            BY DEF TurnInv, AgentTypeOK
        <3> PICK r \in ToolRows : r = toolRow[id]
            BY <3>0
        <3>1. toolRow'[id] = r
            BY <1>10, <2>2
        <3> SUFFICES ASSUME r # NoToolRow
                     PROVE  RowHolds(id)'
            BY <3>1 DEF RowHolds
        <3>2. r.call.turn \in Turns /\ r.call \in ToolCalls
            BY DEF ToolRows, ToolCalls
        <3>3. /\ IdOf(r.call) = id
              /\ \/ r.status = "FINISHED" /\ r.call \in ran
                 \/ /\ r.status = "RUNNING" /\ r.call = Current(r.call.turn)
                    /\ turn[r.call.turn] \in {"opened", "invoked", "stopped"}
                 \/ r.call.turn \in beside
            BY DEF TurnInv, RowHolds
        <3>4. \/ r.status = "FINISHED" /\ r.call \in ran
              \/ /\ r.status = "RUNNING" /\ r.call = Current(r.call.turn)'
                 /\ turn'[r.call.turn] \in {"opened", "invoked", "stopped"}
              \/ r.call.turn \in beside
            <4>1. CASE r.call.turn = t
                <5>1. r.call # call
                    BY <2>2, <3>3 DEF own, call
                <5> QED
                    BY <3>3, <4>1, <5>1 DEF call
            <4>2. CASE r.call.turn # t
                <5>1. /\ turn'[r.call.turn] = turn[r.call.turn]
                      /\ Current(r.call.turn)' = Current(r.call.turn)
                    BY <1>3, <3>2, <4>2, OthersStand
                <5> QED
                    BY <3>3, <5>1
            <4> QED
                BY <4>1, <4>2
        <3>5. toolRow'[id] = r /\ ran' = ran /\ beside' = beside
            BY <1>4, <3>1
        <3> QED
            BY <3>3, <3>4, <3>5 DEF RowHolds
    <2> QED
        BY <2>1, <2>2
<1> QED
    BY <1>3, <1>11, <1>13, <1>14 DEF TurnInv

(* It holds before the first turn.                                         *)
LEMMA AgentInitially ==
    AgentInit => TurnInv
<1> SUFFICES ASSUME AgentInit
             PROVE  TurnInv
    OBVIOUS
<1>1. AgentTypeOK
    <2>1. 0 \in 0..MaxSteps /\ 0 \in 0..MaxCalls + 1 /\ NothingSent \in [from : Nat, upto : Nat]
        BY ResponsesAssumption, LimitsAssumption DEF NothingSent
    <2> QED
        BY <2>1 DEF AgentInit, AgentTypeOK, TurnStates, ToolRows
<1>2. \A t \in Turns : turn[t] = "idle"
    BY DEF AgentInit
<1>3. Overlaps /\ \A t \in Turns : Placed(t) /\ OpenRow(t)
    BY <1>2 DEF Overlaps, Placed, OpenRow, Working, InCall
<1>4. \A id \in ToolIds : RowHolds(id)
    BY DEF AgentInit, RowHolds
<1> QED
    BY <1>1, <1>3, <1>4 DEF TurnInv

(* Every step keeps it.                                                    *)
LEMMA TurnStepKeeps ==
    ASSUME TurnInv, AgentNext
    PROVE  TurnInv'
<1>1. PICK t \in Turns : TurnAction(t)
    BY DEF AgentNext, TurnAction
<1> QED
    BY <1>1, BeginTurnKeeps, AskProviderKeeps, RespondKeeps, EndingKeeps, OpenCallKeeps, InvokeToolKeeps,
       RecordCallKeeps, AddResultKeeps DEF TurnAction

(* The inductive invariant of the tool call rows holds in every state, for *)
(* any number of turns, steps and calls.                                   *)
THEOREM TurnInvariant == AgentSpec => []TurnInv
<1>1. TurnInv /\ UNCHANGED agentVars => TurnInv'
    <2> SUFFICES ASSUME TurnInv, UNCHANGED agentVars
                 PROVE  TurnInv'
        OBVIOUS
    <2> QED
        BY DEF TurnInv, agentVars, AgentTypeOK, Overlaps, Placed, OpenRow, RowHolds, Current
<1>2. TurnInv /\ [AgentNext]_agentVars => TurnInv'
    BY <1>1, TurnStepKeeps
<1> QED
    BY <1>2, AgentInitially, PTL DEF AgentSpec

(* A finished row of tool_calls (start_tool_call, finish_tool_call of      *)
(* runtime/store.py) tells of a call that ran, and a row left at RUNNING   *)
(* of a turn that was broken off there, unless its turn had another beside *)
(* it.                                                                     *)
THEOREM RowsAreTrue == AgentSpec => []RowsTellTheTruth
<1>1. TurnInv => RowsTellTheTruth
    BY DEF TurnInv, RowHolds, RowsTellTheTruth
<1> QED
    BY <1>1, TurnInvariant, PTL

-----------------------------------------------------------------------------
(* The conversation.                                                       *)

(* The results of a response stand right behind it.                        *)
Answered(i) ==
    \A at \in 1..transcript[i].calls :
        i + at <= Len(transcript) /\ IsAnswer(i + at, transcript[i], at)

(* A response, unless its turn is still at its calls.                      *)
Completed(i) ==
    transcript[i].role = "assistant" /\ ~Broken(transcript[i].turn) =>
        \/ Answered(i)
        \/ /\ turn[transcript[i].turn] \in InCall
           /\ i = Len(transcript) - place[transcript[i].turn] + 1

(* A result, and its call.                                                 *)
Follows(i) ==
    transcript[i].role = "tool" =>
        /\ \E j \in 1..i - 1 : IsCall(j, transcript[i].turn, transcript[i].step, transcript[i].place)
        /\ ~Broken(transcript[i].turn) =>
              /\ i - transcript[i].place \in 1..i
              /\ IsCall(i - transcript[i].place, transcript[i].turn, transcript[i].step,
                        transcript[i].place)

(* A message of the transcript is the one whose calls a turn is working    *)
(* on.                                                                     *)
Asking(i, t) ==
    /\ transcript[i].role = "assistant" /\ transcript[i].turn = t
    /\ transcript[i].step = step[t] /\ transcript[i].calls = Len(response[t])

(* A turn at its calls has their response in the transcript, and alone it  *)
(* has nothing behind the response but the results so far.                 *)
Underway(t) ==
    turn[t] \in InCall =>
        /\ \E j \in 1..Len(transcript) : Asking(j, t)
        /\ t \notin beside =>
              LET i == Len(transcript) - place[t] + 1
              IN  /\ i \in 1..Len(transcript) /\ Asking(i, t)
                  /\ \A at \in 1..place[t] - 1 : IsAnswer(i + at, transcript[i], at)

(* Within what a turn has sent to the provider, each request for tools is  *)
(* followed by all its results.                                            *)
PieceWhole(t) ==
    /\ sent[t].from >= 1 /\ sent[t].upto <= Len(transcript)
    /\ \A i \in sent[t].from..sent[t].upto :
          transcript[i].role = "assistant" /\ ~Broken(transcript[i].turn) =>
              \A at \in 1..transcript[i].calls :
                  i + at <= sent[t].upto /\ IsAnswer(i + at, transcript[i], at)

(* The inductive invariant of the transcript.                              *)
TalkInv ==
    /\ \A i \in 1..Len(transcript) : Completed(i) /\ Follows(i)
    /\ \A t \in Turns : Underway(t) /\ PieceWhole(t)

-----------------------------------------------------------------------------

(* The types of a message of the transcript.                               *)
LEMMA SpokenTypes ==
    ASSUME AgentTypeOK, NEW i \in 1..Len(transcript)
    PROVE  /\ transcript[i] \in Messages /\ transcript[i].turn \in Turns
           /\ transcript[i].calls \in Nat /\ transcript[i].place \in Nat
           /\ Len(transcript) \in Nat /\ i \in Nat
<1>1. transcript[i] \in Messages /\ Len(transcript) \in Nat /\ i \in Nat
    BY DEF AgentTypeOK
<1> QED
    BY <1>1, ResponsesAssumption DEF Messages

(* The transcript only grows.                                              *)
Grows ==
    /\ Len(transcript) <= Len(transcript')
    /\ \A i \in 1..Len(transcript) : transcript'[i] = transcript[i]

(* A turn that is broken off or disturbed stays so.                        *)
Disturbs == \A t \in Turns : Broken(t) => Broken(t)'

(* A step of a turn only adds to the transcript, and crosses the turns     *)
(* that are at work.                                                       *)
LEMMA TalkGoesOn ==
    ASSUME TurnInv, NEW t \in Turns, TurnAction(t)
    PROVE  AgentTypeOK /\ TurnInv' /\ AgentTypeOK' /\ Grows /\ Disturbs
<1>1. AgentTypeOK /\ TurnInv' /\ AgentTypeOK' /\ Apart(t) /\ beside \subseteq beside'
    BY TurnStepKeeps, TurnsApart, OverlapsKept DEF TurnInv, AgentNext, TurnAction
<1>2. Grows
    <2>1. CASE transcript' = transcript
        BY <1>1, <2>1 DEF Grows, AgentTypeOK
    <2>2. CASE \E m \in Messages : transcript' = Append(transcript, m)
        BY <1>1, <2>2, Added DEF Grows, AgentTypeOK
    <2>3. CASE BeginTurn(t)
        <3>1. Message("user", t, 0, 0, 0) \in Messages
            BY <1>1, MessageTypes, TurnTypes
        <3> QED
            BY <2>2, <2>3, <3>1 DEF BeginTurn
    <2>4. CASE Respond(t)
        <3>1. PICK calls \in Responses, text \in BOOLEAN : transcript' = Spoken(t, calls, text)
            BY <2>4 DEF Respond
        <3>2. Message("assistant", t, step[t], Len(calls), 0) \in Messages
            BY <1>1, CallSequences, MessageTypes, TurnTypes
        <3> QED
            BY <2>1, <2>2, <3>1, <3>2 DEF Spoken
    <2>5. CASE AddResult(t)
        <3>1. Placed(t)
            BY DEF TurnInv
        <3>2. Message("tool", t, step[t], 0, place[t]) \in Messages
            BY <1>1, <2>5, <3>1, CallTypes, TurnTypes, MessageTypes DEF AddResult, InCall, Steps
        <3> QED
            BY <2>2, <2>5, <3>2 DEF AddResult
    <2>6. CASE ~(BeginTurn(t) \/ Respond(t) \/ AddResult(t))
        BY <2>1, <2>6 DEF TurnAction, AskProvider, ProviderRaises, RefuseUnknown, RefuseRepeated,
                          OpenCall, InvokeTool, RecordCall, StopTurn
    <2> QED
        BY <2>3, <2>4, <2>5, <2>6
<1>3. turn[t] \notin {"failed", "stopped"}
    BY DEF TurnAction, BeginTurn, AskProvider, ProviderRaises, Respond, RefuseUnknown,
           RefuseRepeated, OpenCall, InvokeTool, RecordCall, AddResult, StopTurn, Working
<1>4. Disturbs
    BY <1>1, <1>3 DEF Disturbs, Broken, Apart
<1> QED
    BY <1>1, <1>2, <1>4

(* A message that was there stays where it was.                            *)
LEMMA SpokenStays ==
    ASSUME AgentTypeOK, AgentTypeOK', Grows, NEW i \in 1..Len(transcript)
    PROVE  i \in 1..Len(transcript') /\ transcript'[i] = transcript[i]
<1>1. Len(transcript) \in Nat /\ Len(transcript') \in Nat /\ Len(transcript) <= Len(transcript')
    BY DEF Grows, AgentTypeOK
<1> QED
    BY <1>1 DEF Grows

(* A result that follows its request follows it still.                     *)
LEMMA FollowsStays ==
    ASSUME AgentTypeOK, Grows, Disturbs, NEW i \in 1..Len(transcript), Follows(i)
    PROVE  Follows(i)'
<1>1. transcript[i].turn \in Turns /\ transcript'[i] = transcript[i] /\ i \in Nat
    BY SpokenTypes DEF Grows
<1>2. /\ \A j \in 1..i : transcript'[j] = transcript[j]
      /\ 1..i - 1 \subseteq 1..i
    BY SpokenTypes DEF Grows
<1> QED
    BY <1>1, <1>2 DEF Follows, IsCall, Disturbs

(* A request that has its results has them still.                          *)
LEMMA AnsweredStays ==
    ASSUME AgentTypeOK, AgentTypeOK', Grows, NEW i \in 1..Len(transcript), Answered(i)
    PROVE  Answered(i)'
<1>1. transcript'[i] = transcript[i] /\ transcript[i].calls \in Nat /\ i \in Nat
    BY SpokenTypes DEF Grows
<1>2. Len(transcript) \in Nat /\ Len(transcript') \in Nat /\ Len(transcript) <= Len(transcript')
    BY DEF Grows, AgentTypeOK
<1>3. ASSUME NEW at \in 1..transcript[i].calls
      PROVE  i + at <= Len(transcript') /\ IsAnswer(i + at, transcript[i], at)'
    <2>1. i + at \in 1..Len(transcript) /\ IsAnswer(i + at, transcript[i], at)
        BY <1>1, <1>2 DEF Answered
    <2>2. transcript'[i + at] = transcript[i + at]
        BY <2>1 DEF Grows
    <2> QED
        BY <1>1, <1>2, <2>1, <2>2 DEF IsAnswer
<1> QED
    BY <1>1, <1>3 DEF Answered

(* What was sent whole is whole still.                                     *)
LEMMA PieceStays ==
    ASSUME AgentTypeOK, AgentTypeOK', Grows, Disturbs, NEW t \in Turns, PieceWhole(t),
           sent'[t] \in {sent[t], NothingSent}
    PROVE  PieceWhole(t)'
<1>1. Len(transcript) \in Nat /\ Len(transcript') \in Nat /\ Len(transcript) <= Len(transcript')
    BY DEF Grows, AgentTypeOK
<1>2. CASE sent'[t] = NothingSent
    <2>1. sent'[t].from = 1 /\ sent'[t].upto = 0
        BY <1>2 DEF NothingSent
    <2> QED
        BY <1>1, <2>1 DEF PieceWhole
<1>3. CASE sent'[t] = sent[t]
    <2>1. sent[t].from \in Nat /\ sent[t].upto \in Nat
        BY DEF AgentTypeOK
    <2>2. /\ sent[t].from >= 1 /\ sent[t].upto <= Len(transcript)
          /\ sent[t].from..sent[t].upto \subseteq 1..Len(transcript)
        BY <1>1, <2>1 DEF PieceWhole
    <2>3. ASSUME NEW i \in sent[t].from..sent[t].upto, (transcript[i].role = "assistant")',
                 (~Broken(transcript[i].turn))', NEW at \in 1..transcript'[i].calls
          PROVE  i + at <= sent[t].upto /\ IsAnswer(i + at, transcript[i], at)'
        <3>1. i \in 1..Len(transcript) /\ transcript'[i] = transcript[i]
            BY <2>2 DEF Grows
        <3>2. transcript[i].turn \in Turns /\ i \in Nat /\ transcript[i].calls \in Nat
            BY <3>1, SpokenTypes
        <3>3. ~Broken(transcript[i].turn)
            BY <2>3, <3>1, <3>2 DEF Disturbs, Broken
        <3>4. i + at <= sent[t].upto /\ IsAnswer(i + at, transcript[i], at)
            BY <2>3, <3>1, <3>3 DEF PieceWhole
        <3>5. i + at \in 1..Len(transcript)
            BY <1>1, <2>1, <2>2, <3>1, <3>2, <3>4
        <3>6. transcript'[i + at] = transcript[i + at]
            BY <3>5 DEF Grows
        <3> QED
            BY <3>1, <3>4, <3>6 DEF IsAnswer
    <2>4. sent[t].from >= 1 /\ sent[t].upto <= Len(transcript')
        BY <1>1, <2>1, <2>2
    <2> QED
        BY <1>3, <2>3, <2>4 DEF PieceWhole
<1> QED
    BY <1>2, <1>3

(* Who is underway while another speaks is beside it.                      *)
LEMMA SpeaksBeside ==
    ASSUME TurnInv, NEW t \in Turns, TurnAction(t), transcript' # transcript,
           NEW u \in Turns, u # t, turn[u] \in Working
    PROVE  u \in beside'
<1>1. beside \subseteq beside' /\ Overlaps
    BY OverlapsKept DEF TurnInv
<1>2. CASE BeginTurn(t)
    BY <1>2 DEF BeginTurn, Others
<1>3. CASE ~BeginTurn(t)
    <2>1. turn[t] \in Working
        BY <1>3 DEF TurnAction, AskProvider, ProviderRaises, Respond, RefuseUnknown, Working,
                    RefuseRepeated, OpenCall, InvokeTool, RecordCall, AddResult, StopTurn
    <2> QED
        BY <1>1, <2>1 DEF Overlaps
<1> QED
    BY <1>2, <1>3

(* What a turn has on the transcript is not changed by another's step, or  *)
(* the turn is crossed.                                                    *)
LEMMA OthersUnderway ==
    ASSUME TurnInv, NEW t \in Turns, TurnAction(t), NEW u \in Turns, u # t, Underway(u)
    PROVE  Underway(u)'
<1>1. /\ AgentTypeOK /\ Grows /\ AgentTypeOK' /\ Apart(t) /\ beside \subseteq beside'
    BY TalkGoesOn, TurnsApart, OverlapsKept
<1>2. /\ turn'[u] = turn[u] /\ step'[u] = step[u] /\ response'[u] = response[u]
      /\ place'[u] = place[u]
    BY <1>1 DEF Apart
<1>3. SUFFICES ASSUME turn[u] \in InCall
               PROVE  Underway(u)'
    BY <1>2 DEF Underway
<1>4. \E j \in 1..Len(transcript') : Asking(j, u)'
    <2>1. PICK j \in 1..Len(transcript) : Asking(j, u)
        BY <1>3 DEF Underway
    <2>2. transcript'[j] = transcript[j] /\ j \in 1..Len(transcript')
        BY <1>1, SpokenStays
    <2> QED
        BY <1>2, <2>1, <2>2 DEF Asking
<1>5. CASE transcript' = transcript
    BY <1>1, <1>2, <1>3, <1>4, <1>5 DEF Underway, Asking, IsAnswer
<1>6. CASE transcript' # transcript
    <2>1. u \in beside'
        BY <1>3, <1>6, SpeaksBeside DEF InCall, Working
    <2> QED
        BY <1>4, <2>1 DEF Underway
<1> QED
    BY <1>5, <1>6

(* A response of another turn.                                             *)
LEMMA OthersCompleted ==
    ASSUME TurnInv, NEW t \in Turns, TurnAction(t), NEW i \in 1..Len(transcript), Completed(i),
           transcript[i].turn # t
    PROVE  Completed(i)'
<1> DEFINE u == transcript[i].turn
<1>1. /\ AgentTypeOK /\ Grows /\ AgentTypeOK' /\ Apart(t) /\ Disturbs
      /\ u \in Turns /\ transcript'[i] = transcript[i] /\ i \in 1..Len(transcript')
    <2>1. AgentTypeOK /\ Grows /\ AgentTypeOK' /\ Apart(t) /\ Disturbs
        BY TalkGoesOn, TurnsApart
    <2> QED
        BY <2>1, SpokenTypes, SpokenStays
<1>2. turn'[u] = turn[u] /\ place'[u] = place[u]
    BY <1>1 DEF Apart
<1>3. SUFFICES ASSUME transcript[i].role = "assistant", ~Broken(u), u \notin beside'
               PROVE  Answered(i)' \/ (turn'[u] \in InCall /\ i = Len(transcript') - place'[u] + 1)
    BY <1>1 DEF Completed, Disturbs, Broken
<1>4. CASE Answered(i)
    BY <1>1, <1>4, AnsweredStays
<1>5. CASE turn[u] \in InCall /\ i = Len(transcript) - place[u] + 1
    <2>1. transcript' = transcript
        BY <1>1, <1>3, <1>5, SpeaksBeside DEF InCall, Working
    <2> QED
        BY <1>2, <1>5, <2>1
<1> QED
    BY <1>3, <1>4, <1>5 DEF Completed

(* What is left to show is about the turn that takes the step.             *)
LEMMA TalkFromOwn ==
    ASSUME TurnInv, TalkInv, NEW t \in Turns, TurnAction(t),
           \A i \in 1..Len(transcript) : transcript[i].turn = t => Completed(i)',
           \A i \in 1..Len(transcript') : i > Len(transcript) => Completed(i)' /\ Follows(i)',
           Underway(t)', PieceWhole(t)'
    PROVE  TalkInv'
<1>1. AgentTypeOK /\ AgentTypeOK' /\ Grows /\ Disturbs /\ Apart(t)
    BY TalkGoesOn, TurnsApart
<1>2. ASSUME NEW i \in 1..Len(transcript')
      PROVE  Completed(i)' /\ Follows(i)'
    <2>1. CASE i \in 1..Len(transcript)
        <3>1. Completed(i) /\ Follows(i)
            BY <2>1 DEF TalkInv
        <3>2. Follows(i)'
            BY <1>1, <2>1, <3>1, FollowsStays
        <3>3. CASE transcript[i].turn # t
            BY <2>1, <3>1, <3>2, <3>3, OthersCompleted
        <3> QED
            BY <2>1, <3>2, <3>3
    <2>2. CASE i \notin 1..Len(transcript)
        <3>1. i > Len(transcript)
            BY <1>1, <2>2 DEF AgentTypeOK
        <3> QED
            BY <3>1
    <2> QED
        BY <2>1, <2>2
<1>3. ASSUME NEW u \in Turns
      PROVE  Underway(u)' /\ PieceWhole(u)'
    <2>1. Underway(u) /\ PieceWhole(u)
        BY DEF TalkInv
    <2>2. CASE u # t
        <3>1. sent'[u] = sent[u]
            BY <1>1, <2>2 DEF Apart
        <3> QED
            BY <1>1, <2>1, <2>2, <3>1, OthersUnderway, PieceStays
    <2> QED
        BY <2>2
<1> QED
    BY <1>2, <1>3 DEF TalkInv

(* A step that says nothing.                                               *)
LEMMA SilentKeeps ==
    ASSUME TurnInv, TalkInv, NEW t \in Turns, TurnAction(t),
           UNCHANGED <<transcript, step, response, place, beside>>,
           turn'[t] \in InCall => turn[t] \in InCall,
           turn[t] \in InCall => turn'[t] \in InCall \/ Broken(t)',
           PieceWhole(t)'
    PROVE  TalkInv'
<1>1. AgentTypeOK /\ AgentTypeOK' /\ Grows /\ Disturbs
    BY TalkGoesOn
<1>2. ASSUME NEW i \in 1..Len(transcript), transcript[i].turn = t
      PROVE  Completed(i)'
    <2>1. Completed(i) /\ (Broken(t) => Broken(t)')
        BY <1>1 DEF TalkInv, Disturbs
    <2>2. CASE Answered(i)
        <3>1. Answered(i)'
            BY <1>1, <2>2, AnsweredStays
        <3> QED
            BY <3>1 DEF Completed
    <2>3. CASE turn[t] \in InCall /\ i = Len(transcript) - place[t] + 1
        <3>1. turn'[t] \in InCall \/ Broken(t)'
            BY <2>3
        <3> QED
            BY <1>2, <2>3, <3>1 DEF Completed
    <2>4. CASE transcript[i].role # "assistant" \/ Broken(t)
        BY <1>2, <2>1, <2>4 DEF Completed
    <2> QED
        BY <1>2, <2>1, <2>2, <2>3, <2>4 DEF Completed
<1>3. Underway(t)'
    BY DEF TalkInv, Underway, Asking, IsAnswer
<1>4. \A i \in 1..Len(transcript') : ~(i > Len(transcript))
    BY <1>1 DEF AgentTypeOK
<1> QED
    BY <1>2, <1>3, <1>4, TalkFromOwn

(* The steps that say nothing keep the invariant.                          *)
LEMMA QuietActionKeeps ==
    ASSUME TurnInv, TalkInv, NEW t \in Turns,
           \/ ProviderRaises(t) \/ RefuseUnknown(t) \/ RefuseRepeated(t) \/ OpenCall(t)
           \/ InvokeTool(t) \/ RecordCall(t) \/ StopTurn(t)
    PROVE  TalkInv'
<1>1. TurnAction(t) /\ UNCHANGED <<transcript, step, response, place, beside>>
    BY DEF TurnAction, ProviderRaises, RefuseUnknown, RefuseRepeated, OpenCall, InvokeTool,
           RecordCall, StopTurn
<1>2. AgentTypeOK /\ AgentTypeOK' /\ Grows /\ Disturbs
    BY <1>1, TalkGoesOn
<1>3. sent'[t] \in {sent[t], NothingSent}
    BY <1>2 DEF AgentTypeOK, ProviderRaises, RefuseUnknown, RefuseRepeated, OpenCall, InvokeTool,
           RecordCall, StopTurn
<1>4. PieceWhole(t)'
    BY <1>2, <1>3, PieceStays DEF TalkInv
<1>5. /\ turn'[t] \in InCall => turn[t] \in InCall
      /\ turn[t] \in InCall => turn'[t] \in InCall \/ turn'[t] \in {"failed", "stopped"}
    BY <1>2 DEF AgentTypeOK, InCall, ProviderRaises, RefuseUnknown, RefuseRepeated, OpenCall,
           InvokeTool, RecordCall, StopTurn
<1> QED
    BY <1>1, <1>4, <1>5, SilentKeeps DEF Broken

(* What is sent is whole when it is read.                                  *)
LEMMA AskProviderTalks ==
    ASSUME TurnInv, TalkInv, NEW t \in Turns, AskProvider(t)
    PROVE  TalkInv'
<1>1. TurnAction(t) /\ UNCHANGED <<transcript, step, response, place, beside>> /\ turn[t] = "reading"
    BY DEF TurnAction, AskProvider
<1>2. AgentTypeOK /\ AgentTypeOK' /\ Grows /\ Disturbs /\ Overlaps /\ Len(transcript) \in Nat
    BY <1>1, TalkGoesOn DEF TurnInv, AgentTypeOK
<1>3. PICK from \in 1..Len(transcript) :
          sent' = [sent EXCEPT ![t] = [from |-> from, upto |-> Len(transcript)]]
    BY DEF AskProvider
<1>4. sent'[t].from = from /\ sent'[t].upto = Len(transcript)
    BY <1>2, <1>3 DEF AgentTypeOK
<1>5. turn'[t] = "asked"
    BY <1>2 DEF AskProvider, AgentTypeOK
<1>6. ASSUME NEW i \in from..Len(transcript), (transcript[i].role = "assistant")',
             (~Broken(transcript[i].turn))', NEW at \in 1..transcript'[i].calls
      PROVE  i + at <= Len(transcript) /\ IsAnswer(i + at, transcript[i], at)'
    <2>1. i \in 1..Len(transcript) /\ transcript'[i] = transcript[i]
        BY <1>1, <1>2
    <2>2. transcript[i].turn \in Turns /\ ~Broken(transcript[i].turn)
        BY <1>2, <1>6, <2>1, SpokenTypes DEF Disturbs, Broken
    <2>3. transcript[i].turn \notin beside
        BY <2>2 DEF Broken
    <2>4. turn[transcript[i].turn] \notin InCall
        BY <1>1, <1>2, <2>2, <2>3 DEF Overlaps, InCall, Working
    <2>5. Answered(i)
        BY <1>6, <2>1, <2>2, <2>4 DEF TalkInv, Completed
    <2> QED
        BY <1>1, <1>6, <2>1, <2>5 DEF Answered, IsAnswer
<1>7. PieceWhole(t)'
    BY <1>1, <1>2, <1>4, <1>6 DEF PieceWhole
<1> QED
    BY <1>1, <1>5, <1>7, SilentKeeps DEF InCall

(* The earlier responses of a turn that is not at its calls.               *)
LEMMA SettledStays ==
    ASSUME TurnInv, TalkInv, NEW t \in Turns, TurnAction(t), turn[t] \notin InCall,
           NEW i \in 1..Len(transcript), transcript[i].turn = t
    PROVE  Completed(i)'
<1>1. /\ AgentTypeOK /\ AgentTypeOK' /\ Grows /\ Completed(i) /\ (Broken(t) => Broken(t)')
    BY TalkGoesOn DEF TalkInv, Disturbs
<1>2. transcript'[i] = transcript[i]
    BY <1>1, SpokenStays
<1>3. CASE Answered(i)
    BY <1>1, <1>3, AnsweredStays DEF Completed
<1>4. CASE transcript[i].role # "assistant" \/ Broken(t)
    BY <1>1, <1>2, <1>4 DEF Completed
<1> QED
    BY <1>1, <1>3, <1>4 DEF Completed

(* One message more.                                                       *)
LEMMA OneMore ==
    ASSUME AgentTypeOK, NEW m \in Messages, transcript' = Append(transcript, m)
    PROVE  /\ Len(transcript') = Len(transcript) + 1 /\ Len(transcript) \in Nat
           /\ transcript'[Len(transcript) + 1] = m
           /\ \A i \in 1..Len(transcript) : transcript'[i] = transcript[i]
           /\ \A i \in 1..Len(transcript') : i > Len(transcript) => i = Len(transcript) + 1
<1>1. transcript \in Seq(Messages) /\ Len(transcript) \in Nat
    BY DEF AgentTypeOK
<1> QED
    BY <1>1, Added

(* Beginning a turn keeps it: its message is no request.                   *)
LEMMA BeginTurnTalks ==
    ASSUME TurnInv, TalkInv, NEW t \in Turns, BeginTurn(t)
    PROVE  TalkInv'
<1> DEFINE m == Message("user", t, 0, 0, 0)
<1>1. TurnAction(t) /\ turn[t] = "idle" /\ transcript' = Append(transcript, m) /\ sent' = sent
    BY DEF TurnAction, BeginTurn
<1>2. AgentTypeOK /\ AgentTypeOK' /\ Grows /\ Disturbs
    BY <1>1, TalkGoesOn
<1>3. m \in Messages /\ m.role = "user"
    BY <1>2, MessageTypes, TurnTypes
<1> HIDE DEF m
<1>4. /\ transcript'[Len(transcript) + 1] = m
      /\ \A i \in 1..Len(transcript') : i > Len(transcript) => i = Len(transcript) + 1
    BY <1>1, <1>2, <1>3, OneMore
<1>5. \A i \in 1..Len(transcript') : i > Len(transcript) => Completed(i)' /\ Follows(i)'
    BY <1>3, <1>4 DEF Completed, Follows
<1>6. turn'[t] = "reading"
    BY <1>2 DEF BeginTurn, AgentTypeOK
<1>7. Underway(t)'
    BY <1>6 DEF Underway, InCall
<1>8. PieceWhole(t)'
    BY <1>1, <1>2, PieceStays DEF TalkInv
<1>9. \A i \in 1..Len(transcript) : transcript[i].turn = t => Completed(i)'
    BY <1>1, SettledStays DEF InCall
<1> QED
    BY <1>1, <1>5, <1>7, <1>8, <1>9, TalkFromOwn

(* The provider's answer keeps it: a new request has no results yet and    *)
(* its turn knows it.                                                      *)
LEMMA RespondTalks ==
    ASSUME TurnInv, TalkInv, NEW t \in Turns, Respond(t)
    PROVE  TalkInv'
<1>1. TurnAction(t) /\ turn[t] = "asked" /\ step' = step
    BY DEF TurnAction, Respond
<1>2. AgentTypeOK /\ AgentTypeOK' /\ Grows /\ Disturbs
    BY <1>1, TalkGoesOn
<1>3. PICK calls \in Responses, text \in BOOLEAN :
          /\ turn' = [turn EXCEPT ![t] = IF calls = <<>> THEN "ended" ELSE "calling"]
          /\ response' = [response EXCEPT ![t] = calls]
          /\ transcript' = Spoken(t, calls, text)
    BY DEF Respond
<1>4. /\ turn'[t] = IF calls = <<>> THEN "ended" ELSE "calling"
      /\ response'[t] = calls /\ place'[t] = 1 /\ sent'[t] = NothingSent
    BY <1>2, <1>3 DEF AgentTypeOK, Respond
<1>5. PieceWhole(t)'
    BY <1>2, <1>4, PieceStays DEF TalkInv
<1>6. \A i \in 1..Len(transcript) : transcript[i].turn = t => Completed(i)'
    BY <1>1, SettledStays DEF InCall
<1>7. CASE text \/ calls # <<>>
    <2> DEFINE m == Message("assistant", t, step[t], Len(calls), 0)
    <2>1. /\ m \in Messages /\ m.role = "assistant" /\ m.turn = t /\ m.step = step[t]
          /\ m.calls = Len(calls) /\ Len(calls) \in Nat /\ (calls = <<>> => Len(calls) = 0)
        BY <1>2, CallSequences, MessageTypes, TurnTypes
    <2>2. transcript' = Append(transcript, m)
        BY <1>3, <1>7 DEF Spoken
    <2> HIDE DEF m
    <2>3. /\ Len(transcript') = Len(transcript) + 1 /\ Len(transcript) \in Nat
          /\ transcript'[Len(transcript) + 1] = m
          /\ \A i \in 1..Len(transcript') : i > Len(transcript) => i = Len(transcript) + 1
        BY <1>2, <2>1, <2>2, OneMore
    <2>4. ASSUME NEW i \in 1..Len(transcript'), i > Len(transcript)
          PROVE  Completed(i)' /\ Follows(i)'
        <3>1. i = Len(transcript) + 1 /\ transcript'[i] = m
            BY <2>3, <2>4
        <3>2. Follows(i)'
            BY <2>1, <3>1 DEF Follows
        <3>3. CASE calls = <<>>
            <4>1. Answered(i)'
                BY <2>1, <3>1, <3>3 DEF Answered
            <4> QED
                BY <3>2, <4>1 DEF Completed
        <3>4. CASE calls # <<>>
            <4>1. turn'[t] \in InCall /\ i = Len(transcript') - place'[t] + 1
                BY <1>4, <2>3, <3>1, <3>4 DEF InCall
            <4> QED
                BY <2>1, <3>1, <3>2, <4>1 DEF Completed
        <3> QED
            BY <3>3, <3>4
    <2>5. Underway(t)'
        <3> PICK last \in Nat : last = Len(transcript) + 1
            BY <2>3
        <3>1. Asking(last, t)'
            BY <1>1, <1>4, <2>1, <2>3 DEF Asking
        <3>2. /\ last \in 1..Len(transcript') /\ Len(transcript') - place'[t] + 1 = last
              /\ 1..place'[t] - 1 = {}
            BY <1>4, <2>3
        <3> QED
            BY <3>1, <3>2 DEF Underway
    <2> QED
        BY <1>1, <1>5, <1>6, <2>4, <2>5, TalkFromOwn
<1>8. CASE ~(text \/ calls # <<>>)
    <2>1. transcript' = transcript /\ turn'[t] = "ended"
        BY <1>3, <1>4, <1>8 DEF Spoken
    <2>2. Underway(t)'
        BY <2>1 DEF Underway, InCall
    <2>3. \A i \in 1..Len(transcript') : ~(i > Len(transcript))
        BY <1>2, <2>1 DEF AgentTypeOK
    <2> QED
        BY <1>1, <1>5, <1>6, <2>2, <2>3, TalkFromOwn
<1> QED
    BY <1>7, <1>8

(* A result keeps it: it is the next one of the request its turn works on. *)
LEMMA AddResultTalks ==
    ASSUME TurnInv, TalkInv, NEW t \in Turns, AddResult(t)
    PROVE  TalkInv'
<1> DEFINE m == Message("tool", t, step[t], 0, place[t])
<1>1. /\ TurnAction(t) /\ turn[t] = "recorded" /\ sent' = sent /\ response' = response
      /\ transcript' = Append(transcript, m) /\ beside' = beside
    BY DEF TurnAction, AddResult
<1>2. AgentTypeOK /\ AgentTypeOK' /\ Grows /\ Disturbs /\ Placed(t)
    BY <1>1, TalkGoesOn DEF TurnInv
<1>3. /\ place[t] \in 1..Len(response[t]) /\ step[t] \in Steps
      /\ Len(response[t]) \in 0..MaxCalls /\ MaxCalls \in Nat /\ MaxSteps \in Nat
    BY <1>1, <1>2, CallTypes, TurnTypes DEF InCall
<1>4. /\ m \in Messages /\ m.role = "tool" /\ m.turn = t /\ m.step = step[t] /\ m.place = place[t]
    <2>1. step[t] \in 0..MaxSteps /\ 0 \in 0..MaxCalls /\ place[t] \in 0..MaxCalls
        BY <1>3 DEF Steps
    <2> QED
        BY <2>1, MessageTypes
<1> HIDE DEF m
<1> PICK s \in Steps, p \in 1..Len(response[t]) : s = step[t] /\ p = place[t]
    BY <1>3
<1>5. PICK last \in Nat : last = Len(transcript) + 1
    BY <1>2 DEF AgentTypeOK
<1>6. /\ Len(transcript') = last /\ transcript'[last] = m /\ Len(transcript) = last - 1
      /\ \A i \in 1..Len(transcript') : i > Len(transcript) => i = last
    BY <1>1, <1>2, <1>4, <1>5, OneMore
<1>7. PieceWhole(t)'
    BY <1>1, <1>2, PieceStays DEF TalkInv
<1>8. PICK asked \in 1..Len(transcript) : Asking(asked, t)
    BY <1>1 DEF TalkInv, Underway, InCall
<1>9. /\ asked \in 1..Len(transcript') /\ asked \in 1..last - 1
      /\ transcript'[asked] = transcript[asked]
    BY <1>2, <1>6, <1>8, SpokenStays
<1>10. PICK from \in Int : from = last - place[t]
    BY <1>3, <1>5
<1>11. t \notin beside =>
          /\ from \in 1..Len(transcript) /\ Asking(from, t)
          /\ \A at \in 1..place[t] - 1 : IsAnswer(from + at, transcript[from], at)
    <2>1. Len(transcript) - place[t] + 1 = from
        BY <1>3, <1>5, <1>6, <1>10
    <2> QED
        BY <1>1, <2>1 DEF TalkInv, Underway, InCall
(* The results are there up to this one.                                   *)
<1>12. t \notin beside =>
          /\ from \in 1..last - 1 /\ transcript'[from] = transcript[from] /\ Asking(from, t)
          /\ \A at \in 1..place[t] : IsAnswer(from + at, transcript[from], at)'
    <2> SUFFICES ASSUME t \notin beside
                 PROVE  /\ from \in 1..last - 1 /\ transcript'[from] = transcript[from]
                        /\ Asking(from, t)
                        /\ \A at \in 1..place[t] : IsAnswer(from + at, transcript[from], at)'
        OBVIOUS
    <2>1. from \in 1..last - 1 /\ transcript'[from] = transcript[from] /\ Asking(from, t)
        BY <1>2, <1>6, <1>11, SpokenStays
    <2>2. ASSUME NEW at \in 1..place[t]
          PROVE  IsAnswer(from + at, transcript[from], at)'
        <3>1. CASE at = place[t]
            <4>1. from + at = last
                BY <1>3, <1>5, <1>10, <3>1
            <4>2. /\ transcript'[from + at].role = "tool" /\ transcript'[from + at].turn = t
                  /\ transcript'[from + at].step = step[t] /\ transcript'[from + at].place = at
                BY <1>4, <1>6, <3>1, <4>1
            <4> QED
                BY <2>1, <4>2 DEF IsAnswer, Asking
        <3>2. CASE at # place[t]
            <4>1. at \in 1..place[t] - 1 /\ from + at \in 1..Len(transcript)
                BY <1>3, <1>5, <1>6, <1>10, <2>1, <3>2
            <4>2. transcript'[from + at] = transcript[from + at]
                BY <1>2, <4>1, SpokenStays
            <4> QED
                BY <1>11, <2>1, <4>1, <4>2 DEF IsAnswer
        <3> QED
            BY <3>1, <3>2
    <2> QED
        BY <2>1, <2>2
<1>13. \/ /\ place[t] < Len(response[t]) /\ turn'[t] = "calling"
          /\ place'[t] = place[t] + 1 /\ step'[t] = step[t]
       \/ place[t] = Len(response[t]) /\ turn'[t] \in {"reading", "failed"}
    BY <1>2 DEF AddResult, AgentTypeOK
<1>14. Completed(last)' /\ Follows(last)'
    <2>1. \E j \in 1..last - 1 : IsCall(j, t, s, p)'
        <3>1. transcript[asked].calls >= p
            BY <1>3, <1>8 DEF Asking
        <3>2. IsCall(asked, t, s, p)'
            BY <1>3, <1>8, <1>9, <3>1 DEF IsCall, Asking
        <3> QED
            BY <1>9, <3>2
    <2>2. t \notin beside' => from \in 1..last /\ IsCall(from, t, s, p)'
        <3>1. t \notin beside => p <= transcript[from].calls
            BY <1>3, <1>12 DEF Asking
        <3> QED
            BY <1>1, <1>5, <1>12, <3>1 DEF IsCall, Asking
    <2>3. /\ transcript'[last].role = "tool" /\ transcript'[last].turn = t
          /\ transcript'[last].step = s /\ transcript'[last].place = p
        BY <1>4, <1>6
    <2>4. last - p = from
        BY <1>10
    <2> QED
        BY <2>1, <2>2, <2>3, <2>4 DEF Completed, Follows, Broken
<1>15. Underway(t)'
    <2> SUFFICES ASSUME turn'[t] \in InCall
                 PROVE  Underway(t)'
        BY DEF Underway
    <2>1. place'[t] = place[t] + 1 /\ step'[t] = step[t] /\ response'[t] = response[t]
        BY <1>1, <1>13 DEF InCall
    <2>2. \E j \in 1..Len(transcript') : Asking(j, t)'
        BY <1>8, <1>9, <2>1 DEF Asking
    <2>3. /\ Len(transcript') - place'[t] + 1 = from /\ place'[t] - 1 = place[t]
        BY <1>3, <1>5, <1>6, <1>10, <2>1
    <2>4. t \notin beside' => from \in 1..Len(transcript') /\ Asking(from, t)'
        BY <1>1, <1>5, <1>6, <1>12, <2>1 DEF Asking
    <2> QED
        BY <1>1, <1>12, <2>2, <2>3, <2>4 DEF Underway
<1>16. ASSUME NEW i \in 1..Len(transcript), transcript[i].turn = t
       PROVE  Completed(i)'
    <2>1. Completed(i) /\ (Broken(t) => Broken(t)') /\ transcript'[i] = transcript[i]
        BY <1>2, SpokenStays DEF TalkInv, Disturbs
    <2>2. CASE Answered(i)
        BY <1>2, <2>2, AnsweredStays DEF Completed
    <2>3. CASE i = from /\ t \notin beside
        <3>1. CASE turn'[t] = "calling"
            <4>1. i = Len(transcript') - place'[t] + 1
                BY <1>3, <1>5, <1>6, <1>10, <1>13, <2>3, <3>1
            <4> QED
                BY <1>16, <2>1, <3>1, <4>1 DEF Completed, InCall
        <3>2. CASE place[t] = Len(response[t])
            <4>1. Answered(i)'
                <5>1. transcript'[i].calls = place[t]
                    BY <1>12, <2>3, <3>2 DEF Asking
                <5>2. \A at \in 1..place[t] : i + at <= Len(transcript')
                    BY <1>3, <1>5, <1>6, <1>10, <2>3
                <5> QED
                    BY <1>12, <2>3, <5>1, <5>2 DEF Answered
            <4> QED
                BY <4>1 DEF Completed
        <3> QED
            BY <1>13, <3>1, <3>2
    <2>4. CASE transcript[i].role # "assistant" \/ Broken(t)
        BY <1>16, <2>1, <2>4 DEF Completed
    <2>5. i = Len(transcript) - place[t] + 1 => i = from
        BY <1>3, <1>5, <1>6, <1>10
    <2> QED
        BY <1>16, <2>1, <2>2, <2>3, <2>4, <2>5 DEF Completed, Broken
<1> QED
    BY <1>1, <1>6, <1>7, <1>14, <1>15, <1>16, TalkFromOwn

(* It holds of an empty transcript.                                        *)
LEMMA TalkInitially ==
    AgentInit => TalkInv
<1> SUFFICES ASSUME AgentInit
             PROVE  TalkInv
    OBVIOUS
<1>1. Len(transcript) = 0 /\ 1..Len(transcript) = {}
    BY DEF AgentInit
<1>2. \A t \in Turns : turn[t] = "idle" /\ sent[t].from = 1 /\ sent[t].upto = 0
    BY DEF AgentInit, NothingSent
<1> QED
    BY <1>1, <1>2 DEF TalkInv, Underway, PieceWhole, InCall

(* The inductive invariant of the transcript holds in every state, for any *)
(* number of turns, steps and calls.                                       *)
THEOREM TalkInvariant == AgentSpec => []TalkInv
<1>1. TurnInv /\ TalkInv /\ AgentNext => TalkInv'
    <2> SUFFICES ASSUME TurnInv, TalkInv, NEW t \in Turns, TurnAction(t)
                 PROVE  TalkInv'
        BY DEF AgentNext, TurnAction
    <2> QED
        BY BeginTurnTalks, AskProviderTalks, RespondTalks, QuietActionKeeps, AddResultTalks
           DEF TurnAction
<1>2. TalkInv /\ UNCHANGED agentVars => TalkInv'
    <2> SUFFICES ASSUME TalkInv, UNCHANGED agentVars
                 PROVE  TalkInv'
        OBVIOUS
    <2> QED
        BY DEF TalkInv, agentVars, Completed, Answered, Follows, Underway, PieceWhole, Asking,
               IsAnswer, IsCall, Broken
<1> QED
    BY <1>1, <1>2, TurnInvariant, TalkInitially, PTL DEF AgentSpec

(* What a request of AgentRuntime.run sends (runtime/agent.py) is a        *)
(* conversation: the calls of each response have their results right       *)
(* behind it and each result its call before it, with the exceptions that  *)
(* RequestsAreWhole names.                                                 *)
THEOREM RequestsStayWhole == AgentSpec => []RequestsAreWhole
<1>1. TurnInv /\ TalkInv => RequestsAreWhole
    <2> SUFFICES ASSUME TurnInv, TalkInv, NEW t \in Turns, NEW i \in sent[t].from..sent[t].upto
                 PROVE  LET m == transcript[i]
                            piece == sent[t].from..sent[t].upto
                        IN  /\ m.role = "assistant" /\ ~Broken(m.turn)
                                  => \A at \in 1..m.calls : i + at \in piece /\ IsAnswer(i + at, m, at)
                            /\ m.role = "tool"
                                  => \E j \in 1..i - 1 : IsCall(j, m.turn, m.step, m.place)
                            /\ m.role = "tool" /\ ~Broken(m.turn)
                                  => IsCall(i - m.place, m.turn, m.step, m.place)
        BY DEF RequestsAreWhole
    <2>1. /\ sent[t].from \in Nat /\ sent[t].upto \in Nat /\ Len(transcript) \in Nat
          /\ AgentTypeOK /\ PieceWhole(t)
        BY DEF TurnInv, AgentTypeOK, TalkInv
    <2>2. i \in 1..Len(transcript)
        BY <2>1 DEF PieceWhole
    <2>3. transcript[i].calls \in Nat
        BY <2>1, <2>2, SpokenTypes
    <2>4. Follows(i)
        BY <2>2 DEF TalkInv
    <2>5. \A at \in 1..transcript[i].calls :
              i + at <= sent[t].upto => i + at \in sent[t].from..sent[t].upto
        BY <2>1, <2>3
    <2> QED
        BY <2>1, <2>4, <2>5 DEF PieceWhole, Follows
<1> QED
    BY <1>1, TurnInvariant, TalkInvariant, PTL

-----------------------------------------------------------------------------
(***************************************************************************)
(* The todos of a session (session/store.py): what the verified flag and   *)
(* the status DONE mean, and what can keep a todo from ever getting there. *)
(***************************************************************************)

(* What an update that was begun holds: a flag that follows from the row   *)
(* it has read and from what the caller said.                              *)
HeldFlag ==
    \A c \in TodoCalls :
        todoCall[c].at = "update" =>
            /\ todoCall[c].status = "DONE" => todoCall[c].verified
            /\ todoCall[c].says = "keep" => (todoCall[c].verified => todoCall[c].seen.verified)
            /\ todoCall[c].says = "withdraw" => ~todoCall[c].verified

(* The inductive invariant of the flag.                                    *)
FlagInv == TodoTypeOK /\ HeldFlag /\ VerifiedByCaller

(* What a todo depends on was added before it, and what a call is about to *)
(* depend on, or writes, before the call.                                  *)
RowsKnown == \A t \in There \ rewired : \A d \in todo[t].dependencies : todo[d] # Absent

(* What a call under way depends on, or writes, was added before it.       *)
CallsKnown ==
    \A c \in TodoCalls :
        /\ todoCall[c].at \in {"add", "between"} =>
               \A d \in todoCall[c].dependencies : todo[d] # Absent
        /\ todoCall[c].at = "update" => todo[todoCall[c].todo] # Absent

(* A completion underway: it has read the dependencies that are not unread.*)
Completes(c, t) == todoCall[c].at = "update" /\ todoCall[c].status = "DONE" /\ todoCall[c].todo = t

(* What a completion has read is finished, unless it was reopened since.   *)
HeldDependencies ==
    \A c \in TodoCalls, t \in There \ rewired :
        Completes(c, t) =>
            \A d \in (todo[t].dependencies \ todoCall[c].unread) \cap There :
                d \notin regressed => Finished(d)

(* The inductive invariant of the order of completions.                    *)
OrderInv == FlagInv /\ RowsKnown /\ CallsKnown /\ HeldDependencies /\ DoneRestsOnDone

(* The steps of one call.                                                  *)
Step(c) ==
    \/ BeginUpdate(c) \/ AcceptDependency(c) \/ RefuseDependency(c) \/ WriteTodo(c)
    \/ BeginAdd(c) \/ Insert(c) \/ NextStep(c)
    \/ BeginRewire(c) \/ FindDependency(c) \/ WriteDependencies(c)
    \/ BeginRemove(c) \/ Delete(c)

-----------------------------------------------------------------------------
(* Types.                                                                  *)

(* The records a call may be, by their place in it.                        *)
LEMMA TodoCallTypes ==
    ASSUME TodoTypeOK, NEW c \in TodoCalls
    PROVE  /\ todoCall[c].at = "update" =>
                 todoCall[c] \in [at : {"update"}, todo : Todos, status : TodoStatuses,
                                  seen : TodoRows, verified : BOOLEAN,
                                  says : {"vouch", "withdraw", "keep"}, unread : SUBSET Todos]
           /\ todoCall[c].at \in {"add", "between"} =>
                 todoCall[c] \in [at : {"add", "between"}, dependencies : SUBSET Todos,
                                  steps : 1..MaxPlanSteps]
           /\ todoCall[c].at = "rewire" =>
                 todoCall[c] \in [at : {"rewire"}, todo : Todos, dependencies : SUBSET Todos,
                                  unread : SUBSET Todos]
           /\ todoCall[c].at = "remove" => todoCall[c] \in [at : {"remove"}, todo : Todos]
BY DEF TodoTypeOK, TodoCallStates, Idle

(* A todo that is there has a row.                                         *)
LEMMA RowTypes ==
    ASSUME TodoTypeOK, NEW t \in There
    PROVE  t \in Todos /\ todo[t] \in TodoRows /\ todo[t] # Absent
BY DEF TodoTypeOK, There, TodoRows, TodoStatuses, Absent, Removed

(* What an update holds when it has read its row.                          *)
UpdateCall(t, status, verified) ==
    [at |-> "update", todo |-> t, status |-> status, seen |-> todo[t],
     verified |-> NextVerified(status, verified, todo[t]), says |-> Says(status, verified),
     unread |-> IF status = "DONE" THEN todo[t].dependencies ELSE {}]

(* The call that begins an update.                                         *)
LEMMA BegunUpdate ==
    ASSUME NEW c, BeginUpdate(c)
    PROVE  \E t \in There, status \in TodoStatuses, verified \in {"keep", "yes", "no"} :
               /\ status = "DONE" => NextVerified(status, verified, todo[t])
               /\ Begin(c, UpdateCall(t, status, verified))
               /\ UNCHANGED <<todo, todoHistory>>
BY DEF BeginUpdate, UpdateCall

(* Every call of session/store.py keeps the types.                         *)
LEMMA TodoTypeStep == ASSUME TodoTypeOK, NEW c \in TodoCalls, Step(c) PROVE TodoTypeOK'
<1> USE DEF TodoTypeOK, Begin, End, todoHistory
<1>0. Idle \in TodoCallStates
    BY DEF TodoCallStates
<1>1. CASE BeginUpdate(c)
    <2>1. PICK t \in There, status \in TodoStatuses, verified \in {"keep", "yes", "no"} :
              Begin(c, UpdateCall(t, status, verified)) /\ UNCHANGED <<todo, todoHistory>>
        BY <1>1, BegunUpdate
    <2>2. t \in Todos /\ todo[t] \in TodoRows
        BY RowTypes
    <2>3. NextVerified(status, verified, todo[t]) \in BOOLEAN
        BY <2>2 DEF NextVerified, KeptVerified, TodoRows
    <2>4. Says(status, verified) \in {"vouch", "withdraw", "keep"}
        BY DEF Says
    <2>5. (IF status = "DONE" THEN todo[t].dependencies ELSE {}) \in SUBSET Todos
        BY <2>2 DEF TodoRows
    <2>6. UpdateCall(t, status, verified) \in TodoCallStates
        BY <2>2, <2>3, <2>4, <2>5 DEF UpdateCall, TodoCallStates
    <2> QED
        BY <2>1, <2>6, TodoBoundsAssumption
<1>2. CASE AcceptDependency(c)
    <2>1. PICK d \in todoCall[c].unread : todoCall' = [todoCall EXCEPT ![c].unread = @ \ {d}]
        BY <1>2 DEF AcceptDependency
    <2>2. [todoCall[c] EXCEPT !.unread = @ \ {d}] \in TodoCallStates
        BY <1>2, TodoCallTypes DEF AcceptDependency, TodoCallStates
    <2> QED
        BY <1>2, <2>1, <2>2 DEF AcceptDependency
<1>3. CASE RefuseDependency(c)
    BY <1>0, <1>3 DEF RefuseDependency
<1>4. CASE WriteTodo(c)
    <2>1. todoCall[c].todo \in Todos /\ todoCall[c].status \in TodoStatuses
          /\ todoCall[c].verified \in BOOLEAN /\ todoCall[c].says \in {"vouch", "withdraw", "keep"}
        BY <1>4, TodoCallTypes DEF WriteTodo
    <2>2. todo' \in [Todos -> TodoRows \cup {Absent, Removed}]
        <3>1. CASE UNCHANGED todo
            BY <3>1
        <3>2. CASE /\ todoCall[c].todo \in There
                   /\ todo' = [todo EXCEPT ![todoCall[c].todo].status = todoCall[c].status,
                                           ![todoCall[c].todo].verified = todoCall[c].verified]
            BY <2>1, <3>2, RowTypes DEF TodoRows
        <3> QED
            BY <1>4, <3>1, <3>2 DEF WriteTodo
    <2>3. \A history \in {vouched', outdated', regressed', rewired', crossed'} : history \subseteq Todos
        BY <1>4, <2>1 DEF WriteTodo
    <2> QED
        BY <1>0, <1>4, <2>2, <2>3 DEF WriteTodo
<1>5. CASE BeginAdd(c)
    <2>1. PICK dependencies \in SUBSET There, steps \in 1..MaxPlanSteps :
              Begin(c, [at |-> "add", dependencies |-> dependencies, steps |-> steps])
        BY <1>5 DEF BeginAdd
    <2>2. [at |-> "add", dependencies |-> dependencies, steps |-> steps] \in TodoCallStates
        BY <2>1 DEF TodoCallStates, There
    <2> QED
        BY <1>5, <2>1, <2>2, TodoBoundsAssumption DEF BeginAdd
<1>6. CASE Insert(c)
    <2>1. todoCall[c].dependencies \in SUBSET Todos /\ todoCall[c].steps \in 1..MaxPlanSteps
        BY <1>6, TodoCallTypes DEF Insert
    <2>2. PICK t \in Todos :
              /\ todo' = [todo EXCEPT ![t] = [status |-> "OPEN", verified |-> FALSE,
                                              dependencies |-> todoCall[c].dependencies]]
              /\ \/ End(c)
                 \/ /\ todoCall[c].steps > 1
                    /\ todoCall' = [todoCall EXCEPT ![c] = [at |-> "between", dependencies |-> {t},
                                                            steps |-> todoCall[c].steps - 1]]
                    /\ UNCHANGED begun
        BY <1>6 DEF Insert
    <2>3. todo' \in [Todos -> TodoRows \cup {Absent, Removed}]
        BY <2>1, <2>2 DEF TodoRows, TodoStatuses
    <2>4. todoCall' \in [TodoCalls -> TodoCallStates] /\ begun' = begun
        <3>1. todoCall[c].steps > 1 =>
                  [at |-> "between", dependencies |-> {t}, steps |-> todoCall[c].steps - 1]
                      \in TodoCallStates
            BY <2>1, TodoBoundsAssumption DEF TodoCallStates
        <3> QED
            BY <1>0, <2>2, <3>1
    <2>5. crossed' \subseteq Todos /\ UNCHANGED <<vouched, outdated, regressed, rewired>>
        BY <1>6, <2>1 DEF Insert
    <2> QED
        BY <2>3, <2>4, <2>5
<1>7. CASE NextStep(c)
    <2>1. [todoCall[c] EXCEPT !.at = "add"] \in TodoCallStates
        BY <1>7, TodoCallTypes DEF NextStep, TodoCallStates
    <2> QED
        BY <1>0, <1>7, <2>1 DEF NextStep
<1>8. CASE BeginRewire(c)
    <2>1. PICK t \in There, dependencies \in SUBSET Todos :
              Begin(c, [at |-> "rewire", todo |-> t, dependencies |-> dependencies,
                        unread |-> dependencies])
        BY <1>8 DEF BeginRewire
    <2>2. [at |-> "rewire", todo |-> t, dependencies |-> dependencies, unread |-> dependencies]
              \in TodoCallStates
        BY <2>1 DEF TodoCallStates, There
    <2> QED
        BY <1>8, <2>1, <2>2, TodoBoundsAssumption DEF BeginRewire
<1>9. CASE FindDependency(c)
    <2>1. \A d : [todoCall[c] EXCEPT !.unread = @ \ {d}] \in TodoCallStates
        BY <1>9, TodoCallTypes DEF FindDependency, TodoCallStates
    <2> QED
        BY <1>0, <1>9, <2>1 DEF FindDependency
<1>10. CASE WriteDependencies(c)
    <2>1. todoCall[c].todo \in Todos /\ todoCall[c].dependencies \in SUBSET Todos
        BY <1>10, TodoCallTypes DEF WriteDependencies
    <2>2. todo' \in [Todos -> TodoRows \cup {Absent, Removed}]
        <3>1. CASE UNCHANGED todo
            BY <3>1
        <3>2. CASE /\ todoCall[c].todo \in There
                   /\ todo' = [todo EXCEPT ![todoCall[c].todo].dependencies =
                                               todoCall[c].dependencies]
            BY <2>1, <3>2, RowTypes DEF TodoRows
        <3> QED
            BY <1>10, <3>1, <3>2 DEF WriteDependencies
    <2>3. rewired' \subseteq Todos /\ crossed' \subseteq Todos
        BY <1>10, <2>1 DEF WriteDependencies
    <2> QED
        BY <1>0, <1>10, <2>2, <2>3 DEF WriteDependencies
<1>11. CASE BeginRemove(c)
    <2>1. PICK t \in There : Begin(c, [at |-> "remove", todo |-> t])
        BY <1>11 DEF BeginRemove
    <2>2. [at |-> "remove", todo |-> t] \in TodoCallStates
        BY <2>1 DEF TodoCallStates, There
    <2> QED
        BY <1>11, <2>1, <2>2, TodoBoundsAssumption DEF BeginRemove
<1>12. CASE Delete(c)
    <2>1. todoCall[c].todo \in Todos
        BY <1>12, TodoCallTypes DEF Delete
    <2> QED
        BY <1>0, <1>12, <2>1 DEF Delete
<1> QED
    BY <1>1, <1>2, <1>3, <1>4, <1>5, <1>6, <1>7, <1>8, <1>9, <1>10, <1>11, <1>12 DEF Step

-----------------------------------------------------------------------------
(* The verified flag.                                                      *)

(* What a call holds follows from what it has read, whoever steps.         *)
LEMMA HeldFlagStep ==
    ASSUME TodoTypeOK, HeldFlag, NEW c \in TodoCalls, Step(c)
    PROVE  HeldFlag'
<1> USE DEF TodoTypeOK, Begin, End, Idle
<1>1. CASE BeginUpdate(c)
    <2>1. PICK t \in There, status \in TodoStatuses, verified \in {"keep", "yes", "no"} :
              /\ status = "DONE" => NextVerified(status, verified, todo[t])
              /\ Begin(c, UpdateCall(t, status, verified))
        BY <1>1, BegunUpdate
    <2>2. /\ Says(status, verified) = "keep" =>
                 (NextVerified(status, verified, todo[t]) => todo[t].verified)
          /\ Says(status, verified) = "withdraw" => ~NextVerified(status, verified, todo[t])
        BY DEF Says, NextVerified, KeptVerified
    <2>3. todoCall' = [todoCall EXCEPT ![c] = UpdateCall(t, status, verified)]
        BY <2>1
    <2>4. /\ todoCall'[c].status = status
          /\ todoCall'[c].verified = NextVerified(status, verified, todo[t])
          /\ todoCall'[c].says = Says(status, verified)
          /\ todoCall'[c].seen = todo[t]
        BY <2>3 DEF UpdateCall
    <2>5. \A b \in TodoCalls \ {c} : todoCall'[b] = todoCall[b]
        BY <2>3
    <2> QED
        BY <2>1, <2>2, <2>4, <2>5 DEF HeldFlag
<1>2. CASE AcceptDependency(c)
    <2>1. PICK d : todoCall' = [todoCall EXCEPT ![c].unread = @ \ {d}]
        BY <1>2 DEF AcceptDependency
    <2>2. /\ todoCall'[c].status = todoCall[c].status
          /\ todoCall'[c].verified = todoCall[c].verified
          /\ todoCall'[c].says = todoCall[c].says
          /\ todoCall'[c].seen = todoCall[c].seen
          /\ todoCall'[c].at = todoCall[c].at
        BY <1>2, <2>1, TodoCallTypes DEF AcceptDependency
    <2>3. \A b \in TodoCalls \ {c} : todoCall'[b] = todoCall[b]
        BY <2>1
    <2> QED
        BY <2>2, <2>3 DEF HeldFlag
<1>3. CASE \/ RefuseDependency(c) \/ WriteTodo(c) \/ BeginAdd(c) \/ Insert(c) \/ NextStep(c)
           \/ BeginRewire(c) \/ FindDependency(c) \/ WriteDependencies(c)
           \/ BeginRemove(c) \/ Delete(c)
    <2>1. todoCall'[c].at # "update"
        BY <1>3, TodoCallTypes
           DEF RefuseDependency, WriteTodo, BeginAdd, Insert, NextStep, BeginRewire,
               FindDependency, WriteDependencies, BeginRemove, Delete
    <2>2. \A b \in TodoCalls \ {c} : todoCall'[b] = todoCall[b]
        BY <1>3 DEF RefuseDependency, WriteTodo, BeginAdd, Insert, NextStep, BeginRewire,
                    FindDependency, WriteDependencies, BeginRemove, Delete
    <2> QED
        BY <2>1, <2>2 DEF HeldFlag
<1> QED
    BY <1>1, <1>2, <1>3 DEF Step

(* A row gets the flag from a caller, keeps it, or was overwritten.        *)
LEMMA VerifiedStep ==
    ASSUME TodoTypeOK, HeldFlag, VerifiedByCaller, NEW c \in TodoCalls, Step(c)
    PROVE  VerifiedByCaller'
<1> USE DEF TodoTypeOK, VerifiedByCaller, todoHistory
<1>1. CASE \/ BeginUpdate(c) \/ AcceptDependency(c) \/ RefuseDependency(c) \/ BeginAdd(c)
           \/ NextStep(c) \/ BeginRewire(c) \/ FindDependency(c) \/ BeginRemove(c)
    <2>1. UNCHANGED <<todo, vouched, outdated>>
        BY <1>1 DEF BeginUpdate, AcceptDependency, RefuseDependency, BeginAdd, NextStep,
                    BeginRewire, FindDependency, BeginRemove
    <2> QED
        BY <2>1 DEF There
<1>2. CASE WriteTodo(c)
    <2> DEFINE t == todoCall[c].todo
    <2>1. CASE UNCHANGED <<todo, todoHistory>>
        BY <2>1 DEF There
    <2>2. CASE t \in There /\ ~UNCHANGED <<todo, todoHistory>>
        <3>1. /\ todo' = [todo EXCEPT ![t].status = todoCall[c].status,
                                      ![t].verified = todoCall[c].verified]
              /\ vouched' = CASE todoCall[c].says = "vouch"    -> vouched \cup {t}
                              [] todoCall[c].says = "keep"     -> vouched
                              [] todoCall[c].says = "withdraw" -> vouched \ {t}
              /\ outdated' = IF todoCall[c].seen = todo[t] THEN outdated ELSE outdated \cup {t}
            BY <1>2, <2>2 DEF WriteTodo
        <3>2. todoCall[c].says \in {"vouch", "keep", "withdraw"} /\ t \in Todos
              /\ todo[t] \in TodoRows
            BY <1>2, <2>2, TodoCallTypes, RowTypes DEF WriteTodo
        <3>3. \A u \in Todos \ {t} :
                  todo'[u] = todo[u] /\ (u \in vouched => u \in vouched')
            BY <3>1, <3>2
        <3>4. todo'[t].verified = todoCall[c].verified
            BY <3>1, <3>2 DEF TodoRows
        <3>5. ASSUME t \notin outdated', todo'[t].verified PROVE t \in vouched'
            <4>1. todoCall[c].seen = todo[t] /\ t \notin outdated
                BY <3>1, <3>5
            <4>2. CASE todoCall[c].says = "keep"
                <5>1. todo[t].verified
                    BY <1>2, <3>4, <3>5, <4>1, <4>2 DEF HeldFlag, WriteTodo
                <5> QED
                    BY <2>2, <3>1, <4>1, <4>2, <5>1
            <4>3. CASE todoCall[c].says = "withdraw"
                BY <1>2, <3>4, <3>5, <4>3 DEF HeldFlag, WriteTodo
            <4>4. CASE todoCall[c].says = "vouch"
                BY <3>1, <4>4
            <4> QED
                BY <3>2, <4>2, <4>3, <4>4
        <3>6. \A u \in There' \ {t} : u \in There
            BY <3>3 DEF There
        <3>7. outdated \subseteq outdated'
            BY <3>1
        <3> QED
            BY <3>3, <3>5, <3>6, <3>7 DEF There
    <2> QED
        BY <1>2, <2>1, <2>2 DEF WriteTodo
<1>3. CASE Insert(c)
    <2>1. PICK t \in Todos :
              todo' = [todo EXCEPT ![t] = [status |-> "OPEN", verified |-> FALSE,
                                           dependencies |-> todoCall[c].dependencies]]
        BY <1>3 DEF Insert
    <2>2. ~todo'[t].verified /\ \A u \in Todos \ {t} : todo'[u] = todo[u]
        BY <2>1
    <2>3. UNCHANGED <<vouched, outdated>>
        BY <1>3 DEF Insert
    <2> QED
        BY <2>2, <2>3 DEF There
<1>4. CASE WriteDependencies(c)
    <2>1. UNCHANGED <<vouched, outdated>>
        BY <1>4 DEF WriteDependencies
    <2>2. CASE UNCHANGED todo
        BY <2>1, <2>2 DEF There
    <2>3. CASE /\ todoCall[c].todo \in There
               /\ todo' = [todo EXCEPT ![todoCall[c].todo].dependencies =
                                           todoCall[c].dependencies]
        <3>1. \A u \in Todos : todo'[u].status = todo[u].status
                               /\ todo'[u].verified = todo[u].verified
            BY <2>3, RowTypes DEF TodoRows
        <3> QED
            BY <2>1, <3>1 DEF There
    <2> QED
        BY <1>4, <2>2, <2>3 DEF WriteDependencies
<1>5. CASE Delete(c)
    <2>1. \A u \in There' : u \in There /\ todo'[u] = todo[u]
        BY <1>5, TodoCallTypes DEF Delete, There, Removed, Absent, TodoStatuses
    <2>2. UNCHANGED <<vouched, outdated>>
        BY <1>5 DEF Delete
    <2> QED
        BY <2>1, <2>2
<1> QED
    BY <1>1, <1>2, <1>3, <1>4, <1>5 DEF Step

(* The initial state of the todos.                                         *)
LEMMA TodosBegin == TodoInit => FlagInv /\ There = {}
<1> SUFFICES ASSUME TodoInit PROVE FlagInv /\ There = {}
    OBVIOUS
<1>1. TodoTypeOK
    BY TodoBoundsAssumption DEF TodoInit, TodoTypeOK, TodoCallStates
<1>2. HeldFlag
    BY DEF TodoInit, HeldFlag, Idle
<1>3. There = {}
    BY DEF TodoInit, There, Absent, TodoStatuses
<1> QED
    BY <1>1, <1>2, <1>3 DEF FlagInv, VerifiedByCaller

(* Types, what calls hold, and the verified flag, in every state.          *)
THEOREM FlagInvariant == TodoSpec => []FlagInv
<1>1. TodoInit => FlagInv
    BY TodosBegin
<1>2. FlagInv /\ [TodoNext]_todoVars => FlagInv'
    <2> SUFFICES ASSUME FlagInv, [TodoNext]_todoVars PROVE FlagInv'
        OBVIOUS
    <2>1. ASSUME NEW c \in TodoCalls, Step(c) PROVE FlagInv'
        BY <2>1, TodoTypeStep, HeldFlagStep, VerifiedStep DEF FlagInv
    <2>2. CASE UNCHANGED todoVars
        BY <2>2 DEF todoVars, FlagInv, TodoTypeOK, HeldFlag, VerifiedByCaller, There
    <2> QED
        BY <2>1, <2>2 DEF TodoNext, Step
<1> QED
    BY <1>1, <1>2, PTL DEF TodoSpec

(* A row that says verified was verified by a caller since it was last     *)
(* reopened, unless a call wrote it over another's (session/store.py,      *)
(* update_todo).                                                           *)
THEOREM VerificationIsVouched == TodoSpec => []VerifiedByCaller
BY FlagInvariant, PTL DEF FlagInv

-----------------------------------------------------------------------------
(* The order of completions.                                               *)

(* What a step may make of the rows: none is forgotten, a dependency stays *)
(* unless it is set, a finished todo stays finished unless it regresses,   *)
(* and a todo gets DONE from a call that has read all its dependencies.    *)
RowsMove(c) ==
    /\ rewired \subseteq rewired' /\ regressed \subseteq regressed'
    /\ \A u \in Todos : todo[u] # Absent => todo'[u] # Absent
    /\ \A u \in There' : todo[u] # Absent => u \in There
    /\ \A u \in There' \cap There :
          /\ u \notin rewired' => todo'[u].dependencies = todo[u].dependencies
          /\ Finished(u) /\ u \notin regressed' => Finished(u)'
          /\ todo'[u].status = "DONE" =>
                 \/ todo[u].status = "DONE"
                 \/ Completes(c, u) /\ todoCall[c].unread = {} /\ Finished(u)'
    /\ \A u \in There' \ There :
          /\ todo'[u].status = "OPEN"
          /\ \A d \in todo'[u].dependencies : todo[d] # Absent

(* Every call of session/store.py moves the rows so.                       *)
LEMMA RowsStep ==
    ASSUME FlagInv, CallsKnown, NEW c \in TodoCalls, Step(c)
    PROVE  RowsMove(c)
<1> USE DEF FlagInv
<1>1. CASE UNCHANGED <<todo, rewired, regressed>>
    BY <1>1 DEF RowsMove, There, Finished
<1>2. CASE WriteTodo(c) /\ ~UNCHANGED <<todo, rewired, regressed>>
    <2>13. PICK t : t = todoCall[c].todo
        OBVIOUS
    <2>1. /\ t \in There
          /\ todo' = [todo EXCEPT ![t].status = todoCall[c].status,
                                  ![t].verified = todoCall[c].verified]
          /\ regressed' = IF todo[t].status = "DONE" /\ todoCall[c].status # "DONE"
                          THEN regressed \cup {t} ELSE regressed
          /\ rewired' = rewired
        BY <1>2, <2>13 DEF WriteTodo, todoHistory
    <2>0. todoCall[c].at = "update" /\ todoCall[c].unread = {}
        BY <1>2 DEF WriteTodo
    <2>2. t \in Todos /\ todo[t] \in TodoRows /\ todoCall[c].status \in TodoStatuses
        BY <2>0, <2>1, <2>13, TodoCallTypes, RowTypes
    <2>3. /\ todo'[t].status = todoCall[c].status
          /\ todo'[t].verified = todoCall[c].verified
          /\ todo'[t].dependencies = todo[t].dependencies
        BY <2>1, <2>2 DEF TodoTypeOK, TodoRows
    <2>4. \A u \in Todos \ {t} : todo'[u] = todo[u]
        BY <2>1, <2>2 DEF TodoTypeOK
    <2>5. todoCall[c].status = "DONE" => Finished(t)'
        <3>1. todoCall[c].status = "DONE" => todoCall[c].verified
            BY <2>0 DEF HeldFlag
        <3> QED
            BY <2>3, <3>1 DEF Finished
    <2>6. Finished(t) /\ t \notin regressed' => todoCall[c].status = "DONE"
        BY <2>1 DEF Finished
    <2>7. todo'[t] # Absent
        BY <2>2, <2>3 DEF TodoStatuses, Absent
    <2>8. There' = There
        BY <2>1, <2>2, <2>3, <2>4 DEF There
    <2>9. regressed \subseteq regressed'
        BY <2>1
    <2>10. \A u \in Todos \ {t} : Finished(u) => Finished(u)'
        BY <2>4 DEF Finished
    <2>11. \A u \in There : u \in Todos
        BY DEF There
    <2>12. \A u \in There :
               /\ todo'[u].dependencies = todo[u].dependencies
               /\ Finished(u) /\ u \notin regressed' => Finished(u)'
               /\ todo'[u].status = "DONE" =>
                      \/ todo[u].status = "DONE"
                      \/ Completes(c, u) /\ todoCall[c].unread = {} /\ Finished(u)'
        <3> SUFFICES ASSUME NEW u \in There
                     PROVE  /\ todo'[u].dependencies = todo[u].dependencies
                            /\ Finished(u) /\ u \notin regressed' => Finished(u)'
                            /\ todo'[u].status = "DONE" =>
                                   \/ todo[u].status = "DONE"
                                   \/ Completes(c, u) /\ todoCall[c].unread = {} /\ Finished(u)'
            OBVIOUS
        <3>1. CASE u = t
            BY <2>0, <2>3, <2>5, <2>6, <2>13, <3>1 DEF Completes
        <3>2. CASE u # t
            BY <2>4, <2>10, <2>11, <3>2
        <3> QED
            BY <3>1, <3>2
    <2> QED
        BY <2>1, <2>4, <2>7, <2>8, <2>9, <2>12 DEF RowsMove
<1>3. CASE Insert(c)
    <2>1. PICK t \in Todos :
              /\ todo[t] = Absent
              /\ todo' = [todo EXCEPT ![t] = [status |-> "OPEN", verified |-> FALSE,
                                              dependencies |-> todoCall[c].dependencies]]
        BY <1>3 DEF Insert
    <2>2. /\ todo'[t] = [status |-> "OPEN", verified |-> FALSE,
                         dependencies |-> todoCall[c].dependencies]
          /\ \A u \in Todos \ {t} : todo'[u] = todo[u]
        BY <2>1 DEF TodoTypeOK
    <2>3. UNCHANGED <<rewired, regressed>>
        BY <1>3 DEF Insert
    <2>4. todo'[t] # Absent /\ t \notin There
        BY <2>1, <2>2 DEF Absent, There, TodoStatuses
    <2>5. \A d \in todoCall[c].dependencies : todo[d] # Absent
        BY <1>3 DEF CallsKnown, Insert
    <2>6. \A u \in There' \ {t} : u \in There /\ todo'[u] = todo[u] /\ u \in Todos
        BY <2>2 DEF There
    <2>7. \A u \in Todos : todo[u] # Absent => todo'[u] # Absent
        BY <2>2, <2>4
    <2>8. todo'[t].status = "OPEN" /\ todo'[t].dependencies = todoCall[c].dependencies
        BY <2>2
    <2> QED
        BY <2>1, <2>3, <2>4, <2>5, <2>6, <2>7, <2>8 DEF RowsMove, Finished
<1>4. CASE WriteDependencies(c) /\ ~UNCHANGED <<todo, rewired, regressed>>
    <2> DEFINE t == todoCall[c].todo
    <2>1. /\ t \in There
          /\ todo' = [todo EXCEPT ![t].dependencies = todoCall[c].dependencies]
          /\ rewired' = rewired \cup {t}
          /\ regressed' = regressed
        BY <1>4 DEF WriteDependencies
    <2>2. t \in Todos /\ todo[t] \in TodoRows
        BY <2>1, RowTypes
    <2>3. /\ todo'[t].status = todo[t].status
          /\ todo'[t].verified = todo[t].verified
        BY <2>1, <2>2 DEF TodoTypeOK, TodoRows
    <2>4. \A u \in Todos \ {t} : todo'[u] = todo[u]
        BY <2>1, <2>2 DEF TodoTypeOK
    <2>5. todo'[t] # Absent
        BY <2>2, <2>3 DEF TodoRows, TodoStatuses, Absent
    <2>6. There' = There
        BY <2>1, <2>2, <2>3, <2>4 DEF There
    <2>7. \A u \in There : u \in Todos
        BY DEF There
    <2>8. \A u \in There : todo'[u].status = todo[u].status /\ todo'[u].verified = todo[u].verified
        BY <2>3, <2>4, <2>7
    <2> QED
        BY <2>1, <2>4, <2>5, <2>6, <2>7, <2>8 DEF RowsMove, Finished
<1>5. CASE Delete(c)
    <2>1. todoCall[c].todo \in Todos
        BY <1>5, TodoCallTypes DEF Delete
    <2>2. /\ todo'[todoCall[c].todo] = Removed
          /\ \A u \in Todos \ {todoCall[c].todo} : todo'[u] = todo[u]
        BY <1>5, <2>1 DEF Delete, TodoTypeOK
    <2>3. Removed # Absent /\ Removed.status \notin TodoStatuses
        BY DEF Removed, Absent, TodoStatuses
    <2>4. \A u \in There' : u \in There /\ todo'[u] = todo[u]
        BY <2>2, <2>3 DEF There
    <2>5. UNCHANGED <<rewired, regressed>>
        BY <1>5 DEF Delete
    <2> QED
        BY <2>2, <2>3, <2>4, <2>5 DEF RowsMove, Finished
<1> QED
    BY <1>1, <1>2, <1>3, <1>4, <1>5
       DEF Step, BeginUpdate, AcceptDependency, RefuseDependency, BeginAdd, NextStep,
           BeginRewire, FindDependency, BeginRemove, todoHistory

(* A call changes its own record only, and works on a completion after it  *)
(* only by going on with one, having read a finished dependency, or by     *)
(* beginning one that has read none.                                       *)
CallMoves(c) ==
    /\ \A b \in TodoCalls \ {c} : todoCall'[b] = todoCall[b]
    /\ \A t \in There : Completes(c, t)' =>
          \/ todo[t].dependencies \subseteq todoCall'[c].unread
          \/ /\ Completes(c, t)
             /\ \A d \in todoCall[c].unread \ todoCall'[c].unread : Finished(d)
    /\ todoCall'[c].at = "update" =>
          \/ todoCall'[c].todo \in There
          \/ todoCall[c].at = "update" /\ todoCall'[c].todo = todoCall[c].todo
    /\ todoCall'[c].at = "update" => UNCHANGED <<todo, rewired, regressed>>

(* Every call of session/store.py moves so.                                *)
LEMMA CallStep ==
    ASSUME FlagInv, NEW c \in TodoCalls, Step(c)
    PROVE  CallMoves(c)
<1> USE DEF FlagInv
<1>1. CASE BeginUpdate(c)
    <2>1. PICK t \in There, status \in TodoStatuses, verified \in {"keep", "yes", "no"} :
              Begin(c, UpdateCall(t, status, verified)) /\ UNCHANGED <<todo, todoHistory>>
        BY <1>1, BegunUpdate
    <2>2. todoCall'[c] = UpdateCall(t, status, verified)
        BY <2>1 DEF Begin, TodoTypeOK
    <2>3. /\ todoCall'[c].todo = t /\ todoCall'[c].status = status
          /\ todoCall'[c].unread = IF status = "DONE" THEN todo[t].dependencies ELSE {}
        BY <2>2 DEF UpdateCall
    <2>4. \A b \in TodoCalls \ {c} : todoCall'[b] = todoCall[b]
        BY <2>1 DEF Begin, TodoTypeOK
    <2>5. UNCHANGED <<todo, rewired, regressed>>
        BY <2>1 DEF todoHistory
    <2>6. \A u \in There : Completes(c, u)' => todo[u].dependencies \subseteq todoCall'[c].unread
        BY <2>3 DEF Completes
    <2> QED
        BY <2>3, <2>4, <2>5, <2>6 DEF CallMoves
<1>2. CASE AcceptDependency(c)
    <2>1. PICK d \in todoCall[c].unread :
              Finished(d) /\ todoCall' = [todoCall EXCEPT ![c].unread = @ \ {d}]
        BY <1>2 DEF AcceptDependency
    <2>2. /\ todoCall'[c].at = todoCall[c].at
          /\ todoCall'[c].status = todoCall[c].status
          /\ todoCall'[c].todo = todoCall[c].todo
          /\ todoCall'[c].unread = todoCall[c].unread \ {d}
        BY <1>2, <2>1, TodoCallTypes DEF AcceptDependency, TodoTypeOK
    <2>3. \A b \in TodoCalls \ {c} : todoCall'[b] = todoCall[b]
        BY <2>1 DEF TodoTypeOK
    <2>4. UNCHANGED <<todo, rewired, regressed>>
        BY <1>2 DEF AcceptDependency, todoHistory
    <2> QED
        BY <2>1, <2>2, <2>3, <2>4 DEF CallMoves, Completes
<1>3. CASE \/ RefuseDependency(c) \/ WriteTodo(c) \/ BeginAdd(c) \/ Insert(c) \/ NextStep(c)
           \/ BeginRewire(c) \/ FindDependency(c) \/ WriteDependencies(c)
           \/ BeginRemove(c) \/ Delete(c)
    <2> USE DEF RefuseDependency, WriteTodo, BeginAdd, Insert, NextStep, BeginRewire,
                FindDependency, WriteDependencies, BeginRemove, Delete, Begin, End, Idle, TodoTypeOK
    <2>1. todoCall'[c].at # "update"
        BY <1>3, TodoCallTypes
    <2>2. \A b \in TodoCalls \ {c} : todoCall'[b] = todoCall[b]
        BY <1>3
    <2> QED
        BY <2>1, <2>2 DEF CallMoves, Completes
<1> QED
    BY <1>1, <1>2, <1>3 DEF Step

(* What is depended on, or worked on, was added before, after any step.    *)
LEMMA KnownStep ==
    ASSUME FlagInv, FlagInv', RowsKnown, CallsKnown, NEW c \in TodoCalls, Step(c)
    PROVE  RowsKnown' /\ CallsKnown'
<1> USE DEF FlagInv
<1>1. RowsMove(c) /\ CallMoves(c)
    BY RowsStep, CallStep
<1>2. \A d \in Todos : todo[d] # Absent => todo'[d] # Absent
    BY <1>1 DEF RowsMove
<1>3. \A t \in There' : t \in Todos /\ \A d \in todo'[t].dependencies : d \in Todos
    BY DEF There, TodoTypeOK, TodoRows, Absent, Removed
<1>4. RowsKnown'
    <2> SUFFICES ASSUME NEW t \in There', t \notin rewired', NEW d \in todo'[t].dependencies
                 PROVE  todo'[d] # Absent
        BY DEF RowsKnown
    <2>1. CASE t \in There
        BY <1>1, <1>2, <1>3, <2>1 DEF RowsMove, RowsKnown
    <2>2. CASE t \notin There
        BY <1>1, <1>2, <1>3, <2>2 DEF RowsMove
    <2> QED
        BY <2>1, <2>2
<1>5. \A b \in TodoCalls :
          /\ todoCall[b].at \in {"add", "between"} => \A d \in todoCall[b].dependencies : d \in Todos
          /\ todoCall[b].at = "update" => todoCall[b].todo \in Todos
    BY TodoCallTypes
<1>6. \A b \in TodoCalls \ {c} : todoCall'[b] = todoCall[b]
    BY <1>1 DEF CallMoves
<1>7. todoCall'[c].at = "update" => todo'[todoCall'[c].todo] # Absent
    <2> SUFFICES ASSUME todoCall'[c].at = "update" PROVE todo'[todoCall'[c].todo] # Absent
        OBVIOUS
    <2>1. CASE todoCall'[c].todo \in There
        BY <1>2, <2>1, RowTypes
    <2>2. CASE todoCall[c].at = "update" /\ todoCall'[c].todo = todoCall[c].todo
        BY <1>2, <1>5, <2>2 DEF CallsKnown
    <2> QED
        BY <1>1, <2>1, <2>2 DEF CallMoves
<1>8. todoCall'[c].at \in {"add", "between"} =>
          \A d \in todoCall'[c].dependencies : todo'[d] # Absent
    <2> USE DEF Begin, End, Idle, TodoTypeOK
    <2>1. CASE BeginAdd(c)
        <3>1. PICK dependencies \in SUBSET There, steps \in 1..MaxPlanSteps :
                  Begin(c, [at |-> "add", dependencies |-> dependencies, steps |-> steps])
            BY <2>1 DEF BeginAdd
        <3>2. todoCall'[c].dependencies \subseteq There
            BY <3>1
        <3> QED
            BY <1>2, <3>2, RowTypes
    <2>2. CASE Insert(c)
        <3>1. PICK t \in Todos :
                  /\ todo' = [todo EXCEPT ![t] = [status |-> "OPEN", verified |-> FALSE,
                                                  dependencies |-> todoCall[c].dependencies]]
                  /\ \/ End(c)
                     \/ todoCall' = [todoCall EXCEPT ![c] = [at |-> "between", dependencies |-> {t},
                                                             steps |-> todoCall[c].steps - 1]]
            BY <2>2 DEF Insert
        <3>2. todoCall'[c] = Idle \/ todoCall'[c].dependencies = {t}
            BY <3>1
        <3>3. todo'[t].status = "OPEN"
            BY <3>1
        <3>4. todo'[t] # Absent
            BY <3>3 DEF Absent
        <3> QED
            BY <3>2, <3>4
    <2>3. CASE NextStep(c)
        <3>1. todoCall'[c] = Idle
              \/ /\ todoCall[c].at = "between"
                 /\ todoCall'[c].dependencies = todoCall[c].dependencies
            BY <2>3, TodoCallTypes DEF NextStep
        <3> QED
            BY <1>2, <1>5, <3>1 DEF CallsKnown
    <2>4. CASE \/ BeginUpdate(c) \/ AcceptDependency(c) \/ RefuseDependency(c) \/ WriteTodo(c)
               \/ BeginRewire(c) \/ FindDependency(c) \/ WriteDependencies(c)
               \/ BeginRemove(c) \/ Delete(c)
        <3>1. todoCall'[c].at \notin {"add", "between"}
            BY <2>4, TodoCallTypes
               DEF BeginUpdate, AcceptDependency, RefuseDependency, WriteTodo, BeginRewire,
                   FindDependency, WriteDependencies, BeginRemove, Delete
        <3> QED
            BY <3>1
    <2> QED
        BY <2>1, <2>2, <2>3, <2>4 DEF Step
<1> QED
    BY <1>2, <1>4, <1>5, <1>6, <1>7, <1>8 DEF CallsKnown

(* What completions have read, and what DONE rests on, after any step.     *)
LEMMA OrderStep ==
    ASSUME OrderInv, NEW c \in TodoCalls, Step(c)
    PROVE  HeldDependencies' /\ DoneRestsOnDone'
<1>1. RowsMove(c) /\ CallMoves(c)
    BY RowsStep, CallStep DEF OrderInv
<1>2. ASSUME NEW t \in There, t \in There', t \notin rewired',
             NEW d \in todo'[t].dependencies, d \in There', d \notin regressed'
      PROVE  /\ t \notin rewired /\ d \in todo[t].dependencies
             /\ d \in There /\ d \notin regressed
             /\ Finished(d) => Finished(d)'
    <2>1. t \notin rewired /\ d \in todo[t].dependencies /\ d \notin regressed
        BY <1>1, <1>2 DEF RowsMove
    <2>2. todo[d] # Absent
        BY <2>1 DEF OrderInv, RowsKnown
    <2> QED
        BY <1>1, <1>2, <2>1, <2>2 DEF RowsMove
<1>3. DoneRestsOnDone'
    <2> SUFFICES ASSUME NEW t \in There', t \notin rewired', todo'[t].status = "DONE",
                        NEW d \in todo'[t].dependencies, d \in There', d \notin regressed'
                 PROVE  Finished(d)'
        BY DEF DoneRestsOnDone
    <2>1. t \in There
        BY <1>1 DEF RowsMove
    <2>2. CASE todo[t].status = "DONE"
        BY <1>2, <2>1, <2>2 DEF OrderInv, DoneRestsOnDone
    <2>3. CASE Completes(c, t) /\ todoCall[c].unread = {}
        BY <1>2, <2>1, <2>3 DEF OrderInv, HeldDependencies
    <2> QED
        BY <1>1, <2>1, <2>2, <2>3 DEF RowsMove
<1>4. HeldDependencies'
    <2> SUFFICES ASSUME NEW b \in TodoCalls, NEW t \in There', t \notin rewired',
                        Completes(b, t)',
                        NEW d \in todo'[t].dependencies, d \notin todoCall'[b].unread,
                        d \in There', d \notin regressed'
                 PROVE  Finished(d)'
        BY DEF HeldDependencies
    <2>1. CASE b = c
        <3>1. UNCHANGED <<todo, rewired, regressed>>
            BY <1>1, <2>1 DEF CallMoves, Completes
        <3>2. There' = There /\ (Finished(d)' <=> Finished(d))
            BY <3>1 DEF There, Finished
        <3>3. CASE todo[t].dependencies \subseteq todoCall'[c].unread
            BY <2>1, <3>1, <3>3
        <3>4. CASE /\ Completes(c, t)
                   /\ \A e \in todoCall[c].unread \ todoCall'[c].unread : Finished(e)
            BY <2>1, <3>1, <3>2, <3>4 DEF OrderInv, HeldDependencies
        <3> QED
            BY <1>1, <2>1, <3>2, <3>3, <3>4 DEF CallMoves
    <2>2. CASE b # c
        <3>1. todoCall'[b] = todoCall[b]
            BY <1>1, <2>2 DEF CallMoves
        <3>2. Completes(b, t)
            BY <3>1 DEF Completes
        <3>3. todo[t] # Absent
            BY <3>2 DEF OrderInv, CallsKnown, Completes
        <3>4. t \in There
            BY <1>1, <3>3 DEF RowsMove
        <3> QED
            BY <1>2, <3>1, <3>2, <3>4 DEF OrderInv, HeldDependencies
    <2> QED
        BY <2>1, <2>2
<1> QED
    BY <1>3, <1>4

(* The order of completions, in every state.                               *)
THEOREM OrderInvariant == TodoSpec => []OrderInv
<1>1. TodoInit => OrderInv
    BY TodosBegin
       DEF TodoInit, OrderInv, RowsKnown, CallsKnown, HeldDependencies, DoneRestsOnDone, Idle
<1>2. OrderInv /\ FlagInv' /\ [TodoNext]_todoVars => OrderInv'
    <2> SUFFICES ASSUME OrderInv, FlagInv', [TodoNext]_todoVars PROVE OrderInv'
        OBVIOUS
    <2>1. ASSUME NEW c \in TodoCalls, Step(c) PROVE OrderInv'
        <3>1. RowsKnown' /\ CallsKnown'
            BY <2>1, KnownStep DEF OrderInv
        <3>2. HeldDependencies' /\ DoneRestsOnDone'
            BY <2>1, OrderStep DEF OrderInv
        <3> QED
            BY <3>1, <3>2 DEF OrderInv
    <2>2. CASE UNCHANGED todoVars
        BY <2>2 DEF todoVars, OrderInv, RowsKnown, CallsKnown, HeldDependencies, DoneRestsOnDone,
                    Completes, Finished, There
    <2> QED
        BY <2>1, <2>2 DEF TodoNext, Step
<1> QED
    BY <1>1, <1>2, FlagInvariant, PTL DEF TodoSpec

(* What a DONE todo depends on is DONE and verified, unless it was reopened*)
(* or the dependencies were set later (session/store.py,                   *)
(* _dependencies_complete).                                                *)
THEOREM CompletionsInOrder == TodoSpec => []DoneRestsOnDone
BY OrderInvariant, PTL DEF OrderInv

-----------------------------------------------------------------------------
(* What keeps a todo from being completed.                                 *)

(* What a todo depends on, and what a call has found to depend on, is      *)
(* there, or its removal crossed a call.                                   *)
RowsRest == \A t \in There : todo[t].dependencies \subseteq There \cup crossed

(* What a call under way has found to depend on is there, or its removal   *)
(* crossed the call.                                                       *)
CallsRest ==
    \A c \in TodoCalls :
        /\ todoCall[c].at = "add" => todoCall[c].dependencies \subseteq There \cup crossed
        /\ todoCall[c].at = "rewire" =>
               todoCall[c].dependencies \ todoCall[c].unread \subseteq There \cup crossed

(* Nothing else has come to depend on a todo that a call is removing, or   *)
(* that removal crossed a call.                                            *)
LeavingIsFree ==
    \A c \in TodoCalls :
        todoCall[c].at = "remove" =>
            (DependentsOf(todoCall[c].todo) \ {todoCall[c].todo} # {} => todoCall[c].todo \in crossed)

(* Todos with the dependencies they were added with do not wait in a ring. *)
AddedInOrder ==
    \A set \in SUBSET (There \ rewired) :
        set # {} => \E u \in set : todo[u].dependencies \cap set = {}

(* The inductive invariant of the todos that cannot be completed.          *)
StuckInv == OrderInv /\ RowsRest /\ CallsRest /\ LeavingIsFree /\ AddedInOrder

(* What a step may make of the dependencies: a row keeps its own or gets   *)
(* those of a call that has found them, and a row goes by its removal; of  *)
(* what a removal and such a call have in common the history is told.      *)
DependenciesMove(c) ==
    /\ crossed \subseteq crossed'
    /\ \A u \in There' :
          \/ u \in There /\ todo'[u].dependencies = todo[u].dependencies
          \/ /\ todoCall[c].at \in {"add", "rewire"}
             /\ todoCall[c].at = "rewire" => todoCall[c].unread = {}
             /\ todo'[u].dependencies = todoCall[c].dependencies
             /\ todoCall[c].dependencies \cap Leaving \subseteq crossed'
    /\ \A u \in There \ There' :
          /\ todoCall[c].at = "remove"
          /\ todoCall[c].todo = u
          /\ u \in Wanted => u \in crossed'

(* Every call of session/store.py moves them so.                           *)
LEMMA DependenciesStep ==
    ASSUME TodoTypeOK, NEW c \in TodoCalls, Step(c)
    PROVE  DependenciesMove(c)
<1>1. CASE UNCHANGED <<todo, crossed>>
    BY <1>1 DEF DependenciesMove, There
<1>2. CASE WriteTodo(c) /\ ~UNCHANGED <<todo, crossed>>
    <2>1. PICK t : t = todoCall[c].todo
        OBVIOUS
    <2>2. /\ t \in There
          /\ todo' = [todo EXCEPT ![t].status = todoCall[c].status,
                                  ![t].verified = todoCall[c].verified]
          /\ UNCHANGED crossed
        BY <1>2, <2>1 DEF WriteTodo, todoHistory
    <2>3. t \in Todos /\ todo[t] \in TodoRows
        BY <2>2, RowTypes
    <2>4. todoCall[c].status \in TodoStatuses
        BY <1>2, TodoCallTypes DEF WriteTodo
    <2>5. /\ todo'[t].dependencies = todo[t].dependencies
          /\ todo'[t].status = todoCall[c].status
          /\ \A u \in Todos \ {t} : todo'[u] = todo[u]
        BY <2>2, <2>3 DEF TodoTypeOK, TodoRows
    <2>6. There' = There
        BY <2>2, <2>4, <2>5 DEF There
    <2> QED
        BY <2>2, <2>5, <2>6 DEF DependenciesMove, There
<1>3. CASE Insert(c)
    <2>1. PICK t \in Todos :
              /\ todo[t] = Absent
              /\ todo' = [todo EXCEPT ![t] = [status |-> "OPEN", verified |-> FALSE,
                                              dependencies |-> todoCall[c].dependencies]]
        BY <1>3 DEF Insert
    <2>2. /\ todo'[t].dependencies = todoCall[c].dependencies
          /\ \A u \in Todos \ {t} : todo'[u] = todo[u]
        BY <2>1 DEF TodoTypeOK
    <2>3. t \notin There
        BY <2>1 DEF There, Absent, TodoStatuses
    <2>4. todoCall[c].at = "add" /\ crossed' = crossed \cup (todoCall[c].dependencies \cap Leaving)
        BY <1>3 DEF Insert
    <2>5. There \subseteq There'
        BY <2>2, <2>3 DEF There
    <2>6. \A u \in There' \ {t} : u \in There /\ todo'[u] = todo[u]
        BY <2>2 DEF There
    <2> QED
        BY <2>2, <2>4, <2>5, <2>6 DEF DependenciesMove
<1>4. CASE WriteDependencies(c) /\ ~UNCHANGED <<todo, crossed>>
    <2>1. PICK t : t = todoCall[c].todo
        OBVIOUS
    <2>2. /\ t \in There
          /\ todo' = [todo EXCEPT ![t].dependencies = todoCall[c].dependencies]
          /\ crossed' = crossed \cup (todoCall[c].dependencies \cap Leaving)
          /\ todoCall[c].at = "rewire"
          /\ todoCall[c].unread = {}
        BY <1>4, <2>1 DEF WriteDependencies
    <2>3. t \in Todos /\ todo[t] \in TodoRows
        BY <2>2, RowTypes
    <2>4. /\ todo'[t].dependencies = todoCall[c].dependencies
          /\ todo'[t].status = todo[t].status
          /\ \A u \in Todos \ {t} : todo'[u] = todo[u]
        BY <2>2, <2>3 DEF TodoTypeOK, TodoRows
    <2>5. There' = There
        BY <2>4 DEF There
    <2> QED
        BY <2>2, <2>4, <2>5 DEF DependenciesMove, There
<1>5. CASE Delete(c)
    <2>1. PICK t \in Todos : t = todoCall[c].todo
        BY <1>5, TodoCallTypes DEF Delete
    <2>2. /\ todo'[t] = Removed
          /\ \A u \in Todos \ {t} : todo'[u] = todo[u]
          /\ crossed' = crossed \cup ({t} \cap Wanted)
          /\ todoCall[c].at = "remove"
        BY <1>5, <2>1 DEF Delete, TodoTypeOK
    <2>3. t \notin There'
        BY <2>2 DEF There, Removed, Absent, TodoStatuses
    <2>4. \A u \in There' : u \in There /\ todo'[u] = todo[u]
        BY <2>2, <2>3 DEF There
    <2>5. \A u \in There \ There' : u = t
        BY <2>2 DEF There
    <2> QED
        BY <2>1, <2>2, <2>4, <2>5 DEF DependenciesMove
<1> QED
    BY <1>1, <1>2, <1>3, <1>4, <1>5
       DEF Step, BeginUpdate, AcceptDependency, RefuseDependency, BeginAdd, NextStep,
           BeginRewire, FindDependency, BeginRemove, todoHistory

(* A call comes to add, to set or to remove by reading rows only, and has  *)
(* found what it holds.                                                    *)
LookupsMove(c) ==
    /\ \A b \in TodoCalls \ {c} : todoCall'[b] = todoCall[b]
    /\ todoCall'[c].at \in {"add", "rewire", "remove"} => UNCHANGED todo
    /\ todoCall'[c].at = "add" => todoCall'[c].dependencies \subseteq There
    /\ todoCall'[c].at = "rewire" =>
          \/ todoCall'[c].dependencies \subseteq todoCall'[c].unread
          \/ /\ todoCall[c].at = "rewire"
             /\ todoCall'[c].dependencies = todoCall[c].dependencies
             /\ todoCall[c].unread \ todoCall'[c].unread \subseteq There
    /\ todoCall'[c].at = "remove" => DependentsOf(todoCall'[c].todo) \subseteq {todoCall'[c].todo}

(* Every call of session/store.py looks up so.                             *)
LEMMA LookupsStep ==
    ASSUME TodoTypeOK, NEW c \in TodoCalls, Step(c)
    PROVE  LookupsMove(c)
<1>0. Idle.at = "idle"
    BY DEF Idle
<1>1. CASE BeginAdd(c)
    <2>1. PICK dependencies \in SUBSET There, steps \in 1..MaxPlanSteps :
              todoCall' = [todoCall EXCEPT ![c] = [at |-> "add", dependencies |-> dependencies,
                                                   steps |-> steps]]
        BY <1>1 DEF BeginAdd, Begin
    <2> QED
        BY <1>1, <2>1 DEF BeginAdd, LookupsMove, TodoTypeOK
<1>2. CASE NextStep(c)
    <2>1. CASE /\ todoCall[c].dependencies \subseteq There
               /\ todoCall' = [todoCall EXCEPT ![c].at = "add"]
        <3>1. /\ todoCall'[c].at = "add"
              /\ todoCall'[c].dependencies = todoCall[c].dependencies
              /\ \A b \in TodoCalls \ {c} : todoCall'[b] = todoCall[b]
            BY <1>2, <2>1, TodoCallTypes DEF NextStep, TodoTypeOK
        <3> QED
            BY <1>2, <2>1, <3>1 DEF NextStep, LookupsMove
    <2>2. CASE End(c)
        BY <1>0, <2>2 DEF End, LookupsMove, TodoTypeOK
    <2> QED
        BY <1>2, <2>1, <2>2 DEF NextStep
<1>3. CASE BeginRewire(c)
    <2>1. PICK t \in There, dependencies \in SUBSET Todos :
              todoCall' = [todoCall EXCEPT ![c] = [at |-> "rewire", todo |-> t,
                                                   dependencies |-> dependencies,
                                                   unread |-> dependencies]]
        BY <1>3 DEF BeginRewire, Begin
    <2> QED
        BY <1>3, <2>1 DEF BeginRewire, LookupsMove, TodoTypeOK
<1>4. CASE FindDependency(c)
    <2>1. PICK d \in todoCall[c].unread :
              \/ d \in There /\ todoCall' = [todoCall EXCEPT ![c].unread = @ \ {d}]
              \/ End(c)
        BY <1>4 DEF FindDependency
    <2>2. CASE d \in There /\ todoCall' = [todoCall EXCEPT ![c].unread = @ \ {d}]
        <3>1. /\ todoCall'[c].at = "rewire"
              /\ todoCall'[c].dependencies = todoCall[c].dependencies
              /\ todoCall'[c].unread = todoCall[c].unread \ {d}
              /\ \A b \in TodoCalls \ {c} : todoCall'[b] = todoCall[b]
            BY <1>4, <2>2, TodoCallTypes DEF FindDependency, TodoTypeOK
        <3> QED
            BY <1>4, <2>2, <3>1 DEF FindDependency, LookupsMove
    <2>3. CASE End(c)
        BY <1>0, <2>3 DEF End, LookupsMove, TodoTypeOK
    <2> QED
        BY <2>1, <2>2, <2>3
<1>5. CASE BeginRemove(c)
    <2>1. PICK t \in There :
              /\ DependentsOf(t) \ {t} = {}
              /\ todoCall' = [todoCall EXCEPT ![c] = [at |-> "remove", todo |-> t]]
        BY <1>5 DEF BeginRemove, Begin
    <2>2. todoCall'[c].at = "remove" /\ todoCall'[c].todo = t
        BY <2>1 DEF TodoTypeOK
    <2>3. \A b \in TodoCalls \ {c} : todoCall'[b] = todoCall[b]
        BY <2>1 DEF TodoTypeOK
    <2> QED
        BY <1>5, <2>1, <2>2, <2>3 DEF BeginRemove, LookupsMove
<1>6. CASE \/ BeginUpdate(c) \/ AcceptDependency(c) \/ RefuseDependency(c) \/ WriteTodo(c)
           \/ Insert(c) \/ WriteDependencies(c) \/ Delete(c)
    <2>1. /\ todoCall'[c].at \notin {"add", "rewire", "remove"}
          /\ \A b \in TodoCalls \ {c} : todoCall'[b] = todoCall[b]
        <3> USE DEF Begin, End, TodoTypeOK
        <3>1. CASE BeginUpdate(c)
            BY <3>1, BegunUpdate DEF UpdateCall
        <3>2. CASE AcceptDependency(c)
            BY <3>2, TodoCallTypes DEF AcceptDependency
        <3>3. CASE Insert(c)
            BY <1>0, <3>3 DEF Insert
        <3>4. CASE RefuseDependency(c) \/ WriteTodo(c) \/ WriteDependencies(c) \/ Delete(c)
            BY <1>0, <3>4 DEF RefuseDependency, WriteTodo, WriteDependencies, Delete
        <3> QED
            BY <1>6, <3>1, <3>2, <3>3, <3>4
    <2> QED
        BY <2>1 DEF LookupsMove
<1> QED
    BY <1>1, <1>2, <1>3, <1>4, <1>5, <1>6 DEF Step

(* The invariant after any step.                                           *)
LEMMA StuckStep ==
    ASSUME StuckInv, OrderInv', NEW c \in TodoCalls, Step(c)
    PROVE  StuckInv'
<1>1. DependenciesMove(c) /\ LookupsMove(c) /\ RowsMove(c)
    BY DependenciesStep, LookupsStep, RowsStep DEF StuckInv, OrderInv, FlagInv
<1>2. RowsRest'
    <2> SUFFICES ASSUME NEW t \in There', NEW d \in todo'[t].dependencies
                 PROVE  d \in There' \/ d \in crossed'
        BY DEF RowsRest
    <2>1. d \in There \cup crossed
        <3>1. CASE t \in There /\ todo'[t].dependencies = todo[t].dependencies
            BY <3>1 DEF StuckInv, RowsRest
        <3>2. CASE /\ todoCall[c].at \in {"add", "rewire"}
                   /\ todoCall[c].at = "rewire" => todoCall[c].unread = {}
                   /\ todo'[t].dependencies = todoCall[c].dependencies
            BY <3>2 DEF StuckInv, CallsRest
        <3> QED
            BY <1>1, <3>1, <3>2 DEF DependenciesMove
    <2>2. CASE d \in There \ There'
        <3>1. todoCall[c].at = "remove" /\ todoCall[c].todo = d
            BY <1>1, <2>2 DEF DependenciesMove
        <3>2. t \in There /\ todo'[t].dependencies = todo[t].dependencies
            BY <1>1, <3>1 DEF DependenciesMove
        <3>3. t \in DependentsOf(d) \ {d}
            BY <2>2, <3>2 DEF DependentsOf
        <3> QED
            BY <1>1, <3>1, <3>3 DEF StuckInv, LeavingIsFree, DependenciesMove
    <2> QED
        BY <1>1, <2>1, <2>2 DEF DependenciesMove
<1>3. CallsRest'
    <2>1. /\ todoCall'[c].at = "add" => todoCall'[c].dependencies \subseteq There' \cup crossed'
          /\ todoCall'[c].at = "rewire" =>
                 todoCall'[c].dependencies \ todoCall'[c].unread \subseteq There' \cup crossed'
        <3>1. todoCall'[c].at \in {"add", "rewire"} => There' = There
            BY <1>1 DEF LookupsMove, There
        <3> QED
            BY <1>1, <3>1 DEF LookupsMove, DependenciesMove, StuckInv, CallsRest
    <2>2. ASSUME NEW b \in TodoCalls \ {c}
          PROVE  /\ todoCall'[b].at = "add" =>
                        todoCall'[b].dependencies \subseteq There' \cup crossed'
                 /\ todoCall'[b].at = "rewire" =>
                        todoCall'[b].dependencies \ todoCall'[b].unread \subseteq There' \cup crossed'
        <3>1. todoCall'[b] = todoCall[b]
            BY <1>1 DEF LookupsMove
        <3>2. todoCall[b].at \in {"add", "rewire"} => todoCall[b].dependencies \subseteq Wanted
            BY DEF Wanted
        <3>3. There \cap Wanted \subseteq There' \cup crossed'
            BY <1>1 DEF DependenciesMove
        <3> QED
            BY <1>1, <3>1, <3>2, <3>3 DEF StuckInv, CallsRest, DependenciesMove
    <2> QED
        BY <2>1, <2>2 DEF CallsRest
<1>4. LeavingIsFree'
    <2> SUFFICES ASSUME NEW b \in TodoCalls, todoCall'[b].at = "remove",
                        NEW u \in DependentsOf(todoCall[b].todo)',
                        u # todoCall'[b].todo
                 PROVE  todoCall'[b].todo \in crossed'
        BY DEF LeavingIsFree
    <2>1. u \in There' /\ todoCall'[b].todo \in todo'[u].dependencies
        BY DEF DependentsOf
    <2>2. CASE b = c
        <3>1. todo' = todo /\ There' = There
            BY <1>1, <2>2 DEF LookupsMove, There
        <3>2. u \in DependentsOf(todoCall'[c].todo)
            BY <2>1, <2>2, <3>1 DEF DependentsOf
        <3> QED
            BY <1>1, <2>2, <3>2 DEF LookupsMove
    <2>3. CASE b # c
        <3>1. todoCall'[b] = todoCall[b]
            BY <1>1, <2>3 DEF LookupsMove
        <3>2. todoCall[b].todo \in Leaving
            BY <3>1 DEF Leaving
        <3>3. CASE u \in There /\ todo'[u].dependencies = todo[u].dependencies
            <4>1. u \in DependentsOf(todoCall[b].todo)
                BY <2>1, <3>1, <3>3 DEF DependentsOf
            <4> QED
                BY <1>1, <3>1, <4>1 DEF StuckInv, LeavingIsFree, DependenciesMove
        <3>4. CASE /\ todo'[u].dependencies = todoCall[c].dependencies
                   /\ todoCall[c].dependencies \cap Leaving \subseteq crossed'
            BY <2>1, <3>1, <3>2, <3>4
        <3> QED
            BY <1>1, <2>1, <3>3, <3>4 DEF DependenciesMove
    <2> QED
        BY <2>2, <2>3
<1>5. AddedInOrder'
    <2> SUFFICES ASSUME NEW set \in SUBSET (There' \ rewired'), set # {}
                 PROVE  \E u \in set : todo'[u].dependencies \cap set = {}
        BY DEF AddedInOrder
    <2>1. \A u \in set : u \notin There => todo[u] = Absent
        <3>1. \A u \in There' : u \in Todos
            BY DEF There
        <3> QED
            BY <1>1, <3>1 DEF RowsMove
    <2>2. CASE set \cap There = {}
        <3>1. \A u \in set : \A d \in todo'[u].dependencies : todo[d] # Absent
            BY <1>1, <2>2 DEF RowsMove
        <3> QED
            BY <2>1, <2>2, <3>1
    <2>3. CASE set \cap There # {}
        <3>1. set \cap There \in SUBSET (There \ rewired)
            BY <1>1 DEF RowsMove
        <3>2. PICK u \in set \cap There : todo[u].dependencies \cap (set \cap There) = {}
            BY <2>3, <3>1 DEF StuckInv, AddedInOrder
        <3>3. todo'[u].dependencies = todo[u].dependencies
            BY <1>1 DEF RowsMove
        <3>4. \A d \in todo[u].dependencies : todo[d] # Absent
            BY <3>1 DEF StuckInv, OrderInv, RowsKnown
        <3> QED
            BY <2>1, <3>2, <3>3, <3>4
    <2> QED
        BY <2>2, <2>3
<1> QED
    BY <1>2, <1>3, <1>4, <1>5 DEF StuckInv

(* What a todo waits for: the dependencies, and what they wait for in turn.*)
LEMMA UpstreamCloses ==
    ASSUME TodoTypeOK, NEW t \in Todos
    PROVE  /\ Upstream(t) \subseteq Todos
           /\ todo[t].dependencies \subseteq Upstream(t)
           /\ ClosedUpstream(Upstream(t))
<1>1. \A u \in Todos : todo[u].dependencies \subseteq Todos
    BY DEF TodoTypeOK, TodoRows, Absent, Removed
<1>2. ASSUME NEW u \in Upstream(t) \cap There, NEW d \in todo[u].dependencies
      PROVE  d \in Upstream(t)
    <2>1. d \in Todos
        BY <1>1 DEF There
    <2>2. ASSUME NEW set \in SUBSET Todos, ClosedUpstream(set), todo[t].dependencies \subseteq set
          PROVE  d \in set
        <3>1. u \in set
            BY <2>2 DEF Upstream
        <3> QED
            BY <2>2, <3>1 DEF ClosedUpstream
    <2> QED
        BY <2>1, <2>2 DEF Upstream
<1>3. todo[t].dependencies \subseteq Upstream(t)
    BY <1>1 DEF Upstream
<1>4. Upstream(t) \subseteq Todos
    BY DEF Upstream
<1> QED
    BY <1>2, <1>3, <1>4 DEF ClosedUpstream

(* ... and nothing else.                                                   *)
LEMMA UpstreamIsLeast ==
    ASSUME NEW t \in Todos, NEW set \in SUBSET Todos, ClosedUpstream(set),
           todo[t].dependencies \subseteq set
    PROVE  Upstream(t) \subseteq set
BY DEF Upstream

(* What a todo waits for is a dependency, or a dependency waits for it.    *)
LEMMA UpstreamByOne ==
    ASSUME TodoTypeOK, NEW t \in Todos, NEW d \in Upstream(t)
    PROVE  \E u \in todo[t].dependencies : u = d \/ d \in Upstream(u)
<1> DEFINE set == {e \in Todos : \E u \in todo[t].dependencies : u = e \/ e \in Upstream(u)}
<1>1. todo[t].dependencies \subseteq Todos
    BY DEF TodoTypeOK, TodoRows, Absent, Removed
<1>2. todo[t].dependencies \subseteq set
    BY <1>1
<1>3. ASSUME NEW e \in set \cap There PROVE todo[e].dependencies \subseteq set
    <2>1. PICK u \in todo[t].dependencies : u = e \/ e \in Upstream(u)
        OBVIOUS
    <2>2. /\ Upstream(u) \subseteq Todos
          /\ todo[u].dependencies \subseteq Upstream(u)
          /\ ClosedUpstream(Upstream(u))
        BY <1>1, UpstreamCloses
    <2>3. todo[e].dependencies \subseteq Upstream(u)
        BY <2>1, <2>2 DEF ClosedUpstream
    <2> QED
        BY <2>2, <2>3
<1>4. ClosedUpstream(set)
    BY <1>3 DEF ClosedUpstream
<1> HIDE DEF set
<1>5. Upstream(t) \subseteq set
    <2>1. set \in SUBSET Todos
        BY DEF set
    <2> QED
        BY <1>2, <1>4, <2>1, UpstreamIsLeast
<1> QED
    BY <1>5 DEF set

(* What has to be waited for was not removed, but for cause.               *)
LEMMA WaitsForWhatIsThere ==
    ASSUME TodoTypeOK, RowsRest, NEW t \in There, NEW d \in Upstream(t), d \notin There
    PROVE  d \in crossed
<1>1. t \in Todos /\ There \subseteq Todos /\ crossed \subseteq Todos
    BY DEF There, TodoTypeOK
<1>2. ClosedUpstream(There \cup crossed)
    BY DEF ClosedUpstream, RowsRest
<1>3. todo[t].dependencies \subseteq There \cup crossed
    BY DEF RowsRest
<1>4. Upstream(t) \subseteq There \cup crossed
    BY <1>1, <1>2, <1>3, UpstreamIsLeast
<1> QED
    BY <1>4

(* Nothing waits for itself, but through dependencies set later: else the  *)
(* todos on the way around would all wait for one another.                 *)
LEMMA WaitsInNoRing ==
    ASSUME TodoTypeOK, AddedInOrder, NEW d \in Todos, d \in Upstream(d)
    PROVE  rewired \cap Upstream(d) # {}
<1> SUFFICES ASSUME rewired \cap Upstream(d) = {} PROVE FALSE
    OBVIOUS
<1> DEFINE ring == {u \in Upstream(d) \cap There : d \in Upstream(u)}
<1>1. ASSUME NEW u \in Todos, d \in Upstream(u) PROVE u \in There
    <2>1. PICK e \in todo[u].dependencies : e = d \/ d \in Upstream(e)
        BY <1>1, UpstreamByOne
    <2> QED
        BY <2>1 DEF TodoTypeOK, TodoRows, There, Absent, Removed
<1>2. d \in ring
    BY <1>1
<1>3. ring \in SUBSET (There \ rewired)
    OBVIOUS
<1>4. PICK u \in ring : todo[u].dependencies \cap ring = {}
    <2> HIDE DEF ring
    <2> QED
        BY <1>2, <1>3 DEF AddedInOrder
<1>5. u \in Todos /\ u \in Upstream(d) \cap There /\ d \in Upstream(u)
    BY DEF There
<1>6. PICK e \in todo[u].dependencies : e = d \/ d \in Upstream(e)
    BY <1>5, UpstreamByOne
<1>7. e \in Upstream(d) /\ e \in Todos
    BY <1>5, <1>6, UpstreamCloses DEF ClosedUpstream
<1>8. e \in ring
    BY <1>1, <1>2, <1>6, <1>7
<1> QED
    BY <1>4, <1>6, <1>8

(* What keeps a todo from being completed, in every state.                 *)
THEOREM StuckInvariant == TodoSpec => []StuckInv
<1>1. TodoInit => StuckInv
    <2> SUFFICES ASSUME TodoInit PROVE StuckInv
        OBVIOUS
    <2>1. OrderInv
        BY TodosBegin
           DEF TodoInit, OrderInv, RowsKnown, CallsKnown, HeldDependencies, DoneRestsOnDone, Idle
    <2>2. There = {}
        BY TodosBegin
    <2> QED
        BY <2>1, <2>2 DEF TodoInit, StuckInv, RowsRest, CallsRest, LeavingIsFree, AddedInOrder, Idle
<1>2. OrderInv' /\ StuckInv /\ [TodoNext]_todoVars => StuckInv'
    <2> SUFFICES ASSUME OrderInv', StuckInv, [TodoNext]_todoVars PROVE StuckInv'
        OBVIOUS
    <2>1. ASSUME NEW c \in TodoCalls, Step(c) PROVE StuckInv'
        BY <2>1, StuckStep
    <2>2. CASE UNCHANGED todoVars
        BY <2>2 DEF todoVars, StuckInv, RowsRest, CallsRest, LeavingIsFree, AddedInOrder,
                    DependentsOf, There
    <2> QED
        BY <2>1, <2>2 DEF TodoNext, Step
<1> QED
    BY <1>1, <1>2, OrderInvariant, PTL DEF TodoSpec

(* A todo cannot be completed only when a removal crossed a call that made *)
(* the dependency, or the dependencies were set (session/store.py,         *)
(* remove_todo, add_todo and set_todo_dependencies).                       *)
THEOREM StuckOnlyForCause == TodoSpec => []StuckForCause
<1>1. StuckInv => StuckForCause
    <2> SUFFICES ASSUME StuckInv, NEW t \in There, NEW d \in Upstream(t)
                 PROVE  /\ d \notin There => d \in crossed
                        /\ d \in Upstream(d) => rewired \cap Upstream(d) # {}
        BY DEF StuckForCause
    <2>1. d \in Todos
        BY DEF Upstream
    <2> QED
        BY <2>1, WaitsForWhatIsThere, WaitsInNoRing DEF StuckInv, OrderInv, FlagInv
<1> QED
    BY <1>1, StuckInvariant, PTL

=============================================================================
