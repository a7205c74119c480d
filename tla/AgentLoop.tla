------------------------------ MODULE AgentLoop ------------------------------
(***************************************************************************)
(* AgentRuntime.run over the tables of RuntimeStore: the turns of one      *)
(* session.  A turn adds the user's message and loops: it reads the        *)
(* conversation, compacts it, asks the provider, and runs the tool calls   *)
(* of the answer one by one, each between a row of tool_calls and a        *)
(* message with the result.  A tool that raises, or is denied by a hook or *)
(* by the registry, has a result like another; what the code does not      *)
(* catch ends the turn.  A session outlives its turns: the SDK opens it    *)
(* again by its id, in another process too.                                *)
(*                                                                         *)
(* Contents, hooks and traces are left out.  A signature is the name of a  *)
(* tool with its arguments.  Compaction keeps some end of the conversation. *)
(***************************************************************************)
EXTENDS Naturals, Sequences

CONSTANTS
    Turns,       \* calls of run on the session
    Positional,  \* turns whose provider numbers the calls of each response alike
    Signatures,
    UnknownTool, \* the signatures whose tool the registry does not know
    Responses,   \* the sequences of signatures a provider may ask for
    MaxCalls,    \* bound: the length of those
    MaxSteps,    \* max_steps
    RepeatLimit  \* repeated_tool_limit

ASSUME TurnsAssumption == Positional \subseteq Turns
ASSUME ResponsesAssumption ==
    /\ MaxCalls \in Nat
    /\ \A calls \in Responses : calls \in Seq(Signatures) /\ Len(calls) <= MaxCalls
ASSUME LimitsAssumption == MaxSteps \in Nat \ {0} /\ RepeatLimit \in Nat

VARIABLES
    transcript, \* messages
    toolRow,    \* tool_calls: the row of each id
    turn,       \* where each turn stands
    step,       \* its loop counter
    response,   \* the tool calls of its latest response
    place,      \* the one it has come to
    signatures, \* how often it has called each
    sent,       \* the piece of the transcript in its latest request
    ran,        \* history: the tool calls that were invoked
    beside      \* history: turns that were underway together with another

agentVars ==
    <<transcript, toolRow, turn, step, response, place, signatures, sent, ran, beside>>

-----------------------------------------------------------------------------

Working == {"reading", "asked", "calling", "opened", "invoked", "recorded"}

TurnStates == {"idle", "ended", "failed", "stopped"} \cup Working

Steps == 1..MaxSteps

ToolCalls == [turn : Turns, step : Steps, place : 1..MaxCalls]

(* The tool call a turn has come to.                                       *)
Current(t) == [turn |-> t, step |-> step[t], place |-> place[t]]

(* The id its provider gave to it (providers/gemini.py numbers the parts). *)
IdOf(call) == IF call.turn \in Positional THEN <<call.place>> ELSE <<call.turn, call.step, call.place>>

ToolIds == {IdOf(call) : call \in ToolCalls}

NoCall == [turn |-> "NONE", step |-> 0, place |-> 0]

NoToolRow == [call |-> NoCall, status |-> "NONE"]

ToolRows == [call : ToolCalls, status : {"RUNNING", "FINISHED"}] \cup {NoToolRow}

Message(role, t, s, calls, at) ==
    [role |-> role, turn |-> t, step |-> s, calls |-> calls, place |-> at]

Messages == [role : {"user", "assistant", "tool"}, turn : Turns, step : 0..MaxSteps,
             calls : 0..MaxCalls, place : 0..MaxCalls]

NothingSent == [from |-> 1, upto |-> 0]

AgentInit ==
    /\ transcript = <<>>
    /\ toolRow = [id \in ToolIds |-> NoToolRow]
    /\ turn = [t \in Turns |-> "idle"]
    /\ step = [t \in Turns |-> 0]
    /\ response = [t \in Turns |-> <<>>]
    /\ place = [t \in Turns |-> 0]
    /\ signatures = [t \in Turns |-> [s \in Signatures |-> 0]]
    /\ sent = [t \in Turns |-> NothingSent]
    /\ ran = {}
    /\ beside = {}

-----------------------------------------------------------------------------

Others(t) == {u \in Turns \ {t} : turn[u] \in Working}

BeginTurn(t) ==
    /\ turn[t] = "idle"
    /\ turn' = [turn EXCEPT ![t] = "reading"]
    /\ step' = [step EXCEPT ![t] = 1]
    /\ transcript' = Append(transcript, Message("user", t, 0, 0, 0))
    /\ beside' = IF Others(t) = {} THEN beside ELSE beside \cup Others(t) \cup {t}
    /\ UNCHANGED <<toolRow, response, place, signatures, sent, ran>>

(* The conversation, all of it or what compaction keeps, and the request.  *)
AskProvider(t) ==
    /\ turn[t] = "reading"
    /\ turn' = [turn EXCEPT ![t] = "asked"]
    /\ \E from \in 1..Len(transcript) :
          sent' = [sent EXCEPT ![t] = [from |-> from, upto |-> Len(transcript)]]
    /\ UNCHANGED <<transcript, toolRow, step, response, place, signatures, ran, beside>>

ProviderRaises(t) ==
    /\ turn[t] = "asked"
    /\ turn' = [turn EXCEPT ![t] = "failed"]
    /\ sent' = [sent EXCEPT ![t] = NothingSent]
    /\ UNCHANGED <<transcript, toolRow, step, response, place, signatures, ran, beside>>

(* Variant: a message without text is not added.                           *)
SpokenOnly(t, calls, text) ==
    IF text THEN Append(transcript, Message("assistant", t, step[t], Len(calls), 0))
            ELSE transcript

(* What the provider said, with or without text.                           *)
Spoken(t, calls, text) ==
    IF text \/ calls # <<>>
    THEN Append(transcript, Message("assistant", t, step[t], Len(calls), 0))
    ELSE transcript

Respond(t) ==
    /\ turn[t] = "asked"
    /\ \E calls \in Responses, text \in BOOLEAN :
          /\ turn' = [turn EXCEPT ![t] = IF calls = <<>> THEN "ended" ELSE "calling"]
          /\ response' = [response EXCEPT ![t] = calls]
          /\ transcript' = Spoken(t, calls, text)
    /\ place' = [place EXCEPT ![t] = 1]
    /\ sent' = [sent EXCEPT ![t] = NothingSent]
    /\ UNCHANGED <<toolRow, step, signatures, ran, beside>>

-----------------------------------------------------------------------------
(* One tool call.                                                          *)

Called(t) == response[t][place[t]]

Known(t) == Called(t) \notin UnknownTool

(* registry.describe raises.                                               *)
RefuseUnknown(t) ==
    /\ turn[t] = "calling"
    /\ ~Known(t)
    /\ turn' = [turn EXCEPT ![t] = "failed"]
    /\ UNCHANGED <<transcript, toolRow, step, response, place, signatures, sent, ran, beside>>

Counted(t) == [signatures EXCEPT ![t][Called(t)] = @ + 1]

RefuseRepeated(t) ==
    /\ turn[t] = "calling"
    /\ Known(t)
    /\ signatures[t][Called(t)] >= RepeatLimit
    /\ signatures' = Counted(t)
    /\ turn' = [turn EXCEPT ![t] = "failed"]
    /\ UNCHANGED <<transcript, toolRow, step, response, place, sent, ran, beside>>

(* start_tool_call: INSERT OR REPLACE by the id of the provider.           *)
OpenCall(t) ==
    /\ turn[t] = "calling"
    /\ Known(t)
    /\ signatures[t][Called(t)] < RepeatLimit
    /\ signatures' = Counted(t)
    /\ turn' = [turn EXCEPT ![t] = "opened"]
    /\ toolRow' = [toolRow EXCEPT ![IdOf(Current(t))] = [call |-> Current(t), status |-> "RUNNING"]]
    /\ UNCHANGED <<transcript, step, response, place, sent, ran, beside>>

(* registry.invoke, with what it raises and what hooks have refused.       *)
InvokeTool(t) ==
    /\ turn[t] = "opened"
    /\ turn' = [turn EXCEPT ![t] = "invoked"]
    /\ ran' = ran \cup {Current(t)}
    /\ UNCHANGED <<transcript, toolRow, step, response, place, signatures, sent, beside>>

(* Variant: in the try, after the invocation.                              *)
RecordCallOnSuccess(t) ==
    /\ turn[t] = "invoked"
    /\ turn' = [turn EXCEPT ![t] = "recorded"]
    /\ \E ok \in BOOLEAN :
          toolRow' = [toolRow EXCEPT ![IdOf(Current(t))].status = IF ok THEN "FINISHED" ELSE @]
    /\ UNCHANGED <<transcript, step, response, place, signatures, sent, ran, beside>>

(* finish_tool_call.                                                       *)
RecordCall(t) ==
    /\ turn[t] = "invoked"
    /\ turn' = [turn EXCEPT ![t] = "recorded"]
    /\ toolRow' = [toolRow EXCEPT ![IdOf(Current(t))].status = "FINISHED"]
    /\ UNCHANGED <<transcript, step, response, place, signatures, sent, ran, beside>>

(* The result, and on to the next call, the next step, or the error of     *)
(* max_steps.                                                              *)
AddResult(t) ==
    /\ turn[t] = "recorded"
    /\ transcript' = Append(transcript, Message("tool", t, step[t], 0, place[t]))
    /\ \/ /\ place[t] < Len(response[t])
          /\ place' = [place EXCEPT ![t] = @ + 1]
          /\ turn' = [turn EXCEPT ![t] = "calling"]
          /\ UNCHANGED step
       \/ /\ place[t] = Len(response[t])
          /\ step[t] < MaxSteps
          /\ step' = [step EXCEPT ![t] = @ + 1]
          /\ turn' = [turn EXCEPT ![t] = "reading"]
          /\ UNCHANGED place
       \/ /\ place[t] = Len(response[t])
          /\ step[t] = MaxSteps
          /\ turn' = [turn EXCEPT ![t] = "failed"]
          /\ UNCHANGED <<place, step>>
    /\ UNCHANGED <<toolRow, response, signatures, sent, ran, beside>>

(* The process dies, or a statement of the store raises.                   *)
StopTurn(t) ==
    /\ turn[t] \in Working
    /\ turn' = [turn EXCEPT ![t] = "stopped"]
    /\ sent' = [sent EXCEPT ![t] = NothingSent]
    /\ UNCHANGED <<transcript, toolRow, step, response, place, signatures, ran, beside>>

-----------------------------------------------------------------------------

AgentNext ==
    \E t \in Turns :
        \/ BeginTurn(t) \/ AskProvider(t) \/ ProviderRaises(t) \/ Respond(t)
        \/ RefuseUnknown(t) \/ RefuseRepeated(t)
        \/ OpenCall(t) \/ InvokeTool(t) \/ RecordCall(t) \/ AddResult(t)
        \/ StopTurn(t)

AgentSpec == AgentInit /\ [][AgentNext]_agentVars

-----------------------------------------------------------------------------

AgentTypeOK ==
    /\ transcript \in Seq(Messages)
    /\ toolRow \in [ToolIds -> ToolRows]
    /\ turn \in [Turns -> TurnStates]
    /\ step \in [Turns -> 0..MaxSteps]
    /\ response \in [Turns -> Responses \cup {<<>>}]
    /\ place \in [Turns -> 0..MaxCalls + 1]
    /\ signatures \in [Turns -> [Signatures -> Nat]]
    /\ sent \in [Turns -> [from : Nat, upto : Nat]]
    /\ ran \subseteq ToolCalls
    /\ beside \subseteq Turns

Broken(t) == turn[t] \in {"failed", "stopped"} \/ t \in beside

IsCall(i, t, s, at) ==
    /\ transcript[i].role = "assistant"
    /\ transcript[i].turn = t /\ transcript[i].step = s
    /\ at <= transcript[i].calls

IsAnswer(j, m, at) ==
    /\ transcript[j].role = "tool"
    /\ transcript[j].turn = m.turn /\ transcript[j].step = m.step /\ transcript[j].place = at

(* What a request of AgentRuntime.run sends (runtime/agent.py, from        *)
(* RuntimeStore.messages) is a conversation: the calls of each response    *)
(* have their results right behind it, unless their turn was broken off or *)
(* ran beside another; and each result comes after its call, unless the    *)
(* call was compacted away.                                                *)
RequestsAreWhole ==
    \A t \in Turns :
        LET piece == sent[t].from..sent[t].upto
        IN  \A i \in piece :
                LET m == transcript[i]
                IN  /\ m.role = "assistant" /\ ~Broken(m.turn)
                          => \A at \in 1..m.calls : i + at \in piece /\ IsAnswer(i + at, m, at)
                    /\ m.role = "tool"
                          => \E j \in 1..i - 1 : IsCall(j, m.turn, m.step, m.place)
                    /\ m.role = "tool" /\ ~Broken(m.turn)
                          => IsCall(i - m.place, m.turn, m.step, m.place)

(* A finished row of tool_calls, which start_tool_call replaces and        *)
(* finish_tool_call updates (runtime/store.py), tells of a call that ran;  *)
(* a row that is left at RUNNING, of a turn that was broken off there.     *)
(* Only a turn with another beside it may find its row replaced before it  *)
(* is finished.                                                            *)
RowsTellTheTruth ==
    \A id \in ToolIds :
        LET r == toolRow[id]
        IN  \/ r = NoToolRow
            \/ r.status = "FINISHED" /\ r.call \in ran
            \/ /\ r.status = "RUNNING"
               /\ r.call = Current(r.call.turn)
               /\ turn[r.call.turn] \in {"opened", "invoked", "stopped"}
            \/ r.call.turn \in beside
=============================================================================
