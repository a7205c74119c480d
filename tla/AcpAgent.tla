------------------------------- MODULE AcpAgent -------------------------------
(***************************************************************************)
(* The prompts of one session of the editor protocol server,               *)
(* acp_server.py: prompt, _emit_message_chunks and cancel of ADEACPAgent.  *)
(* One event loop runs them, so that what lies between two awaits is one   *)
(* step: the thread that asks the model, and the delivery of each chunk    *)
(* of its answer.  A cancellation is a flag of the session, not of a       *)
(* prompt; several prompts of the session may be underway.                 *)
(***************************************************************************)
EXTENDS Naturals, FiniteSets

CONSTANTS
    Prompts,
    MaxChunks,  \* bound: the chunks of an answer
    MaxCancels  \* bound: cancellations received

ASSUME PromptsAssumption == IsFiniteSet(Prompts)
ASSUME AcpBoundsAssumption == MaxChunks \in Nat /\ MaxCancels \in Nat

VARIABLES
    cancelled, \* _cancelled: the session is in it
    prompt,    \* where each prompt stands, or how it was answered
    left,      \* chunks of its answer not sent yet
    cancels,   \* how many cancellations were received
    struck,    \* history: prompts that had yet to look at the flag when one came
    robbed     \* history: prompts underway while another one was cancelled

acpVars == <<cancelled, prompt, left, cancels, struck, robbed>>

-----------------------------------------------------------------------------

InFlight == {"thinking", "sending"}

PromptStates == {"new", "end_turn", "cancelled", "raised"} \cup InFlight

AcpInit ==
    /\ cancelled = FALSE
    /\ prompt = [p \in Prompts |-> "new"]
    /\ left = [p \in Prompts |-> 0]
    /\ cancels = 0
    /\ struck = {}
    /\ robbed = {}

Now(p, state) == prompt' = [prompt EXCEPT ![p] = state]

(* No text: answered whatever the flag says.                               *)
PromptEmpty(p) ==
    /\ prompt[p] = "new"
    /\ Now(p, "end_turn")
    /\ UNCHANGED <<cancelled, left, cancels, struck, robbed>>

(* The thread that runs the session's turn starts.                         *)
PromptBegin(p) ==
    /\ prompt[p] = "new"
    /\ ~cancelled
    /\ Now(p, "thinking")
    /\ UNCHANGED <<cancelled, left, cancels, struck, robbed>>

(* The flag is looked at before the thread, after it, and before each      *)
(* chunk but the first.                                                    *)
LooksAtFlag(p) == prompt[p] \in {"new", "thinking"} \/ (prompt[p] = "sending" /\ left[p] > 0)

(* Variant: only a prompt that has not begun takes the flag away.          *)
AnswerCancelledKeeping(p) ==
    /\ cancelled /\ LooksAtFlag(p)
    /\ cancelled' = (prompt[p] # "new")
    /\ Now(p, "cancelled")
    /\ robbed' = robbed \cup {q \in Prompts \ {p} : prompt[q] \in InFlight}
    /\ UNCHANGED <<left, cancels, struck>>

AnswerCancelled(p) ==
    /\ cancelled /\ LooksAtFlag(p)
    /\ cancelled' = FALSE
    /\ Now(p, "cancelled")
    /\ robbed' = robbed \cup {q \in Prompts \ {p} : prompt[q] \in InFlight}
    /\ UNCHANGED <<left, cancels, struck>>

(* The answer is there; its first chunk is sent, if it has one.            *)
AnswerArrives(p) ==
    /\ prompt[p] = "thinking"
    /\ ~cancelled
    /\ \/ Now(p, "end_turn") /\ UNCHANGED left
       \/ \E n \in 1..MaxChunks :
             /\ Now(p, "sending")
             /\ left' = [left EXCEPT ![p] = n - 1]
    /\ UNCHANGED <<cancelled, cancels, struck, robbed>>

(* Variant: the flag is not looked at while the answer is delivered.       *)
SendNextAnyway(p) ==
    /\ prompt[p] = "sending"
    /\ left[p] > 0
    /\ left' = [left EXCEPT ![p] = @ - 1]
    /\ UNCHANGED <<cancelled, prompt, cancels, struck, robbed>>

(* A chunk was delivered; the next is sent.                                *)
SendNext(p) ==
    /\ prompt[p] = "sending"
    /\ left[p] > 0
    /\ ~cancelled
    /\ left' = [left EXCEPT ![p] = @ - 1]
    /\ UNCHANGED <<cancelled, prompt, cancels, struck, robbed>>

(* The last one was; the flag is not looked at again.                      *)
EndTurn(p) ==
    /\ prompt[p] = "sending"
    /\ left[p] = 0
    /\ Now(p, "end_turn")
    /\ UNCHANGED <<cancelled, left, cancels, struck, robbed>>

(* The session's turn or a delivery raises: the flag stays as it is.       *)
PromptRaises(p) ==
    /\ prompt[p] \in InFlight
    /\ Now(p, "raised")
    /\ UNCHANGED <<cancelled, left, cancels, struck, robbed>>

CancelSession ==
    /\ cancels < MaxCancels
    /\ cancelled' = TRUE
    /\ cancels' = cancels + 1
    /\ struck' = struck \cup {p \in Prompts : prompt[p] \in InFlight /\ LooksAtFlag(p)}
    /\ UNCHANGED <<prompt, left, robbed>>

AcpNext ==
    \/ CancelSession
    \/ \E p \in Prompts :
          \/ PromptEmpty(p) \/ PromptBegin(p) \/ AnswerCancelled(p) \/ AnswerArrives(p)
          \/ SendNext(p) \/ EndTurn(p) \/ PromptRaises(p)

AcpSpec == AcpInit /\ [][AcpNext]_acpVars

-----------------------------------------------------------------------------

AcpTypeOK ==
    /\ cancelled \in BOOLEAN
    /\ prompt \in [Prompts -> PromptStates]
    /\ left \in [Prompts -> 0..MaxChunks]
    /\ cancels \in 0..MaxCancels
    /\ struck \subseteq Prompts
    /\ robbed \subseteq Prompts

(* A cancellation that comes while a prompt thinks, or has a chunk to send,*)
(* stops it, unless it raises or another prompt of the session is answered *)
(* cancelled instead: prompt and _emit_message_chunks share one flag.      *)
CancelStopsPrompt ==
    \A p \in struck \ robbed : prompt[p] # "end_turn"

(* No cancellation stops two prompts.  Which one it stops is another       *)
(* matter: one that comes after the last look at the flag, or when nothing *)
(* is underway, stops the next prompt with a text.                         *)
CancelStopsOnePrompt ==
    Cardinality({p \in Prompts : prompt[p] = "cancelled"}) + (IF cancelled THEN 1 ELSE 0) <= cancels
=============================================================================
