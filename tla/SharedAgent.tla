---------------------------- MODULE SharedAgent ----------------------------
(***************************************************************************)
(* The one Agent of build_agent, as ExtractionService uses it: _invoke     *)
(* calls it from the worker threads of text requests, with re-prompts of   *)
(* the same request, and extract_stream iterates over it on the event      *)
(* loop.  Nothing in the service resets it or makes a second one.          *)
(*                                                                         *)
(* The Agent itself is the strands library's: it appends the prompt and    *)
(* the reply to its messages and sends all of them to the model.  A call   *)
(* that finds another one running is refused here: with a version of the   *)
(* library that lets it through requests would see still more of each      *)
(* other.  When its conversation manager drops the oldest turns is left    *)
(* open.                                                                   *)
(***************************************************************************)
EXTENDS Naturals, SequencesExt

CONSTANTS Requests,
          Streamed,     \* those that come by /extract/stream
          MaxRetries,   \* re-prompts of a text request
          MaxMessages   \* turns the conversation holds here, at most

VARIABLES stage,    \* of a request: "new", "prompting", "calling", "judging" or "done"
          attempt,  \* re-prompts made
          messages, \* the conversation: whose turn each message is
          seen      \* the turns sent to the model with the request's last call

vars == <<stage, attempt, messages, seen>>

Calling == {r \in Requests : stage[r] = "calling"}

Init ==
    /\ stage = [r \in Requests |-> "new"]
    /\ attempt = [r \in Requests |-> 0]
    /\ messages = <<>>
    /\ seen = [r \in Requests |-> {}]

\* extract or extract_stream renders its prompt from its own document.
Receive(r) ==
    /\ stage[r] = "new"
    /\ stage' = [stage EXCEPT ![r] = "prompting"]
    /\ UNCHANGED <<attempt, messages, seen>>

\* agent(prompt), agent.stream_async(prompt).
CallAgent(r) ==
    /\ stage[r] = "prompting" /\ Calling = {}
    /\ Len(messages) < MaxMessages
    /\ stage' = [stage EXCEPT ![r] = "calling"]
    /\ messages' = Append(messages, r)
    /\ seen' = [seen EXCEPT ![r] = ToSet(messages) \cup {r}]
    /\ UNCHANGED attempt

\* The library refuses a call while another one runs.
AgentRefuses(r) ==
    /\ stage[r] = "prompting" /\ Calling # {}
    /\ stage' = [stage EXCEPT ![r] = "done"]
    /\ UNCHANGED <<attempt, messages, seen>>

AgentReplies(r) ==
    /\ stage[r] = "calling"
    /\ Len(messages) < MaxMessages
    /\ stage' = [stage EXCEPT ![r] = "judging"]
    /\ messages' = Append(messages, r)
    /\ UNCHANGED <<attempt, seen>>

AgentRaises(r) ==
    /\ stage[r] = "calling"
    /\ stage' = [stage EXCEPT ![r] = "done"]
    /\ UNCHANGED <<attempt, messages, seen>>

\* The conversation manager drops the oldest turn.
DropOldest ==
    /\ messages # <<>>
    /\ messages' = Tail(messages)
    /\ UNCHANGED <<stage, attempt, seen>>

\* The loop re-prompts, up to its bound; a stream does not.
Reprompt(r) ==
    /\ stage[r] = "judging"
    /\ r \notin Streamed /\ attempt[r] < MaxRetries
    /\ stage' = [stage EXCEPT ![r] = "prompting"]
    /\ attempt' = [attempt EXCEPT ![r] = @ + 1]
    /\ UNCHANGED <<messages, seen>>

Return(r) ==
    /\ stage[r] = "judging"
    /\ stage' = [stage EXCEPT ![r] = "done"]
    /\ UNCHANGED <<attempt, messages, seen>>

Finished == (\A r \in Requests : stage[r] = "done") /\ UNCHANGED vars

Next ==
    \/ \E r \in Requests :
           \/ Receive(r) \/ CallAgent(r) \/ AgentRefuses(r) \/ AgentReplies(r)
           \/ AgentRaises(r) \/ Reprompt(r) \/ Return(r)
    \/ DropOldest \/ Finished

Spec == Init /\ [][Next]_vars

----------------------------------------------------------------------------
(* A statement of the documentation that a run refutes.                    *)

\* The consumer guide: "The service is stateless and side-effect-free".  So what
\* the model is sent for a request is that request's own turns and nothing that
\* another request left in the Agent.
ModelSeesOwnTurns == \A r \in Requests : seen[r] \subseteq {r}
=============================================================================
