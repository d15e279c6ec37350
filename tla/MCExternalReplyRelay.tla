------------------------ MODULE MCExternalReplyRelay ------------------------
(* ExternalReplyRelay for TLC, and a documented claim of it that fails.    *)
EXTENDS ExternalReplyRelay, TLC

\* "gto send ... --wait: synchronous task dispatch with reply": who waits for a task
\* gets the reply that the agent's terminal showed before it ended.
WaitingTaskIsAnswered ==
  \A b \in Binding :
    (Bound /\ relay.id = b /\ relay.channel = "wait" /\ relay.over # "no" /\ HasText(relay)) ~>
      (~Bound \/ relay.id # b \/ Blocked(relay))
=============================================================================
