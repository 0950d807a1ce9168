----------------------------- MODULE MCAgentChat -----------------------------
(* Two requests on one conversation, the first with parallel tool calls;    *)
(* the smallest history window the form allows is four rows.                *)
EXTENDS AgentChat
FirstCalls == [t \in Turns |-> IF t = 1 THEN 2 ELSE 1]
==============================================================================
