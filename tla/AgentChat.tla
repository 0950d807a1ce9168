----------------------------- MODULE AgentChat -----------------------------
(***************************************************************************)
(* One conversation with an agent: several chat requests (turns, from two  *)
(* tabs, a retry or simply one after the other) run the tool-calling loop  *)
(* of executor.run over the same message table.  Every append is two       *)
(* statements, the read of the highest ordinal and the insert; a turn may  *)
(* be cut off at any await (client gone, process restarted) and the        *)
(* conversation may be deleted under it.  The model's answers and the      *)
(* tools are external: they may do anything their interface allows.        *)
(***************************************************************************)
EXTENDS Naturals, FiniteSets, FiniteSetsExt

CONSTANTS
    Turns,      \* chat requests of this conversation
    MaxIters,   \* MAX_ITERS, six in the code
    Limit,      \* rows of history loaded: max_history_messages * 2 + 2
    MaxCalls,   \* bound: tool calls in the first answer to a turn, one in a later
    MaxRows,    \* bound: ordinals; more than the turns can use
    MaxCuts     \* bound: turns cut off

ASSUME ChatAssumption ==
    /\ MaxIters \in Nat \ {0} /\ Limit \in Nat \ {0}
    /\ MaxCalls \in [Turns -> Nat \ {0}] /\ MaxRows \in Nat /\ MaxCuts \in Nat

VARIABLES
    exists,     \* the conversation row is there
    messages,   \* committed messages
    phase,      \* where each turn is
    number,     \* ordinal the turn has read for its next message, 0 = none
    sees,       \* the history the turn loaded holds its question
    wanted,     \* tool calls of the model's current answer
    results,    \* those whose result is ready and not yet written
    iter,       \* rounds of the loop finished
    cuts        \* counts MaxCuts

chat == <<exists, messages, phase, number, sees, wanted, results, iter, cuts>>

MessageKinds == {"question", "calls", "result", "answer"}
Writing == {"question", "calls", "results", "answer", "fallback"}
Ended == {"answered", "capped", "failed", "cut"}
Phases == Writing \cup Ended \cup {"idle", "load", "model", "tools"}
Message == [turn : Turns, n : Nat, kind : MessageKinds, ord : Nat, call : Nat]

ChatInit ==
    /\ exists = TRUE
    /\ messages = {}
    /\ phase = [t \in Turns |-> "idle"]
    /\ number = [t \in Turns |-> 0]
    /\ sees = [t \in Turns |-> FALSE]
    /\ wanted = [t \in Turns |-> {}]
    /\ results = [t \in Turns |-> {}]
    /\ iter = [t \in Turns |-> 0]
    /\ cuts = 0

Written(t, kind) == {m \in messages : m.turn = t /\ m.kind = kind}
Count(t) == Cardinality({m \in messages : m.turn = t})
Go(t, p) == phase' = [phase EXCEPT ![t] = p]

(* A turn that ends, or leaves the model, forgets its local variables. *)
Forget(t) ==
    /\ wanted' = [wanted EXCEPT ![t] = {}] /\ results' = [results EXCEPT ![t] = {}]
    /\ iter' = [iter EXCEPT ![t] = 0] /\ sees' = [sees EXCEPT ![t] = FALSE]

(* A request on a deleted conversation is refused. *)
Send(t) ==
    /\ phase[t] = "idle" /\ exists
    /\ Go(t, "question")
    /\ UNCHANGED <<exists, messages, number, sees, wanted, results, iter, cuts>>

(* list_messages: ascending, the first Limit rows; ties in any order. *)
Loaded(h) ==
    /\ h \subseteq messages
    /\ Cardinality(h) = Min({Limit, Cardinality(messages)})
    /\ \A a \in h, b \in messages \ h : a.ord <= b.ord

(***************************************************************************)
(* append_message: first statement, then the insert.  The insert into a    *)
(* deleted conversation breaks the foreign key, which ends the turn.       *)
(***************************************************************************)
NextOrdinal(t) == Max({m.ord : m \in messages} \cup {0}) + 1

Number(t) ==
    /\ phase[t] \in Writing /\ number[t] = 0 /\ NextOrdinal(t) <= MaxRows
    /\ number' = [number EXCEPT ![t] = NextOrdinal(t)]
    /\ UNCHANGED <<exists, messages, phase, sees, wanted, results, iter, cuts>>

AppendRetrying(t, kind, call, next) ==     \* fault: a refused question is tried again
    /\ number[t] # 0
    /\ number' = [number EXCEPT ![t] = 0]
    /\ IF exists
       THEN /\ messages' = messages \cup {[turn |-> t, n |-> Count(t) + 1, kind |-> kind,
                                           ord |-> number[t], call |-> call]}
            /\ Go(t, next)
       ELSE /\ Go(t, IF kind = "question" THEN phase[t] ELSE "failed")
            /\ UNCHANGED messages

AppendMessage(t, kind, call, next) ==
    /\ number[t] # 0
    /\ number' = [number EXCEPT ![t] = 0]
    /\ IF exists
       THEN /\ messages' = messages \cup {[turn |-> t, n |-> Count(t) + 1, kind |-> kind,
                                           ord |-> number[t], call |-> call]}
            /\ Go(t, next)
       ELSE /\ Go(t, "failed")
            /\ UNCHANGED messages

SaveQuestion(t) ==
    /\ phase[t] = "question"
    /\ AppendMessage(t, "question", 0, "load")
    /\ UNCHANGED <<exists, sees, wanted, results, iter, cuts>>

Load(t) ==
    /\ phase[t] = "load"
    /\ \E h \in SUBSET messages :
          Loaded(h) /\ sees' = [sees EXCEPT ![t] = Written(t, "question") \subseteq h]
    /\ Go(t, "model")
    /\ UNCHANGED <<exists, messages, number, wanted, results, iter, cuts>>

(***************************************************************************)
(* The provider streams a text, a set of tool calls, or an error; its      *)
(* client's timeout makes it end.                                          *)
(***************************************************************************)
Answer(t) ==
    /\ phase[t] = "model"
    /\ Go(t, "answer")
    /\ UNCHANGED <<exists, messages, number, sees, wanted, results, iter, cuts>>

Call(t) ==
    /\ phase[t] = "model"
    /\ \E k \in 1..(IF iter[t] = 0 THEN MaxCalls[t] ELSE 1) : wanted' = [wanted EXCEPT ![t] = 1..k]
    /\ Go(t, "calls")
    /\ UNCHANGED <<exists, messages, number, sees, results, iter, cuts>>

ProviderError(t) ==
    /\ phase[t] = "model"
    /\ Go(t, "failed") /\ Forget(t)
    /\ UNCHANGED <<exists, messages, number, cuts>>

SaveCalls(t) ==
    /\ phase[t] = "calls"
    /\ AppendMessage(t, "calls", Cardinality(wanted[t]), "tools")
    /\ UNCHANGED <<exists, sees, wanted, results, iter, cuts>>

(* gather over _safe_call_tool: a tool that raises has a result as well. *)
GatheredOk(t, raised) == wanted[t] \ raised      \* fault: a raise has no result

Gathered(t, raised) == wanted[t]

RunTools(t) ==
    /\ phase[t] = "tools"
    /\ \E raised \in SUBSET wanted[t] :
          /\ results' = [results EXCEPT ![t] = Gathered(t, raised)]
          /\ Go(t, IF Gathered(t, raised) = {} THEN "model" ELSE "results")
    /\ UNCHANGED <<exists, messages, number, sees, wanted, iter, cuts>>

AfterRound(t) == IF iter[t] + 1 = MaxIters THEN "fallback" ELSE "model"

SaveResult(t) ==
    /\ phase[t] = "results"
    /\ LET c == Min(results[t])
           last == results[t] = {c}
       IN  /\ AppendMessage(t, "result", c, IF last THEN AfterRound(t) ELSE "results")
           /\ results' = [results EXCEPT ![t] = @ \ {c}]
           /\ wanted' = IF last THEN [wanted EXCEPT ![t] = {}] ELSE wanted
           /\ iter' = IF last THEN [iter EXCEPT ![t] = @ + 1] ELSE iter
    /\ UNCHANGED <<exists, sees, cuts>>

SaveAnswer(t) ==
    /\ phase[t] \in {"answer", "fallback"}
    /\ AppendMessage(t, "answer", 0, IF phase[t] = "answer" THEN "answered" ELSE "capped")
    /\ Forget(t)
    /\ UNCHANGED <<exists, cuts>>

(* The client goes away or the process stops: nothing more is written. *)
CutOff(t) ==
    /\ cuts < MaxCuts
    /\ phase[t] \notin Ended \cup {"idle"}
    /\ cuts' = cuts + 1
    /\ number' = [number EXCEPT ![t] = 0]
    /\ Go(t, "cut") /\ Forget(t)
    /\ UNCHANGED <<exists, messages>>

(* delete_conversation cascades to the messages. *)
DeleteConversation ==
    /\ exists
    /\ exists' = FALSE /\ messages' = {}
    /\ UNCHANGED <<phase, number, sees, wanted, results, iter, cuts>>

Step(t) ==
    \/ Number(t) \/ SaveQuestion(t) \/ Load(t)
    \/ Answer(t) \/ Call(t) \/ ProviderError(t)
    \/ SaveCalls(t) \/ RunTools(t) \/ SaveResult(t) \/ SaveAnswer(t)

ChatNext ==
    \/ \E t \in Turns : Send(t) \/ Step(t) \/ CutOff(t)
    \/ DeleteConversation

ChatSpec == ChatInit /\ [][ChatNext]_chat
(* A running turn goes on: the event loop is fair, the provider and the     *)
(* tools answer or time out (120 s and 60 s).                               *)
FairChat == ChatSpec /\ \A t \in Turns : WF_chat(Step(t))
-----------------------------------------------------------------------------
ChatTypeOK ==
    /\ exists \in BOOLEAN
    /\ messages \subseteq Message
    /\ phase \in [Turns -> Phases]
    /\ number \in [Turns -> Nat]
    /\ sees \in [Turns -> BOOLEAN]
    /\ \A t \in Turns : results[t] \subseteq wanted[t] /\ wanted[t] \subseteq 1..MaxCalls[t]
    /\ iter \in [Turns -> 0..MaxIters]
    /\ cuts \in 0..MaxCuts

(* What a turn wrote reads back in the order it wrote it, even when two     *)
(* turns take the same ordinal (append_message numbers from the table,      *)
(* conversation_service.py:94): a result never sorts before its call.       *)
InOrder ==
    \A a, b \in messages : a.turn = b.turn /\ a.n < b.n => a.ord < b.ord

ResultsAfter(t, m) == {r \in Written(t, "result") : r.n > m.n /\ r.n <= m.n + m.call}

(* A turn that was not cut off leaves no tool call without its result in    *)
(* the history, whatever the tools did and however the turn ended           *)
(* (executor.py:533-572): the next request to the provider stays valid.     *)
CallsAnswered ==
    \A t \in Turns : exists /\ phase[t] \in Ended \ {"cut"} =>
        \A m \in Written(t, "calls") :
            {r.call : r \in ResultsAfter(t, m)} = 1..m.call

(* A finished turn has its question and one closing answer, the last of its *)
(* messages, in the transcript (the fallback text counts): nothing is lost. *)
TurnComplete ==
    \A t \in Turns : exists /\ phase[t] \in {"answered", "capped"} =>
        /\ Cardinality(Written(t, "question")) = 1
        /\ \E m \in Written(t, "answer") : m.n = Count(t)
        /\ Cardinality(Written(t, "answer")) = 1

(* The transcript is one the provider takes and the user can read back.     *)
Transcript == ChatTypeOK /\ InOrder /\ CallsAnswered /\ TurnComplete

(* Every request ends, however often the model asks for tools              *)
(* (MAX_ITERS, executor.py:430).                                           *)
TurnEnds == \A t \in Turns : phase[t] # "idle" ~> phase[t] \in Ended

(* "7. The new user message (appended in step 4 below)" (executor.py:346):  *)
(* what the model is given holds the user's message.  Step 4 appends        *)
(* nothing: the message comes with the history, whose query keeps the       *)
(* OLDEST rows.                                                             *)
SeesItsQuestion ==
    \A t \in Turns : exists /\ phase[t] = "model" /\ cuts = 0 =>
        sees[t]
=============================================================================
