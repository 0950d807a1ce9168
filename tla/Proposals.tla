----------------------------- MODULE Proposals -----------------------------
(***************************************************************************)
(* What an agent proposes and who carries it out.  The propose_* tools of  *)
(* the MCP server answer with a preview; the web application shows it as a *)
(* card whose button sends the request itself, and remembers in the        *)
(* browser which cards were applied.  An external client may ask the tool  *)
(* to apply.  The workspace of a request is the one the browser last chose,*)
(* for every tab; the user edits in the meantime and answers get lost.     *)
(* All the rows a proposal may name live in the workspace Home.            *)
(***************************************************************************)
EXTENDS Naturals, FiniteSets

CONSTANTS
    Ids,          \* proposals, tool calls of the agents
    Home, Other,  \* the workspaces of the user
    Chat, Tab,    \* the tab that chats and another
    Kinds,        \* the kinds of proposal tried
    MaxEdits      \* bound: turns, clicks and edits

(***************************************************************************)
(* What each tool looks for in the workspace of the call before it answers *)
(* with a preview, and what the endpoint behind its card looks for again:  *)
(* an account or a recurring bill is found in the workspace of the request,*)
(* the category of a budget, of a rule and of a row is taken as it is.     *)
(***************************************************************************)
Categorize == [names |-> {"row", "category"}, checked |-> {}]
CreateCategory == [names |-> {}, checked |-> {}]
CreateBudget == [names |-> {"category"}, checked |-> {}]
CreateTransaction == [names |-> {"account", "category"}, checked |-> {"account"}]
CreateRecurring == [names |-> {"account", "category"}, checked |-> {"account"}]
UpdateRecurring == [names |-> {"bill"}, checked |-> {"bill"}]
CancelRecurring == [names |-> {"bill"}, checked |-> {"bill"}]
CreateGoal == [names |-> {}, checked |-> {}]
CreatePayeeRule == [names |-> {"category"}, checked |-> {}]

Tool == [categorize |-> Categorize, category |-> CreateCategory, budget |-> CreateBudget,
         entry |-> CreateTransaction, bill |-> CreateRecurring, amend |-> UpdateRecurring,
         stop |-> CancelRecurring, drop |-> CancelRecurring, goal |-> CreateGoal,
         rule |-> CreatePayeeRule]

AllKinds == DOMAIN Tool

(* What the constants must be; the modules of the runs assume it.           *)
ProposalsAssumption ==
    Home # Other /\ Chat # Tab /\ Kinds \subseteq AllKinds /\ MaxEdits \in Nat

VARIABLES
    where,     \* the workspace in the local storage
    rec,       \* a recurring bill of Home
    filed,     \* the transaction of Home has the proposed category
    taken,     \* workspaces that have a category of the proposed name
    prop,      \* what was proposed
    writes,    \* how often a proposal was carried out in a workspace
    asked,     \* how often the user, or the external client, asked for it
    stored,    \* proposals the conversation has saved
    card,      \* the card of a proposal in a tab
    marked,    \* cards the local storage says were applied
    requests,  \* requests of cards, sent or answered
    edits

vars == <<where, rec, filed, taken, prop, writes, asked, stored, card, marked, requests, edits>>

Spaces == {Home, Other}
Tabs == {Chat, Tab}
NoProp == [kind |-> "none", space |-> Home, external |-> FALSE, seen |-> 0, to |-> 0]
NoCard == [at |-> "none", applied |-> FALSE]
World == <<rec, filed, taken, writes>>

Init ==
    /\ where = Home
    /\ rec = [there |-> TRUE, amount |-> 1, label |-> 1, active |-> TRUE]
    /\ filed = FALSE /\ taken \in {{}, {Home}}
    /\ prop = [p \in Ids |-> NoProp]
    /\ writes = [p \in Ids |-> [s \in Spaces |-> 0]]
    /\ asked = [p \in Ids |-> 0]
    /\ stored = {}
    /\ card = [b \in Tabs |-> [p \in Ids |-> NoCard]]
    /\ marked = {} /\ requests = {} /\ edits = 0
-----------------------------------------------------------------------------
(* _can_apply                                                               *)
CanApply(external, apply) == apply /\ external

(* All the rows a proposal may name are of Home; the bill may be gone.      *)
Found(row, space) == space = Home /\ (row = "bill" => rec.there)

Valid(kind, space) == \A row \in Tool[kind].names : Found(row, space)

(* A rule is named after its pattern, and POST /api/rules refuses a name    *)
(* the workspace has; POST /api/categories does not.                        *)
Accepts(p, pr, space) ==
    /\ \A row \in Tool[pr.kind].checked : Found(row, space)
    /\ pr.kind = "rule" => writes[p][space] = 0

(* The tool itself refuses to add a category whose name exists.             *)
Collides(pr, space) == pr.kind = "category" /\ space \in taken

AmendedFromSnapshot(pr) ==       \* fault: the whole row as it was proposed
    [rec EXCEPT !.amount = pr.to, !.label = pr.seen]

(* update_recurring_transaction sets the fields that were sent.             *)
Amended(pr) == [rec EXCEPT !.amount = pr.to]

(* POST /api/rules runs the new rule over the rows, the tool does not.      *)
Files(pr) == pr.kind = "categorize" \/ (pr.kind = "rule" /\ ~pr.external)

Effect(p, pr, space) ==
    /\ rec' = CASE pr.kind = "amend" -> Amended(pr)
                [] pr.kind = "stop" -> [rec EXCEPT !.active = FALSE]
                [] pr.kind = "drop" -> [rec EXCEPT !.there = FALSE]
                [] OTHER -> rec
    /\ filed' = (filed \/ (space = Home /\ Files(pr)))
    /\ taken' = IF pr.kind = "category" THEN taken \cup {space} ELSE taken
    /\ writes' = IF pr.kind = "categorize" /\ space # Home THEN writes   \* no row there
                 ELSE [writes EXCEPT ![p][space] = @ + 1]
-----------------------------------------------------------------------------
Bounded == edits < MaxEdits /\ edits' = edits + 1

Proposed(kind, external, space) ==
    [kind |-> kind, space |-> space, external |-> external, seen |-> rec.label, to |-> 2]

(* A propose_* call of the built-in agent: whatever it passes as apply, the *)
(* tool answers with a preview, and the chat shows a draft card.            *)
Propose(p, kind, apply) ==
    /\ Bounded
    /\ prop[p] = NoProp /\ Valid(kind, where)
    /\ LET pr == Proposed(kind, FALSE, where) IN
       /\ prop' = [prop EXCEPT ![p] = pr]
       /\ IF CanApply(FALSE, apply) /\ Accepts(p, pr, where)
          THEN Effect(p, pr, where) ELSE UNCHANGED World
    /\ card' = [card EXCEPT ![Chat][p] = [at |-> "draft", applied |-> FALSE]]
    /\ UNCHANGED <<where, asked, stored, marked, requests>>

(* A call with an external token, which carries a workspace.                *)
External(p, kind, space, apply) ==
    /\ Bounded
    /\ prop[p] = NoProp /\ Valid(kind, space)
    /\ LET pr == Proposed(kind, TRUE, space) IN
       /\ prop' = [prop EXCEPT ![p] = pr]
       /\ asked' = IF apply THEN [asked EXCEPT ![p] = @ + 1] ELSE asked
       /\ IF CanApply(TRUE, apply) /\ ~Collides(pr, space)
          THEN Effect(p, pr, space) ELSE UNCHANGED World
    /\ UNCHANGED <<where, stored, card, marked, requests>>

Mounted(p) == [at |-> "saved", applied |-> <<"saved", p>> \in marked]

(* The turn ends: the drafts give way to the saved messages, whose cards    *)
(* have the id of the tool call.                                            *)
EndTurn ==
    LET drafts == {p \in Ids : card[Chat][p].at = "draft"} IN
    /\ drafts # {}
    /\ stored' = stored \cup drafts
    /\ card' = [card EXCEPT ![Chat] = [p \in Ids |->
                  IF p \in drafts THEN Mounted(p) ELSE card[Chat][p]]]
    /\ UNCHANGED <<where, rec, filed, taken, prop, writes, asked, marked, requests, edits>>

(* Another tab opens the conversation, or a tab loads it again.             *)
OpenTab(b) ==
    /\ stored # {}
    /\ card' = [card EXCEPT ![b] = [p \in Ids |->
                  IF p \in stored THEN Mounted(p) ELSE card[b][p]]]
    /\ UNCHANGED <<where, rec, filed, taken, prop, writes, asked, stored, marked, requests, edits>>

Sent(b, p, r) == [tab |-> b, id |-> <<card[b][p].at, p>>, p |-> p, space |-> where, res |-> r]

(* The button of a card is disabled while its request is on its way.        *)
Click(b, p) ==
    /\ Bounded
    /\ card[b][p].at # "none" /\ ~card[b][p].applied
    /\ \A r \in requests : ~(r.tab = b /\ r.id = <<card[b][p].at, p>>)
    /\ requests' = requests \cup {Sent(b, p, "sent")}
    /\ asked' = [asked EXCEPT ![p] = @ + 1]
    /\ UNCHANGED <<where, rec, filed, taken, prop, writes, stored, card, marked>>

Serve(r) ==
    /\ r.res = "sent"
    /\ IF Accepts(r.p, prop[r.p], r.space)
       THEN /\ Effect(r.p, prop[r.p], r.space)
            /\ requests' = (requests \ {r}) \cup {[r EXCEPT !.res = "ok"]}
       ELSE /\ requests' = (requests \ {r}) \cup {[r EXCEPT !.res = "failed"]}
            /\ UNCHANGED World
    /\ UNCHANGED <<where, prop, asked, stored, card, marked, edits>>

(* onSuccess runs for a card that is no longer mounted as well.             *)
Answer(r) ==
    /\ r.res \in {"ok", "failed"}
    /\ requests' = requests \ {r}
    /\ marked' = IF r.res = "ok" THEN marked \cup {r.id} ELSE marked
    /\ card' = IF r.res = "ok" /\ card[r.tab][r.p].at = r.id[1]
               THEN [card EXCEPT ![r.tab][r.p].applied = TRUE] ELSE card
    /\ UNCHANGED <<where, rec, filed, taken, prop, writes, asked, stored, edits>>

(* The answer, or the request, is lost; the tab is closed.                  *)
Lose(r) ==
    /\ Bounded
    /\ requests' = requests \ {r}
    /\ UNCHANGED <<where, rec, filed, taken, prop, writes, asked, stored, card, marked>>

(* switchWorkspace in any tab.                                              *)
Switch ==
    /\ Bounded
    /\ where' = IF where = Home THEN Other ELSE Home
    /\ UNCHANGED <<rec, filed, taken, prop, writes, asked, stored, card, marked, requests>>

(* The user edits the recurring bill, or deletes it.                        *)
EditRec ==
    /\ Bounded
    /\ rec.there
    /\ rec' \in {[rec EXCEPT !.label = 2], [rec EXCEPT !.there = FALSE]}
    /\ UNCHANGED <<where, filed, taken, prop, writes, asked, stored, card, marked, requests>>

Next ==
    \/ \E p \in Ids, k \in Kinds, a \in BOOLEAN :
          \/ Propose(p, k, a)
          \/ \E s \in Spaces : External(p, k, s, a)
    \/ \E b \in Tabs : OpenTab(b) \/ \E p \in Ids : Click(b, p)
    \/ \E r \in requests : Serve(r) \/ Answer(r) \/ Lose(r)
    \/ EndTurn \/ Switch \/ EditRec

Spec == Init /\ [][Next]_vars
-----------------------------------------------------------------------------
Written(p) == writes[p][Home] + writes[p][Other]

TypeOK ==
    /\ where \in Spaces /\ filed \in BOOLEAN /\ taken \subseteq Spaces
    /\ rec \in [there : BOOLEAN, amount : 1..2, label : 1..2, active : BOOLEAN]
    /\ prop \in [Ids -> [kind : AllKinds \cup {"none"}, space : Spaces, external : BOOLEAN,
                         seen : 0..2, to : 0..2]]
    /\ writes \in [Ids -> [Spaces -> 0..MaxEdits]] /\ asked \in [Ids -> 0..MaxEdits]
    /\ stored \subseteq Ids
    /\ card \in [Tabs -> [Ids -> [at : {"none", "draft", "saved"}, applied : BOOLEAN]]]
    /\ marked \subseteq {"draft", "saved"} \X Ids
    /\ requests \subseteq [tab : Tabs, id : {"draft", "saved"} \X Ids, p : Ids,
                           space : Spaces, res : {"sent", "ok", "failed"}]
    /\ edits \in 0..MaxEdits

(* "writes only happen when the caller is external AND set apply"           *)
(* (proposals.py:83): nothing is written more often than somebody asked for *)
(* it, however the agent calls the tool and whatever tabs are open.         *)
OnlyAsked == \A p \in Ids : Written(p) <= asked[p]

(* A card that says it was applied was: a request that failed, was lost or  *)
(* is still on its way marks nothing.  A categorisation may have found no   *)
(* row.                                                                     *)
CardTruth ==
    \A p \in Ids : /\ prop[p].kind # "categorize"
                   /\ \/ \E d \in {"draft", "saved"} : <<d, p>> \in marked
                      \/ \E b \in Tabs : card[b][p].applied
                   => Written(p) > 0

(* An entry or a recurring bill lands in the workspace of its account,      *)
(* whichever workspace the browser has switched to between the proposal and *)
(* the click.                                                               *)
LandsWithAccount == \A p \in Ids : prop[p].kind \in {"entry", "bill"} => writes[p][Other] = 0

(* A proposal of another amount leaves the rest of the bill as the user     *)
(* has edited it since.                                                     *)
LabelStep == rec.label = 2 => rec'.label = 2

KeepsLaterEdits == [][LabelStep]_vars

(* "Stable id for the localStorage 'applied' marker"                        *)
(* (chat-panel.tsx:244): a proposal is applied once.                        *)
AppliedOnce == \A p \in Ids : Written(p) <= 1
=============================================================================
