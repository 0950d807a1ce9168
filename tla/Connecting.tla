----------------------------- MODULE Connecting -----------------------------
(***************************************************************************)
(* Connecting a bank and renewing its consent.  An OAuth flow leaves the   *)
(* application with a state token kept in Redis and comes back to the      *)
(* callback page, which posts the bank's code once; a paste-a-token flow   *)
(* posts from its dialog.  The service consumes the state, loads the       *)
(* connection to renew, exchanges the code at the bank and commits, while  *)
(* the user switches workspaces, reloads, opens a second tab and deletes.  *)
(***************************************************************************)
EXTENDS Naturals, FiniteSets

CONSTANTS
    Tabs,
    Spaces, First,   \* workspaces of the user, the one that is active at first
    MaxEdits         \* bound: what user, bank and clock do

(* What the constants must be; the modules of the runs assume it.           *)
ConnectingAssumption == First \in Spaces /\ MaxEdits \in Nat

VARIABLES
    active,     \* the workspace requests are sent for
    conns,      \* connections: workspace, status, the flow whose consent they hold
    states,     \* Redis: what each live state token stands for
    tab,        \* what each tab shows, and the flow it is in
    guard,      \* sessionStorage: flows a tab has submitted
    requests,   \* callbacks on their way or being served
    spent,      \* flows whose code the bank has taken
    flow,       \* what the user asked for: workspace and connection, 0 = a new one
    told,       \* what tabs have said of a flow
    deleted,    \* connections the user deleted
    edits

vars == <<active, conns, states, tab, guard, requests, spent, flow, told, deleted, edits>>

Idle == [at |-> "accounts", flow |-> 0]

Init ==
    /\ active = First /\ conns = {} /\ states = {} /\ guard = {} /\ requests = {}
    /\ tab = [t \in Tabs |-> Idle]
    /\ spent = {} /\ flow = [f \in {} |-> Idle] /\ told = {} /\ deleted = {} /\ edits = 0
-----------------------------------------------------------------------------
Bounded == edits < MaxEdits /\ edits' = edits + 1
Fresh == edits + 1                              \* the next state token or setup token

Begin(target, oauth) ==
    flow' = [f \in DOMAIN flow \cup {Fresh} |->
                IF f = Fresh THEN [space |-> active, target |-> target, oauth |-> oauth]
                ELSE flow[f]]

(* store_state: the payload of get_oauth_url.                               *)
Stored(target) == [flow |-> Fresh, space |-> active, target |-> target]

(* handleBankSelect                                                         *)
Choose(t) ==
    /\ Bounded
    /\ tab[t].at = "accounts"
    /\ Begin(0, TRUE)
    /\ states' = states \cup {Stored(0)}
    /\ tab' = [tab EXCEPT ![t] = [at |-> "bank", flow |-> Fresh]]
    /\ UNCHANGED <<active, conns, guard, requests, spent, told, deleted>>

RenewalWithoutTarget(c) == Stored(0)            \* fault: the connection is not named

(* get_reauth_url                                                           *)
Renewal(c) == Stored(c.id)

(* handleReconnectClick, of a connection that needs it.                     *)
Reauthorise(t, c) ==
    /\ Bounded
    /\ tab[t].at = "accounts" /\ c.space = active /\ c.status # "active"
    /\ Begin(c.id, TRUE)
    /\ states' = states \cup {Renewal(c)}
    /\ tab' = [tab EXCEPT ![t] = [at |-> "bank", flow |-> Fresh]]
    /\ UNCHANGED <<active, conns, guard, requests, spent, told, deleted>>

(* The bank sends the browser back with a code, or with an error.           *)
Consent(t) ==
    /\ tab[t].at = "bank"
    /\ \E at \in {"callback", "accounts"} : tab' = [tab EXCEPT ![t].at = at]
    /\ UNCHANGED <<active, conns, states, guard, requests, spent, flow, told, deleted, edits>>

(* STATE_TTL_SECONDS                                                        *)
Expire(s) ==
    /\ Bounded
    /\ states' = states \ {s}
    /\ UNCHANGED <<active, conns, tab, guard, requests, spent, flow, told, deleted>>

Post(t, f, oauth, target) ==
    requests' = requests \cup
        {[id |-> edits + 1, tab |-> t, flow |-> f, oauth |-> oauth, target |-> target,
          space |-> active, at |-> "sent", loaded |-> "none", live |-> TRUE]}

Submits(t) == <<t, tab[t].flow>> \notin guard

(* The effect of the callback page, on the first mount or a later one.      *)
Mount(t) ==
    /\ Bounded
    /\ tab[t].at \in {"callback", "waiting"}
    /\ tab' = [tab EXCEPT ![t].at = "waiting"]
    /\ IF Submits(t)
       THEN guard' = guard \cup {<<t, tab[t].flow>>} /\ Post(t, tab[t].flow, TRUE, 0)
       ELSE UNCHANGED <<guard, requests>>
    /\ UNCHANGED <<active, conns, states, spent, flow, told, deleted>>

(* handleSubmit of the dialog that takes a setup token.                     *)
Paste(t, target) ==
    /\ Bounded
    /\ tab[t].at = "accounts"
    /\ target = 0 \/ \E c \in conns : c.id = target /\ c.space = active /\ c.status # "active"
    /\ Begin(target, FALSE)
    /\ tab' = [tab EXCEPT ![t] = [at |-> "submitting", flow |-> Fresh]]
    /\ Post(t, Fresh, FALSE, target)
    /\ UNCHANGED <<active, conns, states, guard, spent, told, deleted>>

(* The dialog is still open: the same token once more.                      *)
PasteAgain(t) ==
    /\ Bounded
    /\ tab[t].at = "dialog"
    /\ tab' = [tab EXCEPT ![t].at = "submitting"]
    /\ Post(t, tab[t].flow, FALSE, flow[tab[t].flow].target)
    /\ UNCHANGED <<active, conns, states, guard, spent, flow, told, deleted>>

(* "no accounts linked": the page offers to try the same code again.        *)
Retry(t) ==
    /\ tab[t].at = "restricted"
    /\ tab' = [tab EXCEPT ![t].at = "callback"]
    /\ UNCHANGED <<active, conns, states, guard, requests, spent, flow, told, deleted, edits>>

(* A reload forgets what the page waits for, not what it stored.            *)
Reload(t) ==
    /\ Bounded
    /\ tab[t].at # "accounts"
    /\ tab' = [tab EXCEPT ![t] = IF @.at \in {"waiting", "restricted"}
                                 THEN [@ EXCEPT !.at = "callback"] ELSE Idle]
    /\ requests' = {IF r.tab = t THEN [r EXCEPT !.live = FALSE] ELSE r : r \in requests}
    /\ UNCHANGED <<active, conns, states, guard, spent, flow, told, deleted>>
-----------------------------------------------------------------------------
(* What the page does with the answer; one that is lost is an error to it.  *)
Hear(r, verdict) ==
    /\ requests' = requests \ {r}
    /\ IF ~r.live THEN UNCHANGED <<tab, guard, told>>
       ELSE \E heard \in {verdict, "error"} :
            /\ guard' = IF heard = "ok" THEN guard ELSE guard \ {<<r.tab, r.flow>>}
            /\ told' = told \cup {<<r.tab, r.flow, heard>>}
            /\ tab' = [tab EXCEPT ![r.tab].at =
                          CASE heard = "restricted" /\ r.oauth -> "restricted"
                            [] heard # "ok" /\ ~r.oauth -> "dialog"
                            [] OTHER -> "accounts"]

Fits(r, s) == s.flow = r.flow /\ s.space = r.space

(* The connection a request renews, by its state or by its own words.       *)
TargetOf(r) ==
    IF r.oauth THEN (CHOOSE s \in states : s.flow = r.flow).target ELSE r.target

(* consume_state: a token is read and deleted at once.                      *)
Left(r) == {s \in states : ~(r.oauth /\ s.flow = r.flow)}

(* handle_oauth_callback up to the exchange: the state is gone, whatever    *)
(* comes of it.                                                             *)
Consume(r) ==
    LET target == TargetOf(r)
        known == \E s \in states : Fits(r, s)
        found == {c \in conns : c.id = target /\ c.space = r.space}
    IN
    /\ r.at = "sent"
    /\ states' = Left(r)
    /\ IF (r.oauth => known) /\ (target # 0 => found # {})
       THEN /\ requests' = (requests \ {r}) \cup
                 {[r EXCEPT !.at = "exchanging", !.target = target,
                            !.loaded = IF target = 0 THEN "none"
                                       ELSE (CHOOSE c \in found : TRUE).status]}
            /\ UNCHANGED <<tab, guard, told>>
       ELSE Hear(r, "error")
    /\ UNCHANGED <<active, conns, spent, flow, deleted, edits>>

(* The first connection takes the workspace of the request.                 *)
Opened(r) == [id |-> r.flow, space |-> r.space, status |-> "active", by |-> r.flow]

(* SQLAlchemy writes what differs from what was loaded: a status that was   *)
(* already active is not written again.                                     *)
Renewed(c, r) ==
    [c EXCEPT !.by = r.flow, !.status = IF r.loaded = "active" THEN @ ELSE "active"]

Store(r) ==
    IF r.target = 0 THEN conns \cup {Opened(r)}
    ELSE {IF c.id = r.target THEN Renewed(c, r) ELSE c : c \in conns}

(* The row to update is gone: the commit fails.                             *)
Stale(r) == r.target \in deleted /\ Store(r) = conns

(* The code is exchanged and the connection stored.                         *)
Exchange(r) ==
    /\ r.at = "exchanging" /\ r.flow \notin spent
    /\ spent' = spent \cup {r.flow}
    /\ conns' = Store(r)
    /\ Hear(r, IF Stale(r) THEN "error" ELSE "ok")
    /\ UNCHANGED <<active, states, flow, deleted, edits>>

(* ProviderUserActionRequired or another error of the bank; a code it has   *)
(* taken before is refused.                                                 *)
Fail(r) ==
    /\ r.at = "exchanging"
    /\ spent' \in {spent, spent \cup {r.flow}}
    /\ \E verdict \in {"restricted", "error"} : Hear(r, verdict)
    /\ UNCHANGED <<active, conns, states, flow, deleted, edits>>

(* A sync finds the consent lapsed.                                         *)
Lapse(c) ==
    /\ Bounded
    /\ c.status = "active"
    /\ conns' = (conns \ {c}) \cup {[c EXCEPT !.status = "expired"]}
    /\ UNCHANGED <<active, states, tab, guard, requests, spent, flow, told, deleted>>

(* delete_connection                                                        *)
Delete(c) ==
    /\ Bounded
    /\ c.space = active
    /\ conns' = conns \ {c} /\ deleted' = deleted \cup {c.id}
    /\ UNCHANGED <<active, states, tab, guard, requests, spent, flow, told>>

(* The other workspace, in any tab: the id is in localStorage.              *)
Switch(s) ==
    /\ Bounded
    /\ s # active /\ active' = s
    /\ UNCHANGED <<conns, states, tab, guard, requests, spent, flow, told, deleted>>

Next ==
    \/ \E t \in Tabs :
         \/ Choose(t) \/ Consent(t) \/ Mount(t) \/ PasteAgain(t) \/ Retry(t) \/ Reload(t)
         \/ \E c \in conns : Reauthorise(t, c)
         \/ \E target \in {0} \cup {c.id : c \in conns} : Paste(t, target)
    \/ \E s \in states : Expire(s)
    \/ \E r \in requests : Consume(r) \/ Exchange(r) \/ Fail(r)
    \/ \E c \in conns : Lapse(c) \/ Delete(c)
    \/ \E s \in Spaces : Switch(s)

Spec == Init /\ [][Next]_vars
-----------------------------------------------------------------------------
Flows == 1..MaxEdits

TypeOK ==
    /\ active \in Spaces /\ deleted \subseteq Flows /\ spent \subseteq Flows
    /\ conns \subseteq [id : Flows, space : Spaces, status : {"active", "expired"}, by : Flows]
    /\ states \subseteq [flow : Flows, space : Spaces, target : 0..MaxEdits]
    /\ \A t \in Tabs :
         /\ tab[t].at \in {"accounts", "bank", "callback", "waiting", "restricted",
                           "submitting", "dialog"}
         /\ tab[t].flow \in 0..MaxEdits
    /\ guard \subseteq Tabs \X Flows
    /\ DOMAIN flow \subseteq Flows /\ edits \in 0..MaxEdits

(* A connection is in the workspace in which the user left for the bank,    *)
(* also when another one is active by the time the bank sends the browser   *)
(* back.                                                                    *)
LandsWhereBegun == \A c \in conns : flow[c.by].oauth => c.space = flow[c.by].space

(* A consent is stored on the connection it was asked for, and one that     *)
(* renews a connection makes no second one.                                 *)
RenewsItsOwn ==
    \A c \in conns : flow[c.by].target = IF c.by = c.id THEN 0 ELSE c.id

(* A renewal that comes back after its connection was deleted does not      *)
(* bring it back.                                                           *)
StaysDeleted == \A c \in conns : c.id \notin deleted

(* Where the consent of a bank ends up.                                     *)
ConsentsKept == LandsWhereBegun /\ RenewsItsOwn /\ StaysDeleted

(* Not so: the page offers to try again, and the state it would try again   *)
(* with is consumed.                                                        *)
RetryCanHelp == \A t \in Tabs : tab[t].at = "restricted" =>
    \E s \in states : s.flow = tab[t].flow
=============================================================================
