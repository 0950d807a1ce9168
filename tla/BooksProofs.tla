----------------------------- MODULE BooksProofs -----------------------------
(***************************************************************************)
(* Proofs about what a user brings into the books, for any transactions,   *)
(* workspaces, tabs, amounts, statement files and number of requests:      *)
(* where a consent lands, that receipts are kept, what a goal names and    *)
(* how its pace goes, what a purchase in instalments is cut into, that     *)
(* imports lose no line, that statements make one row of a movement, and   *)
(* what an asset is worth by its market, its rule or its bank.             *)
(* The last part puts the components together as MCBooks does.             *)
(***************************************************************************)
EXTENDS MCBooks, Lemmas

-----------------------------------------------------------------------------
(* PART ONE: CONNECTIONS *)
(* The inductive invariant *)

Asked == [space : Spaces, target : Nat, oauth : BOOLEAN]
Conn == [id : Nat, space : Spaces, status : {"active", "expired"}, by : Nat]
State == [flow : Nat, space : Spaces, target : Nat]
Request == [id : Nat, tab : Tabs, flow : Nat, oauth : BOOLEAN, target : Nat, space : Spaces,
            at : {"sent", "exchanging"}, loaded : {"none", "active", "expired"}, live : BOOLEAN]
Ats == {"accounts", "bank", "callback", "waiting", "restricted", "submitting", "dialog"}
TabState == [at : Ats, flow : Nat]

Flowing ==
  /\ flow = [f \in DOMAIN flow |-> flow[f]]
  /\ \A f \in DOMAIN flow : f \in Nat /\ f > 0 /\ f <= edits /\ flow[f] \in Asked

ConsentTyped ==
  /\ active \in Spaces /\ edits \in Nat /\ Flowing
  /\ conns \subseteq Conn /\ states \subseteq State /\ requests \subseteq Request
  /\ tab \in [Tabs -> TabState]

\* A state token stands for the flow it was stored for, among the flows F.
Stands(s, F) ==
  /\ s.flow \in DOMAIN F /\ F[s.flow].oauth
  /\ s.space = F[s.flow].space /\ s.target = F[s.flow].target

StatesInv == \A s \in states : Stands(s, flow)

\* A request carries a flow of its own kind; once its state is consumed it
\* renews what that flow was begun for, in its workspace.
Carries(r, F) ==
  /\ r.flow \in DOMAIN F /\ (r.oauth <=> F[r.flow].oauth)
  /\ ~r.oauth \/ r.at = "exchanging" => r.target = F[r.flow].target
  /\ r.oauth /\ r.at = "exchanging" => r.space = F[r.flow].space

RequestsInv == \A r \in requests : Carries(r, flow)

\* A tab is in a flow of the kind of its page.
TabsInv ==
  \A t \in Tabs :
    tab[t].at # "accounts" =>
      /\ tab[t].flow \in DOMAIN flow
      /\ tab[t].at \in {"submitting", "dialog"} <=> ~flow[tab[t].flow].oauth

\* A tab waits for one request, that of its flow, and a callback page that
\* waits has marked it.
LiveInv ==
  /\ \A r \in requests : r.live =>
       /\ tab[r.tab].at = (IF r.oauth THEN "waiting" ELSE "submitting")
       /\ tab[r.tab].flow = r.flow
       /\ r.oauth => <<r.tab, r.flow>> \in guard
  /\ \A r, q \in requests : r.live /\ q.live /\ r.tab = q.tab => r = q

\* A connection was opened by a flow the bank has taken, and renewed by others.
ConnsInv ==
  /\ \A c \in conns :
       /\ c.id \in spent /\ c.by \in DOMAIN flow
       /\ flow[c.by].target = IF c.by = c.id THEN 0 ELSE c.id
       /\ flow[c.by].oauth => c.space = flow[c.by].space
       /\ c.id \notin deleted
  /\ \A c, d \in conns : c.id = d.id => c = d
  /\ deleted \subseteq spent

\* What a request has loaded to renew is of its workspace.
TargetsInv ==
  \A r \in requests : r.at = "exchanging" /\ r.target # 0 =>
    r.target \in spent /\ \A c \in conns : c.id = r.target => c.space = r.space

ConnectInv ==
  ConsentTyped /\ StatesInv /\ RequestsInv /\ TabsInv /\ LiveInv /\ ConnsInv /\ TargetsInv

LEMMA ConnectInit == ConnectingAssumption /\ Init => ConnectInv
<1> SUFFICES ASSUME ConnectingAssumption, Init PROVE ConnectInv
  OBVIOUS
<1>1. ConsentTyped
  <2>1. First \in Spaces
    BY DEF ConnectingAssumption
  <2>2. flow = [f \in {} |-> Idle]
    BY DEF Init
  <2>3. Flowing
    BY <2>2 DEF Flowing
  <2>4. tab \in [Tabs -> TabState]
    BY DEF Init, Idle, TabState, Ats
  <2>5. QED
    BY <2>1, <2>3, <2>4 DEF Init, ConsentTyped
<1>2. StatesInv /\ RequestsInv /\ LiveInv /\ ConnsInv /\ TargetsInv
  BY DEF Init, StatesInv, RequestsInv, LiveInv, ConnsInv, TargetsInv
<1>3. TabsInv
  BY DEF Init, Idle, TabsInv
<1>4. QED
  BY <1>1, <1>2, <1>3 DEF ConnectInv

-----------------------------------------------------------------------------
(* Flows are begun and never change *)

Grows == \A f \in DOMAIN flow : f \in DOMAIN flow' /\ flow'[f] = flow[f]

LEMMA BeginFlow ==
  ASSUME ConsentTyped, edits' = edits + 1, NEW target \in Nat, NEW oauth \in BOOLEAN,
         Begin(target, oauth)
  PROVE  /\ Flowing' /\ Grows
         /\ Fresh \in DOMAIN flow' /\ Fresh \in Nat
         /\ flow'[Fresh] = [space |-> active, target |-> target, oauth |-> oauth]
         /\ flow'[Fresh].oauth <=> oauth
<1> DEFINE new == [space |-> active, target |-> target, oauth |-> oauth]
<1>1. new \in Asked
  BY DEF ConsentTyped, Asked
<1>2. flow' = [f \in DOMAIN flow \cup {Fresh} |-> IF f = Fresh THEN new ELSE flow[f]]
  BY DEF Begin
<1> HIDE DEF new
<1>3. /\ DOMAIN flow' = DOMAIN flow \cup {Fresh} /\ flow'[Fresh] = new
      /\ \A f \in DOMAIN flow : f # Fresh => flow'[f] = flow[f]
  BY <1>2
<1>4. /\ edits \in Nat /\ Fresh = edits + 1
      /\ \A f \in DOMAIN flow : f \in Nat /\ f > 0 /\ f <= edits /\ flow[f] \in Asked
  BY DEF ConsentTyped, Flowing, Fresh
<1>5. \A f \in DOMAIN flow : f # Fresh
  BY <1>4
<1>6. Grows
  BY <1>3, <1>5 DEF Grows
<1>7. \A f \in DOMAIN flow' : f \in Nat /\ f > 0 /\ f <= edits' /\ flow'[f] \in Asked
  BY <1>1, <1>3, <1>4, <1>5
<1>8. flow' = [f \in DOMAIN flow' |-> flow'[f]]
  BY <1>2, <1>3
<1>9. QED
  BY <1>3, <1>4, <1>6, <1>7, <1>8 DEF Flowing, new

LEMMA SameFlow ==
  ASSUME ConsentTyped, flow' = flow, edits' \in {edits, edits + 1}
  PROVE  Flowing' /\ Grows /\ edits' \in Nat
<1>1. Grows
  BY DEF Grows
<1>2. edits' \in Nat /\ edits <= edits'
  BY DEF ConsentTyped
<1>3. Flowing'
  BY <1>2 DEF ConsentTyped, Flowing
<1>4. QED
  BY <1>1, <1>2, <1>3

-----------------------------------------------------------------------------
(* Types *)

\* A request that is posted is typed.
LEMMA PostTyped ==
  ASSUME ConsentTyped, NEW t \in Tabs, NEW f \in Nat, NEW oauth \in BOOLEAN, NEW target \in Nat,
         Post(t, f, oauth, target)
  PROVE  requests' \subseteq Request
<1> DEFINE new == [id |-> edits + 1, tab |-> t, flow |-> f, oauth |-> oauth, target |-> target,
                   space |-> active, at |-> "sent", loaded |-> "none", live |-> TRUE]
<1>1. edits + 1 \in Nat /\ active \in Spaces
  BY DEF ConsentTyped
<1>2. new \in Request
  BY <1>1 DEF Request
<1> HIDE DEF new
<1>3. requests' = requests \cup {new}
  BY DEF Post, new
<1>4. QED
  BY <1>2, <1>3 DEF ConsentTyped

LEMMA HearTyped ==
  ASSUME ConsentTyped, NEW r \in requests, NEW verdict, Hear(r, verdict)
  PROVE  requests' \subseteq Request /\ tab' \in [Tabs -> TabState]
<1>1. requests' \subseteq Request
  BY DEF Hear, ConsentTyped
<1>2. ASSUME NEW at \in Ats, tab' = [tab EXCEPT ![r.tab].at = at]
      PROVE tab' \in [Tabs -> TabState]
  BY <1>2 DEF ConsentTyped, TabState
<1>3. CASE ~r.live
  BY <1>1, <1>3 DEF Hear, ConsentTyped
<1>4. CASE r.live
  <2>1. PICK heard :
          tab' = [tab EXCEPT ![r.tab].at =
                          CASE heard = "restricted" /\ r.oauth -> "restricted"
                            [] heard # "ok" /\ ~r.oauth -> "dialog"
                            [] OTHER -> "accounts"]
    BY <1>4 DEF Hear
  <2>2. (CASE heard = "restricted" /\ r.oauth -> "restricted"
           [] heard # "ok" /\ ~r.oauth -> "dialog"
           [] OTHER -> "accounts") \in Ats
    BY DEF Ats
  <2>3. QED
    BY <1>1, <1>2, <2>1, <2>2
<1>5. QED
  BY <1>3, <1>4

LEMMA ConsentStepTyped ==
  ConnectingAssumption /\ ConnectInv /\ [Next]_vars => ConsentTyped' /\ Grows
<1> SUFFICES ASSUME ConnectingAssumption, ConnectInv, [Next]_vars PROVE ConsentTyped' /\ Grows
  OBVIOUS
<1>a. ConsentTyped
  BY DEF ConnectInv
<1>b. /\ active \in Spaces /\ edits \in Nat /\ Flowing
      /\ conns \subseteq Conn /\ states \subseteq State /\ requests \subseteq Request
      /\ tab \in [Tabs -> TabState]
  BY <1>a DEF ConsentTyped
<1>c. ASSUME NEW c \in conns PROVE c.id \in Nat /\ Renewal(c) = Stored(c.id)
  BY <1>b DEF Conn, Renewal
<1>d. ASSUME NEW target \in Nat, Bounded PROVE Stored(target) \in State
  BY <1>b, <1>d DEF Stored, State, Fresh
<1>e. ASSUME NEW t \in Tabs, NEW at \in Ats, NEW f \in Nat,
             tab' = [tab EXCEPT ![t] = [at |-> at, flow |-> f]]
      PROVE tab' \in [Tabs -> TabState]
  BY <1>b, <1>e DEF TabState
<1>f. ASSUME NEW t \in Tabs, NEW at \in Ats, tab' = [tab EXCEPT ![t].at = at]
      PROVE tab' \in [Tabs -> TabState]
  BY <1>b, <1>f DEF TabState
<1>g. ASSUME NEW t \in Tabs PROVE tab[t].flow \in Nat
  BY <1>b DEF TabState
<1>1. ASSUME NEW t \in Tabs, Choose(t) PROVE ConsentTyped' /\ Grows
  <2>1. Flowing' /\ Grows /\ Fresh \in Nat
    BY <1>1, <1>a, BeginFlow DEF Choose, Bounded
  <2>2. states' \subseteq State
    BY <1>1, <1>b, <1>d DEF Choose
  <2>3. tab' \in [Tabs -> TabState]
    BY <1>1, <1>e, <2>1 DEF Choose, Ats
  <2>4. QED
    BY <1>1, <1>b, <2>1, <2>2, <2>3 DEF Choose, Bounded, ConsentTyped
<1>2. ASSUME NEW t \in Tabs, NEW c \in conns, Reauthorise(t, c) PROVE ConsentTyped' /\ Grows
  <2>1. Flowing' /\ Grows /\ Fresh \in Nat
    BY <1>2, <1>a, <1>c, BeginFlow DEF Reauthorise, Bounded
  <2>2. states' \subseteq State
    BY <1>2, <1>b, <1>c, <1>d DEF Reauthorise
  <2>3. tab' \in [Tabs -> TabState]
    BY <1>2, <1>e, <2>1 DEF Reauthorise, Ats
  <2>4. QED
    BY <1>2, <1>b, <2>1, <2>2, <2>3 DEF Reauthorise, Bounded, ConsentTyped
<1>3. ASSUME NEW t \in Tabs, Consent(t) PROVE ConsentTyped' /\ Grows
  <2>1. tab' \in [Tabs -> TabState]
    BY <1>3, <1>f DEF Consent, Ats
  <2>2. QED
    BY <1>3, <1>a, <1>b, <2>1, SameFlow DEF Consent, ConsentTyped
<1>4. ASSUME NEW t \in Tabs, Mount(t) PROVE ConsentTyped' /\ Grows
  <2>1. tab' \in [Tabs -> TabState]
    BY <1>4, <1>f DEF Mount, Ats
  <2>2. requests' \subseteq Request
    BY <1>4, <1>a, <1>b, <1>g, PostTyped DEF Mount
  <2>3. QED
    BY <1>4, <1>a, <1>b, <2>1, <2>2, SameFlow DEF Mount, Bounded, ConsentTyped
<1>5. ASSUME NEW t \in Tabs, NEW target \in {0} \cup {c.id : c \in conns}, Paste(t, target)
      PROVE ConsentTyped' /\ Grows
  <2>0. target \in Nat
    BY <1>c
  <2>1. Flowing' /\ Grows /\ Fresh \in Nat
    BY <1>5, <1>a, <2>0, BeginFlow DEF Paste, Bounded
  <2>2. requests' \subseteq Request
    BY <1>5, <1>a, <2>0, <2>1, PostTyped DEF Paste
  <2>3. tab' \in [Tabs -> TabState]
    BY <1>5, <1>e, <2>1 DEF Paste, Ats
  <2>4. QED
    BY <1>5, <1>b, <2>1, <2>2, <2>3 DEF Paste, Bounded, ConsentTyped
<1>6. ASSUME NEW t \in Tabs, PasteAgain(t) PROVE ConsentTyped' /\ Grows
  <2>1. tab' \in [Tabs -> TabState]
    BY <1>6, <1>f DEF PasteAgain, Ats
  <2>2. flow[tab[t].flow].target \in Nat
    BY <1>6, <1>b DEF PasteAgain, ConnectInv, TabsInv, Flowing, Asked
  <2>3. requests' \subseteq Request
    BY <1>6, <1>a, <1>g, <2>2, PostTyped DEF PasteAgain
  <2>4. QED
    BY <1>6, <1>a, <1>b, <2>1, <2>3, SameFlow DEF PasteAgain, Bounded, ConsentTyped
<1>7. ASSUME NEW t \in Tabs, Retry(t) PROVE ConsentTyped' /\ Grows
  <2>1. tab' \in [Tabs -> TabState]
    BY <1>7, <1>f DEF Retry, Ats
  <2>2. QED
    BY <1>7, <1>a, <1>b, <2>1, SameFlow DEF Retry, ConsentTyped
<1>8. ASSUME NEW t \in Tabs, Reload(t) PROVE ConsentTyped' /\ Grows
  <2>1. tab' \in [Tabs -> TabState]
    BY <1>8, <1>b DEF Reload, TabState, Ats, Idle
  <2>2. \A r \in requests : [r EXCEPT !.live = FALSE] \in Request
    BY <1>b DEF Request
  <2>3. requests' \subseteq Request
    BY <1>8, <1>b, <2>2 DEF Reload
  <2>4. QED
    BY <1>8, <1>a, <1>b, <2>1, <2>3, SameFlow DEF Reload, Bounded, ConsentTyped
<1>9. ASSUME NEW s \in states, Expire(s) PROVE ConsentTyped' /\ Grows
  BY <1>9, <1>a, <1>b, SameFlow DEF Expire, Bounded, ConsentTyped
<1>10. ASSUME NEW r \in requests, Consume(r) PROVE ConsentTyped' /\ Grows
  <2>1. states' \subseteq State
    BY <1>10, <1>b DEF Consume, Left
  <2>2. requests' \subseteq Request /\ tab' \in [Tabs -> TabState]
    <3> DEFINE target == TargetOf(r)
               known == \E s \in states : Fits(r, s)
               found == {c \in conns : c.id = target /\ c.space = r.space}
               loaded == IF target = 0 THEN "none" ELSE (CHOOSE c \in found : TRUE).status
    <3>1. CASE Hear(r, "error")
      BY <1>a, <3>1, HearTyped
    <3>2. CASE /\ (r.oauth => known) /\ (target # 0 => found # {})
               /\ requests' = (requests \ {r}) \cup
                     {[r EXCEPT !.at = "exchanging", !.target = target, !.loaded = loaded]}
               /\ tab' = tab
      <4>1. target \in Nat
        <5>1. CASE r.oauth
          <6>1. \E s \in states : s.flow = r.flow
            BY <3>2, <5>1 DEF Fits
          <6>2. (CHOOSE s \in states : s.flow = r.flow) \in states
            BY <6>1
          <6>3. QED
            BY <1>b, <5>1, <6>2 DEF TargetOf, State
        <5>2. CASE ~r.oauth
          BY <1>b, <5>2 DEF TargetOf, Request
        <5>3. QED
          BY <5>1, <5>2
      <4>2. loaded \in {"none", "active", "expired"}
        <5>1. found # {} => (CHOOSE c \in found : TRUE) \in conns
          <6>1. found # {} => (CHOOSE c \in found : TRUE) \in found
            OBVIOUS
          <6>2. QED
            BY <6>1
        <5> HIDE DEF found
        <5>2. QED
          BY <1>b, <3>2, <5>1 DEF Conn
      <4> HIDE DEF target, loaded
      <4>3. [r EXCEPT !.at = "exchanging", !.target = target, !.loaded = loaded] \in Request
        BY <1>b, <4>1, <4>2 DEF Request
      <4>4. QED
        BY <1>b, <3>2, <4>3
    <3>3. QED
      BY <1>10, <3>1, <3>2 DEF Consume
  <2>3. QED
    BY <1>10, <1>a, <1>b, <2>1, <2>2, SameFlow DEF Consume, ConsentTyped
<1>11. ASSUME NEW r \in requests, Exchange(r) PROVE ConsentTyped' /\ Grows
  <2>1. requests' \subseteq Request /\ tab' \in [Tabs -> TabState]
    BY <1>11, <1>a, HearTyped DEF Exchange
  <2>2. Opened(r) \in Conn
    BY <1>b DEF Opened, Conn, Request
  <2>3. \A c \in conns : Renewed(c, r) \in Conn
    BY <1>b DEF Renewed, Conn, Request
  <2>4. conns' \subseteq Conn
    BY <1>11, <1>b, <2>2, <2>3 DEF Exchange, Store
  <2>5. QED
    BY <1>11, <1>a, <1>b, <2>1, <2>4, SameFlow DEF Exchange, ConsentTyped
<1>12. ASSUME NEW r \in requests, Fail(r) PROVE ConsentTyped' /\ Grows
  <2>1. requests' \subseteq Request /\ tab' \in [Tabs -> TabState]
    BY <1>12, <1>a, HearTyped DEF Fail
  <2>2. QED
    BY <1>12, <1>a, <1>b, <2>1, SameFlow DEF Fail, ConsentTyped
<1>13. ASSUME NEW c \in conns, Lapse(c) PROVE ConsentTyped' /\ Grows
  <2>1. [c EXCEPT !.status = "expired"] \in Conn
    BY <1>b DEF Conn
  <2>2. QED
    BY <1>13, <1>a, <1>b, <2>1, SameFlow DEF Lapse, Bounded, ConsentTyped
<1>14. ASSUME NEW c \in conns, Delete(c) PROVE ConsentTyped' /\ Grows
  BY <1>14, <1>a, <1>b, SameFlow DEF Delete, Bounded, ConsentTyped
<1>15. ASSUME NEW s \in Spaces, Switch(s) PROVE ConsentTyped' /\ Grows
  BY <1>15, <1>a, <1>b, SameFlow DEF Switch, Bounded, ConsentTyped
<1>16. CASE UNCHANGED vars
  BY <1>16, <1>a, <1>b, SameFlow DEF vars, ConsentTyped
<1>17. QED
  BY <1>1, <1>2, <1>3, <1>4, <1>5, <1>6, <1>7, <1>8, <1>9, <1>10, <1>11, <1>12, <1>13, <1>14,
     <1>15, <1>16 DEF Next

-----------------------------------------------------------------------------
(* State tokens *)

LEMMA StatesStep ==
  ASSUME ConnectInv, Next, Grows
  PROVE  StatesInv'
<1>a. ConsentTyped /\ \A s \in states : Stands(s, flow)
  BY DEF ConnectInv, StatesInv
<1>1. ASSUME states' \subseteq states PROVE StatesInv'
  BY <1>1, <1>a DEF StatesInv, Stands, Grows
<1>2. ASSUME NEW target \in Nat, Bounded, Begin(target, TRUE),
             states' = states \cup {Stored(target)}
      PROVE StatesInv'
  <2>1. /\ Fresh \in DOMAIN flow'
        /\ flow'[Fresh] = [space |-> active, target |-> target, oauth |-> TRUE]
    BY <1>2, <1>a, BeginFlow DEF Bounded
  <2>2. Stands(Stored(target), flow')
    BY <2>1 DEF Stored, Stands
  <2>3. \A s \in states : Stands(s, flow')
    BY <1>a DEF Stands, Grows
  <2>4. QED
    BY <1>2, <2>2, <2>3 DEF StatesInv
<1>3. ASSUME NEW t \in Tabs, Choose(t) PROVE StatesInv'
  BY <1>2, <1>3 DEF Choose
<1>4. ASSUME NEW t \in Tabs, NEW c \in conns, Reauthorise(t, c) PROVE StatesInv'
  <2>1. c.id \in Nat
    BY <1>a DEF ConsentTyped, Conn
  <2>2. QED
    BY <1>2, <1>4, <2>1 DEF Reauthorise, Renewal
<1>5. ASSUME NEW r \in requests, Consume(r) PROVE StatesInv'
  BY <1>1, <1>5 DEF Consume, Left
<1>6. QED
  BY <1>1, <1>3, <1>4, <1>5 DEF Next, Consent, Mount, Paste, PasteAgain, Retry, Reload, Expire,
     Exchange, Fail, Lapse, Delete, Switch

-----------------------------------------------------------------------------
(* Requests *)

LEMMA RequestsStep ==
  ASSUME ConnectInv, Next, Grows
  PROVE  RequestsInv'
<1>a. ConsentTyped /\ requests \subseteq Request /\ TabsInv /\ \A r \in requests : Carries(r, flow)
  BY DEF ConnectInv, RequestsInv, ConsentTyped
<1>b. \A r \in requests : Carries(r, flow')
  BY <1>a DEF Carries, Grows
<1>1. ASSUME requests' \subseteq requests PROVE RequestsInv'
  BY <1>1, <1>b DEF RequestsInv
<1>2. ASSUME NEW r \in requests, NEW verdict, Hear(r, verdict) PROVE RequestsInv'
  BY <1>1, <1>2 DEF Hear
<1>3. ASSUME NEW t, NEW f, NEW oauth, NEW target, Post(t, f, oauth, target),
             f \in DOMAIN flow', oauth <=> flow'[f].oauth,
             ~oauth => target = flow'[f].target
      PROVE RequestsInv'
  <2> DEFINE new == [id |-> edits + 1, tab |-> t, flow |-> f, oauth |-> oauth, target |-> target,
                     space |-> active, at |-> "sent", loaded |-> "none", live |-> TRUE]
  <2>1. requests' = requests \cup {new}
    BY <1>3 DEF Post
  <2>2. new.flow = f /\ new.oauth = oauth /\ new.target = target /\ new.at = "sent"
    OBVIOUS
  <2> HIDE DEF new
  <2>3. Carries(new, flow')
    BY <1>3, <2>2 DEF Carries
  <2>4. QED
    BY <1>b, <2>1, <2>3 DEF RequestsInv
<1>4. ASSUME NEW t \in Tabs, Mount(t) PROVE RequestsInv'
  <2>1. tab[t].flow \in DOMAIN flow' /\ flow'[tab[t].flow].oauth
    BY <1>4, <1>a DEF Mount, TabsInv, Grows
  <2>2. QED
    BY <1>1, <1>3, <1>4, <2>1 DEF Mount
<1>5. ASSUME NEW t \in Tabs, NEW target \in {0} \cup {c.id : c \in conns}, Paste(t, target)
      PROVE RequestsInv'
  <2>1. target \in Nat
    BY <1>a DEF ConsentTyped, Conn
  <2>2. /\ Fresh \in DOMAIN flow'
        /\ flow'[Fresh] = [space |-> active, target |-> target, oauth |-> FALSE]
    BY <1>5, <1>a, <2>1, BeginFlow DEF Paste, Bounded
  <2>3. ~flow'[Fresh].oauth /\ flow'[Fresh].target = target
    BY <2>2
  <2>4. Post(t, Fresh, FALSE, target)
    BY <1>5 DEF Paste
  <2>5. Fresh \in DOMAIN flow'
    BY <2>2
  <2>6. QED
    BY <1>3, <2>3, <2>4, <2>5
<1>6. ASSUME NEW t \in Tabs, PasteAgain(t) PROVE RequestsInv'
  <2>1. /\ tab[t].flow \in DOMAIN flow' /\ ~flow'[tab[t].flow].oauth
        /\ flow'[tab[t].flow] = flow[tab[t].flow]
    BY <1>6, <1>a DEF PasteAgain, TabsInv, Grows
  <2>2. QED
    BY <1>3, <1>6, <2>1 DEF PasteAgain
<1>7. ASSUME NEW t \in Tabs, Reload(t) PROVE RequestsInv'
  <2>1. \A r \in requests : Carries([r EXCEPT !.live = FALSE], flow')
    BY <1>a, <1>b DEF Request, Carries
  <2>2. QED
    BY <1>7, <1>b, <2>1 DEF Reload, RequestsInv
<1>8. ASSUME NEW r \in requests, Consume(r) PROVE RequestsInv'
  <2> DEFINE target == TargetOf(r)
             known == \E s \in states : Fits(r, s)
             found == {c \in conns : c.id = target /\ c.space = r.space}
             loaded == IF target = 0 THEN "none" ELSE (CHOOSE c \in found : TRUE).status
  <2>1. CASE Hear(r, "error")
    BY <1>2, <2>1
  <2>2. CASE /\ r.oauth => known
             /\ requests' = (requests \ {r}) \cup
                   {[r EXCEPT !.at = "exchanging", !.target = target, !.loaded = loaded]}
    <3>1. target = flow[r.flow].target /\ (r.oauth => r.space = flow[r.flow].space)
      <4>1. CASE r.oauth
        <5>1. PICK s \in states : Fits(r, s)
          BY <2>2, <4>1
        <5>2. (CHOOSE u \in states : u.flow = r.flow) \in states
              /\ (CHOOSE u \in states : u.flow = r.flow).flow = r.flow
          BY <5>1 DEF Fits
        <5>3. target = flow[r.flow].target
          BY <4>1, <5>2 DEF TargetOf, ConnectInv, StatesInv, Stands
        <5>4. r.space = flow[r.flow].space
          BY <5>1 DEF Fits, ConnectInv, StatesInv, Stands
        <5>5. QED
          BY <5>3, <5>4
      <4>2. CASE ~r.oauth
        BY <1>a, <4>2 DEF TargetOf, Carries
      <4>3. QED
        BY <4>1, <4>2
    <3> HIDE DEF target, loaded
    <3> DEFINE new == [r EXCEPT !.at = "exchanging", !.target = target, !.loaded = loaded]
    <3>2. /\ new.flow = r.flow /\ new.oauth = r.oauth /\ new.target = target
          /\ new.space = r.space
      BY <1>a DEF Request
    <3> HIDE DEF new
    <3>3. Carries(new, flow')
      BY <1>a, <3>1, <3>2 DEF Carries, Grows
    <3>4. QED
      BY <1>b, <2>2, <3>3 DEF RequestsInv, new
  <2>3. QED
    BY <1>8, <2>1, <2>2 DEF Consume
<1>9. ASSUME NEW r \in requests, Exchange(r) PROVE RequestsInv'
  BY <1>2, <1>9 DEF Exchange
<1>10. ASSUME NEW r \in requests, Fail(r) PROVE RequestsInv'
  BY <1>2, <1>10 DEF Fail
<1>11. QED
  BY <1>1, <1>4, <1>5, <1>6, <1>7, <1>8, <1>9, <1>10 DEF Next, Choose, Reauthorise, Consent,
     Retry, Expire, Lapse, Delete, Switch

-----------------------------------------------------------------------------
(* Tabs *)

\* A tab in the flow of a record x, among the flows F.
InFlow(x, F) ==
  x.at # "accounts" =>
    /\ x.flow \in DOMAIN F
    /\ x.at \in {"submitting", "dialog"} <=> ~F[x.flow].oauth

LEMMA TabsStep ==
  ASSUME ConnectInv, Next, Grows
  PROVE  TabsInv'
<1>a. /\ ConsentTyped /\ tab \in [Tabs -> TabState]
      /\ \A t \in Tabs : InFlow(tab[t], flow)
  BY DEF ConnectInv, TabsInv, InFlow, ConsentTyped
<1>b. \A t \in Tabs : InFlow(tab[t], flow')
  BY <1>a DEF InFlow, Grows
<1>1. ASSUME NEW t \in Tabs, NEW x, tab' = [tab EXCEPT ![t] = x], InFlow(x, flow')
      PROVE TabsInv'
  BY <1>1, <1>a, <1>b DEF TabsInv, InFlow
<1>2. ASSUME tab' = tab PROVE TabsInv'
  BY <1>2, <1>b DEF TabsInv, InFlow
<1>3. ASSUME NEW t \in Tabs, NEW at, tab' = [tab EXCEPT ![t].at = at],
             \/ at = "accounts"
             \/ /\ tab[t].at # "accounts"
                /\ at \in {"submitting", "dialog"} <=> tab[t].at \in {"submitting", "dialog"}
      PROVE TabsInv'
  <2> DEFINE x == [tab[t] EXCEPT !.at = at]
  <2>1. x.at = at /\ x.flow = tab[t].flow
    BY <1>a DEF TabState
  <2>2. tab' = [tab EXCEPT ![t] = x]
    BY <1>3, <1>a
  <2> HIDE DEF x
  <2>3. InFlow(x, flow')
    BY <1>3, <1>b, <2>1 DEF InFlow
  <2>4. QED
    BY <1>1, <2>2, <2>3
<1>4. ASSUME NEW r \in requests, NEW verdict, Hear(r, verdict) PROVE TabsInv'
  <2>1. r.tab \in Tabs /\ r.oauth \in BOOLEAN
    BY <1>a DEF ConsentTyped, Request
  <2>2. CASE ~r.live
    BY <1>2, <1>4, <2>2 DEF Hear
  <2>3. CASE r.live
    <3>1. PICK heard :
            tab' = [tab EXCEPT ![r.tab].at =
                            CASE heard = "restricted" /\ r.oauth -> "restricted"
                              [] heard # "ok" /\ ~r.oauth -> "dialog"
                              [] OTHER -> "accounts"]
      BY <1>4, <2>3 DEF Hear
    <3> DEFINE at == CASE heard = "restricted" /\ r.oauth -> "restricted"
                       [] heard # "ok" /\ ~r.oauth -> "dialog"
                       [] OTHER -> "accounts"
    <3>2. at = "accounts" \/ (at = "restricted" /\ r.oauth) \/ (at = "dialog" /\ ~r.oauth)
      OBVIOUS
    <3>3. tab[r.tab].at = (IF r.oauth THEN "waiting" ELSE "submitting")
      BY <2>3 DEF ConnectInv, LiveInv
    <3>4. tab' = [tab EXCEPT ![r.tab].at = at]
      BY <3>1
    <3> HIDE DEF at
    <3>5. \/ at = "accounts"
          \/ /\ tab[r.tab].at # "accounts"
             /\ at \in {"submitting", "dialog"} <=> tab[r.tab].at \in {"submitting", "dialog"}
      BY <3>2, <3>3
    <3>6. QED
      BY <1>3, <2>1, <3>4, <3>5
  <2>4. QED
    BY <2>2, <2>3
<1>5. ASSUME NEW t \in Tabs, NEW at, NEW target \in Nat, NEW oauth \in BOOLEAN, Bounded,
             Begin(target, oauth), tab' = [tab EXCEPT ![t] = [at |-> at, flow |-> Fresh]],
             at \in {"submitting", "dialog"} <=> ~oauth
      PROVE TabsInv'
  <2>1. Fresh \in DOMAIN flow' /\ (flow'[Fresh].oauth <=> oauth)
    BY <1>5, <1>a, BeginFlow DEF Bounded
  <2>2. InFlow([at |-> at, flow |-> Fresh], flow')
    BY <1>5, <2>1 DEF InFlow
  <2>3. QED
    BY <1>1, <1>5, <2>2
<1>6. ASSUME NEW t \in Tabs, Choose(t) PROVE TabsInv'
  BY <1>5, <1>6 DEF Choose
<1>7. ASSUME NEW t \in Tabs, NEW c \in conns, Reauthorise(t, c) PROVE TabsInv'
  <2>1. c.id \in Nat
    BY <1>a DEF ConsentTyped, Conn
  <2>2. QED
    BY <1>5, <1>7, <2>1 DEF Reauthorise
<1>8. ASSUME NEW t \in Tabs, Consent(t) PROVE TabsInv'
  BY <1>3, <1>8 DEF Consent
<1>9. ASSUME NEW t \in Tabs, Mount(t) PROVE TabsInv'
  BY <1>3, <1>9 DEF Mount
<1>10. ASSUME NEW t \in Tabs, NEW target \in {0} \cup {c.id : c \in conns}, Paste(t, target)
       PROVE TabsInv'
  <2>1. target \in Nat
    BY <1>a DEF ConsentTyped, Conn
  <2>2. QED
    BY <1>5, <1>10, <2>1 DEF Paste
<1>11. ASSUME NEW t \in Tabs, PasteAgain(t) PROVE TabsInv'
  BY <1>3, <1>11 DEF PasteAgain
<1>12. ASSUME NEW t \in Tabs, Retry(t) PROVE TabsInv'
  BY <1>3, <1>12 DEF Retry
<1>13. ASSUME NEW t \in Tabs, Reload(t) PROVE TabsInv'
  <2>1. CASE tab[t].at \in {"waiting", "restricted"}
    <3>1. tab' = [tab EXCEPT ![t].at = "callback"]
      BY <1>13, <2>1 DEF Reload
    <3>2. QED
      BY <1>3, <2>1, <3>1
  <2>2. CASE tab[t].at \notin {"waiting", "restricted"}
    <3>1. tab' = [tab EXCEPT ![t] = Idle] /\ InFlow(Idle, flow')
      BY <1>13, <2>2 DEF Reload, InFlow, Idle
    <3>2. QED
      BY <1>1, <3>1
  <2>3. QED
    BY <2>1, <2>2
<1>14. ASSUME NEW r \in requests, Consume(r) PROVE TabsInv'
  BY <1>2, <1>4, <1>14 DEF Consume
<1>15. ASSUME NEW r \in requests, Exchange(r) PROVE TabsInv'
  BY <1>4, <1>15 DEF Exchange
<1>16. ASSUME NEW r \in requests, Fail(r) PROVE TabsInv'
  BY <1>4, <1>16 DEF Fail
<1>17. QED
  BY <1>2, <1>6, <1>7, <1>8, <1>9, <1>10, <1>11, <1>12, <1>13, <1>14, <1>15, <1>16
     DEF Next, Expire, Lapse, Delete, Switch

-----------------------------------------------------------------------------
(* Requests a tab waits for *)

\* A request r that its tab, showing x and having marked the flows in G, waits for.
Awaited(r, x, W) ==
  r.live => /\ x.at = (IF r.oauth THEN "waiting" ELSE "submitting")
            /\ x.flow = r.flow
            /\ r.oauth => <<r.tab, r.flow>> \in W

LEMMA LiveStep ==
  ASSUME ConnectInv, Next
  PROVE  LiveInv'
<1>a. /\ tab \in [Tabs -> TabState] /\ requests \subseteq Request
      /\ \A r \in requests : Awaited(r, tab[r.tab], guard)
      /\ \A r, q \in requests : r.live /\ q.live /\ r.tab = q.tab => r = q
  BY DEF ConnectInv, LiveInv, Awaited, ConsentTyped
<1>b. \A r \in requests : r.tab \in Tabs
  BY <1>a DEF Request
<1>c. ASSUME NEW t \in Tabs, tab[t].at \notin {"waiting", "submitting"}
      PROVE  \A r \in requests : r.live => r.tab # t
  BY <1>a, <1>c DEF Awaited
<1>1. ASSUME tab' = tab, guard' = guard, requests' = requests PROVE LiveInv'
  BY <1>1, <1>a DEF LiveInv, Awaited
\* A page nobody waits on moves.
<1>2. ASSUME NEW t \in Tabs, \A r \in requests : r.live => r.tab # t,
             \A u \in Tabs : u # t => tab'[u] = tab[u], guard' = guard,
             requests' \subseteq requests
      PROVE LiveInv'
  BY <1>2, <1>a, <1>b DEF LiveInv, Awaited
\* A page nobody waits on posts.
<1>3. ASSUME NEW t \in Tabs, \A r \in requests : r.live => r.tab # t,
             \A u \in Tabs : u # t => tab'[u] = tab[u], guard \subseteq guard',
             NEW f, NEW oauth \in BOOLEAN, NEW target, Post(t, f, oauth, target),
             tab'[t].at = (IF oauth THEN "waiting" ELSE "submitting"), tab'[t].flow = f,
             oauth => <<t, f>> \in guard'
      PROVE LiveInv'
  <2> DEFINE new == [id |-> edits + 1, tab |-> t, flow |-> f, oauth |-> oauth, target |-> target,
                     space |-> active, at |-> "sent", loaded |-> "none", live |-> TRUE]
  <2>1. requests' = requests \cup {new}
    BY <1>3 DEF Post
  <2>2. new.flow = f /\ (new.oauth <=> oauth) /\ new.tab = t /\ new.live
    OBVIOUS
  <2> HIDE DEF new
  <2>3. Awaited(new, tab'[new.tab], guard')
    BY <1>3, <2>2 DEF Awaited
  <2>4. \A r \in requests : Awaited(r, tab'[r.tab], guard')
    BY <1>3, <1>a, <1>b DEF Awaited
  <2>5. \A r, q \in requests' : r.live /\ q.live /\ r.tab = q.tab => r = q
    BY <1>3, <1>a, <2>1, <2>2
  <2>6. QED
    BY <2>1, <2>3, <2>4, <2>5 DEF LiveInv, Awaited
<1>4. ASSUME NEW r \in requests, NEW verdict, Hear(r, verdict) PROVE LiveInv'
  <2>1. CASE ~r.live
    BY <1>4, <1>a, <2>1 DEF Hear, LiveInv, Awaited
  <2>2. CASE r.live
    <3>1. /\ requests' = requests \ {r}
          /\ guard \ {<<r.tab, r.flow>>} \subseteq guard'
          /\ \A u \in Tabs : u # r.tab => tab'[u] = tab[u]
      BY <1>4, <1>a, <2>2 DEF Hear
    <3>2. \A q \in requests' : q.live => q.tab # r.tab
      BY <1>a, <2>2, <3>1
    <3>3. \A q \in requests' : Awaited(q, tab'[q.tab], guard')
      BY <1>a, <1>b, <3>1, <3>2 DEF Awaited
    <3>4. QED
      BY <1>a, <3>1, <3>3 DEF LiveInv, Awaited
  <2>3. QED
    BY <2>1, <2>2
<1>5. ASSUME NEW t \in Tabs, Choose(t) PROVE LiveInv'
  BY <1>2, <1>5, <1>a, <1>c DEF Choose
<1>6. ASSUME NEW t \in Tabs, NEW c \in conns, Reauthorise(t, c) PROVE LiveInv'
  BY <1>2, <1>6, <1>a, <1>c DEF Reauthorise
<1>7. ASSUME NEW t \in Tabs, Consent(t) PROVE LiveInv'
  BY <1>2, <1>7, <1>a, <1>c DEF Consent
<1>8. ASSUME NEW t \in Tabs, Retry(t) PROVE LiveInv'
  BY <1>2, <1>8, <1>a, <1>c DEF Retry
<1>9. ASSUME NEW t \in Tabs, Mount(t) PROVE LiveInv'
  <2>1. /\ tab[t].at \in {"callback", "waiting"}
        /\ tab'[t].at = "waiting" /\ tab'[t].flow = tab[t].flow
        /\ \A u \in Tabs : u # t => tab'[u] = tab[u]
    BY <1>9, <1>a DEF Mount, TabState
  <2>2. CASE Submits(t)
    <3>1. guard' = guard \cup {<<t, tab[t].flow>>} /\ Post(t, tab[t].flow, TRUE, 0)
      BY <1>9, <2>2 DEF Mount
    <3>2. \A r \in requests : r.live => r.tab # t
      <4> SUFFICES ASSUME NEW r \in requests, r.live, r.tab = t PROVE FALSE
        OBVIOUS
      <4>1. Awaited(r, tab[t], guard)
        BY <1>a
      <4>2. tab[t].at = "waiting"
        BY <2>1, <4>1 DEF Awaited
      <4>3. r.oauth
        BY <4>1, <4>2 DEF Awaited
      <4>4. <<t, tab[t].flow>> \in guard
        BY <4>1, <4>3 DEF Awaited
      <4>5. QED
        BY <2>2, <4>4 DEF Submits
    <3>3. QED
      BY <1>3, <2>1, <3>1, <3>2
  <2>3. CASE ~Submits(t)
    <3>1. guard' = guard /\ requests' = requests
      BY <1>9, <2>3 DEF Mount
    <3>2. \A r \in requests : Awaited(r, tab'[r.tab], guard)
      BY <1>a, <1>b, <2>1 DEF Awaited
    <3>3. QED
      BY <1>a, <3>1, <3>2 DEF LiveInv, Awaited
  <2>4. QED
    BY <2>2, <2>3
<1>10. ASSUME NEW t \in Tabs, NEW target, Paste(t, target) PROVE LiveInv'
  <2>1. /\ tab'[t].at = "submitting" /\ tab'[t].flow = Fresh
        /\ \A u \in Tabs : u # t => tab'[u] = tab[u]
        /\ tab[t].at = "accounts" /\ guard' = guard /\ Post(t, Fresh, FALSE, target)
    BY <1>10, <1>a DEF Paste
  <2>2. \A r \in requests : r.live => r.tab # t
    BY <1>c, <2>1
  <2>3. QED
    BY <1>3, <2>1, <2>2
<1>11. ASSUME NEW t \in Tabs, PasteAgain(t) PROVE LiveInv'
  <2>1. /\ tab'[t].at = "submitting" /\ tab'[t].flow = tab[t].flow
        /\ \A u \in Tabs : u # t => tab'[u] = tab[u]
        /\ tab[t].at = "dialog" /\ guard' = guard
        /\ Post(t, tab[t].flow, FALSE, flow[tab[t].flow].target)
    BY <1>11, <1>a DEF PasteAgain, TabState
  <2>2. \A r \in requests : r.live => r.tab # t
    BY <1>c, <2>1
  <2>3. QED
    BY <1>3, <2>1, <2>2
<1>12. ASSUME NEW t \in Tabs, Reload(t) PROVE LiveInv'
  <2>1. /\ requests' = {IF r.tab = t THEN [r EXCEPT !.live = FALSE] ELSE r : r \in requests}
        /\ guard' = guard /\ \A u \in Tabs : u # t => tab'[u] = tab[u]
    BY <1>12, <1>a DEF Reload
  <2>2. \A r \in requests : [r EXCEPT !.live = FALSE].live = FALSE
    BY <1>a DEF Request
  <2>3. \A q \in requests' : q.live => q \in requests /\ q.tab # t
    BY <2>1, <2>2
  <2>4. \A q \in requests' : Awaited(q, tab'[q.tab], guard')
    BY <1>a, <1>b, <2>1, <2>3 DEF Awaited
  <2>5. QED
    BY <1>a, <2>3, <2>4 DEF LiveInv, Awaited
<1>13. ASSUME NEW r \in requests, Consume(r) PROVE LiveInv'
  <2>1. CASE Hear(r, "error")
    BY <1>4, <2>1
  <2>2. ASSUME NEW target, NEW loaded, tab' = tab, guard' = guard,
               requests' = (requests \ {r}) \cup
                   {[r EXCEPT !.at = "exchanging", !.target = target, !.loaded = loaded]}
        PROVE LiveInv'
    <3> DEFINE new == [r EXCEPT !.at = "exchanging", !.target = target, !.loaded = loaded]
    <3>1. /\ new.flow = r.flow /\ new.oauth = r.oauth /\ new.tab = r.tab
          /\ new.live = r.live
      BY <1>a DEF Request
    <3>2. requests' = (requests \ {r}) \cup {new}
      BY <2>2
    <3> HIDE DEF new
    <3>3. Awaited(new, tab[new.tab], guard)
      BY <1>a, <3>1 DEF Awaited
    <3>4. \A u, q \in requests' : u.live /\ q.live /\ u.tab = q.tab => u = q
      BY <1>a, <3>1, <3>2
    <3>5. QED
      BY <1>a, <2>2, <3>2, <3>3, <3>4 DEF LiveInv, Awaited
  <2>3. QED
    BY <1>13, <2>1, <2>2 DEF Consume
<1>14. ASSUME NEW r \in requests, Exchange(r) PROVE LiveInv'
  BY <1>4, <1>14 DEF Exchange
<1>15. ASSUME NEW r \in requests, Fail(r) PROVE LiveInv'
  BY <1>4, <1>15 DEF Fail
<1>16. QED
  BY <1>1, <1>5, <1>6, <1>7, <1>8, <1>9, <1>10, <1>11, <1>12, <1>13, <1>14, <1>15
     DEF Next, Expire, Lapse, Delete, Switch

-----------------------------------------------------------------------------
(* Connections *)

\* A connection that was opened, and last renewed, as the flows F asked.
Holds(c, F) ==
  /\ c.by \in DOMAIN F
  /\ F[c.by].target = IF c.by = c.id THEN 0 ELSE c.id
  /\ F[c.by].oauth => c.space = F[c.by].space

LEMMA ConnsStep ==
  ASSUME ConnectInv, Next, Grows
  PROVE  ConnsInv'
<1>a. /\ conns \subseteq Conn /\ requests \subseteq Request /\ deleted \subseteq spent
      /\ \A c \in conns : c.id \in spent /\ c.id \notin deleted /\ Holds(c, flow)
      /\ \A c, d \in conns : c.id = d.id => c = d
      /\ \A r \in requests : Carries(r, flow)
  BY DEF ConnectInv, ConnsInv, RequestsInv, ConsentTyped, Holds
<1>b. \A c \in conns : Holds(c, flow')
  BY <1>a DEF Holds, Grows
<1>1. ASSUME conns' \subseteq conns, spent \subseteq spent', deleted' = deleted PROVE ConnsInv'
  BY <1>1, <1>a, <1>b DEF ConnsInv, Holds
<1>2. ASSUME NEW c \in conns, Lapse(c) PROVE ConnsInv'
  <2> DEFINE new == [c EXCEPT !.status = "expired"]
  <2>1. new.id = c.id /\ new.by = c.by /\ new.space = c.space
    BY <1>a DEF Conn
  <2>2. conns' = (conns \ {c}) \cup {new} /\ deleted' = deleted /\ spent' = spent
    BY <1>2 DEF Lapse
  <2> HIDE DEF new
  <2>3. Holds(new, flow')
    BY <1>b, <2>1 DEF Holds
  <2>4. QED
    BY <1>a, <1>b, <2>1, <2>2, <2>3 DEF ConnsInv, Holds
<1>3. ASSUME NEW c \in conns, Delete(c) PROVE ConnsInv'
  <2>1. conns' = conns \ {c} /\ deleted' = deleted \cup {c.id} /\ spent' = spent
    BY <1>3 DEF Delete
  <2>2. \A d \in conns : d.id = c.id => d = c
    BY <1>a
  <2>3. QED
    BY <1>a, <1>b, <2>1, <2>2 DEF ConnsInv, Holds
<1>4. ASSUME NEW r \in requests, Exchange(r) PROVE ConnsInv'
  <2>1. /\ r.at = "exchanging" /\ r.flow \notin spent /\ spent' = spent \cup {r.flow}
        /\ conns' = Store(r) /\ deleted' = deleted
    BY <1>4 DEF Exchange
  <2>2. /\ r.flow \in DOMAIN flow' /\ r.target = flow'[r.flow].target
        /\ flow'[r.flow].oauth => r.space = flow'[r.flow].space
    BY <1>a, <2>1 DEF Carries, Grows
  <2>3. CASE r.target = 0
    <3> DEFINE new == Opened(r)
    <3>1. new.id = r.flow /\ new.by = r.flow /\ new.space = r.space
      BY DEF Opened
    <3>2. conns' = conns \cup {new}
      BY <2>1, <2>3 DEF Store
    <3> HIDE DEF new
    <3>3. Holds(new, flow')
      BY <2>2, <2>3, <3>1 DEF Holds
    <3>4. QED
      BY <1>a, <1>b, <2>1, <3>1, <3>2, <3>3 DEF ConnsInv, Holds
  <2>4. CASE r.target # 0
    <3> DEFINE New(c) == IF c.id = r.target THEN Renewed(c, r) ELSE c
    <3>1. conns' = {New(c) : c \in conns}
      BY <2>1, <2>4 DEF Store
    <3>2. ASSUME NEW c \in conns PROVE New(c).id = c.id /\ Holds(New(c), flow')
      <4>1. CASE c.id = r.target
        <5>1. /\ Renewed(c, r).id = c.id /\ Renewed(c, r).by = r.flow
              /\ Renewed(c, r).space = c.space
          BY <1>a DEF Renewed, Conn
        <5>2. c.id # r.flow
          BY <1>a, <2>1
        <5>3. c.space = r.space
          BY <2>1, <2>4, <4>1 DEF ConnectInv, TargetsInv
        <5>4. QED
          BY <2>2, <4>1, <5>1, <5>2, <5>3 DEF Holds
      <4>2. CASE c.id # r.target
        BY <1>b, <4>2
      <4>3. QED
        BY <4>1, <4>2
    <3> HIDE DEF New
    <3>3. \A c \in conns' : c.id \in spent' /\ c.id \notin deleted' /\ Holds(c, flow')
      BY <1>a, <2>1, <3>1, <3>2
    <3>4. \A c, d \in conns' : c.id = d.id => c = d
      BY <1>a, <3>1, <3>2
    <3>5. QED
      BY <1>a, <2>1, <3>3, <3>4 DEF ConnsInv, Holds
  <2>5. QED
    BY <2>3, <2>4
<1>5. QED
  BY <1>1, <1>2, <1>3, <1>4
     DEF Next, Choose, Reauthorise, Consent, Mount, Paste, PasteAgain, Retry, Reload, Expire,
         Consume, Fail, Switch

\* A request r that loaded a connection of its workspace, among those in C; S is
\* what the bank has taken.
Loaded(r, C, S) ==
  r.at = "exchanging" /\ r.target # 0 =>
    r.target \in S /\ \A c \in C : c.id = r.target => c.space = r.space

LEMMA TargetsStep ==
  ASSUME ConnectInv, Next
  PROVE  TargetsInv'
<1>a. /\ conns \subseteq Conn /\ requests \subseteq Request
      /\ \A c \in conns : c.id \in spent
      /\ \A c, d \in conns : c.id = d.id => c = d
      /\ \A r \in requests : Loaded(r, conns, spent)
  BY DEF ConnectInv, ConnsInv, TargetsInv, ConsentTyped, Loaded
\* The connections keep what they are.
<1>1. ASSUME spent \subseteq spent',
             \A d \in conns' : \/ d.id \notin spent
                               \/ \E c \in conns : d.id = c.id /\ d.space = c.space
      PROVE \A r \in requests : Loaded(r, conns', spent')
  BY <1>1, <1>a DEF Loaded
<1>2. ASSUME \A d \in conns' : \/ d.id \notin spent
                               \/ \E c \in conns : d.id = c.id /\ d.space = c.space,
             spent \subseteq spent',
             \A q \in requests' : q \in requests \/ q.at = "sent" \/
                 \E r \in requests : q.at = r.at /\ q.target = r.target /\ q.space = r.space
      PROVE TargetsInv'
  <2>1. \A r \in requests : Loaded(r, conns', spent')
    BY <1>1, <1>2
  <2>2. QED
    BY <1>2, <2>1 DEF TargetsInv, Loaded
<1>3. ASSUME conns' = conns, spent \subseteq spent',
             \A q \in requests' : q \in requests \/ q.at = "sent" \/
                 \E r \in requests : q.at = r.at /\ q.target = r.target /\ q.space = r.space
      PROVE TargetsInv'
  BY <1>2, <1>3
<1>4. ASSUME conns' = conns, spent' = spent, requests' = requests PROVE TargetsInv'
  BY <1>3, <1>4
<1>5. ASSUME NEW t, NEW f, NEW oauth, NEW target, Post(t, f, oauth, target),
             conns' = conns, spent' = spent
      PROVE TargetsInv'
  BY <1>3, <1>5 DEF Post
<1>6. ASSUME NEW t \in Tabs, Mount(t) PROVE TargetsInv'
  BY <1>4, <1>5, <1>6 DEF Mount
<1>7. ASSUME NEW t \in Tabs, NEW target, Paste(t, target) PROVE TargetsInv'
  BY <1>5, <1>7 DEF Paste
<1>8. ASSUME NEW t \in Tabs, PasteAgain(t) PROVE TargetsInv'
  BY <1>5, <1>8 DEF PasteAgain
<1>9. ASSUME NEW t \in Tabs, Reload(t) PROVE TargetsInv'
  <2>1. \A r \in requests : /\ [r EXCEPT !.live = FALSE].at = r.at
                            /\ [r EXCEPT !.live = FALSE].target = r.target
                            /\ [r EXCEPT !.live = FALSE].space = r.space
    BY <1>a DEF Request
  <2>2. \A q \in requests' : q \in requests \/
          \E r \in requests : q.at = r.at /\ q.target = r.target /\ q.space = r.space
    <3> SUFFICES ASSUME NEW q \in requests'
                 PROVE  q \in requests \/
                   \E r \in requests : q.at = r.at /\ q.target = r.target /\ q.space = r.space
      OBVIOUS
    <3>1. PICK r \in requests : q = IF r.tab = t THEN [r EXCEPT !.live = FALSE] ELSE r
      BY <1>9 DEF Reload
    <3>2. q.at = r.at /\ q.target = r.target /\ q.space = r.space
      BY <2>1, <3>1
    <3>3. QED
      BY <3>2
  <2>3. QED
    BY <1>3, <1>9, <2>2 DEF Reload
<1>10. ASSUME NEW r \in requests, Consume(r) PROVE TargetsInv'
  <2> DEFINE target == TargetOf(r)
             found == {c \in conns : c.id = target /\ c.space = r.space}
             loaded == IF target = 0 THEN "none" ELSE (CHOOSE c \in found : TRUE).status
  <2>1. conns' = conns /\ spent' = spent
    BY <1>10 DEF Consume
  <2>2. CASE Hear(r, "error")
    BY <1>3, <2>1, <2>2 DEF Hear
  <2>3. CASE /\ target # 0 => found # {}
             /\ requests' = (requests \ {r}) \cup
                   {[r EXCEPT !.at = "exchanging", !.target = target, !.loaded = loaded]}
    <3>1. target # 0 => target \in spent /\ \A c \in conns : c.id = target => c.space = r.space
      BY <1>a, <2>3
    <3> HIDE DEF target, loaded
    <3> DEFINE new == [r EXCEPT !.at = "exchanging", !.target = target, !.loaded = loaded]
    <3>2. new.target = target /\ new.space = r.space
      BY <1>a DEF Request
    <3>3. requests' = (requests \ {r}) \cup {new}
      BY <2>3
    <3> HIDE DEF new
    <3>4. Loaded(new, conns, spent)
      BY <3>1, <3>2 DEF Loaded
    <3>5. QED
      BY <1>a, <2>1, <3>3, <3>4 DEF TargetsInv, Loaded
  <2>4. QED
    BY <1>10, <2>2, <2>3 DEF Consume
<1>11. ASSUME NEW r \in requests, Exchange(r) PROVE TargetsInv'
  <2>1. /\ r.flow \notin spent /\ spent' = spent \cup {r.flow} /\ conns' = Store(r)
        /\ requests' \subseteq requests
    BY <1>11 DEF Exchange, Hear
  <2>2. Opened(r).id = r.flow
    BY DEF Opened
  <2>3. \A c \in conns : Renewed(c, r).id = c.id /\ Renewed(c, r).space = c.space
    BY <1>a DEF Renewed, Conn
  <2>4. \A d \in conns' : \/ d.id \notin spent
                          \/ \E c \in conns : d.id = c.id /\ d.space = c.space
    BY <2>1, <2>2, <2>3 DEF Store
  <2>5. QED
    BY <1>2, <2>1, <2>4
<1>12. ASSUME NEW r \in requests, Fail(r) PROVE TargetsInv'
  BY <1>3, <1>12 DEF Fail, Hear
<1>13. ASSUME NEW c \in conns, Lapse(c) PROVE TargetsInv'
  <2>1. [c EXCEPT !.status = "expired"].id = c.id /\ [c EXCEPT !.status = "expired"].space = c.space
    BY <1>a DEF Conn
  <2>2. \A d \in conns' : \E b \in conns : d.id = b.id /\ d.space = b.space
    BY <1>13, <2>1 DEF Lapse
  <2>3. QED
    BY <1>2, <1>13, <2>2 DEF Lapse
<1>14. ASSUME NEW c \in conns, Delete(c) PROVE TargetsInv'
  BY <1>2, <1>14 DEF Delete
<1>15. QED
  BY <1>4, <1>6, <1>7, <1>8, <1>9, <1>10, <1>11, <1>12, <1>13, <1>14
     DEF Next, Choose, Reauthorise, Consent, Retry, Expire, Switch

LEMMA ConnectStep == ConnectingAssumption /\ ConnectInv /\ [Next]_vars => ConnectInv'
<1> SUFFICES ASSUME ConnectingAssumption, ConnectInv, [Next]_vars PROVE ConnectInv'
  OBVIOUS
<1>1. ConsentTyped' /\ Grows
  BY ConsentStepTyped
<1>2. CASE Next
  BY <1>1, <1>2, StatesStep, RequestsStep, TabsStep, LiveStep, ConnsStep, TargetsStep
     DEF ConnectInv
<1>3. CASE UNCHANGED vars
  BY <1>1, <1>3 DEF vars, ConnectInv, StatesInv, RequestsInv, TabsInv, LiveInv, ConnsInv,
     TargetsInv, Stands, Carries
<1>4. QED
  BY <1>2, <1>3

-----------------------------------------------------------------------------
(* The theorem *)

-----------------------------------------------------------------------------
(* PART TWO: RECEIPTS *)
(* Types *)

Receipt == [key : R!Keys, tx : Txs, name : {"own", "given"}]
ReceiptJob == [kind : R!Kinds, at : {"checked", "stored", "removed"}, txs : SUBSET Txs,
               keys : SUBSET R!Keys]

\* The part of TypeOK the proofs need.
ReceiptTyped ==
  /\ txs \subseteq Txs /\ recs \subseteq Receipt /\ jobs \subseteq ReceiptJob
  /\ edits \in 0 .. MaxReceiptEdits

\* A request that opens is typed, and its key is new.
LEMMA NextKey ==
  ASSUME R!AttachmentsAssumption, ReceiptTyped, R!Bounded
  PROVE  /\ edits + 1 \in R!Keys /\ edits' = edits + 1 /\ edits' \in 0 .. MaxReceiptEdits
         /\ edits \in Nat
<1>1. MaxReceiptEdits \in Nat
  BY DEF R!AttachmentsAssumption
<1>2. QED
  BY <1>1 DEF ReceiptTyped, R!Bounded, R!Keys

LEMMA ReceiptInitTyped == R!AttachmentsAssumption /\ R!Init => ReceiptTyped
<1> SUFFICES ASSUME R!AttachmentsAssumption, R!Init PROVE ReceiptTyped
  OBVIOUS
<1>1. MaxReceiptEdits \in Nat
  BY DEF R!AttachmentsAssumption
<1>2. QED
  BY <1>1 DEF R!Init, ReceiptTyped

LEMMA ReceiptStepTyped ==
  R!AttachmentsAssumption /\ ReceiptTyped /\ [R!Next]_(R!vars) => ReceiptTyped'
<1> SUFFICES ASSUME R!AttachmentsAssumption, ReceiptTyped, [R!Next]_(R!vars) PROVE ReceiptTyped'
  OBVIOUS
<1>0. /\ txs \subseteq Txs /\ recs \subseteq Receipt /\ jobs \subseteq ReceiptJob
      /\ edits \in 0 .. MaxReceiptEdits
  BY DEF ReceiptTyped
<1>1. ASSUME NEW t \in Txs, R!Upload(t) PROVE ReceiptTyped'
  <2>1. [kind |-> "upload", at |-> "checked", txs |-> {t}, keys |-> {edits + 1}] \in ReceiptJob
    BY <1>1, NextKey DEF R!Upload, ReceiptJob, R!Kinds
  <2>2. QED
    BY <1>0, <1>1, <2>1, NextKey DEF R!Upload, R!Open, ReceiptTyped
<1>2. ASSUME NEW S \in SUBSET Txs, R!Purge(S) PROVE ReceiptTyped'
  <2>1. R!KeysOf({r \in recs : r.tx \in S}) \subseteq R!Keys
    BY <1>0 DEF R!KeysOf, Receipt
  <2>2. [kind |-> "purge", at |-> "removed", txs |-> S,
         keys |-> R!KeysOf({r \in recs : r.tx \in S})] \in ReceiptJob
    BY <2>1 DEF ReceiptJob, R!Kinds
  <2>3. QED
    BY <1>0, <1>2, <2>2, NextKey DEF R!Purge, R!Open, ReceiptTyped
<1>3. ASSUME NEW t \in Txs, R!DeleteTransaction(t) PROVE ReceiptTyped'
  <2>1. (IF legs THEN txs ELSE {t}) \in SUBSET Txs
    BY <1>0
  <2>2. QED
    BY <1>2, <1>3, <2>1 DEF R!DeleteTransaction
<1>4. ASSUME NEW S \in SUBSET Txs, R!DeleteOwner(S) PROVE ReceiptTyped'
  BY <1>2, <1>4 DEF R!DeleteOwner
<1>5. ASSUME NEW j \in jobs, R!Store(j) PROVE ReceiptTyped'
  <2>1. [j EXCEPT !.at = "stored"] \in ReceiptJob
    BY <1>0 DEF ReceiptJob
  <2>2. QED
    BY <1>0, <1>5, <2>1 DEF R!Store, ReceiptTyped
<1>6. ASSUME NEW j \in jobs, R!Record(j) PROVE ReceiptTyped'
  <2>1. \A k \in j.keys, t \in j.txs \cap txs : [key |-> k, tx |-> t, name |-> "own"] \in Receipt
    BY <1>0 DEF ReceiptJob, Receipt
  <2>2. recs' \subseteq Receipt
    BY <1>0, <1>6, <2>1 DEF R!Record
  <2>3. QED
    BY <1>0, <1>6, <2>2 DEF R!Record, R!Close, ReceiptTyped
<1>7. ASSUME NEW r \in recs, R!RemoveFile(r) PROVE ReceiptTyped'
  <2>1. [kind |-> "remove", at |-> "removed", txs |-> {}, keys |-> {r.key}] \in ReceiptJob
    BY <1>0 DEF ReceiptJob, Receipt, R!Kinds
  <2>2. QED
    BY <1>0, <1>7, <2>1, NextKey DEF R!RemoveFile, R!Open, ReceiptTyped
<1>8. ASSUME NEW j \in jobs, R!RemoveRecord(j) PROVE ReceiptTyped'
  BY <1>0, <1>8 DEF R!RemoveRecord, R!Close, ReceiptTyped
<1>9. ASSUME NEW j \in jobs, R!PurgeRecords(j) PROVE ReceiptTyped'
  BY <1>0, <1>9 DEF R!PurgeRecords, R!Close, ReceiptTyped
<1>10. ASSUME NEW s \in Txs, NEW u \in Txs, R!Reconcile(s, u) PROVE ReceiptTyped'
  <2>1. \A r \in recs : (IF r.tx = u THEN [r EXCEPT !.tx = s] ELSE r) \in Receipt
    BY <1>0 DEF Receipt
  <2>2. recs' \subseteq Receipt
    BY <1>0, <1>10, <2>1 DEF R!Reconcile
  <2>3. QED
    BY <1>0, <1>10, <2>2, NextKey DEF R!Reconcile, ReceiptTyped
<1>11. ASSUME NEW r \in recs, R!Rename(r) PROVE ReceiptTyped'
  <2>1. [r EXCEPT !.name = "given"] \in Receipt
    BY <1>0 DEF Receipt
  <2>2. QED
    BY <1>0, <1>11, <2>1, NextKey DEF R!Rename, ReceiptTyped
<1>12. ASSUME NEW j \in jobs, R!Crash(j) PROVE ReceiptTyped'
  BY <1>0, <1>12 DEF R!Crash, ReceiptTyped
<1>13. ASSUME NEW r \in recs, R!Click(r) PROVE ReceiptTyped'
  BY <1>0, <1>13, NextKey DEF R!Click, ReceiptTyped
<1>14. ASSUME NEW k \in preview.asked, R!Arrive(k) PROVE ReceiptTyped'
  BY <1>0, <1>14 DEF R!Arrive, ReceiptTyped
<1>15. ASSUME NEW S \in SUBSET Txs, R!Cascade(S) PROVE ReceiptTyped'
  BY <1>0, <1>15, NextKey DEF R!Cascade, ReceiptTyped
<1>16. CASE UNCHANGED R!vars
  BY <1>0, <1>16 DEF R!vars, ReceiptTyped
<1>17. QED
  BY <1>1, <1>3, <1>4, <1>5, <1>6, <1>7, <1>8, <1>9, <1>10, <1>11, <1>12, <1>13, <1>14,
     <1>15, <1>16 DEF R!Next

-----------------------------------------------------------------------------
(* A receipt that is listed has its file *)

\* Keys in use were given out before.
KeysGivenOut ==
  /\ \A r \in recs : r.key <= edits
  /\ \A j \in jobs : \A k \in j.keys : k <= edits

\* An upload's key is its own until its row is there, and its file is.
OwnKeys ==
  \A j \in jobs : j.kind = "upload" =>
    /\ \A r \in recs : r.key \notin j.keys
    /\ \A i \in jobs : i # j => i.keys \cap j.keys = {}
    /\ j.at = "stored" => j.keys \subseteq files

\* What a deletion has taken the files of goes with it, unless two
\* transactions were made one in between.
PurgeOwns ==
  \A j \in jobs : \A r \in recs :
    j.kind = "purge" /\ r.key \in j.keys => r.tx \in j.txs \/ "purge" \in cut

\* Only an upload is at its beginning, and it is one file of one transaction.
Beginnings == \A j \in jobs : j.at = "checked" => j.kind = "upload"

OneFile == \A j \in jobs : j.kind = "upload" => \A t, u \in j.txs : t = u

\* A key names the receipt of one transaction.
OneOwner == \A r, o \in recs : r.key = o.key => r.tx = o.tx

FilesInv ==
  /\ ReceiptTyped /\ KeysGivenOut /\ OwnKeys /\ PurgeOwns /\ Beginnings /\ OneFile /\ OneOwner
  /\ R!RecordHasFile

LEMMA FilesInit == R!AttachmentsAssumption /\ R!Init => FilesInv
  BY ReceiptInitTyped DEF R!Init, FilesInv, KeysGivenOut, OwnKeys, PurgeOwns, Beginnings, OneFile,
     OneOwner, R!RecordHasFile

LEMMA FilesStep == R!AttachmentsAssumption /\ FilesInv /\ [R!Next]_(R!vars) => FilesInv'
<1> SUFFICES ASSUME R!AttachmentsAssumption, FilesInv, [R!Next]_(R!vars) PROVE FilesInv'
  OBVIOUS
<1>0. ReceiptTyped /\ ReceiptTyped'
  BY ReceiptStepTyped DEF FilesInv
<1>u. /\ recs \subseteq Receipt /\ jobs \subseteq ReceiptJob /\ edits \in Nat
      /\ \A r \in recs : r.key \in Nat
      /\ \A j \in jobs : \A k \in j.keys : k \in Nat
  <2>1. MaxReceiptEdits \in Nat
    BY DEF R!AttachmentsAssumption
  <2>2. QED
    BY <1>0, <2>1 DEF ReceiptTyped, Receipt, ReceiptJob, R!Keys
<1>b. /\ KeysGivenOut /\ OwnKeys /\ PurgeOwns /\ Beginnings /\ OneFile /\ OneOwner
      /\ R!RecordHasFile
  BY DEF FilesInv
<1> DEFINE FilesKept == /\ KeysGivenOut' /\ OwnKeys' /\ PurgeOwns' /\ Beginnings' /\ OneFile'
                       /\ OneOwner'
                        /\ R!RecordHasFile'
<1> SUFFICES FilesKept
  BY <1>0 DEF FilesInv
<1>1. ASSUME NEW t \in Txs, R!Upload(t) PROVE FilesKept
  <2> DEFINE new == [kind |-> "upload", at |-> "checked", txs |-> {t}, keys |-> {edits + 1}]
  <2>1. /\ jobs' = jobs \cup {new} /\ edits' = edits + 1
        /\ recs' = recs /\ files' = files /\ cut' = cut
    BY <1>1 DEF R!Upload, R!Open, R!Bounded
  <2>2. new.keys = {edits + 1} /\ new.kind = "upload" /\ new.at = "checked" /\ new.txs = {t}
    OBVIOUS
  <2> HIDE DEF new
  <2>3. KeysGivenOut'
    BY <1>u, <1>b, <2>1, <2>2 DEF KeysGivenOut
  <2>4. edits + 1 \notin {r.key : r \in recs} /\ \A j \in jobs : edits + 1 \notin j.keys
    BY <1>u, <1>b DEF KeysGivenOut
  <2>5. OwnKeys'
    BY <1>b, <2>1, <2>2, <2>4 DEF OwnKeys
  <2>6. PurgeOwns' /\ Beginnings' /\ OneFile' /\ OneOwner' /\ R!RecordHasFile'
    BY <1>b, <2>1, <2>2 DEF PurgeOwns, Beginnings, OneFile, OneOwner, R!RecordHasFile
  <2>7. QED
    BY <2>3, <2>5, <2>6
<1>2. ASSUME NEW S \in SUBSET Txs, R!Purge(S) PROVE FilesKept
  <2> DEFINE doomed == R!KeysOf({r \in recs : r.tx \in S})
             new == [kind |-> "purge", at |-> "removed", txs |-> S, keys |-> doomed]
  <2>1. /\ jobs' = jobs \cup {new} /\ edits' = edits + 1
        /\ recs' = recs /\ files \ doomed \subseteq files' /\ cut' = cut
    BY <1>2 DEF R!Purge, R!Open, R!Bounded
  <2>2. new.keys = doomed /\ new.kind = "purge" /\ new.at = "removed" /\ new.txs = S
    OBVIOUS
  <2>3. \A k \in doomed : \E r \in recs : k = r.key /\ r.tx \in S
    BY DEF R!KeysOf
  <2> HIDE DEF new, doomed
  <2>4. KeysGivenOut'
    BY <1>u, <1>b, <2>1, <2>2, <2>3 DEF KeysGivenOut
  <2>5. OwnKeys'
    BY <1>b, <2>1, <2>2, <2>3 DEF OwnKeys
  <2>6. Beginnings' /\ OneFile' /\ OneOwner'
    BY <1>b, <2>1, <2>2 DEF Beginnings, OneFile, OneOwner
  <2>7. R!RecordHasFile'
    BY <1>b, <2>1, <2>2 DEF R!RecordHasFile
  <2>8. PurgeOwns'
    BY <1>b, <2>1, <2>2, <2>3 DEF PurgeOwns, OneOwner
  <2>9. QED
    BY <2>4, <2>5, <2>6, <2>7, <2>8
<1>3. ASSUME NEW t \in Txs, R!DeleteTransaction(t) PROVE FilesKept
  <2>1. (IF legs THEN txs ELSE {t}) \in SUBSET Txs
    BY <1>0 DEF ReceiptTyped
  <2>2. QED
    BY <1>2, <1>3, <2>1 DEF R!DeleteTransaction
<1>4. ASSUME NEW S \in SUBSET Txs, R!DeleteOwner(S) PROVE FilesKept
  BY <1>2, <1>4 DEF R!DeleteOwner
<1>5. ASSUME NEW j \in jobs, R!Store(j) PROVE FilesKept
  <2> DEFINE new == [j EXCEPT !.at = "stored"]
  <2>1. /\ jobs' = (jobs \ {j}) \cup {new} /\ files' = files \cup j.keys
        /\ recs' = recs /\ cut' = cut /\ edits' = edits /\ j.kind = "upload"
    BY <1>5 DEF R!Store
  <2>2. new.keys = j.keys /\ new.kind = "upload" /\ new.at = "stored" /\ new.txs = j.txs
    BY <1>u, <2>1 DEF ReceiptJob
  <2> HIDE DEF new
  <2>3. KeysGivenOut' /\ OwnKeys'
    BY <1>b, <2>1, <2>2 DEF KeysGivenOut, OwnKeys
  <2>4. PurgeOwns' /\ Beginnings' /\ OneFile' /\ OneOwner'
    BY <1>b, <2>1, <2>2 DEF PurgeOwns, Beginnings, OneFile, OneOwner
  <2>5. R!RecordHasFile'
    BY <1>b, <2>1, <2>2 DEF R!RecordHasFile
  <2>6. QED
    BY <2>3, <2>4, <2>5
<1>6. ASSUME NEW j \in jobs, R!Record(j) PROVE FilesKept
  <2> DEFINE new == {[key |-> k, tx |-> t, name |-> "own"] : k \in j.keys, t \in j.txs \cap txs}
  <2>1. /\ jobs' = jobs \ {j} /\ files' = files
        /\ recs' = recs \cup new /\ cut' = cut /\ edits' = edits
        /\ j.kind = "upload" /\ j.at = "stored"
    BY <1>6 DEF R!Record, R!Close
  <2>2. \A r \in new : r.key \in j.keys /\ r.tx \in j.txs
    OBVIOUS
  <2> HIDE DEF new
  <2>3. KeysGivenOut' /\ OwnKeys'
    BY <1>b, <2>1, <2>2 DEF KeysGivenOut, OwnKeys
  <2>4. PurgeOwns'
    BY <1>b, <2>1, <2>2 DEF PurgeOwns, OwnKeys
  <2>5. Beginnings' /\ OneFile'
    BY <1>b, <2>1 DEF Beginnings, OneFile
  <2>6. OneOwner'
    BY <1>b, <2>1, <2>2 DEF OneOwner, OneFile, OwnKeys
  <2>7. R!RecordHasFile'
    BY <1>b, <2>1, <2>2 DEF R!RecordHasFile, OwnKeys
  <2>8. QED
    BY <2>3, <2>4, <2>5, <2>6, <2>7
<1>7. ASSUME NEW r \in recs, R!RemoveFile(r) PROVE FilesKept
  <2> DEFINE new == [kind |-> "remove", at |-> "removed", txs |-> {}, keys |-> {r.key}]
  <2>1. /\ jobs' = jobs \cup {new} /\ edits' = edits + 1
        /\ recs' = recs /\ files' = files \ {r.key} /\ cut' = cut
    BY <1>7 DEF R!RemoveFile, R!Open, R!Bounded
  <2>2. new.keys = {r.key} /\ new.kind = "remove" /\ new.at = "removed"
    OBVIOUS
  <2> HIDE DEF new
  <2>3. KeysGivenOut'
    BY <1>u, <1>b, <2>1, <2>2 DEF KeysGivenOut
  <2>4. OwnKeys'
    BY <1>b, <2>1, <2>2 DEF OwnKeys
  <2>5. PurgeOwns' /\ Beginnings' /\ OneFile' /\ OneOwner'
    BY <1>b, <2>1, <2>2 DEF PurgeOwns, Beginnings, OneFile, OneOwner
  <2>6. R!RecordHasFile'
    BY <1>b, <2>1, <2>2 DEF R!RecordHasFile
  <2>7. QED
    BY <2>3, <2>4, <2>5, <2>6
<1>8. ASSUME NEW j \in jobs, R!RemoveRecord(j) PROVE FilesKept
  <2>1. /\ jobs' = jobs \ {j} /\ recs' = {r \in recs : r.key \notin j.keys}
        /\ files' = files /\ cut' = cut /\ edits' = edits
    BY <1>8 DEF R!RemoveRecord, R!Close
  <2>2. KeysGivenOut' /\ OwnKeys' /\ PurgeOwns'
    BY <1>b, <2>1 DEF KeysGivenOut, OwnKeys, PurgeOwns
  <2>3. Beginnings' /\ OneFile' /\ OneOwner'
    BY <1>b, <2>1 DEF Beginnings, OneFile, OneOwner
  <2>4. R!RecordHasFile'
    BY <1>b, <2>1 DEF R!RecordHasFile
  <2>5. QED
    BY <2>2, <2>3, <2>4
<1>9. ASSUME NEW j \in jobs, R!PurgeRecords(j) PROVE FilesKept
  <2>1. /\ jobs' = jobs \ {j} /\ recs' = {r \in recs : r.tx \notin j.txs}
        /\ files' = files /\ cut' = cut /\ edits' = edits /\ j.kind = "purge"
    BY <1>9 DEF R!PurgeRecords, R!Close
  <2>2. KeysGivenOut' /\ OwnKeys' /\ PurgeOwns'
    BY <1>b, <2>1 DEF KeysGivenOut, OwnKeys, PurgeOwns
  <2>3. Beginnings' /\ OneFile' /\ OneOwner'
    BY <1>b, <2>1 DEF Beginnings, OneFile, OneOwner
  <2>4. R!RecordHasFile'
    BY <1>b, <2>1 DEF R!RecordHasFile, PurgeOwns
  <2>5. QED
    BY <2>2, <2>3, <2>4
<1>10. ASSUME NEW s \in Txs, NEW u \in Txs, R!Reconcile(s, u) PROVE FilesKept
  <2> DEFINE Moved(r) == IF r.tx = u THEN [r EXCEPT !.tx = s] ELSE r
  <2>1. /\ recs' = {Moved(r) : r \in recs} /\ jobs' = jobs /\ files' = files
        /\ edits' = edits + 1 /\ cut \subseteq cut'
        /\ (\E j \in jobs : j.kind = "purge") => "purge" \in cut'
    BY <1>10 DEF R!Reconcile, R!Bounded
  <2>2. \A r \in recs : /\ Moved(r).key = r.key
                        /\ Moved(r).tx = IF r.tx = u THEN s ELSE r.tx
    BY <1>u DEF Receipt
  <2> HIDE DEF Moved
  <2>3. \A n \in recs' : \E r \in recs : n.key = r.key /\ n.tx = IF r.tx = u THEN s ELSE r.tx
    BY <2>1, <2>2
  <2>4. KeysGivenOut'
    BY <1>u, <1>b, <2>1, <2>3 DEF KeysGivenOut
  <2>5. OwnKeys' /\ PurgeOwns' /\ Beginnings' /\ OneFile'
    BY <1>b, <2>1, <2>3 DEF OwnKeys, PurgeOwns, Beginnings, OneFile
  <2>6. OneOwner'
    BY <1>b, <2>3 DEF OneOwner
  <2>7. R!RecordHasFile'
    BY <1>b, <2>1, <2>3 DEF R!RecordHasFile
  <2>8. QED
    BY <2>4, <2>5, <2>6, <2>7
<1>11. ASSUME NEW r \in recs, R!Rename(r) PROVE FilesKept
  <2> DEFINE new == [r EXCEPT !.name = "given"]
  <2>1. /\ recs' = (recs \ {r}) \cup {new} /\ jobs' = jobs /\ files' = files
        /\ edits' = edits + 1 /\ cut' = cut
    BY <1>11 DEF R!Rename, R!Bounded
  <2>2. new.key = r.key /\ new.tx = r.tx
    BY <1>u DEF Receipt
  <2> HIDE DEF new
  <2>3. \A n \in recs' : \E o \in recs : n.key = o.key /\ n.tx = o.tx
    BY <2>1, <2>2
  <2>4. KeysGivenOut'
    BY <1>u, <1>b, <2>1, <2>3 DEF KeysGivenOut
  <2>5. OwnKeys' /\ PurgeOwns' /\ Beginnings' /\ OneFile'
    BY <1>b, <2>1, <2>3 DEF OwnKeys, PurgeOwns, Beginnings, OneFile
  <2>6. OneOwner' /\ R!RecordHasFile'
    BY <1>b, <2>1, <2>3 DEF OneOwner, R!RecordHasFile
  <2>7. QED
    BY <2>4, <2>5, <2>6
<1>12. ASSUME NEW j \in jobs, R!Crash(j) PROVE FilesKept
  <2>1. /\ jobs' = jobs \ {j} /\ recs' = recs /\ files' = files /\ edits' = edits
        /\ cut \subseteq cut' /\ (j.at # "checked" => j.kind \in cut')
    BY <1>12 DEF R!Crash
  <2>2. j.kind # "upload" => j.kind \in {"remove", "purge"} \cap cut'
    BY <1>u, <1>b, <2>1 DEF ReceiptJob, R!Kinds, Beginnings
  <2>3. KeysGivenOut' /\ OwnKeys' /\ PurgeOwns'
    BY <1>b, <2>1 DEF KeysGivenOut, OwnKeys, PurgeOwns
  <2>4. Beginnings' /\ OneFile' /\ OneOwner'
    BY <1>b, <2>1 DEF Beginnings, OneFile, OneOwner
  <2>5. R!RecordHasFile'
    BY <1>b, <2>1, <2>2 DEF R!RecordHasFile
  <2>6. QED
    BY <2>3, <2>4, <2>5
<1>13. ASSUME recs' = recs, jobs' = jobs, files' = files, cut' = cut, edits' \in {edits, edits + 1}
       PROVE FilesKept
  <2>1. KeysGivenOut'
    BY <1>u, <1>b, <1>13 DEF KeysGivenOut
  <2>2. QED
    BY <1>b, <1>13, <2>1 DEF OwnKeys, PurgeOwns, Beginnings, OneFile, OneOwner, R!RecordHasFile
<1>14. ASSUME NEW r \in recs, R!Click(r) PROVE FilesKept
  BY <1>13, <1>14 DEF R!Click, R!Bounded
<1>15. ASSUME NEW k \in preview.asked, R!Arrive(k) PROVE FilesKept
  BY <1>13, <1>15 DEF R!Arrive
<1>16. ASSUME NEW S \in SUBSET Txs, R!Cascade(S) PROVE FilesKept
  <2>1. /\ jobs' = jobs /\ recs' \subseteq recs /\ files' = files /\ cut' = cut
        /\ edits' = edits + 1
    BY <1>16 DEF R!Cascade, R!Bounded
  <2>2. KeysGivenOut'
    BY <1>u, <1>b, <2>1 DEF KeysGivenOut
  <2>3. OwnKeys' /\ PurgeOwns' /\ Beginnings' /\ OneFile' /\ OneOwner'
    BY <1>b, <2>1 DEF OwnKeys, PurgeOwns, Beginnings, OneFile, OneOwner
  <2>4. R!RecordHasFile'
    BY <1>b, <2>1 DEF R!RecordHasFile
  <2>5. QED
    BY <2>2, <2>3, <2>4
<1>17. CASE UNCHANGED R!vars
  BY <1>13, <1>17 DEF R!vars
<1>18. QED
  BY <1>1, <1>3, <1>4, <1>5, <1>6, <1>7, <1>8, <1>9, <1>10, <1>11, <1>12, <1>14, <1>15,
     <1>16, <1>17 DEF R!Next

-----------------------------------------------------------------------------
(* Rows, files and requests together *)

\* What TypeOK says beyond Typed; the rows are finitely many.
Shaped ==
  /\ legs \in BOOLEAN /\ files \subseteq R!Keys /\ cut \subseteq R!Kinds
  /\ overtaken \in BOOLEAN /\ reconciled \in BOOLEAN
  /\ preview \in [shown : {0} \cup R!Keys, last : {0} \cup R!Keys, asked : SUBSET R!Keys]
  /\ IsFiniteSet(recs) /\ \A r \in recs : r.tx \in txs

Unique == \A r, o \in recs : r.key = o.key => r = o

\* An upload is one file for one transaction.
Single ==
  \A j \in jobs : j.kind = "upload" => \E t \in Txs, k \in R!Keys : j.txs = {t} /\ j.keys = {k}

\* Unless something was committed meanwhile, a request finds what it saw.
Standing ==
  ~overtaken => \A j \in jobs :
                  /\ j.kind = "upload" => j.txs \subseteq txs
                  /\ j.kind = "purge" => j.keys = R!KeysOf({r \in recs : r.tx \in j.txs})

\* A file that a deletion passed over is there, with a key given out before, and
\* no upload has that key.
Remains ==
  /\ leftover \subseteq files /\ \A k \in leftover : k <= edits
  /\ \A j \in jobs : j.kind = "upload" => j.keys \cap leftover = {}

\* The other files are those of the rows, but for the requests that are open.
ComesIn(k) == \E j \in jobs : j.kind = "upload" /\ j.at = "stored" /\ k \in j.keys
GoesOut(k) == \E j \in jobs : j.kind # "upload" /\ k \in j.keys
Balanced ==
  ~overtaken /\ cut = {} =>
    \A k \in R!Keys :
      k \in files \ leftover <=> ComesIn(k) \/ (k \in R!KeysOf(recs) /\ ~GoesOut(k))

\* An upload that is open has room for its row.
Counted ==
  \/ overtaken \/ reconciled
  \/ /\ \A t \in Txs : Cardinality(R!Of(t)) <= MaxPerTx
     /\ \A j \in jobs : j.kind = "upload" => \A t \in j.txs : Cardinality(R!Of(t)) < MaxPerTx

\* What was clicked last is shown, on its way, or gone; no upload brings it back.
Clicked ==
  /\ preview.last <= edits
  /\ \A j \in jobs : j.kind = "upload" => preview.last \notin j.keys
  /\ \/ preview.shown \in {0, preview.last}
     \/ preview.last \in preview.asked \/ preview.last \notin files

ReceiptInv ==
  /\ FilesInv /\ Shaped /\ Unique /\ Single /\ Standing /\ Remains /\ Balanced /\ Counted
  /\ Clicked

\* What can happen, deletions of transactions together.
LEMMA ReceiptMoves ==
  ASSUME R!Next, txs \subseteq Txs
  PROVE  \/ \E t \in Txs : R!Upload(t)
         \/ \E S \in SUBSET Txs : S \subseteq txs /\ R!Purge(S)
         \/ \E S \in SUBSET Txs : R!Cascade(S)
         \/ \E j \in jobs : R!Store(j)
         \/ \E j \in jobs : R!Record(j)
         \/ \E j \in jobs : R!RemoveRecord(j)
         \/ \E j \in jobs : R!PurgeRecords(j)
         \/ \E j \in jobs : R!Crash(j)
         \/ \E r \in recs : R!RemoveFile(r)
         \/ \E r \in recs : R!Rename(r)
         \/ \E r \in recs : R!Click(r)
         \/ \E s, u \in Txs : R!Reconcile(s, u)
         \/ \E k \in preview.asked : R!Arrive(k)
<1>1. ASSUME NEW t \in Txs, R!DeleteTransaction(t)
      PROVE  \E S \in SUBSET Txs : S \subseteq txs /\ R!Purge(S)
  <2>1. (IF legs THEN txs ELSE {t}) \subseteq txs
    BY <1>1 DEF R!DeleteTransaction
  <2> QED
    BY <1>1, <2>1 DEF R!DeleteTransaction
<1>2. ASSUME NEW S \in SUBSET Txs, R!DeleteOwner(S) PROVE S \subseteq txs /\ R!Purge(S)
  BY <1>2 DEF R!DeleteOwner
<1> QED
  BY <1>1, <1>2 DEF R!Next

\* The page asks and shows; rows, files and requests stay.
LEMMA ReceiptPage ==
  ASSUME (\E r \in recs : R!Click(r)) \/ (\E k \in preview.asked : R!Arrive(k))
  PROVE  /\ txs' = txs /\ legs' = legs /\ recs' = recs /\ files' = files /\ leftover' = leftover
         /\ jobs' = jobs /\ cut' = cut /\ overtaken' = overtaken /\ reconciled' = reconciled
         /\ edits' = edits + 1 \/ edits' = edits
<1>1. ASSUME NEW r \in recs, R!Click(r)
      PROVE  /\ UNCHANGED <<txs, legs, recs, files, leftover, jobs, cut, overtaken, reconciled>>
             /\ edits' = edits + 1
  BY <1>1, Zenon DEF R!Click, R!Bounded
<1>2. ASSUME NEW k \in preview.asked, R!Arrive(k)
      PROVE  UNCHANGED <<txs, legs, recs, files, leftover, jobs, cut, overtaken, reconciled, edits>>
  BY <1>2, Zenon DEF R!Arrive
<1> QED
  BY <1>1, <1>2

\* What every step leaves alone, and which steps change what.
LEMMA ReceiptFrames ==
  ASSUME R!Next, txs \subseteq Txs
  PROVE  /\ legs' = legs
         /\ \/ reconciled' = reconciled
            \/ reconciled' = TRUE
         /\ \/ overtaken' = overtaken
            \/ overtaken' = (overtaken \/ jobs' # {}) /\ \E j \in jobs : jobs' = jobs \ {j}
            \/ overtaken' = (overtaken \/ jobs # {}) /\ jobs' = jobs
         /\ \/ preview' = preview
            \/ \E j \in jobs : R!RemoveRecord(j)
            \/ \E r \in recs : R!Click(r)
            \/ \E k \in preview.asked : R!Arrive(k)
         /\ \/ recs' = recs /\ txs' = txs
            \/ \E j \in jobs : R!Record(j) \/ R!RemoveRecord(j) \/ R!PurgeRecords(j)
            \/ \E S \in SUBSET Txs : R!Cascade(S)
            \/ \E r \in recs : R!Rename(r)
            \/ \E s, u \in Txs : R!Reconcile(s, u)
         /\ \/ jobs' \subseteq jobs
            \/ \E t \in Txs : R!Upload(t)
            \/ \E S \in SUBSET Txs : S \subseteq txs /\ R!Purge(S)
            \/ \E j \in jobs : R!Store(j)
            \/ \E r \in recs : R!RemoveFile(r)
         /\ \/ files' \subseteq files
            \/ \E j \in jobs : R!Store(j)
         /\ \/ cut' = cut
            \/ \E j \in jobs : R!Crash(j)
            \/ \E s, u \in Txs : R!Reconcile(s, u)
<1>1. CASE \E t \in Txs : R!Upload(t)
  BY <1>1 DEF R!Upload
<1>2. CASE \E S \in SUBSET Txs : S \subseteq txs /\ R!Purge(S)
  BY <1>2 DEF R!Purge
<1>3. CASE \E j \in jobs : R!Store(j)
  BY <1>3 DEF R!Store
<1>4. CASE \E j \in jobs : R!Record(j)
  BY <1>4 DEF R!Record, R!Close
<1>5. CASE \E j \in jobs : R!RemoveRecord(j)
  BY <1>5 DEF R!RemoveRecord, R!Close
<1>6. CASE \E j \in jobs : R!PurgeRecords(j)
  BY <1>6 DEF R!PurgeRecords, R!Close
<1>7. CASE \E j \in jobs : R!Crash(j)
  BY <1>7 DEF R!Crash
<1>8. CASE \E r \in recs : R!RemoveFile(r)
  BY <1>8 DEF R!RemoveFile
<1>9. CASE \E r \in recs : R!Rename(r)
  BY <1>9 DEF R!Rename
<1>10. CASE \E r \in recs : R!Click(r)
  <2>1. UNCHANGED <<txs, legs, recs, files, jobs, cut, overtaken, reconciled>>
    BY <1>10, ReceiptPage
  <2> QED
    BY <1>10, <2>1
<1>11. CASE \E s, u \in Txs : R!Reconcile(s, u)
  BY <1>11 DEF R!Reconcile
<1>12. CASE \E k \in preview.asked : R!Arrive(k)
  <2>1. UNCHANGED <<txs, legs, recs, files, jobs, cut, overtaken, reconciled>>
    BY <1>12, ReceiptPage
  <2> QED
    BY <1>12, <2>1
<1>13. CASE \E S \in SUBSET Txs : R!Cascade(S)
  BY <1>13 DEF R!Cascade
<1> QED
  BY ReceiptMoves, <1>1, <1>2, <1>3, <1>4, <1>5, <1>6, <1>7, <1>8, <1>9, <1>10, <1>11, <1>12,
     <1>13

\* The rows an upload writes: one, or none if its transaction is gone.
LEMMA RecordRows ==
  ASSUME Single, OwnKeys, NEW j \in jobs, R!Record(j)
  PROVE  \E t \in Txs, k \in R!Keys :
           /\ j.txs = {t} /\ j.keys = {k} /\ \A r \in recs : r.key # k
           /\ recs' = IF t \in txs THEN recs \cup {[key |-> k, tx |-> t, name |-> "own"]} ELSE recs
<1>1. PICK t \in Txs, k \in R!Keys : j.txs = {t} /\ j.keys = {k}
  BY DEF Single, R!Record
<1>2. recs' = recs \cup {[key |-> q, tx |-> u, name |-> "own"] : q \in j.keys, u \in j.txs \cap txs}
  BY DEF R!Record
<1>3. recs' = IF t \in txs THEN recs \cup {[key |-> k, tx |-> t, name |-> "own"]} ELSE recs
  BY <1>1, <1>2
<1>4. \A r \in recs : r.key # k
  BY <1>1 DEF OwnKeys, R!Record
<1> QED
  BY <1>1, <1>3, <1>4

\* The rows once one transaction is merged into another keep their keys.
LEMMA ReconcileRows ==
  ASSUME ReceiptTyped, NEW s \in Txs, NEW u \in Txs, R!Reconcile(s, u)
  PROVE  \E Moved : /\ recs' = {Moved[r] : r \in recs} /\ DOMAIN Moved = recs
                    /\ \A r \in recs : /\ Moved[r].key = r.key
                                       /\ Moved[r].tx = IF r.tx = u THEN s ELSE r.tx
<1> DEFINE Moved == [r \in recs |-> IF r.tx = u THEN [r EXCEPT !.tx = s] ELSE r]
<1>1. recs' = {Moved[r] : r \in recs} /\ DOMAIN Moved = recs
  BY DEF R!Reconcile
<1>2. \A r \in recs : Moved[r].key = r.key /\ Moved[r].tx = IF r.tx = u THEN s ELSE r.tx
  BY DEF ReceiptTyped, Receipt
<1> QED
  BY <1>1, <1>2

LEMMA ShapedStep ==
  ASSUME R!AttachmentsAssumption, ReceiptInv, R!Next
  PROVE  Shaped'
<1> USE DEF ReceiptInv
<1>0. /\ legs \in BOOLEAN /\ files \subseteq R!Keys /\ cut \subseteq R!Kinds
      /\ overtaken \in BOOLEAN /\ reconciled \in BOOLEAN
      /\ preview \in [shown : {0} \cup R!Keys, last : {0} \cup R!Keys, asked : SUBSET R!Keys]
      /\ IsFiniteSet(recs) /\ \A r \in recs : r.tx \in txs
      /\ recs \subseteq Receipt /\ jobs \subseteq ReceiptJob /\ txs \subseteq Txs
  BY DEF Shaped, FilesInv, ReceiptTyped
<1>1. legs' \in BOOLEAN /\ reconciled' \in BOOLEAN /\ overtaken' \in BOOLEAN
  BY <1>0, ReceiptFrames
<1>2. files' \subseteq R!Keys /\ cut' \subseteq R!Kinds
  <2>1. CASE \E j \in jobs : R!Store(j)
    BY <1>0, <2>1 DEF R!Store, ReceiptJob
  <2>2. CASE \E j \in jobs : R!Crash(j)
    BY <1>0, <2>2, ReceiptFrames DEF R!Crash, ReceiptJob
  <2>3. CASE \E s, u \in Txs : R!Reconcile(s, u)
    BY <1>0, <2>3, ReceiptFrames DEF R!Reconcile, R!Kinds
  <2> QED
    BY <1>0, <2>1, <2>2, <2>3, ReceiptFrames
<1>3. preview' \in [shown : {0} \cup R!Keys, last : {0} \cup R!Keys, asked : SUBSET R!Keys]
  <2>1. ASSUME NEW r \in recs, R!Click(r)
        PROVE  preview' \in [shown : {0} \cup R!Keys, last : {0} \cup R!Keys, asked : SUBSET R!Keys]
    <3>1. r.key \in R!Keys
      BY <1>0 DEF Receipt
    <3>2. CASE preview.shown = r.key
      <4>1. preview' = [preview EXCEPT !.shown = 0]
        BY <2>1, <3>2 DEF R!Click
      <4> QED
        BY <1>0, <4>1
    <3>3. CASE preview.shown # r.key
      <4>1. preview' = [preview EXCEPT !.last = r.key, !.asked = @ \cup {r.key}]
        BY <2>1, <3>3 DEF R!Click
      <4>2. preview.asked \cup {r.key} \in SUBSET R!Keys
        BY <1>0, <3>1
      <4> QED
        BY <1>0, <3>1, <4>1, <4>2
    <3> QED
      BY <3>2, <3>3
  <2>2. CASE \E k \in preview.asked : R!Arrive(k)
    BY <1>0, <2>2 DEF R!Arrive
  <2>3. CASE \E j \in jobs : R!RemoveRecord(j)
    BY <1>0, <2>3 DEF R!RemoveRecord
  <2> QED
    BY <1>0, <2>1, <2>2, <2>3, ReceiptFrames
<1>4. IsFiniteSet(recs') /\ \A r \in recs' : r.tx \in txs'
  <2>1. ASSUME NEW j \in jobs, R!Record(j) PROVE IsFiniteSet(recs') /\ \A r \in recs' : r.tx \in txs'
    <3>1. PICK t \in Txs, k \in R!Keys :
             recs' = IF t \in txs THEN recs \cup {[key |-> k, tx |-> t, name |-> "own"]} ELSE recs
      BY <2>1, RecordRows DEF FilesInv
    <3>2. IsFiniteSet(recs')
      BY <1>0, <3>1, FS_AddElement
    <3>3. txs' = txs
      BY <2>1 DEF R!Record
    <3> QED
      BY <1>0, <3>1, <3>2, <3>3
  <2>2. ASSUME NEW j \in jobs, R!PurgeRecords(j) \/ R!RemoveRecord(j)
        PROVE  IsFiniteSet(recs') /\ \A r \in recs' : r.tx \in txs'
    <3>1. recs' \subseteq recs
      BY <2>2 DEF R!PurgeRecords, R!RemoveRecord
    <3>2. IsFiniteSet(recs')
      BY <1>0, <3>1, FS_Subset
    <3>3. \A r \in recs' : r.tx \in txs'
      BY <1>0, <2>2 DEF R!PurgeRecords, R!RemoveRecord
    <3> QED
      BY <3>2, <3>3
  <2>3. ASSUME NEW s \in Txs, NEW u \in Txs, R!Reconcile(s, u)
        PROVE  IsFiniteSet(recs') /\ \A r \in recs' : r.tx \in txs'
    <3>1. PICK Moved : /\ recs' = {Moved[r] : r \in recs} /\ DOMAIN Moved = recs
                       /\ \A r \in recs : Moved[r].tx = IF r.tx = u THEN s ELSE r.tx
      BY <2>3, ReconcileRows DEF FilesInv
    <3>2. {IF r.tx = u THEN [r EXCEPT !.tx = s] ELSE r : r \in recs} = recs'
      BY <2>3 DEF R!Reconcile
    <3>3. IsFiniteSet(recs')
      <4> DEFINE f == [r \in recs |-> IF r.tx = u THEN [r EXCEPT !.tx = s] ELSE r]
      <4>1. f \in [recs -> recs'] /\ \A n \in recs' : \E r \in recs : f[r] = n
        BY <3>2
      <4> HIDE DEF f
      <4>2. f \in Surjection(recs, recs')
        BY <4>1 DEF Surjection
      <4> QED
        BY <1>0, <4>2, FS_Surjection
    <3>4. txs' = txs \ {u} /\ s # u /\ s \in txs
      BY <2>3 DEF R!Reconcile, R!CanReconcile
    <3> QED
      BY <1>0, <3>1, <3>3, <3>4
  <2>4. ASSUME NEW r \in recs, R!Rename(r) PROVE IsFiniteSet(recs') /\ \A o \in recs' : o.tx \in txs'
    <3>1. recs' = (recs \ {r}) \cup {[r EXCEPT !.name = "given"]} /\ txs' = txs
      BY <2>4 DEF R!Rename
    <3>2. IsFiniteSet(recs')
      BY <1>0, <3>1, FS_RemoveElement, FS_AddElement
    <3>3. [r EXCEPT !.name = "given"].tx = r.tx
      BY <1>0 DEF Receipt
    <3> QED
      BY <1>0, <3>1, <3>2, <3>3
  <2>5. ASSUME NEW S \in SUBSET Txs, R!Cascade(S)
        PROVE  IsFiniteSet(recs') /\ \A r \in recs' : r.tx \in txs'
    <3>1. recs' = {r \in recs : r.tx \notin S} /\ txs' = txs \ S
      BY <2>5 DEF R!Cascade
    <3>2. IsFiniteSet(recs')
      BY <1>0, <3>1, FS_Subset
    <3> QED
      BY <1>0, <3>1, <3>2
  <2>6. CASE UNCHANGED <<recs, txs>>
    BY <1>0, <2>6
  <2> QED
    BY <1>0, <2>1, <2>2, <2>3, <2>4, <2>5, <2>6, ReceiptFrames
<1> QED
  BY <1>1, <1>2, <1>3, <1>4 DEF Shaped

LEMMA UniqueStep ==
  ASSUME R!AttachmentsAssumption, ReceiptInv, R!Next
  PROVE  Unique' /\ Single'
<1> USE DEF ReceiptInv
<1>0. /\ recs \subseteq Receipt /\ jobs \subseteq ReceiptJob /\ txs \subseteq Txs
  BY DEF FilesInv, ReceiptTyped
<1>1. Unique'
  <2>1. ASSUME NEW j \in jobs, R!Record(j) PROVE Unique'
    <3>1. PICK t \in Txs, k \in R!Keys :
             /\ \A r \in recs : r.key # k
             /\ recs' = IF t \in txs THEN recs \cup {[key |-> k, tx |-> t, name |-> "own"]}
                        ELSE recs
      BY <2>1, RecordRows DEF FilesInv
    <3> QED
      BY <3>1 DEF Unique
  <2>2. ASSUME NEW s \in Txs, NEW u \in Txs, R!Reconcile(s, u) PROVE Unique'
    <3>1. PICK Moved : recs' = {Moved[r] : r \in recs} /\ \A r \in recs : Moved[r].key = r.key
      BY <2>2, ReconcileRows DEF FilesInv
    <3> QED
      BY <3>1 DEF Unique
  <2>3. ASSUME NEW r \in recs, R!Rename(r) PROVE Unique'
    <3>1. recs' = (recs \ {r}) \cup {[r EXCEPT !.name = "given"]}
      BY <2>3 DEF R!Rename
    <3>2. [r EXCEPT !.name = "given"].key = r.key
      BY <1>0 DEF Receipt
    <3> QED
      BY <3>1, <3>2 DEF Unique
  <2>4. ASSUME NEW j \in jobs, R!RemoveRecord(j) \/ R!PurgeRecords(j) PROVE Unique'
    BY <2>4 DEF R!RemoveRecord, R!PurgeRecords, Unique
  <2>5. ASSUME NEW S \in SUBSET Txs, R!Cascade(S) PROVE Unique'
    BY <2>5 DEF R!Cascade, Unique
  <2>6. CASE recs' = recs
    BY <2>6 DEF Unique
  <2> QED
    BY <1>0, <2>1, <2>2, <2>3, <2>4, <2>5, <2>6, ReceiptFrames
<1>2. Single'
  <2>1. ASSUME NEW t \in Txs, R!Upload(t) PROVE Single'
    <3>1. edits + 1 \in R!Keys
      BY <2>1, NextKey DEF R!Upload, FilesInv
    <3> QED
      BY <2>1, <3>1 DEF R!Upload, R!Open, Single
  <2>2. ASSUME NEW j \in jobs, R!Store(j) PROVE Single'
    <3>1. [j EXCEPT !.at = "stored"].txs = j.txs /\ [j EXCEPT !.at = "stored"].keys = j.keys
      BY <1>0 DEF ReceiptJob
    <3> QED
      BY <2>2, <3>1 DEF R!Store, Single
  <2>3. ASSUME NEW S, R!Purge(S) PROVE Single'
    BY <2>3 DEF R!Purge, R!Open, Single
  <2>4. ASSUME NEW r \in recs, R!RemoveFile(r) PROVE Single'
    BY <2>4 DEF R!RemoveFile, R!Open, Single
  <2>5. CASE jobs' \subseteq jobs
    BY <2>5 DEF Single
  <2> QED
    BY <1>0, <2>1, <2>2, <2>3, <2>4, <2>5, ReceiptFrames
<1> QED
  BY <1>1, <1>2

LEMMA StandingStep ==
  ASSUME R!AttachmentsAssumption, ReceiptInv, R!Next
  PROVE  Standing'
<1> USE DEF ReceiptInv
<1>0. /\ recs \subseteq Receipt /\ jobs \subseteq ReceiptJob /\ txs \subseteq Txs
      /\ overtaken \in BOOLEAN
  BY DEF FilesInv, ReceiptTyped, Shaped
<1>1. CASE \E t \in Txs : R!Upload(t)
  BY <1>1 DEF R!Upload, R!Open, Standing
<1>2. CASE \E S \in SUBSET Txs : S \subseteq txs /\ R!Purge(S)
  BY <1>2 DEF R!Purge, R!Open, Standing
<1>3. ASSUME NEW j \in jobs, R!Store(j) PROVE Standing'
  <2> DEFINE new == [j EXCEPT !.at = "stored"]
  <2>1. new.txs = j.txs /\ new.keys = j.keys /\ new.kind = j.kind
    BY <1>0 DEF ReceiptJob
  <2>2. jobs' = (jobs \ {j}) \cup {new} /\ recs' = recs /\ txs' = txs /\ overtaken' = overtaken
    BY <1>3 DEF R!Store
  <2> HIDE DEF new
  <2> QED
    BY <2>1, <2>2 DEF Standing
<1>4. ASSUME NEW r \in recs, R!RemoveFile(r) PROVE Standing'
  <2> DEFINE new == [kind |-> "remove", at |-> "removed", txs |-> {}, keys |-> {r.key}]
  <2>1. new.kind = "remove"
    OBVIOUS
  <2>2. jobs' = jobs \cup {new} /\ recs' = recs /\ txs' = txs /\ overtaken' = overtaken
    BY <1>4 DEF R!RemoveFile, R!Open
  <2> HIDE DEF new
  <2> QED
    BY <2>1, <2>2 DEF Standing
<1>5. ASSUME NEW j \in jobs, R!Record(j) \/ R!RemoveRecord(j) \/ R!PurgeRecords(j) PROVE Standing'
  <2>1. overtaken' = (overtaken \/ jobs' # {})
    BY <1>5 DEF R!Record, R!RemoveRecord, R!PurgeRecords, R!Close
  <2> QED
    BY <2>1 DEF Standing
<1>6. CASE (\E r \in recs : R!Rename(r)) \/ (\E s, u \in Txs : R!Reconcile(s, u))
  BY <1>6 DEF R!Rename, R!Reconcile, Standing
<1>7. CASE recs' = recs /\ txs' = txs /\ jobs' \subseteq jobs /\ overtaken' = overtaken
  BY <1>7 DEF Standing
<1>8. CASE \E j \in jobs : R!Crash(j)
  BY <1>7, <1>8 DEF R!Crash
<1>9. CASE (\E r \in recs : R!Click(r)) \/ (\E k \in preview.asked : R!Arrive(k))
  BY <1>7, <1>9, ReceiptPage
<1>10. ASSUME NEW S \in SUBSET Txs, R!Cascade(S) PROVE Standing'
  BY <1>10 DEF R!Cascade, Standing
<1> QED
  BY <1>0, <1>1, <1>2, <1>3, <1>4, <1>5, <1>6, <1>8, <1>9, <1>10, ReceiptMoves

\* A step takes at most one edit.
LEMMA ReceiptEdits ==
  ASSUME R!Next, txs \subseteq Txs
  PROVE  edits' \in {edits, edits + 1}
<1> USE DEF R!Bounded
<1>1. CASE (\E t \in Txs : R!Upload(t)) \/ (\E S \in SUBSET Txs : R!Purge(S) \/ R!Cascade(S))
  BY <1>1 DEF R!Upload, R!Purge, R!Cascade
<1>2. CASE \E j \in jobs : \/ R!Store(j) \/ R!Record(j) \/ R!RemoveRecord(j) \/ R!PurgeRecords(j)
                          \/ R!Crash(j)
  BY <1>2 DEF R!Store, R!Record, R!RemoveRecord, R!PurgeRecords, R!Crash
<1>3. CASE \E r \in recs : R!RemoveFile(r) \/ R!Rename(r)
  BY <1>3 DEF R!RemoveFile, R!Rename
<1>4. CASE \E s, u \in Txs : R!Reconcile(s, u)
  BY <1>4 DEF R!Reconcile
<1> QED
  BY <1>1, <1>2, <1>3, <1>4, ReceiptMoves, ReceiptPage

LEMMA RemainsStep ==
  ASSUME R!AttachmentsAssumption, ReceiptInv, R!Next
  PROVE  Remains'
<1> USE DEF ReceiptInv
<1>0. /\ recs \subseteq Receipt /\ jobs \subseteq ReceiptJob /\ txs \subseteq Txs
      /\ files \subseteq R!Keys /\ OwnKeys /\ edits \in Nat
      /\ leftover \subseteq files /\ (\A k \in leftover : k <= edits /\ k \in Nat)
      /\ KeysGivenOut /\ (\A r \in recs : r.key \in Nat) /\ edits' \in {edits, edits + 1}
      /\ \A j \in jobs : j.kind = "upload" => j.keys \cap leftover = {}
  <2>1. MaxReceiptEdits \in Nat
    BY DEF R!AttachmentsAssumption
  <2>2. edits' \in {edits, edits + 1}
    BY ReceiptEdits DEF FilesInv, ReceiptTyped
  <2> QED
    BY <2>1, <2>2 DEF FilesInv, ReceiptTyped, Receipt, Shaped, Remains, R!Keys
<1>1. ASSUME NEW t \in Txs, R!Upload(t) PROVE Remains'
  <2> DEFINE new == [kind |-> "upload", at |-> "checked", txs |-> {t}, keys |-> {edits + 1}]
  <2>1. jobs' = jobs \cup {new} /\ files' = files /\ leftover' = leftover
    BY <1>1 DEF R!Upload, R!Open
  <2>2. edits + 1 \notin leftover
    BY <1>0
  <2>3. new.keys = {edits + 1}
    OBVIOUS
  <2> HIDE DEF new
  <2> QED
    BY <1>0, <2>1, <2>2, <2>3 DEF Remains
<1>2. ASSUME NEW S \in SUBSET Txs, R!Purge(S) PROVE Remains'
  <2> DEFINE doomed == R!KeysOf({r \in recs : r.tx \in S})
  <2>1. PICK kept \in SUBSET (doomed \cap files) :
          files' = files \ (doomed \ kept) /\ leftover' = (leftover \ doomed) \cup kept
    BY <1>2 DEF R!Purge
  <2>2. \A j \in jobs' : j.kind = "upload" => j \in jobs
    BY <1>2 DEF R!Purge, R!Open
  <2>3. /\ \A j \in jobs : j.kind = "upload" => j.keys \cap doomed = {}
        /\ \A k \in doomed : k <= edits /\ k \in Nat
    BY <1>0 DEF OwnKeys, KeysGivenOut, R!KeysOf
  <2> HIDE DEF doomed
  <2> QED
    BY <1>0, <2>1, <2>2, <2>3 DEF Remains
<1>3. ASSUME NEW j \in jobs, R!Store(j) PROVE Remains'
  <2> DEFINE new == [j EXCEPT !.at = "stored"]
  <2>1. new.keys = j.keys /\ j.kind = "upload"
    BY <1>0, <1>3 DEF ReceiptJob, R!Store
  <2>2. jobs' = (jobs \ {j}) \cup {new} /\ files \subseteq files' /\ leftover' = leftover
    BY <1>3 DEF R!Store
  <2> HIDE DEF new
  <2> QED
    BY <1>0, <2>1, <2>2 DEF Remains
<1>4. ASSUME NEW r \in recs, R!RemoveFile(r) PROVE Remains'
  <2>1. files' = files \ {r.key} /\ leftover' = leftover \ {r.key}
    BY <1>4 DEF R!RemoveFile
  <2>2. \A j \in jobs' : j.kind = "upload" => j \in jobs
    BY <1>4 DEF R!RemoveFile, R!Open
  <2> QED
    BY <1>0, <2>1, <2>2 DEF Remains
<1>5. ASSUME NEW S \in SUBSET Txs, R!Cascade(S) PROVE Remains'
  <2> DEFINE gone == R!KeysOf({r \in recs : r.tx \in S})
  <2>1. jobs' = jobs /\ files' = files /\ leftover' = leftover \cup (files \cap gone)
    BY <1>5 DEF R!Cascade
  <2>2. /\ \A j \in jobs : j.kind = "upload" => j.keys \cap gone = {}
        /\ \A k \in gone : k <= edits /\ k \in Nat
    BY <1>0 DEF OwnKeys, KeysGivenOut, R!KeysOf
  <2> HIDE DEF gone
  <2> QED
    BY <1>0, <2>1, <2>2 DEF Remains
<1>6. CASE jobs' \subseteq jobs /\ UNCHANGED <<files, leftover>>
  BY <1>0, <1>6 DEF Remains
<1>7. CASE \E j \in jobs : R!Record(j) \/ R!RemoveRecord(j) \/ R!PurgeRecords(j) \/ R!Crash(j)
  BY <1>6, <1>7 DEF R!Record, R!RemoveRecord, R!PurgeRecords, R!Crash, R!Close
<1>8. CASE (\E r \in recs : R!Rename(r)) \/ (\E s, u \in Txs : R!Reconcile(s, u))
  BY <1>6, <1>8 DEF R!Rename, R!Reconcile
<1>9. CASE (\E r \in recs : R!Click(r)) \/ (\E k \in preview.asked : R!Arrive(k))
  BY <1>6, <1>9, ReceiptPage
<1> QED
  BY <1>0, <1>1, <1>2, <1>3, <1>4, <1>5, <1>7, <1>8, <1>9, ReceiptMoves

LEMMA BalancedStep ==
  ASSUME R!AttachmentsAssumption, ReceiptInv, R!Next
  PROVE  Balanced'
<1> USE DEF ReceiptInv
<1> SUFFICES ASSUME ~overtaken', cut' = {}
             PROVE  \A k \in R!Keys : k \in (files \ leftover)' <=>
                                 \/ ComesIn(k)'
                                 \/ k \in R!KeysOf(recs') /\ ~GoesOut(k)'
  BY DEF Balanced, R!KeysOf
<1>0. /\ recs \subseteq Receipt /\ jobs \subseteq ReceiptJob /\ txs \subseteq Txs
      /\ overtaken \in BOOLEAN
      /\ cut \subseteq R!Kinds /\ OwnKeys /\ KeysGivenOut
  BY DEF FilesInv, ReceiptTyped, Shaped
<1>u. ~overtaken /\ cut = {}
  <2>1. ~overtaken
    BY <1>0, ReceiptFrames
  <2>2. cut \subseteq cut'
    BY <1>0, ReceiptFrames DEF R!Crash, R!Reconcile
  <2> QED
    BY <2>1, <2>2
<1>b. \A k \in R!Keys :
        k \in files \ leftover <=> ComesIn(k) \/ (k \in R!KeysOf(recs) /\ ~GoesOut(k))
  BY <1>u DEF Balanced
<1>c. ASSUME jobs' = jobs, files' = files, leftover' = leftover, R!KeysOf(recs') = R!KeysOf(recs)
      PROVE  \A k \in R!Keys : k \in (files \ leftover)' <=>
                                 \/ ComesIn(k)'
                                 \/ k \in R!KeysOf(recs') /\ ~GoesOut(k)'
  BY <1>b, <1>c DEF ComesIn, GoesOut
<1>1. ASSUME NEW t \in Txs, R!Upload(t)
      PROVE  \A k \in R!Keys : k \in (files \ leftover)' <=>
                                 \/ ComesIn(k)'
                                 \/ k \in R!KeysOf(recs') /\ ~GoesOut(k)'
  BY <1>b, <1>1 DEF R!Upload, R!Open, ComesIn, GoesOut
<1>2. ASSUME NEW S \in SUBSET Txs, R!Purge(S)
      PROVE  \A k \in R!Keys : k \in (files \ leftover)' <=>
                                 \/ ComesIn(k)'
                                 \/ k \in R!KeysOf(recs') /\ ~GoesOut(k)'
  <2> DEFINE doomed == R!KeysOf({r \in recs : r.tx \in S})
             new == [kind |-> "purge", at |-> "removed", txs |-> S, keys |-> doomed]
  <2>1. /\ jobs' = jobs \cup {new} /\ recs' = recs
        /\ (files \ leftover)' = (files \ leftover) \ doomed
    <3>1. PICK kept \in SUBSET (doomed \cap files) :
            files' = files \ (doomed \ kept) /\ leftover' = (leftover \ doomed) \cup kept
      BY <1>2 DEF R!Purge
    <3>2. jobs' = jobs \cup {new} /\ recs' = recs
      BY <1>2 DEF R!Purge, R!Open
    <3> HIDE DEF new, doomed
    <3> QED
      BY <3>1, <3>2
  <2>2. new.keys = doomed /\ new.kind = "purge"
    OBVIOUS
  <2>3. \A k \in doomed : k \in R!KeysOf(recs)
    BY DEF R!KeysOf
  <2> HIDE DEF new, doomed
  <2>4. \A k \in R!Keys : /\ ComesIn(k)' <=> ComesIn(k)
                          /\ GoesOut(k)' <=> GoesOut(k) \/ k \in doomed
    BY <2>1, <2>2 DEF ComesIn, GoesOut
  <2>5. \A k \in R!Keys : ComesIn(k) => k \notin R!KeysOf(recs)
    BY <1>0 DEF ComesIn, OwnKeys, R!KeysOf
  <2> QED
    BY <1>b, <2>1, <2>3, <2>4, <2>5
<1>3. ASSUME NEW j \in jobs, R!Store(j)
      PROVE  \A k \in R!Keys : k \in (files \ leftover)' <=>
                                 \/ ComesIn(k)'
                                 \/ k \in R!KeysOf(recs') /\ ~GoesOut(k)'
  <2> DEFINE new == [j EXCEPT !.at = "stored"]
  <2>1. new.at = "stored" /\ new.keys = j.keys /\ new.kind = "upload" /\ j.kind = "upload"
    BY <1>0, <1>3 DEF ReceiptJob, R!Store
  <2>2. /\ jobs' = (jobs \ {j}) \cup {new} /\ recs' = recs
        /\ (files \ leftover)' = (files \ leftover) \cup j.keys
        /\ j.at = "checked"
    <3>1. j.keys \cap leftover = {}
      BY <2>1 DEF Remains
    <3> QED
      BY <1>3, <3>1 DEF R!Store
  <2> HIDE DEF new
  <2>3. \A k \in R!Keys : /\ ComesIn(k)' <=> ComesIn(k) \/ k \in j.keys
                          /\ GoesOut(k)' <=> GoesOut(k)
    BY <2>1, <2>2 DEF ComesIn, GoesOut
  <2> QED
    BY <1>b, <2>2, <2>3
<1>4. ASSUME NEW j \in jobs, R!Record(j)
      PROVE  \A k \in R!Keys : k \in (files \ leftover)' <=>
                                 \/ ComesIn(k)'
                                 \/ k \in R!KeysOf(recs') /\ ~GoesOut(k)'
  <2>1. /\ jobs' = {} /\ jobs = {j} /\ files' = files /\ leftover' = leftover
        /\ j.kind = "upload" /\ j.at = "stored"
    BY <1>4 DEF R!Record, R!Close
  <2>2. PICK t \in Txs, k \in R!Keys :
          /\ j.txs = {t} /\ j.keys = {k}
          /\ recs' = IF t \in txs THEN recs \cup {[key |-> k, tx |-> t, name |-> "own"]} ELSE recs
    BY <1>4, RecordRows DEF FilesInv
  <2>3. t \in txs
    <3>1. j.txs \subseteq txs
      BY <1>u, <2>1 DEF Standing
    <3> QED
      BY <2>2, <3>1
  <2>4. R!KeysOf(recs') = R!KeysOf(recs) \cup {k}
    <3> DEFINE new == [key |-> k, tx |-> t, name |-> "own"]
    <3>1. recs' = recs \cup {new} /\ new.key = k
      BY <2>2, <2>3
    <3> HIDE DEF new
    <3> QED
      BY <3>1 DEF R!KeysOf
  <2> QED
    BY <1>b, <2>1, <2>2, <2>4 DEF ComesIn, GoesOut
<1>5. ASSUME NEW r \in recs, R!RemoveFile(r)
      PROVE  \A k \in R!Keys : k \in (files \ leftover)' <=>
                                 \/ ComesIn(k)'
                                 \/ k \in R!KeysOf(recs') /\ ~GoesOut(k)'
  <2> DEFINE new == [kind |-> "remove", at |-> "removed", txs |-> {}, keys |-> {r.key}]
  <2>1. /\ jobs' = jobs \cup {new} /\ recs' = recs
        /\ files' = files \ {r.key} /\ leftover' = leftover \ {r.key}
    BY <1>5 DEF R!RemoveFile, R!Open
  <2>2. new.keys = {r.key} /\ new.kind = "remove"
    OBVIOUS
  <2> HIDE DEF new
  <2>3. \A k \in R!Keys : /\ ComesIn(k)' <=> ComesIn(k)
                          /\ GoesOut(k)' <=> GoesOut(k) \/ k = r.key
    BY <2>1, <2>2 DEF ComesIn, GoesOut
  <2>4. \A k \in R!Keys : ComesIn(k) => k # r.key
    BY <1>0 DEF ComesIn, OwnKeys
  <2> QED
    BY <1>b, <2>1, <2>3, <2>4
<1>6. ASSUME NEW j \in jobs, R!RemoveRecord(j)
      PROVE  \A k \in R!Keys : k \in (files \ leftover)' <=>
                                 \/ ComesIn(k)'
                                 \/ k \in R!KeysOf(recs') /\ ~GoesOut(k)'
  <2>1. /\ jobs' = {} /\ jobs = {j} /\ files' = files /\ leftover' = leftover /\ j.kind = "remove"
        /\ recs' = {r \in recs : r.key \notin j.keys}
    BY <1>6 DEF R!RemoveRecord, R!Close
  <2>2. R!KeysOf(recs') = R!KeysOf(recs) \ j.keys
    BY <2>1 DEF R!KeysOf
  <2> QED
    BY <1>b, <2>1, <2>2 DEF ComesIn, GoesOut
<1>7. ASSUME NEW j \in jobs, R!PurgeRecords(j)
      PROVE  \A k \in R!Keys : k \in (files \ leftover)' <=>
                                 \/ ComesIn(k)'
                                 \/ k \in R!KeysOf(recs') /\ ~GoesOut(k)'
  <2>1. /\ jobs' = {} /\ jobs = {j} /\ files' = files /\ leftover' = leftover /\ j.kind = "purge"
        /\ recs' = {r \in recs : r.tx \notin j.txs}
    BY <1>7 DEF R!PurgeRecords, R!Close
  <2>2. j.keys = R!KeysOf({r \in recs : r.tx \in j.txs})
    BY <1>u, <2>1 DEF Standing
  <2>3. R!KeysOf(recs') = R!KeysOf(recs) \ j.keys
    BY <2>1, <2>2 DEF R!KeysOf, Unique
  <2> QED
    BY <1>b, <2>1, <2>3 DEF ComesIn, GoesOut
<1>8. ASSUME NEW s \in Txs, NEW u \in Txs, R!Reconcile(s, u)
      PROVE  \A k \in R!Keys : k \in (files \ leftover)' <=>
                                 \/ ComesIn(k)'
                                 \/ k \in R!KeysOf(recs') /\ ~GoesOut(k)'
  <2>1. PICK Moved : recs' = {Moved[r] : r \in recs} /\ \A r \in recs : Moved[r].key = r.key
    BY <1>0, <1>8, ReconcileRows DEF FilesInv
  <2>2. R!KeysOf(recs') = R!KeysOf(recs)
    BY <2>1 DEF R!KeysOf
  <2> QED
    BY <1>c, <1>8, <2>2 DEF R!Reconcile
<1>9. ASSUME NEW r \in recs, R!Rename(r)
      PROVE  \A k \in R!Keys : k \in (files \ leftover)' <=>
                                 \/ ComesIn(k)'
                                 \/ k \in R!KeysOf(recs') /\ ~GoesOut(k)'
  <2>1. [r EXCEPT !.name = "given"].key = r.key
    BY <1>0 DEF Receipt
  <2>2. R!KeysOf(recs') = R!KeysOf(recs)
    BY <1>9, <2>1 DEF R!Rename, R!KeysOf
  <2> QED
    BY <1>c, <1>9, <2>2 DEF R!Rename
<1>10. ASSUME NEW j \in jobs, R!Crash(j)
       PROVE  \A k \in R!Keys : k \in (files \ leftover)' <=>
                                 \/ ComesIn(k)'
                                 \/ k \in R!KeysOf(recs') /\ ~GoesOut(k)'
  <2>1. /\ jobs' = jobs \ {j} /\ recs' = recs /\ files' = files /\ leftover' = leftover
        /\ j.at = "checked"
    BY <1>10 DEF R!Crash
  <2>2. j.kind = "upload"
    BY <2>1 DEF FilesInv, Beginnings
  <2>3. \A k \in R!Keys : (ComesIn(k)' <=> ComesIn(k)) /\ (GoesOut(k)' <=> GoesOut(k))
    BY <2>1, <2>2 DEF ComesIn, GoesOut
  <2> QED
    BY <1>b, <2>1, <2>3
<1>11. CASE (\E r \in recs : R!Click(r)) \/ (\E k \in preview.asked : R!Arrive(k))
  BY <1>c, <1>11, ReceiptPage
<1>12. ASSUME NEW S \in SUBSET Txs, R!Cascade(S)
       PROVE  \A k \in R!Keys : k \in (files \ leftover)' <=>
                                 \/ ComesIn(k)'
                                 \/ k \in R!KeysOf(recs') /\ ~GoesOut(k)'
  <2> DEFINE gone == R!KeysOf({r \in recs : r.tx \in S})
  <2>1. /\ jobs' = {} /\ jobs = {} /\ files' = files
        /\ recs' = {r \in recs : r.tx \notin S}
        /\ leftover' = leftover \cup (files \cap gone)
    BY <1>12 DEF R!Cascade
  <2>2. R!KeysOf(recs') = R!KeysOf(recs) \ gone
    BY <2>1 DEF R!KeysOf, Unique
  <2> HIDE DEF gone
  <2> QED
    BY <1>b, <2>1, <2>2 DEF ComesIn, GoesOut
<1> QED
  BY <1>0, <1>1, <1>2, <1>3, <1>4, <1>5, <1>6, <1>7, <1>8, <1>9, <1>10, <1>11, <1>12,
     ReceiptMoves

\* The instance counts as the library does.
LEMMA ReceiptCards == \A S : R!Cardinality(S) = Cardinality(S)
  BY DEF R!Cardinality, Cardinality

\* Which receipts a transaction has after a step.
LEMMA CountedStep ==
  ASSUME R!AttachmentsAssumption, ReceiptInv, R!Next
  PROVE  Counted'
<1> USE DEF ReceiptInv
<1>0. /\ recs \subseteq Receipt /\ jobs \subseteq ReceiptJob /\ txs \subseteq Txs
      /\ overtaken \in BOOLEAN /\ reconciled \in BOOLEAN /\ IsFiniteSet(recs)
      /\ MaxPerTx \in Nat
  BY DEF FilesInv, ReceiptTyped, Shaped, R!AttachmentsAssumption
<1>u. CASE overtaken \/ reconciled
  BY <1>0, <1>u, ReceiptFrames DEF Counted
<1>b. CASE /\ \A t \in Txs : Cardinality(R!Of(t)) <= MaxPerTx
           /\ \A j \in jobs : j.kind = "upload" => \A t \in j.txs : Cardinality(R!Of(t)) < MaxPerTx
  <2>0. \A t : IsFiniteSet(R!Of(t)) /\ Cardinality(R!Of(t)) \in Nat
    BY <1>0, FS_Subset, FS_CardinalityType DEF R!Of
  <2>1. ASSUME NEW t \in Txs, R!Upload(t) PROVE Counted'
    <3> DEFINE new == [kind |-> "upload", at |-> "checked", txs |-> {t}, keys |-> {edits + 1}]
    <3>1. jobs' = jobs \cup {new} /\ recs' = recs /\ Cardinality(R!Of(t)) < MaxPerTx
      BY <2>1, ReceiptCards DEF R!Upload, R!Open, R!MayUpload
    <3>2. new.txs = {t}
      OBVIOUS
    <3> HIDE DEF new
    <3>3. \A u : R!Of(u)' = R!Of(u)
      BY <3>1 DEF R!Of
    <3>4. \A u : Cardinality(R!Of(u)') = Cardinality(R!Of(u))
      BY <3>3
    <3> QED
      BY <1>b, <3>1, <3>2, <3>4 DEF Counted
  <2>2. ASSUME NEW S, R!Purge(S) PROVE Counted'
    <3>1. recs' = recs
      BY <2>2 DEF R!Purge
    <3>2. \A u : Cardinality(R!Of(u)') = Cardinality(R!Of(u))
      BY <3>1 DEF R!Of
    <3>3. \A j \in jobs' : j.kind = "upload" => j \in jobs
      BY <2>2 DEF R!Purge, R!Open
    <3> QED
      BY <1>b, <3>2, <3>3 DEF Counted
  <2>3. ASSUME NEW j \in jobs, R!Store(j) PROVE Counted'
    <3> DEFINE new == [j EXCEPT !.at = "stored"]
    <3>1. new.kind = j.kind /\ new.txs = j.txs
      BY <1>0 DEF ReceiptJob
    <3>2. jobs' = (jobs \ {j}) \cup {new} /\ recs' = recs
      BY <2>3 DEF R!Store
    <3> HIDE DEF new
    <3>3. \A u : Cardinality(R!Of(u)') = Cardinality(R!Of(u))
      BY <3>2 DEF R!Of
    <3> QED
      BY <1>b, <3>1, <3>2, <3>3 DEF Counted
  <2>4. ASSUME NEW r \in recs, R!RemoveFile(r) PROVE Counted'
    <3>1. recs' = recs
      BY <2>4 DEF R!RemoveFile
    <3>2. \A u : Cardinality(R!Of(u)') = Cardinality(R!Of(u))
      BY <3>1 DEF R!Of
    <3>3. \A j \in jobs' : j.kind = "upload" => j \in jobs
      BY <2>4 DEF R!RemoveFile, R!Open
    <3> QED
      BY <1>b, <3>2, <3>3 DEF Counted
  <2>5. ASSUME NEW j \in jobs, R!Record(j) PROVE Counted'
    <3>1. CASE jobs' # {}
      BY <2>5, <3>1 DEF R!Record, R!Close, Counted
    <3>2. CASE jobs' = {}
      <4>1. PICK t \in Txs, k \in R!Keys :
              /\ j.txs = {t} /\ j.kind = "upload"
              /\ recs' = IF t \in txs THEN recs \cup {[key |-> k, tx |-> t, name |-> "own"]}
                         ELSE recs
        BY <2>5, RecordRows DEF FilesInv, R!Record
      <4> DEFINE new == [key |-> k, tx |-> t, name |-> "own"]
      <4>2. new.tx = t /\ recs' \subseteq recs \cup {new}
        BY <4>1
      <4> HIDE DEF new
      <4>3. \A u : R!Of(u)' \subseteq IF u = t THEN R!Of(u) \cup {new} ELSE R!Of(u)
        BY <4>2 DEF R!Of
      <4>4. Cardinality(R!Of(t)) < MaxPerTx
        BY <1>b, <4>1
      <4>5. ASSUME NEW u \in Txs PROVE Cardinality(R!Of(u)') <= MaxPerTx
        <5>1. CASE u = t
          <6>0. IsFiniteSet(R!Of(u)) /\ Cardinality(R!Of(u)) \in Nat
            BY <2>0
          <6>1. /\ IsFiniteSet(R!Of(u) \cup {new})
                /\ Cardinality(R!Of(u) \cup {new}) <= Cardinality(R!Of(u)) + 1
                /\ Cardinality(R!Of(u) \cup {new}) \in Nat
            <7> HIDE DEF ReceiptInv
            <7>1. /\ IsFiniteSet(R!Of(u) \cup {new})
                  /\ Cardinality(R!Of(u) \cup {new})
                       = IF new \in R!Of(u) THEN Cardinality(R!Of(u)) ELSE Cardinality(R!Of(u)) + 1
              BY <6>0, FS_AddElement
            <7> QED
              BY <6>0, <7>1
          <6>2. R!Of(u)' \subseteq R!Of(u) \cup {new}
            BY <4>3, <5>1
          <6>3. /\ Cardinality(R!Of(u)') <= Cardinality(R!Of(u) \cup {new})
                /\ Cardinality(R!Of(u)') \in Nat
            BY <6>1, <6>2, FS_Subset, FS_CardinalityType
          <6> QED
            BY <1>0, <2>0, <4>4, <5>1, <6>1, <6>3
        <5>2. CASE u # t
          <6>1. Cardinality(R!Of(u)') <= Cardinality(R!Of(u)) /\ Cardinality(R!Of(u)') \in Nat
            BY <2>0, <4>3, <5>2, FS_Subset, FS_CardinalityType
          <6> QED
            BY <1>0, <1>b, <2>0, <6>1
        <5> QED
          BY <5>1, <5>2
      <4> QED
        BY <3>2, <4>5 DEF Counted
    <3> QED
      BY <3>1, <3>2
  <2>6. ASSUME NEW j \in jobs, R!RemoveRecord(j) \/ R!PurgeRecords(j) PROVE Counted'
    <3>1. recs' \subseteq recs /\ jobs' \subseteq jobs
      BY <2>6 DEF R!RemoveRecord, R!PurgeRecords, R!Close
    <3>2. ASSUME NEW u
          PROVE  Cardinality(R!Of(u)') <= Cardinality(R!Of(u)) /\ Cardinality(R!Of(u)') \in Nat
      <4>1. R!Of(u)' \subseteq R!Of(u)
        BY <3>1 DEF R!Of
      <4> QED
        BY <2>0, <4>1, FS_Subset, FS_CardinalityType
    <3>3. \A t \in Txs : Cardinality(R!Of(t)') <= MaxPerTx
      BY <1>0, <1>b, <2>0, <3>2
    <3>4. \A i \in jobs' : i.kind = "upload" => \A t \in i.txs : Cardinality(R!Of(t)') < MaxPerTx
      BY <1>0, <1>b, <2>0, <3>1, <3>2
    <3> QED
      BY <3>3, <3>4 DEF Counted
  <2>7. CASE \E s, u \in Txs : R!Reconcile(s, u)
    BY <2>7 DEF R!Reconcile, Counted
  <2>8. ASSUME NEW r \in recs, R!Rename(r) PROVE Counted'
    <3>1. CASE jobs # {}
      BY <2>8, <3>1 DEF R!Rename, Counted
    <3>2. CASE jobs = {}
      <4> DEFINE new == [r EXCEPT !.name = "given"]
      <4>1. recs' = (recs \ {r}) \cup {new} /\ jobs' = {}
        BY <2>8, <3>2 DEF R!Rename
      <4>2. new.tx = r.tx
        BY <1>0 DEF Receipt
      <4> HIDE DEF new
      <4>3. ASSUME NEW u \in Txs PROVE Cardinality(R!Of(u)') <= MaxPerTx
        <5>1. CASE r.tx = u
          <6>1. R!Of(u)' = (R!Of(u) \ {r}) \cup {new} /\ r \in R!Of(u)
            BY <4>1, <4>2, <5>1 DEF R!Of
          <6>2. /\ IsFiniteSet(R!Of(u) \ {r})
                /\ Cardinality(R!Of(u) \ {r}) = Cardinality(R!Of(u)) - 1
            BY <2>0, <6>1, FS_RemoveElement
          <6>3. Cardinality(R!Of(u) \ {r}) \in Nat
            BY <6>2, FS_CardinalityType
          <6>4. /\ Cardinality(R!Of(u)') <= Cardinality(R!Of(u) \ {r}) + 1
                /\ Cardinality(R!Of(u)') \in Nat
            <7> HIDE DEF ReceiptInv
            <7> DEFINE rest == R!Of(u) \ {r}
            <7>1. /\ IsFiniteSet(rest \cup {new})
                  /\ Cardinality(rest \cup {new})
                       = IF new \in rest THEN Cardinality(rest) ELSE Cardinality(rest) + 1
              BY <6>2, FS_AddElement
            <7>2. Cardinality(R!Of(u)') = Cardinality(rest \cup {new})
              BY <6>1
            <7> QED
              BY <6>3, <7>1, <7>2
          <6> QED
            BY <1>0, <1>b, <2>0, <6>2, <6>3, <6>4
        <5>2. CASE r.tx # u
          <6>1. R!Of(u)' = R!Of(u)
            BY <4>1, <4>2, <5>2 DEF R!Of
          <6> QED
            BY <1>b, <6>1
        <5> QED
          BY <5>1, <5>2
      <4> QED
        BY <4>1, <4>3 DEF Counted
    <3> QED
      BY <3>1, <3>2
  <2>9. ASSUME recs' = recs, jobs' \subseteq jobs PROVE Counted'
    <3>1. \A u : Cardinality(R!Of(u)') = Cardinality(R!Of(u))
      BY <2>9 DEF R!Of
    <3> QED
      BY <1>b, <2>9, <3>1 DEF Counted
  <2>12. ASSUME NEW S \in SUBSET Txs, R!Cascade(S) PROVE Counted'
    <3>1. recs' \subseteq recs /\ jobs' = jobs
      BY <2>12 DEF R!Cascade
    <3>2. ASSUME NEW u
          PROVE  Cardinality(R!Of(u)') <= Cardinality(R!Of(u)) /\ Cardinality(R!Of(u)') \in Nat
      <4>1. R!Of(u)' \subseteq R!Of(u)
        BY <3>1 DEF R!Of
      <4> QED
        BY <2>0, <4>1, FS_Subset, FS_CardinalityType
    <3>3. \A t \in Txs : Cardinality(R!Of(t)') <= MaxPerTx
      BY <1>0, <1>b, <2>0, <3>2
    <3>4. \A i \in jobs' : i.kind = "upload" => \A t \in i.txs : Cardinality(R!Of(t)') < MaxPerTx
      BY <1>0, <1>b, <2>0, <3>1, <3>2
    <3> QED
      BY <3>3, <3>4 DEF Counted
  <2>10. CASE \E j \in jobs : R!Crash(j)
    BY <2>9, <2>10 DEF R!Crash
  <2>11. CASE (\E r \in recs : R!Click(r)) \/ (\E k \in preview.asked : R!Arrive(k))
    BY <2>9, <2>11, ReceiptPage
  <2> QED
    BY <1>0, <2>1, <2>2, <2>3, <2>4, <2>5, <2>6, <2>7, <2>8, <2>10, <2>11, <2>12,
       ReceiptMoves
<1> QED
  BY <1>u, <1>b DEF Counted

LEMMA ClickedStep ==
  ASSUME R!AttachmentsAssumption, ReceiptInv, R!Next
  PROVE  Clicked'
<1> USE DEF ReceiptInv
<1>0. /\ recs \subseteq Receipt /\ jobs \subseteq ReceiptJob /\ txs \subseteq Txs
      /\ MaxReceiptEdits \in Nat
      /\ preview \in [shown : {0} \cup R!Keys, last : {0} \cup R!Keys, asked : SUBSET R!Keys]
      /\ edits \in Nat /\ OwnKeys /\ KeysGivenOut
  BY DEF FilesInv, ReceiptTyped, Shaped, R!AttachmentsAssumption
<1>u. /\ preview.last <= edits /\ preview.last \in Nat
      /\ \A j \in jobs : j.kind = "upload" => preview.last \notin j.keys
      /\ \/ preview.shown \in {0, preview.last}
         \/ preview.last \in preview.asked \/ preview.last \notin files
  BY <1>0 DEF Clicked, R!Keys
<1>1. ASSUME NEW t \in Txs, R!Upload(t) PROVE Clicked'
  <2> DEFINE new == [kind |-> "upload", at |-> "checked", txs |-> {t}, keys |-> {edits + 1}]
  <2>1. jobs' = jobs \cup {new} /\ preview' = preview /\ files' = files /\ edits' = edits + 1
    BY <1>1 DEF R!Upload, R!Open, R!Bounded
  <2>2. preview.last \notin new.keys
    BY <1>0, <1>u
  <2> HIDE DEF new
  <2> QED
    BY <1>0, <1>u, <2>1, <2>2 DEF Clicked
<1>2. ASSUME NEW S, R!Purge(S) PROVE Clicked'
  <2>1. preview' = preview /\ files' \subseteq files /\ edits' = edits + 1
    BY <1>2 DEF R!Purge, R!Bounded
  <2>2. \A j \in jobs' : j.kind = "upload" => j \in jobs
    BY <1>2 DEF R!Purge, R!Open
  <2> QED
    BY <1>0, <1>u, <2>1, <2>2 DEF Clicked
<1>3. ASSUME NEW j \in jobs, R!Store(j) PROVE Clicked'
  <2> DEFINE new == [j EXCEPT !.at = "stored"]
  <2>1. new.keys = j.keys /\ new.kind = "upload" /\ j.kind = "upload"
    BY <1>0, <1>3 DEF ReceiptJob, R!Store
  <2>2. /\ jobs' = (jobs \ {j}) \cup {new} /\ preview' = preview /\ edits' = edits
        /\ files' = files \cup j.keys
    BY <1>3 DEF R!Store
  <2> HIDE DEF new
  <2> QED
    BY <1>u, <2>1, <2>2 DEF Clicked
<1>4. ASSUME NEW r \in recs, R!RemoveFile(r) PROVE Clicked'
  <2>1. preview' = preview /\ files' \subseteq files /\ edits' = edits + 1
    BY <1>4 DEF R!RemoveFile, R!Bounded
  <2>2. \A j \in jobs' : j.kind = "upload" => j \in jobs
    BY <1>4 DEF R!RemoveFile, R!Open
  <2> QED
    BY <1>0, <1>u, <2>1, <2>2 DEF Clicked
<1>5. ASSUME NEW j \in jobs, R!RemoveRecord(j) PROVE Clicked'
  <2>1. /\ preview'.last = preview.last /\ preview'.asked = preview.asked
        /\ preview'.shown \in {0, preview.shown}
    BY <1>0, <1>5 DEF R!RemoveRecord
  <2>2. jobs' \subseteq jobs /\ files' = files /\ edits' = edits
    BY <1>5 DEF R!RemoveRecord, R!Close
  <2> QED
    BY <1>u, <2>1, <2>2 DEF Clicked
<1>6. ASSUME NEW r \in recs, R!Click(r) PROVE Clicked'
  <2>1. jobs' = jobs /\ files' = files /\ edits' = edits + 1
    BY <1>6 DEF R!Click, R!Bounded
  <2>2. /\ r.key <= edits /\ r.key \in Nat
        /\ \A j \in jobs : j.kind = "upload" => r.key \notin j.keys
    BY <1>0 DEF OwnKeys, KeysGivenOut, Receipt, R!Keys
  <2>3. CASE preview.shown = r.key
    <3>1. preview'.shown = 0 /\ preview'.last = preview.last
      BY <1>0, <1>6, <2>3 DEF R!Click
    <3> QED
      BY <1>0, <1>u, <2>1, <3>1 DEF Clicked
  <2>4. CASE preview.shown # r.key
    <3>1. preview'.last = r.key /\ r.key \in preview'.asked
      BY <1>0, <1>6, <2>4 DEF R!Click
    <3> QED
      BY <1>0, <2>1, <2>2, <3>1 DEF Clicked
  <2> QED
    BY <2>3, <2>4
<1>7. ASSUME NEW k \in preview.asked, R!Arrive(k) PROVE Clicked'
  <2>1. /\ preview'.last = preview.last /\ preview'.asked = preview.asked \ {k}
        /\ preview'.shown = IF k \in files /\ k = preview.last THEN k ELSE preview.shown
    BY <1>0, <1>7 DEF R!Arrive
  <2>2. jobs' = jobs /\ files' = files /\ edits' = edits
    BY <1>7 DEF R!Arrive
  <2> QED
    BY <1>u, <2>1, <2>2 DEF Clicked
<1>8. ASSUME preview' = preview, jobs' \subseteq jobs, files' = files, edits' \in {edits, edits + 1}
      PROVE  Clicked'
  BY <1>0, <1>u, <1>8 DEF Clicked
<1>9. CASE \E j \in jobs : R!Record(j) \/ R!PurgeRecords(j) \/ R!Crash(j)
  BY <1>8, <1>9 DEF R!Record, R!PurgeRecords, R!Crash, R!Close
<1>10. CASE (\E r \in recs : R!Rename(r)) \/ (\E s, u \in Txs : R!Reconcile(s, u))
  BY <1>8, <1>10 DEF R!Rename, R!Reconcile, R!Bounded
<1>11. CASE \E S \in SUBSET Txs : R!Cascade(S)
  BY <1>8, <1>11 DEF R!Cascade, R!Bounded
<1> QED
  BY <1>0, <1>1, <1>2, <1>3, <1>4, <1>5, <1>6, <1>7, <1>9, <1>10, <1>11, ReceiptMoves

LEMMA ReceiptInit == R!AttachmentsAssumption /\ R!Init => ReceiptInv
<1> SUFFICES ASSUME R!AttachmentsAssumption, R!Init PROVE ReceiptInv
  OBVIOUS
<1>0. MaxPerTx \in Nat
  BY DEF R!AttachmentsAssumption
<1>1. /\ legs \in BOOLEAN /\ recs = {} /\ files = {} /\ leftover = {} /\ jobs = {} /\ cut = {}
      /\ overtaken = FALSE /\ reconciled = FALSE /\ edits = 0
      /\ preview = [shown |-> 0, last |-> 0, asked |-> {}]
  BY DEF R!Init
<1>2. Shaped
  BY <1>1, FS_EmptySet DEF Shaped
<1>3. Unique /\ Single /\ Standing /\ Remains
  BY <1>1 DEF Unique, Single, Standing, Remains
<1>4. Balanced
  BY <1>1 DEF Balanced, ComesIn, GoesOut, R!KeysOf
<1>5. Counted
  <2>1. \A t : R!Of(t) = {}
    BY <1>1 DEF R!Of
  <2> QED
    BY <1>0, <1>1, <2>1, FS_EmptySet DEF Counted
<1>6. Clicked
  BY <1>1 DEF Clicked
<1> QED
  BY <1>2, <1>3, <1>4, <1>5, <1>6, FilesInit DEF ReceiptInv

LEMMA ReceiptStep == R!AttachmentsAssumption /\ ReceiptInv /\ [R!Next]_(R!vars) => ReceiptInv'
<1> SUFFICES ASSUME R!AttachmentsAssumption, ReceiptInv, [R!Next]_(R!vars) PROVE ReceiptInv'
  OBVIOUS
<1>1. FilesInv'
  BY FilesStep DEF ReceiptInv
<1>2. CASE R!Next
  BY <1>1, <1>2, ShapedStep, UniqueStep, StandingStep, RemainsStep, BalancedStep,
     CountedStep, ClickedStep
  DEF ReceiptInv
<1>3. CASE UNCHANGED R!vars
  BY <1>1, <1>3 DEF R!vars, ReceiptInv, Shaped, Unique, Single, Standing, Remains, Balanced, ComesIn,
     GoesOut, R!KeysOf, Counted, R!Of, Clicked
<1> QED
  BY <1>2, <1>3

LEMMA ReceiptFacts ==
  ASSUME R!AttachmentsAssumption, ReceiptInv
  PROVE  R!TypeOK /\ R!RecordHasFile /\ R!NoOrphans /\ R!WithinLimit /\ R!ShownIsLast
<1> USE DEF ReceiptInv
<1>1. R!TypeOK
  <2>1. recs \subseteq [key : R!Keys, tx : txs, name : {"own", "given"}]
    BY DEF FilesInv, ReceiptTyped, Shaped, Receipt
  <2> QED
    BY <2>1 DEF FilesInv, ReceiptTyped, Shaped, Unique, Remains, R!TypeOK, ReceiptJob
<1>2. R!RecordHasFile
  BY DEF FilesInv
<1>3. R!NoOrphans
  <2> SUFFICES ASSUME jobs = {}, ~overtaken, cut = {} PROVE files \ leftover = R!KeysOf(recs)
    BY DEF R!NoOrphans
  <2>1. files \subseteq R!Keys /\ R!KeysOf(recs) \subseteq R!Keys
    BY DEF Shaped, FilesInv, ReceiptTyped, Receipt, R!KeysOf
  <2>2. \A k \in R!Keys : k \in files \ leftover <=> k \in R!KeysOf(recs)
    BY DEF Balanced, ComesIn, GoesOut
  <2> QED
    BY <2>1, <2>2
<1>4. R!WithinLimit
  BY ReceiptCards DEF Counted, R!WithinLimit
<1>5. R!ShownIsLast
  BY DEF Clicked, R!ShownIsLast
<1> QED
  BY <1>1, <1>2, <1>3, <1>4, <1>5

-----------------------------------------------------------------------------
(* PART THREE: GOALS *)
(* Amounts *)

\* The bounds and the dates are numbers.
LEMMA BoundsAreNat ==
  ASSUME G!GoalsAssumption
  PROVE  5 \in Nat \ {0} /\ MaxGoalEdits \in Nat /\ MonthDays \in Nat \ {0}
  BY DEF G!GoalsAssumption
LEMMA DatesAreNat ==
  ASSUME G!GoalsAssumption PROVE Dates \cup {G!Never} \subseteq Nat
  BY DEF G!GoalsAssumption, G!Never

\* So are the amounts; the goal's workspace is one of the workspaces.
LEMMA AmountsAreNat ==
  ASSUME G!GoalsAssumption PROVE Targets \subseteq Nat /\ {0} \cup Sums \subseteq Nat
  BY DEF G!GoalsAssumption
LEMMA FirstIsSpace ==
  ASSUME G!GoalsAssumption PROVE First \in Spaces
  BY DEF G!GoalsAssumption

\* A sum divided and rounded stays a sum.
LEMMA RoundedIsNat ==
  ASSUME NEW total \in Nat, NEW n \in Nat \ {0}
  PROVE  G!RoundHalfEven(total, n) \in Nat
<1>1. total \div n \in Nat
  OBVIOUS
<1>2. QED
  BY <1>1 DEF G!RoundHalfEven

\* Before the target date at least one month is left to save in.
LEMMA SomeMonthLeft ==
  ASSUME G!GoalsAssumption, NEW day \in Nat \ {0}, NEW by \in Nat, day < by
  PROVE  G!MonthsLeft(day, by) \in Nat \ {0}
<1>1. MonthDays \in Nat \ {0}
  BY BoundsAreNat
<1>2. (day - 1) \div MonthDays \in Int /\ (by - 1) \div MonthDays \in Int
  BY <1>1
<1>3. (day - 1) \div MonthDays <= (by - 1) \div MonthDays
  BY <1>1
<1>4. QED
  BY <1>2, <1>3 DEF G!MonthsLeft, G!Month

\* What a goal holds is the worth of something or its stored amount.
LEMMA HeldIsNat ==
  ASSUME G!GoalsAssumption, NEW g \in G!Goal, worth \in [{"account", "asset"} \X Spaces -> Nat]
  PROVE  G!Held(g) \in Nat
<1>1. CASE G!Linked(g)
  <2>1. g.link[g.tracking] \in Spaces
    BY <1>1 DEF G!Linked, G!Goal
  <2>2. G!Part(g) \in {"account", "asset"}
    BY DEF G!Part
  <2>3. worth[<<G!Part(g), g.link[g.tracking]>>] \in Nat
    BY <2>1, <2>2
  <2>4. QED
    BY <1>1, <2>3 DEF G!Held
<1>2. CASE ~G!Linked(g)
  <2>1. worth[<<"account", First>>] \in Nat /\ worth[<<"asset", First>>] \in Nat
    BY FirstIsSpace
  <2>2. QED
    BY <1>2, <2>1 DEF G!Held, G!Goal
<1>3. QED
  BY <1>1, <1>2

\* What the page tells to put aside is never negative.
LEMMA ContributionIsNat ==
  ASSUME G!GoalsAssumption, NEW g \in G!Goal, NEW current \in Nat, NEW day \in Nat \ {0}
  PROVE  G!Contribution(g, current, day) \in Nat
<1>1. g.target \in Nat /\ g.by \in Nat
  <2>1. g.target \in Nat /\ g.by \in Dates \cup {G!Never}
    BY DEF G!Goal
  <2>2. QED
    BY <2>1, DatesAreNat
<1>2. CASE day >= g.by \/ current >= g.target
  BY <1>2 DEF G!Contribution
<1>3. CASE ~(day >= g.by \/ current >= g.target)
  <2>1. G!MonthsLeft(day, g.by) \in Nat \ {0}
    BY <1>1, <1>3, SomeMonthLeft
  <2>2. g.target - current \in Nat
    BY <1>1, <1>3
  <2>3. G!RoundHalfEven(g.target - current, G!MonthsLeft(day, g.by)) \in Nat
    BY <2>1, <2>2, RoundedIsNat
  <2>4. QED
    BY <1>3, <2>3 DEF G!Contribution
<1>4. QED
  BY <1>2, <1>3

-----------------------------------------------------------------------------
(* Types *)

\* Rows keep their type when links are cleared.
LEMMA KeptLinks ==
  ASSUME NEW link \in [G!Kinds -> Spaces \cup {G!Nothing}], NEW tracking
  PROVE  G!Kept(link, tracking) \in [G!Kinds -> Spaces \cup {G!Nothing}]
  BY DEF G!Kept

\* The row that does not exist is typed.
LEMMA NoGoalTyped == G!NoGoal \in G!Goal
  BY DEF G!NoGoal, G!Goal, G!NoLinks, G!Never

LEMMA GoalInitTyped == G!GoalsAssumption /\ G!Init => G!TypeOK
<1> SUFFICES ASSUME G!GoalsAssumption, G!Init PROVE G!TypeOK
  OBVIOUS
<1>1. today \in 1 .. 5 /\ edits \in 0 .. MaxGoalEdits
  BY BoundsAreNat DEF G!Init
<1>5. strayed \in BOOLEAN
  BY DEF G!Init
<1>2. worth \in [{"account", "asset"} \X Spaces -> Nat]
  BY DEF G!Init
<1>3. goal \in G!Goal /\ goal.start <= today
  BY NoGoalTyped DEF G!Init, G!NoGoal, G!Never
<1>4. QED
  BY <1>1, <1>2, <1>3, <1>5 DEF G!Init, G!TypeOK

\* Every step keeps the types.
LEMMA GoalStepTyped == G!GoalsAssumption /\ G!TypeOK /\ [G!Next]_(G!vars) => G!TypeOK'
<1> SUFFICES ASSUME G!GoalsAssumption, G!TypeOK, [G!Next]_(G!vars) PROVE G!TypeOK'
  OBVIOUS
<1>0. /\ today \in 1 .. 5 /\ edits \in 0 .. MaxGoalEdits /\ goal \in G!Goal
      /\ goal.start <= today /\ worth \in [{"account", "asset"} \X Spaces -> Nat]
      /\ alive \subseteq G!Kinds \X Spaces /\ strayed \in BOOLEAN
      /\ goal.link \in [G!Kinds -> Spaces \cup {G!Nothing}]
  BY DEF G!TypeOK, G!Goal
<1>b. ASSUME G!Bounded PROVE edits' \in 0 .. MaxGoalEdits
  BY <1>0, <1>b, BoundsAreNat DEF G!Bounded
<1>1. ASSUME NEW t \in G!Tracking, NEW k \in G!Kinds, NEW s \in Spaces \cup {G!Nothing},
             NEW x \in Targets, NEW d \in Dates, NEW c \in {0} \cup Sums,
             G!CreateGoal(t, k, s, x, c, d)
      PROVE  G!TypeOK'
  <2> DEFINE g == [tracking |-> t, link |-> G!Kept([G!NoLinks EXCEPT ![k] = s], t),
                   current |-> c, initial |-> 0, target |-> x, start |-> today, by |-> d]
  <2>1. [G!NoLinks EXCEPT ![k] = s] \in [G!Kinds -> Spaces \cup {G!Nothing}]
    BY DEF G!NoLinks
  <2>v. c \in Nat /\ x \in Nat
    BY AmountsAreNat
  <2>b. today \in Nat
    BY <1>0, BoundsAreNat
  <2>2. G!Kept([G!NoLinks EXCEPT ![k] = s], t) \in [G!Kinds -> Spaces \cup {G!Nothing}]
    BY <2>1, KeptLinks
  <2>3. g \in G!Goal
    BY <2>2, <2>v, <2>b DEF G!Goal
  <2>4. G!Held(g) \in Nat
    BY <1>0, <2>3, HeldIsNat
  <2>5. goal' = [g EXCEPT !.initial = G!Held(g)]
    BY <1>1 DEF G!CreateGoal
  <2>6. goal' \in G!Goal /\ goal'.start = today
    BY <2>3, <2>4, <2>5 DEF G!Goal
  <2>7. strayed' = FALSE /\ edits' \in 0 .. MaxGoalEdits /\ UNCHANGED <<today, alive, worth>>
    BY <1>1, <1>b DEF G!CreateGoal
  <2>8. goal'.start <= today'
    BY <1>0, <2>6, <2>7
  <2>9. QED
    BY <1>0, <2>6, <2>7, <2>8 DEF G!TypeOK
<1>2. ASSUME NEW t \in G!Tracking, NEW k \in G!Kinds, NEW s \in Spaces \cup {G!Nothing},
             NEW x \in Targets, NEW d \in Dates, G!UpdateGoal(t, k, s, x, d)
      PROVE  G!TypeOK'
  <2>1. [goal.link EXCEPT ![k] = s] \in [G!Kinds -> Spaces \cup {G!Nothing}]
    BY <1>0
  <2>2. G!Kept([goal.link EXCEPT ![k] = s], t) \in [G!Kinds -> Spaces \cup {G!Nothing}]
    BY <2>1, KeptLinks
  <2>3. x \in Nat
    BY AmountsAreNat
  <2>4. goal' \in G!Goal /\ goal'.start = goal.start
    BY <1>0, <1>2, <2>2, <2>3 DEF G!UpdateGoal, G!Goal
  <2>5. QED
    BY <1>0, <1>2, <1>b, <2>4 DEF G!UpdateGoal, G!TypeOK
<1>3. CASE G!DeleteGoal
  BY <1>0, <1>3, <1>b, NoGoalTyped DEF G!DeleteGoal, G!TypeOK, G!NoGoal, G!Never
<1>4. CASE G!PutAside
  <2>1. G!Held(goal) \in Nat /\ today \in Nat \ {0}
    BY <1>0, HeldIsNat, BoundsAreNat
  <2> DEFINE sum == G!Contribution(goal, G!Held(goal), today)
             source == <<IF G!Linked(goal) THEN G!Part(goal) ELSE "account", First>>
  <2>2. sum \in Nat
    BY <1>0, <2>1, ContributionIsNat
  <2> HIDE DEF sum
  <2>3. CASE goal' = [goal EXCEPT !.current = @ + sum] /\ worth' = worth
    <3>1. goal' \in G!Goal /\ goal'.start = goal.start
      BY <1>0, <2>2, <2>3 DEF G!Goal
    <3>2. QED
      BY <1>0, <1>4, <1>b, <2>3, <3>1 DEF G!PutAside, G!TypeOK
  <2>4. CASE goal' = goal /\ worth' = [worth EXCEPT ![source] = @ + sum]
    <3>1. source \in {"account", "asset"} \X Spaces
      BY FirstIsSpace DEF G!Part
    <3> HIDE DEF source
    <3>2. worth' \in [{"account", "asset"} \X Spaces -> Nat]
      BY <1>0, <2>2, <2>4, <3>1
    <3>3. QED
      BY <1>0, <1>4, <1>b, <2>4, <3>2 DEF G!PutAside, G!TypeOK
  <2>5. QED
    BY <1>4, <2>3, <2>4 DEF G!PutAside, sum
<1>5. CASE G!DayPasses
  BY <1>0, <1>5, BoundsAreNat DEF G!DayPasses, G!TypeOK, G!Goal
<1>6. ASSUME NEW k \in G!Kinds, NEW s \in Spaces, G!DeleteTracked(k, s) PROVE G!TypeOK'
  <2>1. goal' \in G!Goal /\ goal'.start = goal.start
    BY <1>0, <1>6 DEF G!DeleteTracked, G!Goal
  <2>2. worth' \in [{"account", "asset"} \X Spaces -> Nat]
    BY <1>0, <1>6 DEF G!DeleteTracked
  <2>3. QED
    BY <1>0, <1>6, <1>b, <2>1, <2>2 DEF G!DeleteTracked, G!TypeOK
<1>7. ASSUME NEW k \in {"account", "asset"}, NEW s \in Spaces, NEW sum \in Int, G!Move(k, s, sum)
      PROVE  G!TypeOK'
  <2>1. <<k, s>> \in {"account", "asset"} \X Spaces
    OBVIOUS
  <2>2. worth'[<<k, s>>] = worth[<<k, s>>] + sum /\ worth'[<<k, s>>] >= 0
    BY <1>0, <1>7, <2>1 DEF G!Move
  <2>3. worth'[<<k, s>>] \in Nat
    BY <1>0, <2>1, <2>2
  <2>4. worth' \in [{"account", "asset"} \X Spaces -> Nat]
    BY <1>0, <1>7, <2>1, <2>3 DEF G!Move
  <2>5. QED
    BY <1>0, <1>7, <1>b, <2>4 DEF G!Move, G!TypeOK
<1>8. CASE UNCHANGED G!vars
  BY <1>0, <1>8 DEF G!vars, G!TypeOK
<1>9. ASSUME NEW x \in Sums PROVE x \in Int /\ -x \in Int
  BY AmountsAreNat
<1>10. QED
  BY <1>1, <1>2, <1>3, <1>4, <1>5, <1>6, <1>7, <1>8, <1>9 DEF G!Next

-----------------------------------------------------------------------------
(* What a goal names *)

\* Every step leaves the goal with links of its own (Kept clears the others).
LEMMA StepTracksItsOwn == G!TypeOK /\ G!TracksItsOwn /\ [G!Next]_(G!vars) => G!TracksItsOwn'
<1> SUFFICES ASSUME G!TypeOK, G!TracksItsOwn, [G!Next]_(G!vars),
                    NEW i \in G!Kinds, goal'.link[i] # G!Nothing
             PROVE  i = goal'.tracking /\ goal'.link[i] = First /\ <<i, First>> \in alive'
  BY DEF G!TracksItsOwn
<1>0. goal \in G!Goal /\ goal.link \in [G!Kinds -> Spaces \cup {G!Nothing}]
  BY DEF G!TypeOK, G!Goal
<1>v. goal.link[i] # G!Nothing => i = goal.tracking /\ goal.link[i] = First /\ <<i, First>> \in alive
  BY DEF G!TracksItsOwn
<1>1. ASSUME NEW t \in G!Tracking, NEW k \in G!Kinds, NEW s \in Spaces \cup {G!Nothing},
             NEW x \in Targets, NEW d \in Dates, NEW c \in {0} \cup Sums,
             G!CreateGoal(t, k, s, x, c, d)
      PROVE  i = goal'.tracking /\ goal'.link[i] = First /\ <<i, First>> \in alive'
  <2>1. /\ goal'.tracking = t /\ goal'.link = G!Kept([G!NoLinks EXCEPT ![k] = s], t)
        /\ alive' = alive /\ G!InScope(k, s)
    BY <1>1 DEF G!CreateGoal
  <2> DEFINE wanted == [G!NoLinks EXCEPT ![k] = s]
  <2> HIDE DEF wanted
  <2>v. goal'.link = G!Kept(wanted, t)
    BY <2>1 DEF wanted
  <2>2. i = t /\ goal'.link[i] = wanted[i]
    BY <2>v DEF G!Kept
  <2>3. i = k /\ goal'.link[i] = s
    BY <2>2 DEF G!NoLinks, wanted
  <2>4. QED
    BY <2>1, <2>2, <2>3 DEF G!InScope
<1>2. ASSUME NEW t \in G!Tracking, NEW k \in G!Kinds, NEW s \in Spaces \cup {G!Nothing},
             NEW x \in Targets, NEW d \in Dates, G!UpdateGoal(t, k, s, x, d)
      PROVE  i = goal'.tracking /\ goal'.link[i] = First /\ <<i, First>> \in alive'
  <2>1. /\ goal'.tracking = t /\ goal'.link = G!Kept([goal.link EXCEPT ![k] = s], t)
        /\ alive' = alive /\ G!InScope(k, s)
    BY <1>0, <1>2 DEF G!UpdateGoal, G!Goal
  <2> DEFINE wanted == [goal.link EXCEPT ![k] = s]
  <2> HIDE DEF wanted
  <2>v. goal'.link = G!Kept(wanted, t)
    BY <2>1 DEF wanted
  <2>2. i = t /\ goal'.link[i] = wanted[i]
    BY <2>v DEF G!Kept
  <2>3. CASE i = k
    BY <1>0, <2>1, <2>2, <2>3 DEF G!InScope, wanted
  <2>4. CASE i # k
    BY <1>0, <1>v, <2>1, <2>2, <2>4 DEF wanted
  <2>5. QED
    BY <2>3, <2>4
<1>3. CASE G!DeleteGoal
  BY <1>3 DEF G!DeleteGoal, G!NoGoal, G!NoLinks
<1>4. CASE G!PutAside
  <2>1. goal'.link = goal.link /\ goal'.tracking = goal.tracking /\ alive' = alive
    BY <1>0, <1>4 DEF G!PutAside, G!Goal
  <2>2. QED
    BY <1>v, <2>1
<1>5. CASE G!DayPasses
  BY <1>v, <1>5 DEF G!DayPasses
<1>6. ASSUME NEW k \in G!Kinds, NEW s \in Spaces, G!DeleteTracked(k, s)
      PROVE  i = goal'.tracking /\ goal'.link[i] = First /\ <<i, First>> \in alive'
  <2>1. /\ goal'.tracking = goal.tracking /\ alive' = alive \ {<<k, s>>}
        /\ goal'.link = IF goal.link[k] = s THEN [goal.link EXCEPT ![k] = G!Nothing] ELSE goal.link
    BY <1>0, <1>6 DEF G!DeleteTracked, G!Goal
  <2>2. goal'.link[i] = goal.link[i] /\ (i = k => goal.link[i] # s)
    BY <1>0, <2>1
  <2>3. QED
    BY <1>v, <2>1, <2>2
<1>7. ASSUME NEW k \in {"account", "asset"}, NEW s \in Spaces, NEW sum, G!Move(k, s, sum)
      PROVE  i = goal'.tracking /\ goal'.link[i] = First /\ <<i, First>> \in alive'
  BY <1>v, <1>7 DEF G!Move
<1>8. CASE UNCHANGED G!vars
  BY <1>v, <1>8 DEF G!vars
<1>9. QED
  BY <1>1, <1>2, <1>3, <1>4, <1>5, <1>6, <1>7, <1>8 DEF G!Next

-----------------------------------------------------------------------------
(* The pace *)

\* The order of the verdicts.
LEMMA Ranks ==
  /\ G!Rank["achieved"] = 4 /\ G!Rank["ahead"] = 3 /\ G!Rank["on_track"] = 2
  /\ G!Rank["behind"] = 1 /\ G!Rank["overdue"] = 0
  BY DEF G!Rank

\* The day is a number.
LEMMA TodayIsNat == G!GoalsAssumption /\ G!TypeOK => today \in Nat \ {0}
  BY BoundsAreNat DEF G!TypeOK

\* One day more lowers what is ahead of the plan by the sum that is needed.
LEMMA PlanGrows ==
  ASSUME NEW needed \in Int, NEW g \in G!Goal, NEW day \in Int, g.start \in Int
  PROVE  /\ G!Expected(needed, g, day + 1) = G!Expected(needed, g, day) + needed
         /\ G!Expected(needed, g, day) \in Int
<1> DEFINE gone == day - g.start
<1>1. gone \in Int /\ (day + 1) - g.start = gone + 1
  OBVIOUS
<1>2. needed * (gone + 1) = needed * gone + needed
  BY <1>1
<1>3. QED
  BY <1>1, <1>2 DEF G!Expected

\* With the same amount, a day later the verdict is no better.
LEMMA LaterIsNoBetter ==
  ASSUME NEW g \in G!Goal, g.by \in Nat, NEW current \in Nat, NEW day \in Nat
  PROVE  G!Rank[G!OnTrack(g, current, day + 1)] <= G!Rank[G!OnTrack(g, current, day)]
<1>0. g.target \in Nat /\ g.initial \in Nat /\ g.start \in Nat
  BY DEF G!Goal
<1> DEFINE days == g.by - g.start
           needed == g.target - g.initial
           saved == days * (current - g.initial)
           planned == G!Expected(needed, g, day)
<1>1. CASE current >= g.target
  BY <1>1, Ranks DEF G!OnTrack
<1>2. CASE current < g.target /\ day + 1 > g.by
  <2>1. G!OnTrack(g, current, day + 1) = "overdue"
    BY <1>0, <1>2 DEF G!OnTrack
  <2>2. G!OnTrack(g, current, day) \in {"achieved", "ahead", "on_track", "behind", "overdue"}
    BY DEF G!OnTrack
  <2>3. QED
    BY <2>1, <2>2, Ranks
<1>3. CASE current < g.target /\ day + 1 <= g.by
  <2>1. ~(current >= g.target) /\ ~(day > g.by) /\ ~(day + 1 > g.by)
    BY <1>0, <1>3
  <2>2. CASE days <= 0
    BY <2>1, <2>2, Ranks DEF G!OnTrack
  <2>3. CASE ~(days <= 0) /\ needed <= 0
    BY <2>1, <2>3, Ranks DEF G!OnTrack
  <2>4. CASE ~(days <= 0) /\ ~(needed <= 0)
    <3>1. days \in Int /\ needed \in Int /\ needed > 0 /\ current - g.initial \in Int
      BY <1>0, <2>4
    <3>2. saved \in Int /\ needed * days \in Int
      BY <3>1
    <3>v. g.start \in Int /\ day \in Int
      BY <1>0
    <3>3. planned \in Int /\ G!Expected(needed, g, day + 1) = planned + needed
      <4> HIDE DEF needed
      <4>1. QED
        BY <3>v, <3>1, PlanGrows
    <3> DEFINE now == saved - planned
               verdict(v) == IF 10 * v >= needed * days THEN "ahead"
                             ELSE IF 20 * v >= -(needed * days) THEN "on_track"
                             ELSE "behind"
    <3>4. G!OnTrack(g, current, day) = verdict(now)
      BY <2>1, <2>4 DEF G!OnTrack
    <3>5. G!OnTrack(g, current, day + 1) = verdict(saved - G!Expected(needed, g, day + 1))
      BY <2>1, <2>4 DEF G!OnTrack
    <3>6. saved - G!Expected(needed, g, day + 1) = now - needed /\ now \in Int
      BY <3>1, <3>2, <3>3
    <3> DEFINE due == needed * days
    <3> HIDE DEF now, days, needed, saved, planned, due
    <3>7. G!Rank[verdict(now - needed)] <= G!Rank[verdict(now)]
      <4>1. now \in Int /\ needed \in Int /\ needed > 0 /\ due \in Int
        BY <3>1, <3>2, <3>6 DEF due
      <4>2. 10 * (now - needed) >= due => 10 * now >= due
        BY <4>1
      <4>3. 20 * (now - needed) >= -due => 20 * now >= -due
        BY <4>1
      <4>4. 10 * now >= due => 10 * now >= due
        OBVIOUS
      <4>5. QED
        BY <4>2, <4>3, Ranks DEF due
    <3>8. QED
      BY <3>4, <3>5, <3>6, <3>7
  <2>5. QED
    BY <2>2, <2>3, <2>4
<1>4. QED
  BY <1>0, <1>1, <1>2, <1>3

\* A day on which nothing changes never makes the verdict better.
LEMMA PaceIsKept == ASSUME G!GoalsAssumption PROVE G!TypeOK /\ [G!Next]_(G!vars) => G!PaceStep
<1> SUFFICES ASSUME G!TypeOK, [G!Next]_(G!vars), today' # today, goal.by # G!Never
             PROVE  G!Rank[G!OnTrack(goal', G!Held(goal'), today')]
                      <= G!Rank[G!OnTrack(goal, G!Held(goal), today)]
  BY DEF G!PaceStep
<1>1. CASE G!DayPasses
  <2>1. goal' = goal /\ worth' = worth /\ today' = today + 1
    BY <1>1 DEF G!DayPasses
  <2>2. G!Held(goal)' = G!Held(goal)
    BY <2>1 DEF G!Held, G!Linked, G!Part
  <2>3. goal \in G!Goal /\ today \in Nat /\ worth \in [{"account", "asset"} \X Spaces -> Nat]
    BY BoundsAreNat DEF G!TypeOK
  <2>4. goal.by \in Dates \cup {G!Never}
    BY <2>3 DEF G!Goal
  <2>5. goal.by \in Nat /\ G!Held(goal) \in Nat
    BY <2>3, <2>4, DatesAreNat, HeldIsNat
  <2>6. G!Rank[G!OnTrack(goal, G!Held(goal), today + 1)] <= G!Rank[G!OnTrack(goal, G!Held(goal), today)]
    BY <2>3, <2>5, LaterIsNoBetter
  <2>7. QED
    BY <2>1, <2>2, <2>6
<1>2. CASE ~G!DayPasses
  <2>1. CASE UNCHANGED G!vars
    BY <2>1 DEF G!vars
  <2>2. ASSUME NEW t, NEW k, NEW s, NEW x, NEW d, NEW c, G!CreateGoal(t, k, s, x, c, d)
        PROVE  today' = today
    BY <2>2 DEF G!CreateGoal
  <2>3. ASSUME NEW t, NEW k, NEW s, NEW x, NEW d, G!UpdateGoal(t, k, s, x, d)
        PROVE  today' = today
    BY <2>3 DEF G!UpdateGoal
  <2>4. ASSUME NEW k, NEW s, G!DeleteTracked(k, s) PROVE today' = today
    BY <2>4 DEF G!DeleteTracked
  <2>5. ASSUME NEW k, NEW s, NEW x, G!Move(k, s, x) PROVE today' = today
    BY <2>5 DEF G!Move
  <2>6. CASE G!DeleteGoal \/ G!PutAside
    BY <2>6 DEF G!DeleteGoal, G!PutAside
  <2>7. QED
    BY <1>2, <2>1, <2>2, <2>3, <2>4, <2>5, <2>6 DEF G!Next
<1>3. QED
  BY <1>1, <1>2

-----------------------------------------------------------------------------
(* Saving what the page says *)

\* The last month in which the page asks for something.
LastDue(g) ==
  IF G!Month(g.by) = G!Month(g.start) THEN G!Month(g.by) ELSE G!Month(g.by) - 1

\* In that month the page asks for all that is missing: who put it aside has
\* the target, as long as nothing else moves.
Saved ==
  goal.by > goal.start /\ ~strayed /\ LastDue(goal) \in paid => G!Held(goal) >= goal.target

GoalInv == G!TypeOK /\ G!TracksItsOwn /\ Saved

LEMMA GoalInit == G!GoalsAssumption /\ G!Init => GoalInv
<1> SUFFICES ASSUME G!GoalsAssumption, G!Init PROVE GoalInv
  OBVIOUS
<1>1. G!TypeOK
  BY GoalInitTyped
<1>2. G!TracksItsOwn
  BY DEF G!Init, G!TracksItsOwn, G!NoGoal, G!NoLinks
<1>3. Saved
  BY DEF G!Init, Saved, G!NoGoal
<1> QED
  BY <1>1, <1>2, <1>3 DEF GoalInv

\* What is put aside counts for the goal, in full.
LEMMA PutAsideCounts ==
  ASSUME G!GoalsAssumption, G!TypeOK, G!TracksItsOwn, G!PutAside
  PROVE  /\ G!Held(goal)' = G!Held(goal) + G!Contribution(goal, G!Held(goal), today)
         /\ goal'.by = goal.by /\ goal'.start = goal.start /\ goal'.target = goal.target
<1> DEFINE sum == G!Contribution(goal, G!Held(goal), today)
           source == <<IF G!Linked(goal) THEN G!Part(goal) ELSE "account", First>>
<1>0. goal \in G!Goal /\ worth \in [{"account", "asset"} \X Spaces -> Nat] /\ First \in Spaces
  BY FirstIsSpace DEF G!TypeOK
<1>1. CASE ~G!Linked(goal) /\ goal.tracking # "net_worth"
  <2>1. goal' = [goal EXCEPT !.current = @ + sum] /\ worth' = worth
    BY <1>1 DEF G!PutAside
  <2> HIDE DEF sum
  <2>2. /\ goal'.tracking = goal.tracking /\ goal'.link = goal.link
        /\ goal'.current = goal.current + sum
        /\ goal'.by = goal.by /\ goal'.start = goal.start /\ goal'.target = goal.target
    BY <1>0, <2>1 DEF G!Goal
  <2>3. G!Held(goal) = goal.current /\ G!Held(goal)' = goal'.current
    BY <1>1, <2>2 DEF G!Held, G!Linked
  <2> QED
    BY <2>2, <2>3 DEF sum
<1>2. CASE G!Linked(goal) \/ goal.tracking = "net_worth"
  <2>1. goal' = goal /\ worth' = [worth EXCEPT ![source] = @ + sum]
    BY <1>2 DEF G!PutAside
  <2> HIDE DEF sum
  <2>2. CASE G!Linked(goal)
    <3>1. goal.link[goal.tracking] = First
      BY <2>2 DEF G!Linked, G!TracksItsOwn
    <3>2. source = <<G!Part(goal), First>> /\ source \in {"account", "asset"} \X Spaces
      BY <1>0, <2>2 DEF G!Part
    <3>3. G!Held(goal) = worth[source]
      BY <2>2, <3>1, <3>2 DEF G!Held
    <3>4. G!Held(goal)' = worth'[source]
      BY <2>1, <2>2, <3>1, <3>2 DEF G!Held, G!Linked, G!Part
    <3> HIDE DEF source
    <3> QED
      BY <1>0, <2>1, <3>2, <3>3, <3>4 DEF sum
  <2>3. CASE ~G!Linked(goal)
    <3>1. source = <<"account", First>>
      BY <2>3
    <3>2. G!Held(goal) = worth[<<"account", First>>] + worth[<<"asset", First>>]
      BY <1>2, <2>3 DEF G!Held
    <3>3. G!Held(goal)' = worth'[<<"account", First>>] + worth'[<<"asset", First>>]
      BY <1>2, <2>1, <2>3 DEF G!Held, G!Linked
    <3>4. /\ worth'[<<"account", First>>] = worth[<<"account", First>>] + sum
          /\ worth'[<<"asset", First>>] = worth[<<"asset", First>>]
      BY <1>0, <2>1, <3>1
    <3>5. worth[<<"account", First>>] \in Nat /\ worth[<<"asset", First>>] \in Nat
      BY <1>0
    <3>6. sum \in Nat
      BY <1>0, HeldIsNat, ContributionIsNat, TodayIsNat DEF sum
    <3> QED
      BY <2>1, <3>2, <3>3, <3>4, <3>5, <3>6 DEF sum
  <2> QED
    BY <2>2, <2>3
<1> QED
  BY <1>1, <1>2

LEMMA SavedStep == G!GoalsAssumption /\ GoalInv /\ [G!Next]_(G!vars) => Saved'
<1> SUFFICES ASSUME G!GoalsAssumption, GoalInv, [G!Next]_(G!vars),
                    goal'.by > goal'.start, ~strayed', LastDue(goal') \in paid'
             PROVE  G!Held(goal)' >= goal'.target
  BY DEF Saved, LastDue
<1>0. /\ goal \in G!Goal /\ worth \in [{"account", "asset"} \X Spaces -> Nat]
      /\ goal.target \in Nat /\ goal.start \in Nat
      /\ goal.by \in Nat /\ today \in Nat /\ MonthDays \in Nat \ {0}
  BY DatesAreNat, TodayIsNat, BoundsAreNat DEF GoalInv, G!TypeOK, G!Goal
<1>1. CASE G!PutAside
  <2> DEFINE held == G!Held(goal)
             sum == G!Contribution(goal, held, today)
  <2>1. /\ G!Held(goal)' = held + sum
        /\ goal'.by = goal.by /\ goal'.start = goal.start /\ goal'.target = goal.target
    BY <1>1, PutAsideCounts DEF GoalInv
  <2>2. held \in Nat /\ sum \in Nat
    BY <1>0, TodayIsNat, HeldIsNat, ContributionIsNat DEF GoalInv
  <2>3. strayed' = strayed /\ paid' = paid \cup {G!Month(today)} /\ today < goal.by
    BY <1>1 DEF G!PutAside
  <2>4. CASE LastDue(goal) \in paid
    <3>1. held >= goal.target
      BY <2>1, <2>3, <2>4 DEF GoalInv, Saved
    <3> HIDE DEF held, sum
    <3> QED
      BY <1>0, <2>1, <2>2, <3>1
  <2>5. CASE LastDue(goal) = G!Month(today)
    <3>1. CASE held >= goal.target
      <4> HIDE DEF held, sum
      <4> QED
        BY <1>0, <2>1, <2>2, <3>1
    <3>2. CASE ~(held >= goal.target)
      <4>1. G!MonthsLeft(today, goal.by) = 1
        <5>1. G!Month(today) \in Int /\ G!Month(goal.by) \in Int
          BY <1>0 DEF G!Month
        <5> QED
          BY <2>5, <5>1 DEF LastDue, G!MonthsLeft
      <4>2. sum = G!RoundHalfEven(goal.target - held, 1)
        BY <1>0, <2>2, <2>3, <3>2, <4>1 DEF G!Contribution
      <4>3. goal.target - held \in Nat
        BY <1>0, <2>2, <3>2
      <4>4. G!RoundHalfEven(goal.target - held, 1) = goal.target - held
        BY <4>3 DEF G!RoundHalfEven
      <4> HIDE DEF held, sum
      <4> QED
        BY <1>0, <2>1, <2>2, <4>2, <4>4
    <3> QED
      BY <3>1, <3>2
  <2>6. LastDue(goal') = LastDue(goal)
    BY <2>1 DEF LastDue
  <2> QED
    BY <2>3, <2>4, <2>5, <2>6
<1>2. CASE G!DayPasses \/ UNCHANGED G!vars
  <2>1. goal' = goal /\ worth' = worth /\ paid' = paid /\ strayed' = strayed
    BY <1>2 DEF G!DayPasses, G!vars
  <2>2. G!Held(goal)' = G!Held(goal)
    BY <2>1 DEF G!Held, G!Linked, G!Part
  <2> QED
    BY <2>1, <2>2 DEF GoalInv, Saved, LastDue
<1>3. ASSUME NEW t, NEW k, NEW s, NEW x, NEW d, NEW c, G!CreateGoal(t, k, s, x, c, d)
      PROVE  FALSE
  BY <1>3 DEF G!CreateGoal
<1>4. ASSUME NEW t, NEW k, NEW s, NEW x, NEW d, G!UpdateGoal(t, k, s, x, d) PROVE FALSE
  BY <1>4 DEF G!UpdateGoal
<1>5. CASE G!DeleteGoal
  BY <1>5 DEF G!DeleteGoal, G!NoGoal, G!Never
<1>6. ASSUME NEW k, NEW s, G!DeleteTracked(k, s) PROVE FALSE
  BY <1>6 DEF G!DeleteTracked
<1>7. ASSUME NEW k, NEW s, NEW x, G!Move(k, s, x) PROVE FALSE
  BY <1>7 DEF G!Move
<1> QED
  BY <1>1, <1>2, <1>3, <1>4, <1>5, <1>6, <1>7 DEF G!Next

LEMMA GoalStep == G!GoalsAssumption /\ GoalInv /\ [G!Next]_(G!vars) => GoalInv'
  BY GoalStepTyped, StepTracksItsOwn, SavedStep DEF GoalInv

\* Some month is due, the last of them among them.
LEMMA GoalFacts ==
  G!GoalsAssumption /\ GoalInv => G!TypeOK /\ G!TracksItsOwn /\ G!SavingReaches
<1> SUFFICES ASSUME G!GoalsAssumption, GoalInv, goal.by > goal.start, ~strayed,
                    G!Month(goal.start) .. LastDue(goal) \subseteq paid
             PROVE  G!Held(goal) >= goal.target
  BY DEF GoalInv, G!SavingReaches, LastDue
<1>1. goal.start \in Nat /\ goal.by \in Nat /\ MonthDays \in Nat \ {0}
  BY DatesAreNat, BoundsAreNat DEF GoalInv, G!TypeOK, G!Goal
<1>2. /\ G!Month(goal.start) \in Int /\ G!Month(goal.by) \in Int
      /\ G!Month(goal.start) <= G!Month(goal.by)
  BY <1>1 DEF G!Month
<1>3. LastDue(goal) \in Int /\ G!Month(goal.start) <= LastDue(goal)
  BY <1>2 DEF LastDue
<1> QED
  BY <1>2, <1>3 DEF GoalInv, Saved

-----------------------------------------------------------------------------
(* PART FOUR: INSTALMENTS *)
(* The calendar and the sums of the plan *)

LEMMA PlanSums == \A f : P!SumFunction(f) = SumOver(f, DOMAIN f)
<1>1. ASSUME NEW f, NEW S PROVE P!SumFunctionOnSet(f, S) = SumOver(f, S)
  <2> DEFINE F(h) == [s \in SUBSET S |-> IF s = {} THEN 0 ELSE f[Some(s)] + h[s \ {Some(s)}]]
  <2>1. P!SumFunctionOnSet(f, S) = (CHOOSE h : h = F(h))[S]
    BY Zenon DEF P!SumFunctionOnSet, P!FoldFunctionOnSet, P!MapThenFoldSet, Some
  <2>2. \A h : AddsUpOn(f, S, h) <=> h = F(h)
    BY DEF AddsUpOn
  <2>3. (CHOOSE h : h = F(h)) = (CHOOSE h : AddsUpOn(f, S, h))
    <3> HIDE DEF F
    <3> QED
      BY <2>2, Zenon
  <2> HIDE DEF F
  <2> QED
    BY <2>1, <2>3 DEF SumOver
<1> QED
  BY <1>1 DEF P!SumFunction

LEMMA PlanMonths ==
  /\ \A m : P!MonthStart(m) = MonthStart(m) /\ P!MonthLength(m) = MonthLength(m)
  /\ \A d : P!MonthOf(d) = MonthOf(d)
  /\ \A m, n : P!ClampDay(m, n) = ClampDay(m, n)
<1>1. \A m : P!MonthStart(m) = MonthStart(m) /\ P!MonthLength(m) = MonthLength(m)
  BY DEF P!MonthStart, MonthStart, P!Passed, Passed, P!MonthLength, MonthLength
<1>2. \A d : P!MonthOf(d) = MonthOf(d)
  BY <1>1, Zenon DEF P!MonthOf, MonthOf
<1>3. \A m, n : P!ClampDay(m, n) = ClampDay(m, n)
  BY <1>1 DEF P!ClampDay, ClampDay
<1> QED
  BY <1>1, <1>2, <1>3

LEMMA PlanDates ==
  /\ \A d, n : P!FirstAfter(d, n) = FirstAfter(d, n)
  /\ \A d, c, u : P!ComputeEffectiveDate(d, c, u) = ComputeEffectiveDate(d, c, u)
  /\ P!NoDay = 0
<1>1. \A d, n : P!FirstAfter(d, n) = FirstAfter(d, n)
  BY PlanMonths DEF P!FirstAfter, FirstAfter
<1>2. P!NoDay = 0
  BY DEF P!NoDay
<1> QED
  BY <1>1, <1>2 DEF P!ComputeEffectiveDate, ComputeEffectiveDate, NoDay

\* The next day n of a month, and a later one for a later day.
LEMMA FirstAfterGrows ==
  ASSUME NEW d \in Nat \ {0}, NEW e \in Nat \ {0}, d <= e, NEW n \in 1 .. 31
  PROVE  /\ FirstAfter(d, n) \in Nat \ {0} /\ FirstAfter(e, n) \in Nat \ {0}
         /\ FirstAfter(d, n) <= FirstAfter(e, n)
<1>1. PICK m \in Nat : /\ FirstAfter(d, n) = ClampDay(m, n)
                       /\ ClampDay(m - 1, n) <= d /\ d < ClampDay(m, n)
  BY FirstAfterIs
<1>2. PICK k \in Nat : /\ FirstAfter(e, n) = ClampDay(k, n)
                       /\ ClampDay(k - 1, n) <= e /\ e < ClampDay(k, n)
  BY FirstAfterIs
<1>3. m - 1 \in Int /\ k - 1 \in Int
  BY <1>1, <1>2
<1>4. /\ ClampDay(m, n) \in Int /\ ClampDay(k, n) \in Int /\ ClampDay(m - 1, n) \in Int
  <2>1. m \in Int /\ k \in Int
    BY <1>1, <1>2
  <2> QED
    BY <1>3, <2>1, ClampIs
<1>5. ~(k < m)
  <2> SUFFICES ASSUME k < m PROVE FALSE
    OBVIOUS
  <2>1. CASE k = m - 1
    BY <1>1, <1>2, <1>4, <2>1
  <2>2. CASE k < m - 1
    <3>1. ClampDay(k, n) < ClampDay(m - 1, n)
      BY <1>2, <1>3, <2>2, ClampGrows
    <3> QED
      BY <1>1, <1>2, <1>4, <3>1
  <2> QED
    BY <1>1, <1>2, <2>1, <2>2
<1>6. m = k \/ ClampDay(m, n) < ClampDay(k, n)
  BY <1>1, <1>2, <1>5, ClampGrows
<1> QED
  BY <1>1, <1>2, <1>4, <1>6

\* A statement falls due after the purchase, and no earlier for a later one.
LEMMA StatementsInOrder ==
  ASSUME NEW d \in Nat \ {0}, NEW e \in Nat \ {0}, d <= e, NEW c \in 0 .. 31, NEW u \in 0 .. 31
  PROVE  /\ ComputeEffectiveDate(d, c, u) \in Nat /\ ComputeEffectiveDate(e, c, u) \in Nat
         /\ ComputeEffectiveDate(d, c, u) <= ComputeEffectiveDate(e, c, u)
<1>1. CASE c = 0 \/ u = 0
  BY <1>1 DEF ComputeEffectiveDate, NoDay
<1>2. CASE c # 0 /\ u # 0
  <2>1. c \in 1 .. 31 /\ u \in 1 .. 31
    BY <1>2
  <2>2. /\ FirstAfter(d, c) \in Nat \ {0} /\ FirstAfter(e, c) \in Nat \ {0}
        /\ FirstAfter(d, c) <= FirstAfter(e, c)
    BY <2>1, FirstAfterGrows
  <2>3. /\ FirstAfter(FirstAfter(d, c), u) \in Nat \ {0} /\ FirstAfter(FirstAfter(e, c), u) \in Nat \ {0}
        /\ FirstAfter(FirstAfter(d, c), u) <= FirstAfter(FirstAfter(e, c), u)
    BY <2>1, <2>2, FirstAfterGrows
  <2> QED
    BY <1>2, <2>3 DEF ComputeEffectiveDate, NoDay
<1> QED
  BY <1>1, <1>2

\* The day of the purchase, some months on.
LEMMA MonthsOn ==
  ASSUME NEW d \in Nat \ {0}, NEW k \in Nat
  PROVE  /\ P!AddMonths(d, k) \in Nat \ {0}
         /\ P!AddMonths(d, k) < P!AddMonths(d, k + 1)
<1> DEFINE m == MonthOf(d)
           n == d - MonthStart(m) + 1
<1>1. m \in Nat /\ MonthStart(m) <= d /\ d < MonthStart(m + 1)
  BY MonthOfIs
<1>2. \A j : P!AddMonths(d, j) = ClampDay(m + j, n)
  BY PlanMonths DEF P!AddMonths, P!DayOfMonth
<1> HIDE DEF m
<1>3. n \in 1 .. 31
  <2>1. /\ MonthStart(m) \in Int /\ MonthLength(m) \in 28 .. 31
        /\ MonthStart(m + 1) = MonthStart(m) + MonthLength(m)
    BY <1>1, MonthHas
  <2> QED
    BY <1>1, <2>1
<1> HIDE DEF n
<1>4. m + k \in Int /\ m + (k + 1) \in Int /\ m + k < m + (k + 1) /\ 0 <= m + k
  BY <1>1
<1>5. ClampDay(m + k, n) < ClampDay(m + (k + 1), n)
  BY <1>3, <1>4, ClampGrows
<1>6. ClampDay(m + k, n) \in Int /\ ClampDay(m + k, n) >= MonthStart(m + k)
      /\ MonthStart(m + k) \in Int
  BY <1>3, <1>4, ClampIs, MonthHas
<1>7. MonthStart(m + k) >= MonthStart(0) + 28 * (m + k - 0)
  BY <1>4, MonthsApart
<1>8. MonthStart(0) = 1
  <2>1. 0 \div 12 = 0 /\ 0 % 12 = 0
    BY SMT
  <2> QED
    BY <2>1, PassedIs DEF MonthStart
<1>9. ClampDay(m + k, n) \in Nat \ {0}
  BY <1>4, <1>6, <1>7, <1>8
<1> QED
  BY <1>2, <1>5, <1>9

-----------------------------------------------------------------------------
(* What a plan is cut into *)

\* A part is off by half a cent at most: all of them by half a cent for each.
LEMMA Rounded ==
  ASSUME NEW t \in Nat, NEW n \in 2 .. 60
  PROVE  /\ P!RoundHalfEven(t, n) \in Nat
         /\ -n <= 2 * (t - P!RoundHalfEven(t, n) * n)
         /\ 2 * (t - P!RoundHalfEven(t, n) * n) <= n
<1> DEFINE q == t \div n
           r == t % n
<1>1. q \in Nat /\ r \in 0 .. n - 1 /\ t = n * q + r
  BY SMT
<1>2. P!RoundHalfEven(t, n) = IF 2 * r > n \/ (2 * r = n /\ q % 2 = 1) THEN q + 1 ELSE q
  BY DEF P!RoundHalfEven
<1> HIDE DEF q, r
<1>3. (q + 1) * n = n * q + n /\ q * n = n * q /\ n * q \in Nat
  BY <1>1
<1>4. CASE P!RoundHalfEven(t, n) = q /\ 2 * r <= n
  BY <1>1, <1>3, <1>4
<1>5. CASE P!RoundHalfEven(t, n) = q + 1 /\ 2 * r >= n
  BY <1>1, <1>3, <1>5
<1> QED
  BY <1>1, <1>2, <1>4, <1>5

\* A part is the quotient; the last takes what rounding leaves, so that all
\* of them add up to the total.
LEMMA AmountsAddUp ==
  ASSUME NEW t \in Nat, NEW n \in 2 .. 60, NEW g,
         \A i \in 1 .. n : g[i] = P!AmountOf(t, n, i)
  PROVE  /\ SumOver(g, 1 .. n) = t
         /\ \A i \in 1 .. n : g[i] \in Int
         /\ \A i, j \in 1 .. n : 2 * (g[i] - g[j]) \in -n .. n
<1> DEFINE q == P!RoundHalfEven(t, n)
           d == t - q * n
           z == t - q * (n - 1)
<1>1. q \in Nat /\ -n <= 2 * d /\ 2 * d <= n
  BY Rounded
<1>2. \A i \in 1 .. n : g[i] = IF i = n THEN z ELSE q
  BY DEF P!AmountOf
<1> HIDE DEF q
<1>3. q * n \in Int /\ q * (n - 1) \in Int /\ q * (n - 1) = q * n - q
  BY <1>1
<1>4. d \in Int /\ z \in Int /\ z = d + q /\ z + q * (n - 1) = t
  BY <1>1, <1>3
<1> HIDE DEF d, z
<1>5. \A i \in 1 .. n : g[i] \in Int
  BY <1>1, <1>2, <1>4
<1>6. \A i, j \in 1 .. n : 2 * (g[i] - g[j]) \in -n .. n
  BY <1>1, <1>2, <1>4
<1>7. SumOver(g, 1 .. n) = t
  <2>1. IsFiniteSet(1 .. n) /\ IsFiniteSet(1 .. n - 1) /\ Cardinality(1 .. n - 1) = n - 1
    BY FS_Interval
  <2>2. n \in 1 .. n /\ (1 .. n) \ {n} = 1 .. n - 1
    OBVIOUS
  <2>3. SumOver(g, 1 .. n) = g[n] + SumOver(g, (1 .. n) \ {n})
    BY <1>5, <2>1, <2>2, SumTakesOut
  <2>4. \A i \in 1 .. n - 1 : g[i] = q
    BY <1>2
  <2>5. SumOver(g, 1 .. n - 1) = q * (n - 1)
    <3> DEFINE S == 1 .. n - 1
    <3>1. IsFiniteSet(S) /\ Cardinality(S) = n - 1 /\ \A i \in S : g[i] = q
      BY <2>1, <2>4
    <3>2. q \in Int
      BY <1>1
    <3> HIDE DEF S
    <3>3. SumOver(g, S) = q * Cardinality(S)
      BY <3>1, <3>2, SumOfEqual
    <3> QED
      BY <3>1, <3>3 DEF S
  <2> QED
    BY <1>2, <1>4, <2>2, <2>3, <2>5
<1> QED
  BY <1>5, <1>6, <1>7

-----------------------------------------------------------------------------
(* A plan as it is made *)

PlanInv == P!TypeOK /\ P!PartsAddUp /\ P!PartsAreEven /\ P!BillsInOrder

LEMMA NoPlanYet == P!Init => PlanInv
<1> SUFFICES ASSUME P!Init PROVE PlanInv
  OBVIOUS
<1>1. parts = << >> /\ Len(parts) = 0 /\ plan.n = 0 /\ plan.total = 0
  BY DEF P!Init, P!NoPlan
<1>2. 1 .. 0 = {} /\ 1 .. 0 - 1 = {} /\ DOMAIN [i \in {} |-> parts[i].amount] = {}
  OBVIOUS
<1>3. P!SumOf(parts) = SumOver([i \in {} |-> parts[i].amount], {})
  BY <1>1, <1>2, PlanSums DEF P!SumOf
<1>4. P!PartsAddUp
  BY <1>1, <1>3, SumOfNone DEF P!PartsAddUp
<1> QED
  BY <1>1, <1>2, <1>4 DEF PlanInv, P!TypeOK, P!PartsAreEven, P!BillsInOrder

LEMMA CreatedInOrder ==
  ASSUME P!InstalmentsAssumption,
         NEW n \in Counts, NEW bought \in Purchases, NEW card \in Cycles,
         NEW override \in Overrides, NEW t \in Totals,
         NEW p, p = [total |-> t, n |-> n, bought |-> bought, card |-> card,
                     override |-> override],
         NEW i \in 1 .. n
  PROVE  /\ P!Part(p, i).date \in Nat /\ P!Part(p, i).effective \in Nat
         /\ P!Part(p, i).status \in {"scheduled", "posted"}
         /\ i < n =>
              /\ P!Part(p, i).date < P!Part(p, i + 1).date
              /\ P!Part(p, i).effective <= P!Part(p, i + 1).effective
              /\ P!Part(p, i).status = "scheduled" => P!Part(p, i + 1).status = "scheduled"
<1> DEFINE d == P!AddMonths(bought, i - 1)
           e == P!AddMonths(bought, i)
           x == P!EffectiveDate(p, d)
           y == P!EffectiveDate(p, e)
<1>1. /\ n \in 2 .. 60 /\ bought \in Nat \ {0} /\ override \in Nat /\ Today \in Nat
      /\ card.close \in 0 .. 31 /\ card.due \in 0 .. 31
  BY DEF P!InstalmentsAssumption
<1>2. i - 1 \in Nat /\ i \in Nat /\ (i - 1) + 1 = i /\ (i + 1) - 1 = i
  BY <1>1
<1>3. d \in Nat \ {0} /\ d < P!AddMonths(bought, (i - 1) + 1) /\ e \in Nat \ {0}
  BY <1>1, <1>2, MonthsOn
<1>4. d \in Nat \ {0} /\ e \in Nat \ {0} /\ d < e
  BY <1>2, <1>3
<1>5. /\ P!Part(p, i).date = d /\ P!Part(p, i).effective = x
      /\ P!Part(p, i).status = (IF x > Today THEN "scheduled" ELSE "posted")
  BY DEF P!Part, P!Status
<1>6. /\ P!Part(p, i + 1).date = e /\ P!Part(p, i + 1).effective = y
      /\ P!Part(p, i + 1).status = (IF y > Today THEN "scheduled" ELSE "posted")
  BY <1>2 DEF P!Part, P!Status
<1> HIDE DEF d, e
<1>7. x \in Nat /\ y \in Nat /\ x <= y
  <2>1. CASE override # P!NoDay
    BY <1>1, <2>1 DEF P!EffectiveDate
  <2>2. CASE override = P!NoDay
    <3>1. /\ x = ComputeEffectiveDate(d, card.close, card.due)
          /\ y = ComputeEffectiveDate(e, card.close, card.due)
      BY <2>2, PlanDates DEF P!EffectiveDate
    <3>2. d <= e
      BY <1>4
    <3>3. /\ ComputeEffectiveDate(d, card.close, card.due) \in Nat
          /\ ComputeEffectiveDate(e, card.close, card.due) \in Nat
          /\ ComputeEffectiveDate(d, card.close, card.due)
               <= ComputeEffectiveDate(e, card.close, card.due)
      BY <1>1, <1>4, <3>2, StatementsInOrder
    <3> QED
      BY <3>1, <3>3
  <2> QED
    BY <2>1, <2>2
<1> HIDE DEF x, y
<1> QED
  BY <1>1, <1>4, <1>5, <1>6, <1>7

LEMMA PlanMade ==
  ASSUME P!InstalmentsAssumption, P!Next PROVE PlanInv'
<1>1. PICK t \in Totals, n \in Counts, bought \in Purchases, card \in Cycles,
           override \in Overrides : P!Create(t, n, bought, card, override)
  BY DEF P!Next
<1> DEFINE p == [total |-> t, n |-> n, bought |-> bought, card |-> card, override |-> override]
           g == [i \in 1 .. n |-> parts'[i].amount]
<1>2. plan' = p /\ parts' = [i \in 1 .. n |-> P!Part(p, i)]
  BY <1>1 DEF P!Create
<1>3. t \in Nat /\ n \in 2 .. 60
  BY DEF P!InstalmentsAssumption
<1>4. plan'.n = n /\ plan'.total = t /\ p.total = t /\ p.n = n
  BY <1>2
<1>5. \A i \in 1 .. n :
        /\ P!Part(p, i).date \in Nat /\ P!Part(p, i).effective \in Nat
        /\ P!Part(p, i).status \in {"scheduled", "posted"}
        /\ i < n =>
             /\ P!Part(p, i).date < P!Part(p, i + 1).date
             /\ P!Part(p, i).effective <= P!Part(p, i + 1).effective
             /\ P!Part(p, i).status = "scheduled" => P!Part(p, i + 1).status = "scheduled"
  BY CreatedInOrder
<1>6. \A i \in 1 .. n : P!Part(p, i).amount = P!AmountOf(t, n, i)
  BY <1>4 DEF P!Part
<1> HIDE DEF p
<1>7. Len(parts') = n /\ \A i \in 1 .. n : parts'[i] = P!Part(p, i)
  BY <1>2, <1>3
<1>8. /\ SumOver(g, 1 .. n) = t
      /\ \A i \in 1 .. n : g[i] \in Int
      /\ \A i, j \in 1 .. n : 2 * (g[i] - g[j]) \in -n .. n
  <2>1. \A i \in 1 .. n : g[i] = P!AmountOf(t, n, i)
    BY <1>6, <1>7
  <2> HIDE DEF g
  <2> QED
    BY <1>3, <2>1, AmountsAddUp
<1>9. P!TypeOK'
  BY <1>3, <1>4, <1>5, <1>7, <1>8 DEF P!TypeOK
<1>10. P!PartsAddUp'
  <2>1. P!SumOf(parts') = SumOver(g, 1 .. n)
    BY <1>7, PlanSums DEF P!SumOf
  <2>2. P!SumOf(parts)' = P!SumOf(parts')
    BY DEF P!SumOf
  <2> QED
    BY <1>4, <1>8, <2>1, <2>2 DEF P!PartsAddUp
<1>11. P!PartsAreEven'
  BY <1>3, <1>4, <1>7, <1>8 DEF P!PartsAreEven
<1>12. P!BillsInOrder'
  <2>1. \A i \in 1 .. n - 1 : i \in 1 .. n /\ i < n /\ i + 1 \in 1 .. n
    BY <1>3
  <2> QED
    BY <1>5, <1>7, <2>1 DEF P!BillsInOrder
<1> QED
  BY <1>9, <1>10, <1>11, <1>12 DEF PlanInv

LEMMA PlanStep == P!InstalmentsAssumption /\ PlanInv /\ [P!Next]_(P!vars) => PlanInv'
<1> SUFFICES ASSUME P!InstalmentsAssumption, PlanInv, [P!Next]_(P!vars) PROVE PlanInv'
  OBVIOUS
<1>1. CASE P!Next
  BY <1>1, PlanMade
<1>2. CASE UNCHANGED P!vars
  BY <1>2 DEF PlanInv, P!vars, P!TypeOK, P!PartsAddUp, P!SumOf, P!PartsAreEven, P!BillsInOrder
<1> QED
  BY <1>1, <1>2

-----------------------------------------------------------------------------
(* PART FIVE: STATEMENTS *)

LEMMA HighestIs == \A t : I!Max(t) = Top(t)
  BY DEF I!Max, Top

\* What is read of a file.
ReadOf(f, kinds) ==
  {e \in I!BankEntry : e.kind \in kinds /\ \E i \in 1 .. Len(Statements[f].entries) :
                                              Statements[f].entries[i] = e}

LEMMA EntriesAre ==
  ASSUME I!ImportsAssumption, NEW f \in DOMAIN Statements, NEW kinds
  PROVE  I!EntriesOf(f, kinds) \in Seq(ReadOf(f, kinds))
<1> DEFINE s == Statements[f].entries
           n == Len(s)
           D == Seq(ReadOf(f, kinds))
           Op(es, e) == IF e.kind \in kinds THEN Append(es, e) ELSE es
           It(h) == h = [t \in SUBSET (DOMAIN s) |->
                           IF t = {} THEN <<>> ELSE Op(h[t \ {I!Max(t)}], s[I!Max(t)])]
           c == CHOOSE h : It(h)
           st == [k \in 1 .. n |-> [e \in D |-> Op(e, s[k])]]
<1>1. I!EntriesOf(f, kinds) = c[DOMAIN s]
  BY Zenon DEF I!EntriesOf, I!FoldLeft, I!MapThenFoldSet
<1>2. s \in Seq(I!BankEntry)
  BY DEF I!ImportsAssumption, I!Names
<1>3. n \in Nat /\ DOMAIN s = 1 .. n /\ \A k \in 1 .. n : s[k] \in I!BankEntry
  BY <1>2
<1>4. \A k \in 1 .. n : s[k].kind \in kinds => s[k] \in ReadOf(f, kinds)
  BY <1>3 DEF ReadOf
<1> HIDE DEF n, s
<1>5. \A k \in 1 .. n : \A e \in D : st[k][e] = Op(e, s[k]) /\ st[k][e] \in D
  BY <1>4
<1>6. <<>> \in D
  OBVIOUS
<1> HIDE DEF st, D
<1>7. PICK h : RunsOn(st, <<>>, n, h) /\ \A t \in SUBSET (1 .. n) : h[t] \in D
  <2>1. n \in Nat /\ <<>> \in D /\ \A k \in 1 .. n : \A e \in D : st[k][e] \in D
    BY <1>3, <1>5, <1>6
  <2> QED
    BY <2>1, Runs
<1>8. It(h)
  <2>1. ASSUME NEW t \in SUBSET (1 .. n), t # {}
        PROVE  st[Top(t)][h[t \ {Top(t)}]] = Op(h[t \ {I!Max(t)}], s[I!Max(t)])
    <3>1. Top(t) \in 1 .. n /\ t \ {Top(t)} \in SUBSET (1 .. n)
      BY <1>3, <2>1, TopOf
    <3> QED
      BY <1>5, <1>7, <3>1, HighestIs
  <2>2. h = [t \in SUBSET (1 .. n) |-> IF t = {} THEN <<>> ELSE st[Top(t)][h[t \ {Top(t)}]]]
    BY <1>7 DEF RunsOn
  <2> HIDE DEF Op
  <2>3. h = [t \in SUBSET (1 .. n) |->
               IF t = {} THEN <<>> ELSE Op(h[t \ {I!Max(t)}], s[I!Max(t)])]
    BY <2>1, <2>2
  <2> QED
    BY <1>3, <2>3
<1>9. It(c)
  BY <1>8
<1> HIDE DEF c
<1>10. \A t \in SUBSET (1 .. n) : c[t] = IF t = {} THEN <<>> ELSE Op(c[t \ {I!Max(t)}], s[I!Max(t)])
  BY <1>3, <1>9
<1> HIDE DEF Op
<1>11. c[{}] \in D
  BY <1>6, <1>10
<1>12. \A t \in SUBSET (1 .. n) :
         t # {} /\ c[t \ {Top(t)}] \in D => c[t] = st[Top(t)][c[t \ {Top(t)}]]
  <2> TAKE t \in SUBSET (1 .. n)
  <2> HAVE t # {} /\ c[t \ {Top(t)}] \in D
  <2>1. Top(t) \in 1 .. n
    BY <1>3, TopOf
  <2> QED
    BY <1>5, <1>10, <2>1, HighestIs
<1>13. \A k \in 1 .. n : \A e \in D : st[k][e] \in D
  BY <1>5
<1>14. \A k \in 0 .. n : c[1 .. k] \in D
  BY <1>3, <1>11, <1>12, <1>13, Folded
<1> QED
  BY <1>1, <1>3, <1>14 DEF D

\* A line or a row says what the entry of a movement does.
Says(x, e) ==
  /\ e.kind = "booked" /\ x.charge = e.charge /\ x.date = e.date /\ x.text = e.text
  /\ x.ext = 0 \/ x.ext = e.fitid

Stated(x) ==
  \E f \in DOMAIN Statements : \E i \in 1 .. Len(Statements[f].entries) :
    Says(x, Statements[f].entries[i])

LineFields(B, C) ==
  [charge : Nat \ {0}, date : Nat, text : STRING, flip : B, ext : Nat, out : C]

StatedLine == {l \in LineFields(BOOLEAN, BOOLEAN) : I!WrittenAlike => Stated(l)}

LEMMA StatedAlike ==
  ASSUME I!WrittenAlike, NEW x, Stated(x), NEW y, Stated(y), x.charge = y.charge
  PROVE  x.date = y.date /\ x.text = y.text /\ (x.ext = y.ext \/ x.ext = 0 \/ y.ext = 0)
<1>1. PICK f \in DOMAIN Statements : \E i \in 1 .. Len(Statements[f].entries) :
        Says(x, Statements[f].entries[i])
  BY DEF Stated
<1>2. PICK i \in 1 .. Len(Statements[f].entries) : Says(x, Statements[f].entries[i])
  BY <1>1
<1>3. PICK g \in DOMAIN Statements : \E j \in 1 .. Len(Statements[g].entries) :
        Says(y, Statements[g].entries[j])
  BY DEF Stated
<1>4. PICK j \in 1 .. Len(Statements[g].entries) : Says(y, Statements[g].entries[j])
  BY <1>3
<1> DEFINE d == Statements[f].entries[i]
           e == Statements[g].entries[j]
<1>5. Says(x, d) /\ Says(y, e)
  BY <1>2, <1>4
<1>6. d.kind = "booked" /\ e.kind = "booked" /\ d.charge = e.charge
  BY <1>5 DEF Says
<1>7. d.date = e.date /\ d.text = e.text /\ (d.fitid = e.fitid \/ d.fitid = 0 \/ e.fitid = 0)
  BY <1>6 DEF I!WrittenAlike, I!Names
<1> QED
  BY <1>5, <1>7 DEF Says

LEMMA LinesAre ==
  ASSUME I!ImportsAssumption, NEW f \in DOMAIN Statements, NEW kinds,
         kinds = {"booked"} \/ (kinds = {"booked", "pending"} /\ Statements[f].format # "camt"),
         NEW ids \in BOOLEAN, NEW flip \in BOOLEAN
  PROVE  I!Lines(I!EntriesOf(f, kinds), ids, flip) \in Seq(StatedLine)
<1> DEFINE es == I!EntriesOf(f, kinds)
<1>1. es \in Seq(ReadOf(f, kinds))
  BY EntriesAre
<1> HIDE DEF es
<1>2. Len(es) \in Nat /\ \A i \in 1 .. Len(es) : es[i] \in ReadOf(f, kinds)
  BY <1>1
<1>3. ASSUME NEW i \in 1 .. Len(es)
      PROVE  I!Line(es[i], IF ids THEN es[i].fitid ELSE 0, flip) \in StatedLine
  <2>1. PICK k \in 1 .. Len(Statements[f].entries) :
           /\ es[i] \in I!BankEntry /\ es[i].kind \in kinds
           /\ Statements[f].entries[k] = es[i]
    BY <1>2 DEF ReadOf
  <2> DEFINE e == es[i]
             x == IF ids THEN e.fitid ELSE 0
             l == I!Line(e, x, flip)
  <2>2. I!WrittenAlike => e.kind = "booked"
    <3>1. I!WrittenAlike /\ e.kind = "pending" => Statements[f].format = "camt"
      BY <2>1 DEF I!WrittenAlike, I!Names
    <3> QED
      BY <2>1, <3>1
  <2>3. e \in I!BankEntry /\ x \in Nat /\ (x = 0 \/ x = e.fitid)
    BY <2>1 DEF I!BankEntry
  <2>4. Statements[f].entries[k] = e
    BY <2>1
  <2> HIDE DEF e, x
  <2>5. /\ l \in LineFields(BOOLEAN, BOOLEAN)
        /\ l.charge = e.charge /\ l.date = e.date /\ l.text = e.text /\ l.ext = x
    BY <2>3 DEF I!Line, I!BankEntry, LineFields
  <2> HIDE DEF l
  <2>6. I!WrittenAlike => Stated(l)
    BY <2>2, <2>3, <2>4, <2>5 DEF Stated, Says
  <2>7. l \in StatedLine
    BY <2>5, <2>6 DEF StatedLine
  <2> QED
    BY <2>7 DEF l, e, x
<1>4. I!Lines(es, ids, flip) = [i \in 1 .. Len(es) |->
                                 I!Line(es[i], IF ids THEN es[i].fitid ELSE 0, flip)]
  BY DEF I!Lines
<1>5. I!Lines(es, ids, flip) \in Seq(StatedLine)
  BY <1>2, <1>3, <1>4
<1> QED
  BY <1>5 DEF es

LEMMA ParsedAre ==
  ASSUME I!ImportsAssumption, NEW f \in DOMAIN Statements, NEW flip \in BOOLEAN
  PROVE  I!Parsed(f, flip) \in Seq(StatedLine)
<1>1. Statements[f].format \in {"ofx", "qif", "camt", "csv"}
  BY DEF I!ImportsAssumption, I!Names
<1>2. CASE Statements[f].format = "ofx"
  <2>1. I!Parsed(f, flip) = I!Lines(I!EntriesOf(f, {"booked", "pending"}), TRUE, FALSE)
    BY <1>2 DEF I!Parsed, I!ParseOfx
  <2> QED
    BY <1>2, <2>1, LinesAre
<1>3. CASE Statements[f].format = "qif"
  <2>1. I!Parsed(f, flip) = I!Lines(I!EntriesOf(f, {"booked", "pending"}), FALSE, FALSE)
    BY <1>3 DEF I!Parsed, I!ParseQif
  <2> QED
    BY <1>3, <2>1, LinesAre
<1>4. CASE Statements[f].format = "camt"
  <2>1. I!Parsed(f, flip) = I!Lines(I!EntriesOf(f, {"booked"}), FALSE, FALSE)
    BY <1>4 DEF I!Parsed, I!ParseCamt
  <2> QED
    BY <1>4, <2>1, LinesAre
<1>5. CASE Statements[f].format = "csv"
  <2>1. I!Parsed(f, flip) = I!Lines(I!EntriesOf(f, {"booked", "pending"}), FALSE, flip)
    BY <1>5 DEF I!Parsed, I!ParseCsv
  <2> QED
    BY <1>5, <2>1, LinesAre
<1> QED
  BY <1>1, <1>2, <1>3, <1>4, <1>5

-----------------------------------------------------------------------------
-----------------------------------------------------------------------------
(* The rows of an account. *)

\* (A literal is no string to the provers unless one says so.)
Texts == STRING \cup {"mine"}

RowFields(B, C, D, E) ==
  [id : Nat \X Nat, charge : Nat, date : Nat, text : Texts, flip : B, ext : Nat,
   source : {"import", "recurring"}, log : Nat, sure : C, merged : D, touched : E]

RowOfAccount == RowFields(BOOLEAN, BOOLEAN, BOOLEAN, BOOLEAN)

\* One row is another with a description, and perhaps a day, of its own.
Reworded(z, r, S) ==
  /\ z \in S /\ z.id = r.id /\ z.charge = r.charge /\ z.source = r.source /\ z.log = r.log
  /\ z.merged = r.merged

LEMMA RowWith ==
  ASSUME NEW r \in RowOfAccount, NEW n \in Nat, NEW x \in Texts, NEW e \in BOOLEAN
  PROVE  /\ Reworded([r EXCEPT !.text = x, !.touched = e], r, RowOfAccount)
         /\ Reworded([r EXCEPT !.date = n, !.text = x, !.touched = e], r, RowOfAccount)
<1>1. ASSUME NEW B, NEW C, NEW D, NEW E, NEW q \in RowFields(B, C, D, E), NEW f \in E
      PROVE  /\ Reworded([q EXCEPT !.text = x, !.touched = f], q, RowFields(B, C, D, E))
             /\ Reworded([q EXCEPT !.date = n, !.text = x, !.touched = f], q, RowFields(B, C, D, E))
  <2>1. Reworded([q EXCEPT !.text = x, !.touched = f], q, RowFields(B, C, D, E))
    BY DEF RowFields, Reworded
  <2>2. Reworded([q EXCEPT !.date = n, !.text = x, !.touched = f], q, RowFields(B, C, D, E))
    BY DEF RowFields, Reworded
  <2> QED
    BY <2>1, <2>2
<1> QED
  BY <1>1 DEF RowOfAccount

\* Rows that the property is about.
AsRead(r) == ~r.touched /\ ~r.merged /\ r.sure

RowOk(r) ==
  /\ r \in RowOfAccount
  /\ r.charge = 0 => r.id[1] = 0 /\ r.log = 0 /\ ~r.merged
  /\ r.merged => r.source = "import"
  /\ r.source = "recurring" => r.log = 0
  /\ r.id[1] # 0 => r.id[1] = r.log
  /\ I!WrittenAlike /\ r.charge # 0 /\ AsRead(r) => Stated(r)

Distinct(S) == \A r, o \in S : r.id = o.id => r = o

\* No two of a movement are of one kind, which holds where statements are
\* written alike and no import was crossed.
ApartIn(S) ==
  \A r, o \in S :
    /\ r.charge = 0 /\ o.charge = 0 => r = o
    /\ (/\ AsRead(r) /\ AsRead(o)
        /\ r.charge = o.charge /\ r.flip = o.flip /\ (r.ext = 0) = (o.ext = 0)) => r = o

Alone == I!WrittenAlike /\ ~crossed

Sound(S) == IsFiniteSet(S) /\ (\A r \in S : RowOk(r)) /\ Distinct(S)

\* A row that may be more, by a row that is none of those, or in place of one.
LEMMA ApartWith ==
  ASSUME NEW S, ApartIn(S), NEW x, x.charge # 0,
         AsRead(x) => \A r \in S : AsRead(r) /\ r.charge = x.charge /\ r.flip = x.flip
                                   => (r.ext = 0) # (x.ext = 0)
  PROVE  ApartIn(S \cup {x})
  BY DEF ApartIn

LEMMA ApartPart == ASSUME NEW S, NEW T, ApartIn(S), T \subseteq S PROVE ApartIn(T)
  BY DEF ApartIn

LEMMA ApartMore ==
  ASSUME NEW S, ApartIn(S), NEW X, \A x \in X : x.charge # 0 /\ ~AsRead(x)
  PROVE  ApartIn(S \cup X)
  BY DEF ApartIn

LEMMA SoundPart == ASSUME NEW S, Sound(S), NEW T, T \subseteq S PROVE Sound(T)
  BY FS_Subset DEF Sound, Distinct

-----------------------------------------------------------------------------
(* An import, line by line *)

\* What an import has made of the rows: of each it knows whether it was there,
\* was written by it, or took the place of one under that one's id.
Inserted(r, log, k) == r.log = log /\ ~r.merged /\ r.id[1] = log /\ r.id[2] < k
Took(r, log) ==
  /\ r.log = log /\ r.merged /\ r.id[1] = 0
  /\ \E q \in rows : q.id = r.id /\ q.date = r.date /\ q.text = r.text /\ q.touched = r.touched
Mine(S, log) == {r \in S : r.log = log}

Traced(a, log) ==
  /\ \A r \in a.rows : r \in rows \/ Inserted(r, log, a.count) \/ Took(r, log)
  /\ \A r \in rows : r \in a.rows \/ \E m \in a.rows : m.merged /\ m.log = log /\ m.id = r.id
  /\ a.count = Cardinality(Mine(a.rows, log))

Tally == [rows : SUBSET RowOfAccount, count : Nat, failed : BOOLEAN]

TakenRows(log) ==
  {a \in Tally : Sound(a.rows) /\ Traced(a, log) /\ (Alone => ApartIn(a.rows))}

Tallied(z, S, n) == z \in Tally /\ z.rows = S /\ z.count = n

LEMMA TallyWith ==
  ASSUME NEW a \in Tally, NEW S \in SUBSET RowOfAccount, NEW n \in Nat
  PROVE  Tallied([a EXCEPT !.rows = S, !.count = n], S, n)
<1>1. ASSUME NEW A, NEW B, NEW b \in [rows : SUBSET A, count : Nat, failed : B],
             NEW U \in SUBSET A, NEW m \in Nat
      PROVE  /\ [b EXCEPT !.rows = U, !.count = m] \in [rows : SUBSET A, count : Nat, failed : B]
             /\ [b EXCEPT !.rows = U, !.count = m].rows = U
             /\ [b EXCEPT !.rows = U, !.count = m].count = m
  OBVIOUS
<1> QED
  BY <1>1 DEF Tally, Tallied

LEMMA TallyFailed ==
  ASSUME NEW a \in Tally
  PROVE  /\ [a EXCEPT !.failed = TRUE] \in Tally
         /\ [a EXCEPT !.failed = TRUE].rows = a.rows
         /\ [a EXCEPT !.failed = TRUE].count = a.count
<1>1. ASSUME NEW A, NEW B, NEW b \in [rows : SUBSET A, count : Nat, failed : B], NEW f \in B
      PROVE  /\ [b EXCEPT !.failed = f] \in [rows : SUBSET A, count : Nat, failed : B]
             /\ [b EXCEPT !.failed = f].rows = b.rows
             /\ [b EXCEPT !.failed = f].count = b.count
  OBVIOUS
<1>2. TRUE \in BOOLEAN
  OBVIOUS
<1> QED
  BY <1>1, <1>2 DEF Tally

\* A placeholder gives its place to a movement.
LEMMA RowPut ==
  ASSUME NEW log \in Nat \ {0}, \A q \in rows : q.log # log, NEW a \in TakenRows(log),
         NEW r \in a.rows, r.source = "recurring",
         NEW m, RowOk(m), m.charge # 0, m.merged, m.log = log,
         m.id = r.id, m.date = r.date, m.text = r.text, m.touched = r.touched,
         NEW z \in Tally, z.rows = (a.rows \ {r}) \cup {m}, z.count = a.count + 1
  PROVE  z \in TakenRows(log)
<1>1. a \in Tally /\ Sound(a.rows) /\ Traced(a, log) /\ (Alone => ApartIn(a.rows))
  BY DEF TakenRows
<1>2. r.log = 0 /\ r.id[1] = 0
  BY <1>1 DEF Sound, RowOk
<1>3. r \in rows
  BY <1>1, <1>2 DEF Traced, Inserted, Took
<1>4. \A q \in a.rows : q.id = m.id => q = r
  BY <1>1 DEF Sound, Distinct
<1>5. Sound(z.rows)
  <2>1. IsFiniteSet(z.rows)
    <3>1. IsFiniteSet(a.rows)
      BY <1>1 DEF Sound
    <3>2. IsFiniteSet(a.rows \ {r})
      BY <3>1, FS_RemoveElement
    <3> QED
      BY <3>2, FS_AddElement
  <2>2. Distinct(z.rows) /\ \A q \in z.rows : RowOk(q)
    BY <1>1, <1>4 DEF Sound, Distinct
  <2> QED
    BY <2>1, <2>2 DEF Sound
<1>6. Alone => ApartIn(z.rows)
  <2>1. a.rows \ {r} \subseteq a.rows /\ ~AsRead(m)
    BY DEF AsRead
  <2>2. Alone => ApartIn(a.rows \ {r})
    BY <1>1, <2>1, ApartPart
  <2>3. ApartIn(a.rows \ {r}) => ApartIn((a.rows \ {r}) \cup {m})
    BY <2>1, ApartWith
  <2> QED
    BY <2>2, <2>3
<1>7. ASSUME NEW q \in z.rows PROVE q \in rows \/ Inserted(q, log, z.count) \/ Took(q, log)
  <2>1. CASE q = m
    BY <1>2, <1>3, <2>1 DEF Took
  <2>2. CASE q \in a.rows
    <3>1. q \in RowOfAccount /\ a.count \in Nat
      BY <1>1, <2>2 DEF Sound, RowOk, Tally
    <3>2. Inserted(q, log, a.count) => Inserted(q, log, z.count)
      BY <3>1 DEF Inserted, RowOfAccount, RowFields
    <3> QED
      BY <1>1, <2>2, <3>2 DEF Traced
  <2> QED
    BY <1>7, <2>1, <2>2
<1>8. ASSUME NEW q \in rows
      PROVE  q \in z.rows \/ \E o \in z.rows : o.merged /\ o.log = log /\ o.id = q.id
  <2>1. CASE q \in a.rows
    BY <2>1
  <2>2. ASSUME NEW o \in a.rows, o.merged, o.log = log, o.id = q.id
        PROVE  o \in z.rows
    BY <1>2, <2>2
  <2> QED
    BY <1>1, <2>1, <2>2 DEF Traced
<1>9. z.count = Cardinality(Mine(z.rows, log))
  <2>1. Mine(z.rows, log) = Mine(a.rows, log) \cup {m} /\ m \notin Mine(a.rows, log)
    BY <1>2, <1>4 DEF Mine
  <2>2. IsFiniteSet(Mine(a.rows, log))
    BY <1>1, FS_Subset DEF Sound, Mine
  <2>3. Cardinality(Mine(a.rows, log) \cup {m}) = Cardinality(Mine(a.rows, log)) + 1
    BY <2>1, <2>2, FS_AddElement
  <2> QED
    BY <1>1, <2>1, <2>3 DEF Traced
<1> QED
  BY <1>5, <1>6, <1>7, <1>8, <1>9 DEF TakenRows, Traced

\* A movement gets a row of its own.
LEMMA RowAdded ==
  ASSUME NEW log \in Nat \ {0}, \A q \in rows : q.log # log, NEW a \in TakenRows(log),
         NEW m, RowOk(m), ~m.merged, m.log = log, m.id = <<log, a.count>>,
         NEW z \in Tally, z.rows = a.rows \cup {m}, z.count = a.count + 1,
         Alone => ApartIn(z.rows)
  PROVE  z \in TakenRows(log)
<1>1. a \in Tally /\ Sound(a.rows) /\ Traced(a, log)
  BY DEF TakenRows
<1>2. a.count \in Nat
  BY <1>1 DEF Tally
<1>3. \A q \in a.rows : q.id # m.id
  <2> SUFFICES ASSUME NEW q \in a.rows, q.id = m.id PROVE FALSE
    OBVIOUS
  <2>1. q.id[1] = log /\ q.id[2] = a.count
    OBVIOUS
  <2>2. q.log = log
    BY <1>1, <2>1 DEF Sound, RowOk
  <2>3. Inserted(q, log, a.count) \/ Took(q, log)
    BY <1>1, <2>2 DEF Traced
  <2> QED
    BY <1>2, <2>1, <2>3 DEF Inserted, Took
<1>4. Sound(z.rows)
  <2>1. IsFiniteSet(z.rows)
    BY <1>1, FS_AddElement DEF Sound
  <2>2. Distinct(z.rows) /\ \A q \in z.rows : RowOk(q)
    BY <1>1, <1>3 DEF Sound, Distinct
  <2> QED
    BY <2>1, <2>2 DEF Sound
<1>5. ASSUME NEW q \in z.rows PROVE q \in rows \/ Inserted(q, log, z.count) \/ Took(q, log)
  <2>1. CASE q = m
    BY <1>2, <2>1 DEF Inserted
  <2>2. CASE q \in a.rows
    <3>1. q \in RowOfAccount
      BY <1>1, <2>2 DEF Sound, RowOk
    <3>2. Inserted(q, log, a.count) => Inserted(q, log, z.count)
      BY <1>2, <3>1 DEF Inserted, RowOfAccount, RowFields
    <3> QED
      BY <1>1, <2>2, <3>2 DEF Traced
  <2> QED
    BY <1>5, <2>1, <2>2
<1>6. \A q \in rows : q \in z.rows \/ \E o \in z.rows : o.merged /\ o.log = log /\ o.id = q.id
  BY <1>1 DEF Traced
<1>7. z.count = Cardinality(Mine(z.rows, log))
  <2>1. Mine(z.rows, log) = Mine(a.rows, log) \cup {m} /\ m \notin Mine(a.rows, log)
    BY <1>3 DEF Mine
  <2>2. IsFiniteSet(Mine(a.rows, log))
    BY <1>1, FS_Subset DEF Sound, Mine
  <2>3. Cardinality(Mine(a.rows, log) \cup {m}) = Cardinality(Mine(a.rows, log)) + 1
    BY <2>1, <2>2, FS_AddElement
  <2> QED
    BY <1>1, <2>1, <2>3 DEF Traced
<1> QED
  BY <1>4, <1>5, <1>6, <1>7 DEF TakenRows, Traced

LEMMA LineTaken ==
  ASSUME NEW log \in Nat \ {0}, \A q \in rows : q.log # log, NEW detect \in BOOLEAN,
         NEW a \in TakenRows(log), NEW line \in StatedLine
  PROVE  I!TakeLine(a, line, log, detect) \in TakenRows(log)
<1> DEFINE known == I!Known(a.rows, line)
           place == I!Placeholders(a.rows, line)
<1>1. /\ a \in Tally /\ Sound(a.rows) /\ Traced(a, log) /\ (Alone => ApartIn(a.rows))
  BY DEF TakenRows
<1>2. /\ line.charge \in Nat \ {0} /\ line.date \in Nat /\ line.text \in Texts
      /\ line.flip \in BOOLEAN /\ line.ext \in Nat /\ (I!WrittenAlike => Stated(line))
  BY DEF StatedLine, LineFields, Texts
<1>3. a.rows \subseteq RowOfAccount /\ a.count \in Nat
  BY <1>1 DEF Tally
<1>4. CASE line.out
  BY <1>4 DEF I!TakeLine
<1>5. CASE ~line.out /\ detect /\ known # {}
  <2> DEFINE z == [a EXCEPT !.failed = TRUE]
  <2>1. I!TakeLine(a, line, log, detect) \in {a, z}
    BY <1>5 DEF I!TakeLine
  <2>2. z \in Tally /\ z.rows = a.rows /\ z.count = a.count
    BY <1>1, TallyFailed
  <2> HIDE DEF z
  <2> QED
    BY <1>1, <2>1, <2>2 DEF TakenRows, Traced
<1>6. CASE ~line.out /\ ~(detect /\ known # {}) /\ place # {}
  <2> DEFINE r == CHOOSE x \in place : TRUE
             m == I!Merged(r, line, log)
             S == (a.rows \ {r}) \cup {m}
             k == a.count + 1
             z == [a EXCEPT !.rows = S, !.count = k]
  <2>1. I!TakeLine(a, line, log, detect) = z
    BY <1>6 DEF I!TakeLine
  <2>2. r \in place
    BY <1>6
  <2> HIDE DEF r
  <2>3. r \in a.rows /\ r.source = "recurring" /\ RowOk(r)
    BY <1>1, <2>2 DEF I!Placeholders, Sound
  <2>4. /\ m \in RowOfAccount /\ m.id = r.id /\ m.charge = line.charge /\ m.merged
        /\ m.source = "import" /\ m.log = log /\ m.date = r.date /\ m.text = r.text
        /\ m.touched = r.touched
    BY <1>2, <2>3 DEF I!Merged, RowOk, RowOfAccount, RowFields
  <2>5. RowOk(m)
    <3>1. r.id[1] = 0
      BY <2>3 DEF RowOk
    <3> QED
      BY <1>2, <2>4, <3>1 DEF RowOk, AsRead
  <2> HIDE DEF m
  <2>6. S \in SUBSET RowOfAccount /\ k \in Nat
    BY <1>3, <2>4
  <2> HIDE DEF S, k
  <2>7. z \in Tally /\ z.rows = S /\ z.count = k
    <3>1. Tallied(z, S, k)
      BY <1>1, <2>6, TallyWith
    <3> HIDE DEF z
    <3> QED
      BY <3>1 DEF Tallied
  <2> HIDE DEF z
  <2>8. z.rows = (a.rows \ {r}) \cup {m} /\ z.count = a.count + 1 /\ m.charge # 0
    BY <1>2, <2>4, <2>7 DEF S, k
  <2>9. z \in TakenRows(log)
    BY <2>3, <2>4, <2>5, <2>7, <2>8, RowPut
  <2> QED
    BY <2>1, <2>9
<1>7. CASE ~line.out /\ ~(detect /\ known # {}) /\ place = {}
  <2> DEFINE m == I!NewRow(line, log, a.count, detect)
             S == a.rows \cup {m}
             k == a.count + 1
             z == [a EXCEPT !.rows = S, !.count = k]
  <2>1. I!TakeLine(a, line, log, detect) = z
    BY <1>7 DEF I!TakeLine
  <2>2. /\ m \in RowOfAccount /\ m.charge = line.charge /\ m.date = line.date
        /\ m.text = line.text /\ m.flip = line.flip /\ m.ext = line.ext
        /\ m.id = <<log, a.count>> /\ m.log = log /\ m.source = "import"
        /\ ~m.merged /\ m.sure = detect
    BY <1>2, <1>3 DEF I!NewRow, RowOfAccount, RowFields
  <2> HIDE DEF m
  <2>3. I!WrittenAlike => Stated(m)
    BY <1>2, <2>2 DEF Stated, Says
  <2>4. RowOk(m) /\ m.charge # 0
    BY <1>2, <2>2, <2>3 DEF RowOk
  <2>5. ASSUME I!WrittenAlike, AsRead(m),
               NEW r \in a.rows, AsRead(r), r.charge = m.charge, r.flip = m.flip
        PROVE  (r.ext = 0) # (m.ext = 0)
    <3>1. detect /\ known = {}
      BY <1>7, <2>2, <2>5 DEF AsRead
    <3>2. Stated(r)
      BY <1>1, <1>2, <2>2, <2>5 DEF Sound, RowOk
    <3>3. r.date = m.date /\ r.text = m.text /\ (r.ext = m.ext \/ r.ext = 0 \/ m.ext = 0)
      BY <2>3, <2>5, <3>2, StatedAlike
    <3>4. r \notin known
      BY <3>1
    <3> QED
      BY <2>2, <2>5, <3>3, <3>4 DEF I!Known, I!SameFields
  <2>6. Alone => ApartIn(S)
    <3> SUFFICES ASSUME Alone PROVE ApartIn(S)
      OBVIOUS
    <3>1. ApartIn(a.rows) /\ I!WrittenAlike
      BY <1>1 DEF Alone
    <3>2. AsRead(m) => \A r \in a.rows : AsRead(r) /\ r.charge = m.charge /\ r.flip = m.flip
                                        => (r.ext = 0) # (m.ext = 0)
      BY <2>5, <3>1
    <3> QED
      BY <2>4, <3>1, <3>2, ApartWith
  <2>7. S \in SUBSET RowOfAccount /\ k \in Nat
    BY <1>3, <2>2
  <2> HIDE DEF S, k
  <2>8. z \in Tally /\ z.rows = S /\ z.count = k
    <3>1. Tallied(z, S, k)
      BY <1>1, <2>7, TallyWith
    <3> HIDE DEF z
    <3> QED
      BY <3>1 DEF Tallied
  <2> HIDE DEF z
  <2>9. z.rows = a.rows \cup {m} /\ z.count = a.count + 1 /\ (Alone => ApartIn(z.rows))
    BY <2>6, <2>8 DEF S, k
  <2>10. z \in TakenRows(log)
    BY <2>2, <2>4, <2>8, <2>9, RowAdded
  <2> QED
    BY <2>1, <2>10
<1> QED
  BY <1>4, <1>5, <1>6, <1>7

\* What one line finds or makes, the next ones leave.
LEMMA LineStays ==
  ASSUME NEW log \in Nat \ {0}, NEW detect \in BOOLEAN, NEW a \in TakenRows(log),
         NEW line \in StatedLine
  PROVE  LET S == I!TakeLine(a, line, log, detect).rows
         IN  /\ line.out \/ I!HasRow(line, S)
             /\ \A l : I!HasRow(l, a.rows) => I!HasRow(l, S)
<1> DEFINE known == I!Known(a.rows, line)
           place == I!Placeholders(a.rows, line)
           t == I!TakeLine(a, line, log, detect)
<1>1. a \in Tally /\ Sound(a.rows)
  BY DEF TakenRows
<1>2. CASE line.out
  BY <1>2 DEF I!TakeLine
<1>3. CASE ~line.out /\ detect /\ known # {}
  <2> DEFINE z == [a EXCEPT !.failed = TRUE]
  <2>1. t \in {a, z}
    BY <1>3 DEF I!TakeLine
  <2>2. t.rows = a.rows
    BY <1>1, <2>1, TallyFailed
  <2>3. PICK r \in a.rows : r.date = line.date
                            /\ (I!SameFields(r, line) \/ (line.ext # 0 /\ r.ext = line.ext))
    BY <1>3 DEF I!Known, I!SameFields
  <2> HIDE DEF t
  <2>4. I!HasRow(line, a.rows)
    BY <2>3 DEF I!HasRow
  <2> QED
    BY <2>2, <2>4 DEF t
<1>4. CASE ~line.out /\ ~(detect /\ known # {}) /\ place # {}
  <2> DEFINE r == CHOOSE x \in place : TRUE
             m == I!Merged(r, line, log)
             S == (a.rows \ {r}) \cup {m}
             k == a.count + 1
             z == [a EXCEPT !.rows = S, !.count = k]
  <2>1. t = z
    BY <1>4 DEF I!TakeLine
  <2>2. z.rows = S
    BY <1>1 DEF Tally
  <2> HIDE DEF z, t
  <2>3. r \in place
    BY <1>4
  <2> HIDE DEF r
  <2>4. r \in a.rows /\ r.source = "recurring" /\ r.ext = 0 /\ RowOk(r)
    BY <1>1, <2>3 DEF I!Placeholders, Sound
  <2>5. /\ m.charge = line.charge /\ m.merged /\ m.date = r.date /\ m.text = r.text
        /\ m.flip = r.flip /\ ~r.merged
    BY <2>4 DEF I!Merged, RowOk, RowOfAccount, RowFields
  <2> HIDE DEF m
  <2>6. I!HasRow(line, S)
    BY <2>5 DEF I!HasRow
  <2>7. ASSUME NEW l, I!HasRow(l, a.rows) PROVE I!HasRow(l, S)
    <3>1. PICK q \in a.rows :
             \/ q.date = l.date /\ (I!SameFields(q, l) \/ (l.ext # 0 /\ q.ext = l.ext))
             \/ q.merged /\ q.charge = l.charge
      BY <2>7 DEF I!HasRow
    <3>2. CASE q # r
      BY <3>1, <3>2 DEF I!HasRow
    <3>3. CASE q = r
      BY <2>4, <2>5, <3>1, <3>3 DEF I!HasRow, I!SameFields
    <3> QED
      BY <3>2, <3>3
  <2> QED
    BY <2>1, <2>2, <2>6, <2>7 DEF t
<1>5. CASE ~line.out /\ ~(detect /\ known # {}) /\ place = {}
  <2> DEFINE m == I!NewRow(line, log, a.count, detect)
             S == a.rows \cup {m}
             k == a.count + 1
             z == [a EXCEPT !.rows = S, !.count = k]
  <2>1. t = z
    BY <1>5 DEF I!TakeLine
  <2>2. z.rows = S
    BY <1>1 DEF Tally
  <2> HIDE DEF z, t
  <2>3. m.date = line.date /\ I!SameFields(m, line)
    BY DEF I!NewRow, I!SameFields
  <2> HIDE DEF m
  <2>4. I!HasRow(line, S)
    BY <2>3 DEF I!HasRow
  <2>5. \A l : I!HasRow(l, a.rows) => I!HasRow(l, S)
    BY DEF I!HasRow
  <2> QED
    BY <2>1, <2>2, <2>4, <2>5 DEF t
<1> QED
  BY <1>2, <1>3, <1>4, <1>5

\* Every line has its turn, so what is said of the first holds of them all.
LEMMA TakenIs ==
  ASSUME NEW log \in Nat \ {0}, \A q \in rows : q.log # log, NEW detect \in BOOLEAN,
         NEW lines \in Seq(StatedLine), Sound(rows), Alone => ApartIn(rows)
  PROVE  /\ I!Taken(lines, log, detect) \in TakenRows(log)
         /\ \A j \in 1 .. Len(lines) :
              lines[j].out \/ I!HasRow(lines[j], I!Taken(lines, log, detect).rows)
<1> DEFINE n == Len(lines)
           D == TakenRows(log)
           d == [rows |-> rows, count |-> 0, failed |-> FALSE]
           Op(a, line) == I!TakeLine(a, line, log, detect)
           It(h) == h = [t \in SUBSET (DOMAIN lines) |->
                           IF t = {} THEN d ELSE Op(h[t \ {I!Max(t)}], lines[I!Max(t)])]
           c == CHOOSE h : It(h)
           st == [k \in 1 .. n |-> [e \in D |-> Op(e, lines[k])]]
<1>1. I!Taken(lines, log, detect) = c[DOMAIN lines]
  BY Zenon DEF I!Taken, I!FoldLeft, I!MapThenFoldSet
<1>2. n \in Nat /\ DOMAIN lines = 1 .. n /\ \A k \in 1 .. n : lines[k] \in StatedLine
  OBVIOUS
<1> HIDE DEF n
<1>3. ASSUME NEW k \in 1 .. n, NEW e \in D PROVE Op(e, lines[k]) \in D
  BY <1>2, LineTaken
<1>4. ASSUME NEW k \in 1 .. n, NEW e \in D
      PROVE  /\ lines[k].out \/ I!HasRow(lines[k], Op(e, lines[k]).rows)
             /\ \A l : I!HasRow(l, e.rows) => I!HasRow(l, Op(e, lines[k]).rows)
  BY <1>2, LineStays
<1>5. d \in D
  <2>1. d \in Tally /\ d.rows = rows /\ d.count = 0
    BY DEF Sound, RowOk, Tally
  <2> HIDE DEF d
  <2>2. Mine(rows, log) = {}
    BY DEF Mine
  <2>3. Cardinality(Mine(rows, log)) = 0
    BY <2>2, FS_EmptySet
  <2> QED
    BY <2>1, <2>3 DEF TakenRows, Traced
<1> HIDE DEF Op, D, d
<1>6. \A k \in 1 .. n : \A e \in D : st[k][e] = Op(e, lines[k]) /\ st[k][e] \in D
  BY <1>3
<1> HIDE DEF st
<1>7. PICK h : RunsOn(st, d, n, h) /\ \A t \in SUBSET (1 .. n) : h[t] \in D
  <2>1. n \in Nat /\ d \in D /\ \A k \in 1 .. n : \A e \in D : st[k][e] \in D
    BY <1>2, <1>5, <1>6
  <2> QED
    BY <2>1, Runs
<1>8. It(h)
  <2>1. ASSUME NEW t \in SUBSET (1 .. n), t # {}
        PROVE  st[Top(t)][h[t \ {Top(t)}]] = Op(h[t \ {I!Max(t)}], lines[I!Max(t)])
    <3>1. Top(t) \in 1 .. n /\ t \ {Top(t)} \in SUBSET (1 .. n)
      BY <1>2, <2>1, TopOf
    <3> QED
      BY <1>6, <1>7, <3>1, HighestIs
  <2>2. h = [t \in SUBSET (1 .. n) |-> IF t = {} THEN d ELSE st[Top(t)][h[t \ {Top(t)}]]]
    BY <1>7 DEF RunsOn
  <2>3. h = [t \in SUBSET (1 .. n) |->
               IF t = {} THEN d ELSE Op(h[t \ {I!Max(t)}], lines[I!Max(t)])]
    BY <2>1, <2>2
  <2> QED
    BY <1>2, <2>3
<1>9. It(c)
  BY <1>8
<1> HIDE DEF c
<1>10. \A t \in SUBSET (1 .. n) :
         c[t] = IF t = {} THEN d ELSE Op(c[t \ {I!Max(t)}], lines[I!Max(t)])
  BY <1>2, <1>9
<1>11. c[{}] \in D
  BY <1>5, <1>10
<1>12. \A t \in SUBSET (1 .. n) :
         t # {} /\ c[t \ {Top(t)}] \in D => c[t] = st[Top(t)][c[t \ {Top(t)}]]
  <2> TAKE t \in SUBSET (1 .. n)
  <2> HAVE t # {} /\ c[t \ {Top(t)}] \in D
  <2>1. Top(t) \in 1 .. n
    BY <1>2, TopOf
  <2> QED
    BY <1>6, <1>10, <2>1, HighestIs
<1>13. \A k \in 1 .. n : \A e \in D : st[k][e] \in D
  BY <1>6
<1>14. \A k \in 0 .. n : c[1 .. k] \in D
  BY <1>2, <1>11, <1>12, <1>13, Folded
<1>15. n \in 0 .. n
  BY <1>2
<1> DEFINE Turns == {k \in 0 .. n :
                       \A j \in 1 .. k : lines[j].out \/ I!HasRow(lines[j], c[1 .. k].rows)}
<1>16. 0 \in Turns
  BY <1>2
<1>17. ASSUME NEW k \in 1 .. n, k - 1 \in Turns PROVE k \in Turns
  <2> DEFINE e == c[1 .. k - 1]
             f == c[1 .. k]
  <2>1. k - 1 \in 0 .. n /\ k \in 0 .. n
    BY <1>2
  <2>2. e \in D /\ f = Op(e, lines[k])
    <3>1. /\ Top(1 .. k) = k /\ (1 .. k) \ {k} = 1 .. k - 1
          /\ 1 .. k \in SUBSET (1 .. n) /\ 1 .. k # {}
      BY <1>2, UpTo
    <3>2. e \in D
      BY <1>14, <2>1
    <3>3. f = st[k][e]
      BY <1>12, <3>1, <3>2
    <3> QED
      BY <1>6, <3>2, <3>3
  <2>3. \A j \in 1 .. k - 1 : lines[j].out \/ I!HasRow(lines[j], e.rows)
    BY <1>17
  <2> HIDE DEF e, f
  <2>4. /\ lines[k].out \/ I!HasRow(lines[k], f.rows)
        /\ \A l : I!HasRow(l, e.rows) => I!HasRow(l, f.rows)
    BY <1>4, <2>2
  <2>5. ASSUME NEW j \in 1 .. k PROVE lines[j].out \/ I!HasRow(lines[j], f.rows)
    <3>1. j = k \/ j \in 1 .. k - 1
      BY <1>2
    <3> QED
      BY <2>3, <2>4, <3>1
  <2> QED
    BY <2>1, <2>5 DEF f
<1> HIDE DEF Turns
<1>18. n \in Turns
  BY <1>2, <1>15, <1>16, <1>17, StepByStep
<1>19. \A j \in 1 .. n : lines[j].out \/ I!HasRow(lines[j], c[1 .. n].rows)
  BY <1>18 DEF Turns
<1> QED
  BY <1>1, <1>2, <1>14, <1>15, <1>19 DEF D, n

-----------------------------------------------------------------------------
(* The inductive invariant *)

Review == [of : DOMAIN Statements \cup {"none"}, flip : BOOLEAN, lines : Seq(StatedLine)]
Page == [name : DOMAIN Statements \cup {"none"}, flip : BOOLEAN, detect : BOOLEAN, review : Review]
LogOf == [id : 1 .. MaxImportEdits, name : DOMAIN Statements \cup {"none"}, count : Nat]
RunningFields(L, S, B) ==
  [log : Nat, name : DOMAIN Statements \cup {"none"}, lines : L, merged : S, new : S, count : Nat,
   here : B]
Running == RunningFields(Seq(StatedLine), SUBSET RowOfAccount, BOOLEAN)

\* What a commit leaves: a merged row has what its placeholder was given meanwhile.
PutAt(q) == [q[1] EXCEPT !.date = q[2].date, !.text = q[2].text, !.touched = q[2].touched]
PutBack(d) == {PutAt(q) : q \in {p \in d.merged \X I!Places(d) : p[1].id = p[2].id}}
AfterIt(d) == ((rows \ I!Places(d)) \cup d.new) \cup PutBack(d)

Counting == MaxImportEdits \in Nat /\ edits \in 0 .. MaxImportEdits

AccountInv ==
  /\ Sound(rows) /\ crossed \in BOOLEAN
  /\ \A r \in rows : r.log = 0 \/ \E l \in logs : l.id = r.log
  /\ \A l \in logs : l \in LogOf /\ l.id <= edits
  /\ Alone => ApartIn(rows)

PageInv ==
  /\ page \in Page /\ raced \in BOOLEAN
  /\ asked \subseteq [of : DOMAIN Statements, flip : BOOLEAN]
  /\ ~raced => \A p \in asked : p.of = page.name /\ p.flip = page.flip
  /\ ~raced /\ asked = {} =>
        \/ page.review = I!Nothing
        \/ page.review.of = page.name /\ page.review.flip = page.flip

\* What an import will add and what it will put in place.
Looked(d) ==
  /\ d \in Running /\ d.log \in 1 .. edits /\ \A l \in logs : l.id # d.log
  /\ Sound(d.new) /\ \A r \in d.new : r.charge # 0 /\ r.log = d.log /\ r.id[1] = d.log
  /\ Sound(d.merged) /\ \A r \in d.merged : r.charge # 0 /\ r.log = d.log /\ r.id[1] = 0 /\ r.merged
  /\ d.count = Cardinality(d.new) + Cardinality(d.merged)

\* It is right about the rows as long as nothing crosses it.
UpToDate(d) ==
  /\ Alone => ApartIn((rows \ I!Places(d)) \cup d.new)
  /\ ~crossed => \A i \in 1 .. Len(d.lines) : d.lines[i].out \/ I!HasRow(d.lines[i], AfterIt(d))

StatementsInv ==
  /\ Counting /\ AccountInv /\ PageInv
  /\ \A d \in inFlight : Looked(d) /\ UpToDate(d)
  /\ \A d, e \in inFlight : d.log = e.log => d = e

LEMMA NothingRead == ASSUME I!ImportsAssumption, I!Init PROVE StatementsInv
<1>1. <<>> \in Seq(StatedLine)
  OBVIOUS
<1>2. page \in Page
  BY <1>1 DEF I!Init, I!EmptyPage, I!Nothing, Page, Review
<1>3. PageInv
  BY <1>2 DEF I!Init, I!EmptyPage, PageInv
<1>4. AccountInv
  BY FS_EmptySet DEF I!Init, AccountInv, Sound, Distinct, ApartIn
<1> QED
  BY <1>3, <1>4 DEF I!Init, I!ImportsAssumption, StatementsInv, Counting

LEMMA Later ==
  ASSUME Counting, edits' = edits \/ I!Bounded PROVE Counting' /\ edits \in Nat /\ edits' >= edits
  BY DEF Counting, I!Bounded

\* A step that adds no log and leaves an import as it was looked up.
LEMMA LookedStays ==
  ASSUME Counting, edits' = edits \/ I!Bounded, logs' \subseteq logs, NEW d, Looked(d)
  PROVE  Looked(d)'
<1>1. edits \in Nat /\ edits' \in Nat /\ edits' >= edits
  BY Later DEF Counting
<1>2. d.log \in 1 .. edits'
  BY <1>1 DEF Looked
<1> QED
  BY <1>2 DEF Looked, Sound, RowOk, Distinct

LEMMA LogsStay ==
  ASSUME Counting, edits' = edits \/ I!Bounded, logs' \subseteq logs,
         \A l \in logs : l \in LogOf /\ l.id <= edits
  PROVE  \A l \in logs' : l \in LogOf /\ l.id <= edits'
<1>1. edits \in Nat /\ edits' \in Nat /\ edits' >= edits /\ MaxImportEdits \in Nat
  BY Later DEF Counting
<1> QED
  BY <1>1 DEF LogOf

\* A step of the page, which leaves what the server has.
LEMMA PageStep ==
  ASSUME StatementsInv, UNCHANGED <<rows, logs, inFlight, crossed>>, edits' = edits \/ I!Bounded,
         PageInv'
  PROVE  StatementsInv'
<1>1. ASSUME NEW d \in inFlight PROVE UpToDate(d)'
  <2>1. I!Places(d)' = I!Places(d)
    BY DEF I!Places
  <2>2. AfterIt(d)' = AfterIt(d)
    BY <2>1 DEF AfterIt, PutBack
  <2> QED
    BY <1>1, <2>1, <2>2 DEF UpToDate, StatementsInv, Alone
<1>2. \A d \in inFlight : Looked(d)'
  BY LookedStays DEF StatementsInv
<1>3. AccountInv'
  BY LogsStay DEF StatementsInv, AccountInv, Alone
<1>4. Counting'
  BY Later DEF StatementsInv
<1> QED
  BY <1>1, <1>2, <1>3, <1>4 DEF StatementsInv

\* A step of the user, which crosses what is running.
LEMMA UserStep ==
  ASSUME StatementsInv, I!ByUser, Sound(rows'), logs' \subseteq logs,
         \A r \in rows' : r.log = 0 \/ \E l \in logs' : l.id = r.log,
         ApartIn(rows) => ApartIn(rows')
  PROVE  StatementsInv'
<1>1. /\ crossed' = (crossed \/ inFlight # {}) /\ I!Bounded
      /\ UNCHANGED <<page, asked, raced, inFlight>>
  BY DEF I!ByUser
<1>2. ASSUME NEW d \in inFlight' PROVE Looked(d)' /\ UpToDate(d)'
  <2>1. crossed'
    BY <1>1, <1>2
  <2>2. Looked(d)'
    BY <1>1, <1>2, LookedStays DEF StatementsInv
  <2> QED
    BY <2>1, <2>2 DEF UpToDate, Alone
<1>3. AccountInv'
  <2>1. \A l \in logs' : l \in LogOf /\ l.id <= edits'
    BY <1>1, LogsStay DEF StatementsInv, AccountInv
  <2>2. Alone' => Alone
    BY <1>1 DEF Alone
  <2>3. crossed' \in BOOLEAN
    BY <1>1
  <2> QED
    BY <2>1, <2>2, <2>3 DEF StatementsInv, AccountInv
<1>4. PageInv'
  BY <1>1 DEF StatementsInv, PageInv
<1>5. Counting'
  BY <1>1, Later DEF StatementsInv
<1> QED
  BY <1>1, <1>2, <1>3, <1>4, <1>5 DEF StatementsInv

-----------------------------------------------------------------------------
(* The steps of the page *)

LEMMA PageKept ==
  ASSUME NEW A, NEW B, NEW C, NEW D, NEW p \in [name : A, flip : B, detect : C, review : D]
  PROVE  /\ p.name \in A /\ p.flip \in B /\ p.detect \in C /\ p.review \in D
         /\ \A a \in A : \A b \in B : \A c \in C :
              /\ [p EXCEPT !.name = a, !.flip = b, !.detect = c] \in
                   [name : A, flip : B, detect : C, review : D]
              /\ [p EXCEPT !.name = a, !.flip = b, !.detect = c].name = a
              /\ [p EXCEPT !.name = a, !.flip = b, !.detect = c].flip = b
         /\ \A b \in B : /\ [p EXCEPT !.flip = b] \in [name : A, flip : B, detect : C, review : D]
                         /\ [p EXCEPT !.flip = b].name = p.name /\ [p EXCEPT !.flip = b].flip = b
         /\ \A c \in C : /\ [p EXCEPT !.detect = c] \in [name : A, flip : B, detect : C, review : D]
                         /\ [p EXCEPT !.detect = c].name = p.name
                         /\ [p EXCEPT !.detect = c].flip = p.flip
                         /\ [p EXCEPT !.detect = c].review = p.review
         /\ \A d \in D : /\ [p EXCEPT !.review = d] \in [name : A, flip : B, detect : C, review : D]
                         /\ [p EXCEPT !.review = d].name = p.name
                         /\ [p EXCEPT !.review = d].flip = p.flip
                         /\ [p EXCEPT !.review = d].review = d
  OBVIOUS

LEMMA FileChosen ==
  ASSUME StatementsInv, NEW f \in DOMAIN Statements, I!ProcessFile(f) PROVE StatementsInv'
<1> DEFINE b == FALSE
           p == [page EXCEPT !.name = f, !.flip = b, !.detect = TRUE]
           q == [of |-> f, flip |-> b]
<1>1. b \in BOOLEAN /\ TRUE \in BOOLEAN /\ f \in DOMAIN Statements \cup {"none"}
  OBVIOUS
<1>2. asked' = asked \cup {q} /\ page' = p /\ raced' = (raced \/ asked # {})
  BY DEF I!ProcessFile, I!Ask
<1> HIDE DEF b
<1>3. page \in Page
  BY DEF StatementsInv, PageInv
<1>4. p \in Page /\ p.name = f /\ p.flip = b
  BY <1>1, <1>3, PageKept DEF Page
<1>5. q \in [of : DOMAIN Statements, flip : BOOLEAN] /\ q.of = f /\ q.flip = b
  BY <1>1
<1> HIDE DEF p, q
<1>6. PageInv'
  <2>1. asked' \subseteq [of : DOMAIN Statements, flip : BOOLEAN] /\ page' \in Page
    BY <1>2, <1>4, <1>5 DEF StatementsInv, PageInv
  <2>2. raced' \in BOOLEAN
    BY <1>2
  <2>3. ~raced' => asked' = {q}
    BY <1>2
  <2> QED
    BY <1>2, <1>4, <1>5, <2>1, <2>2, <2>3 DEF PageInv
<1> QED
  BY <1>6, PageStep DEF I!ProcessFile, I!Server

LEMMA SignFlipped == ASSUME StatementsInv, I!Flip PROVE StatementsInv'
<1> DEFINE b == ~page.flip
           p == [page EXCEPT !.flip = b]
           q == [of |-> page.name, flip |-> b]
<1>1. page \in Page
  BY DEF StatementsInv, PageInv
<1>2. b \in BOOLEAN
  OBVIOUS
<1>3. page' = p /\ asked' = asked \cup {q} /\ raced' = (raced \/ asked # {}) /\ I!IsCsv(page.name)
  BY DEF I!Flip, I!Ask, I!Offered
<1> HIDE DEF b
<1>4. p \in Page /\ p.name = page.name /\ p.flip = b
  BY <1>1, <1>2, PageKept DEF Page
<1>5. page.name \in DOMAIN Statements
  BY <1>1, <1>3 DEF Page, I!IsCsv
<1>6. q \in [of : DOMAIN Statements, flip : BOOLEAN] /\ q.of = page.name /\ q.flip = b
  BY <1>2, <1>5
<1> HIDE DEF p, q
<1>7. PageInv'
  <2>1. asked' \subseteq [of : DOMAIN Statements, flip : BOOLEAN] /\ page' \in Page
    BY <1>3, <1>4, <1>6 DEF StatementsInv, PageInv
  <2>2. raced' \in BOOLEAN
    BY <1>3
  <2>3. ~raced' => asked' = {q}
    BY <1>3
  <2> QED
    BY <1>3, <1>4, <1>6, <2>1, <2>2, <2>3 DEF PageInv
<1> QED
  BY <1>7, PageStep DEF I!Flip, I!Server

LEMMA DetectionOff == ASSUME StatementsInv, I!DetectOff PROVE StatementsInv'
<1> DEFINE p == [page EXCEPT !.detect = FALSE]
<1>1. page \in Page /\ FALSE \in BOOLEAN
  BY DEF StatementsInv, PageInv
<1>2. p \in Page /\ p.name = page.name /\ p.flip = page.flip /\ p.review = page.review
  BY <1>1, PageKept DEF Page
<1>3. page' = p /\ UNCHANGED <<asked, raced>>
  BY DEF I!DetectOff
<1> HIDE DEF p
<1>4. PageInv'
  BY <1>2, <1>3 DEF StatementsInv, PageInv
<1> QED
  BY <1>4, PageStep DEF I!DetectOff, I!Server

LEMMA Answered ==
  ASSUME I!ImportsAssumption, StatementsInv, NEW p \in asked, I!Answer(p) PROVE StatementsInv'
<1> DEFINE b == p.flip
           q == [of |-> p.of, flip |-> b, lines |-> I!Parsed(p.of, b)]
           w == [page EXCEPT !.review = q]
<1>1. page \in Page /\ p \in [of : DOMAIN Statements, flip : BOOLEAN]
  BY DEF StatementsInv, PageInv
<1>2. p.of \in DOMAIN Statements /\ b \in BOOLEAN
  BY <1>1
<1>3. page' = w /\ asked' = asked \ {p} /\ raced' = raced
  BY DEF I!Answer
<1>4. ~raced => p.of = page.name /\ b = page.flip
  BY DEF StatementsInv, PageInv
<1> HIDE DEF b
<1>5. I!Parsed(p.of, b) \in Seq(StatedLine)
  BY <1>2, ParsedAre
<1>6. q \in Review /\ q.of = p.of /\ q.flip = b
  BY <1>2, <1>5 DEF Review
<1> HIDE DEF q
<1>7. w \in Page /\ w.name = page.name /\ w.flip = page.flip /\ w.review = q
  BY <1>1, <1>6, PageKept DEF Page
<1> HIDE DEF w
<1>8. PageInv'
  BY <1>3, <1>4, <1>6, <1>7 DEF StatementsInv, PageInv
<1> QED
  BY <1>8, PageStep DEF I!Answer, I!Server

LEMMA AnswerRefused == ASSUME StatementsInv, NEW p \in asked, I!Refused(p) PROVE StatementsInv'
<1>1. asked' = asked \ {p} /\ raced' = TRUE /\ page' = page
  BY DEF I!Refused
<1>2. raced' \in BOOLEAN /\ raced'
  BY <1>1
<1>3. PageInv'
  BY <1>1, <1>2 DEF StatementsInv, PageInv
<1> QED
  BY <1>3, PageStep DEF I!Refused, I!Server

LEMMA LineToggled ==
  ASSUME StatementsInv, NEW i \in 1 .. Len(page.review.lines), I!ToggleExcluded(i)
  PROVE  StatementsInv'
<1> DEFINE w == page.review
           s == w.lines
           l == s[i]
           b == ~l.out
           m == [l EXCEPT !.out = b]
           t == [s EXCEPT ![i] = m]
           v == [w EXCEPT !.lines = t]
           u == [page EXCEPT !.review = v]
<1>1. page \in Page
  BY DEF StatementsInv, PageInv
<1>2. w \in Review
  BY <1>1, PageKept DEF Page
<1>3. s \in Seq(StatedLine) /\ i \in 1 .. Len(s)
  BY <1>2 DEF Review
<1>4. page' = u /\ UNCHANGED <<asked, raced>>
  BY DEF I!ToggleExcluded
<1>5. b \in BOOLEAN
  OBVIOUS
<1>6. w # I!Nothing
  BY <1>3 DEF I!Nothing
<1> HIDE DEF b, w, s
<1>7. l \in StatedLine
  BY <1>3
<1> HIDE DEF l
<1>8. /\ m \in LineFields(BOOLEAN, BOOLEAN)
      /\ m.charge = l.charge /\ m.date = l.date /\ m.text = l.text /\ m.ext = l.ext
  <2>1. ASSUME NEW B, NEW C, NEW x \in LineFields(B, C), NEW e \in C,
               NEW z, z = [x EXCEPT !.out = e]
        PROVE  /\ z \in LineFields(B, C)
               /\ z.charge = x.charge /\ z.date = x.date /\ z.text = x.text /\ z.ext = x.ext
    BY <2>1 DEF LineFields
  <2>2. l \in LineFields(BOOLEAN, BOOLEAN)
    BY <1>7 DEF StatedLine
  <2> QED
    BY <1>5, <2>1, <2>2
<1> HIDE DEF m
<1>9. m \in StatedLine
  <2>1. I!WrittenAlike => Stated(l)
    BY <1>7 DEF StatedLine
  <2>2. I!WrittenAlike => Stated(m)
    BY <1>8, <2>1 DEF Stated, Says
  <2> QED
    BY <1>8, <2>2 DEF StatedLine
<1>10. t \in Seq(StatedLine)
  BY <1>3, <1>9
<1> HIDE DEF t
<1>11. v \in Review /\ v.of = w.of /\ v.flip = w.flip
  <2>1. ASSUME NEW A, NEW B, NEW C, NEW x \in [of : A, flip : B, lines : C], NEW y \in C
        PROVE  /\ [x EXCEPT !.lines = y] \in [of : A, flip : B, lines : C]
               /\ [x EXCEPT !.lines = y].of = x.of /\ [x EXCEPT !.lines = y].flip = x.flip
    OBVIOUS
  <2> QED
    BY <1>2, <1>10, <2>1 DEF Review
<1> HIDE DEF v
<1>12. u \in Page /\ u.name = page.name /\ u.flip = page.flip /\ u.review = v
  BY <1>1, <1>11, PageKept DEF Page
<1> HIDE DEF u
<1>13. PageInv'
  <2>1. ~raced /\ asked = {} => w.of = page.name /\ w.flip = page.flip
    BY <1>6 DEF StatementsInv, PageInv, w
  <2> QED
    BY <1>4, <1>11, <1>12, <2>1 DEF StatementsInv, PageInv
<1> QED
  BY <1>13, PageStep DEF I!ToggleExcluded, I!Server

LEMMA EmptyIsPage == I!EmptyPage \in Page /\ I!EmptyPage.review = I!Nothing
<1>1. <<>> \in Seq(StatedLine)
  OBVIOUS
<1> QED
  BY <1>1 DEF I!EmptyPage, I!Nothing, Page, Review

\* The page of an import that runs is gone.
LEMMA RunningKept ==
  ASSUME NEW d \in Running, NEW b \in BOOLEAN
  PROVE  LET e == [d EXCEPT !.here = b]
         IN  /\ e \in Running /\ e.merged = d.merged /\ e.new = d.new /\ e.log = d.log
             /\ e.lines = d.lines /\ e.count = d.count
<1>1. ASSUME NEW L, NEW S, NEW B, NEW e \in RunningFields(L, S, B), NEW c \in B
      PROVE  /\ [e EXCEPT !.here = c] \in RunningFields(L, S, B)
             /\ [e EXCEPT !.here = c].merged = e.merged /\ [e EXCEPT !.here = c].new = e.new
             /\ [e EXCEPT !.here = c].log = e.log /\ [e EXCEPT !.here = c].lines = e.lines
             /\ [e EXCEPT !.here = c].count = e.count
  BY DEF RunningFields
<1> QED
  BY <1>1 DEF Running

LEMMA Reloaded == ASSUME StatementsInv, I!Reload PROVE StatementsInv'
<1>1. /\ page' = I!EmptyPage /\ asked' = {} /\ raced' = FALSE /\ UNCHANGED <<rows, logs, crossed>>
      /\ inFlight' = {[d EXCEPT !.here = FALSE] : d \in inFlight} /\ I!Bounded
  BY DEF I!Reload
<1>2. PageInv'
  <2>1. raced' \in BOOLEAN
    BY <1>1
  <2> QED
    BY <1>1, <2>1, EmptyIsPage DEF PageInv
<1>3. AccountInv'
  BY <1>1, LogsStay DEF StatementsInv, AccountInv, Alone
<1>4. ASSUME NEW e \in inFlight'
      PROVE  \E d \in inFlight : /\ e \in Running /\ e.merged = d.merged /\ e.new = d.new
                                 /\ e.log = d.log /\ e.lines = d.lines /\ e.count = d.count
                                 /\ e = [d EXCEPT !.here = FALSE]
  <2>1. PICK d \in inFlight : e = [d EXCEPT !.here = FALSE]
    BY <1>1, <1>4
  <2>2. FALSE \in BOOLEAN /\ d \in Running
    BY DEF StatementsInv, Looked
  <2> QED
    BY <2>1, <2>2, RunningKept
<1>5. ASSUME NEW e \in inFlight' PROVE Looked(e)' /\ UpToDate(e)'
  <2>1. PICK d \in inFlight : /\ e \in Running /\ e.merged = d.merged /\ e.new = d.new
                              /\ e.log = d.log /\ e.lines = d.lines /\ e.count = d.count
    BY <1>4
  <2>2. Looked(d)' /\ UpToDate(d)
    BY <1>1, LookedStays DEF StatementsInv
  <2>3. I!Places(e)' = I!Places(d)
    BY <1>1, <2>1 DEF I!Places
  <2>4. AfterIt(e)' = AfterIt(d)
    BY <1>1, <2>1, <2>3 DEF AfterIt, PutBack
  <2>5. Looked(e)'
    BY <2>1, <2>2 DEF Looked
  <2>6. UpToDate(e)'
    BY <1>1, <2>1, <2>2, <2>3, <2>4 DEF UpToDate, Alone
  <2> QED
    BY <2>5, <2>6
<1>6. ASSUME NEW d \in inFlight', NEW e \in inFlight', d.log = e.log PROVE d = e
  <2>1. PICK c \in inFlight : d.log = c.log /\ d = [c EXCEPT !.here = FALSE]
    BY <1>4
  <2>2. PICK f \in inFlight : e.log = f.log /\ e = [f EXCEPT !.here = FALSE]
    BY <1>4
  <2>3. c = f
    BY <1>6, <2>1, <2>2 DEF StatementsInv
  <2> QED
    BY <2>1, <2>2, <2>3
<1>7. Counting'
  BY <1>1, Later DEF StatementsInv
<1> QED
  BY <1>2, <1>3, <1>5, <1>6, <1>7 DEF StatementsInv

-----------------------------------------------------------------------------
(* What a commit leaves *)

LEMMA SameIds ==
  ASSUME NEW S, NEW T, IsFiniteSet(T), Distinct(S), \A x \in S : \E y \in T : y.id = x.id
  PROVE  /\ IsFiniteSet(S) /\ Cardinality(S) <= Cardinality(T)
         /\ Cardinality(S) = Cardinality(T) => \A y \in T : \E x \in S : x.id = y.id
<1> DEFINE f == [x \in S |-> CHOOSE y \in T : y.id = x.id]
<1>1. ASSUME NEW x \in S PROVE f[x] \in T /\ f[x].id = x.id
  <2>1. \E y \in T : y.id = x.id
    OBVIOUS
  <2>2. f[x] = CHOOSE y \in T : y.id = x.id
    OBVIOUS
  <2> QED
    BY Zenon, <2>1, <2>2
<1>2. f \in [S -> T]
  <2>1. \A x \in S : (CHOOSE y \in T : y.id = x.id) \in T
    BY <1>1
  <2> QED
    BY <2>1
<1> HIDE DEF f
<1>3. f \in Injection(S, T)
  <2>1. ASSUME NEW a \in S, NEW b \in S, f[a] = f[b] PROVE a = b
    BY <1>1, <2>1 DEF Distinct
  <2> QED
    BY <1>2, <2>1 DEF Injection, IsInjective
<1>4. /\ IsFiniteSet(S) /\ Cardinality(S) <= Cardinality(T)
      /\ Cardinality(S) = Cardinality(T) <=> f \in Surjection(S, T)
  BY <1>3, FS_Injection
<1>5. f \in Surjection(S, T) => \A y \in T : \E x \in S : f[x] = y
  BY DEF Surjection
<1> QED
  BY <1>1, <1>4, <1>5

\* The rows do not know an import that is running.
LEMMA NoRowYet ==
  ASSUME StatementsInv, NEW d \in inFlight, NEW r \in rows
  PROVE  r.log # d.log /\ r.id[1] # d.log
<1>1. Looked(d) /\ RowOk(r) /\ (r.log = 0 \/ \E l \in logs : l.id = r.log)
  BY DEF StatementsInv, AccountInv, Sound
<1>2. d.log # 0
  BY <1>1 DEF Looked
<1> QED
  BY <1>1, <1>2 DEF Looked, RowOk

LEMMA PutBackIs ==
  ASSUME StatementsInv, NEW d \in inFlight
  PROVE  /\ \A x \in PutBack(d) : /\ RowOk(x) /\ x.charge # 0 /\ x.merged /\ x.log = d.log
                                  /\ x.id[1] = 0 /\ \E m \in d.merged : m.id = x.id
         /\ Distinct(PutBack(d)) /\ IsFiniteSet(PutBack(d))
         /\ \A m \in d.merged, r \in I!Places(d) :
              m.id = r.id => \E x \in PutBack(d) : x.id = m.id /\ x.charge = m.charge
<1> DEFINE pairs == {p \in d.merged \X I!Places(d) : p[1].id = p[2].id}
<1>1. Looked(d) /\ Sound(rows) /\ Sound(d.merged)
  BY DEF StatementsInv, AccountInv, Looked
<1>2. ASSUME NEW m \in d.merged, NEW r \in I!Places(d), m.id = r.id
      PROVE  \E x : /\ x = PutAt(<<m, r>>) /\ RowOk(x) /\ x.charge # 0 /\ x.merged
                    /\ x.log = d.log /\ x.id[1] = 0 /\ x.id = m.id /\ x.charge = m.charge
  <2> DEFINE x == PutAt(<<m, r>>)
             w == [m EXCEPT !.date = r.date, !.text = r.text, !.touched = r.touched]
  <2>1. /\ m \in RowOfAccount /\ RowOk(m) /\ m.charge # 0 /\ m.merged /\ m.log = d.log
        /\ m.id[1] = 0
    BY <1>1 DEF Looked, Sound, RowOk
  <2>2. r \in RowOfAccount
    BY <1>1 DEF I!Places, Sound, RowOk
  <2>3. r.date \in Nat /\ r.text \in Texts /\ r.touched \in BOOLEAN
    BY <2>2 DEF RowOfAccount, RowFields
  <2>4. x = w
    BY DEF PutAt
  <2>5. Reworded(w, m, RowOfAccount)
    BY <2>1, <2>3, RowWith
  <2> HIDE DEF w
  <2>6. /\ w \in RowOfAccount /\ w.id = m.id /\ w.charge = m.charge /\ w.source = m.source
        /\ w.log = m.log /\ w.merged = m.merged
    BY <2>5 DEF Reworded
  <2>7. RowOk(w)
    BY <2>1, <2>6 DEF RowOk, AsRead
  <2> HIDE DEF x
  <2>8. /\ RowOk(x) /\ x.charge # 0 /\ x.merged /\ x.log = d.log /\ x.id[1] = 0 /\ x.id = m.id
        /\ x.charge = m.charge
    BY <2>1, <2>4, <2>6, <2>7
  <2> QED
    BY <2>8 DEF x
<1>3. PutBack(d) = {PutAt(q) : q \in pairs}
  BY DEF PutBack
<1>4. \A q \in pairs : q = <<q[1], q[2]>> /\ q[1] \in d.merged /\ q[2] \in I!Places(d)
                       /\ q[1].id = q[2].id
  OBVIOUS
<1>5. \A m \in d.merged, r \in I!Places(d) : m.id = r.id => <<m, r>> \in pairs
  OBVIOUS
<1> HIDE DEF pairs
<1>6. ASSUME NEW x \in PutBack(d)
      PROVE  \E m \in d.merged, r \in I!Places(d) : m.id = r.id /\ x = PutAt(<<m, r>>)
  BY <1>3, <1>4
<1>7. ASSUME NEW x \in PutBack(d)
      PROVE  /\ RowOk(x) /\ x.charge # 0 /\ x.merged /\ x.log = d.log
             /\ x.id[1] = 0 /\ \E m \in d.merged : m.id = x.id
  <2>1. PICK m \in d.merged, r \in I!Places(d) : m.id = r.id /\ x = PutAt(<<m, r>>)
    BY <1>6
  <2>2. PICK z : /\ z = PutAt(<<m, r>>) /\ RowOk(z) /\ z.charge # 0 /\ z.merged
                 /\ z.log = d.log /\ z.id[1] = 0 /\ z.id = m.id /\ z.charge = m.charge
    BY <1>2, <2>1
  <2>3. x = z
    BY <2>1, <2>2
  <2> QED
    BY <2>2, <2>3
<1>8. Distinct(PutBack(d))
  <2> SUFFICES ASSUME NEW x \in PutBack(d), NEW y \in PutBack(d), x.id = y.id PROVE x = y
    BY DEF Distinct
  <2>1. PICK m \in d.merged, r \in I!Places(d) : m.id = r.id /\ x = PutAt(<<m, r>>)
    BY <1>6
  <2>2. PICK n \in d.merged, o \in I!Places(d) : n.id = o.id /\ y = PutAt(<<n, o>>)
    BY <1>6
  <2>3. x.id = m.id /\ y.id = n.id
    BY <1>2, <2>1, <2>2
  <2>4. r \in rows /\ o \in rows
    BY DEF I!Places
  <2>5. m = n /\ r = o
    BY <1>1, <2>1, <2>2, <2>3, <2>4 DEF Sound, Distinct
  <2> QED
    BY <2>1, <2>2, <2>5
<1>9. IsFiniteSet(PutBack(d))
  <2>1. IsFiniteSet(d.merged)
    BY <1>1 DEF Sound
  <2> QED
    BY <1>7, <1>8, <2>1, SameIds
<1>10. ASSUME NEW m \in d.merged, NEW r \in I!Places(d), m.id = r.id
       PROVE  \E x \in PutBack(d) : x.id = m.id /\ x.charge = m.charge
  <2>1. PutAt(<<m, r>>) \in PutBack(d)
    BY <1>3, <1>5, <1>10
  <2> QED
    BY <1>2, <1>10, <2>1
<1> QED
  BY <1>7, <1>8, <1>9, <1>10

\* Nothing gets lost of a placeholder, and no more is put than was found.
LEMMA AllPut ==
  ASSUME StatementsInv, NEW d \in inFlight, Cardinality(I!Places(d)) = Cardinality(d.merged)
  PROVE  Cardinality(PutBack(d)) = Cardinality(d.merged)
<1>1. Sound(rows) /\ Sound(d.merged)
  BY DEF StatementsInv, AccountInv, Looked
<1>2. IsFiniteSet(d.merged) /\ Distinct(d.merged) /\ Distinct(I!Places(d))
  BY <1>1 DEF Sound, Distinct, I!Places
<1>3. \A r \in I!Places(d) : \E m \in d.merged : m.id = r.id
  BY DEF I!Places
<1>4. \A m \in d.merged : \E r \in I!Places(d) : r.id = m.id
  BY <1>2, <1>3, SameIds
<1>5. \A m \in d.merged : \E x \in PutBack(d) : x.id = m.id
  BY <1>4, PutBackIs
<1>6. /\ Distinct(PutBack(d)) /\ IsFiniteSet(PutBack(d))
      /\ \A x \in PutBack(d) : \E m \in d.merged : m.id = x.id
  BY PutBackIs
<1>7. Cardinality(PutBack(d)) <= Cardinality(d.merged)
  BY <1>2, <1>6, SameIds
<1>8. Cardinality(d.merged) <= Cardinality(PutBack(d))
  BY <1>2, <1>5, <1>6, SameIds
<1>9. Cardinality(d.merged) \in Nat /\ Cardinality(PutBack(d)) \in Nat
  BY <1>2, <1>6, FS_CardinalityType
<1> QED
  BY <1>7, <1>8, <1>9

LEMMA LeftBehind ==
  ASSUME StatementsInv, NEW d \in inFlight
  PROVE  /\ Sound(AfterIt(d))
         /\ \A r \in AfterIt(d) : r \in rows \/ r.log = d.log
         /\ Alone => ApartIn(AfterIt(d))
<1> DEFINE kept == rows \ I!Places(d)
<1>1. Looked(d) /\ Sound(rows) /\ Sound(d.new) /\ Sound(d.merged) /\ UpToDate(d)
  BY DEF StatementsInv, AccountInv, Looked
<1>2. AfterIt(d) = (kept \cup d.new) \cup PutBack(d)
  BY DEF AfterIt
<1>3. kept \subseteq rows /\ \A r \in kept : \A m \in d.merged : m.id # r.id
  BY DEF I!Places
<1>4. \A r \in d.new : r.log = d.log /\ r.id[1] = d.log /\ RowOk(r)
  BY <1>1 DEF Looked, Sound
<1>5. /\ \A x \in PutBack(d) : RowOk(x) /\ x.charge # 0 /\ x.merged /\ x.log = d.log
                               /\ x.id[1] = 0 /\ \E m \in d.merged : m.id = x.id
      /\ Distinct(PutBack(d)) /\ IsFiniteSet(PutBack(d))
  BY PutBackIs
<1>6. \A r \in kept : RowOk(r) /\ r.id[1] # d.log
  BY <1>1, <1>3, NoRowYet DEF Sound
<1>7. d.log # 0
  BY <1>1 DEF Looked
<1>8. Sound(kept)
  BY <1>1, <1>3, SoundPart
<1>9. IsFiniteSet(AfterIt(d))
  <2>1. IsFiniteSet(kept) /\ IsFiniteSet(d.new)
    BY <1>1, <1>8 DEF Sound
  <2>2. IsFiniteSet(kept \cup d.new)
    BY <2>1, FS_Union
  <2>3. IsFiniteSet((kept \cup d.new) \cup PutBack(d))
    BY <1>5, <2>2, FS_Union
  <2> QED
    BY <1>2, <2>3
<1> HIDE DEF kept
<1>10. Distinct(AfterIt(d))
  <2> SUFFICES ASSUME NEW r \in AfterIt(d), NEW o \in AfterIt(d), r.id = o.id PROVE r = o
    BY DEF Distinct
  <2>1. CASE r \in kept
    <3>1. o \notin d.new /\ o \notin PutBack(d)
      BY <1>3, <1>4, <1>5, <1>6, <2>1
    <3> QED
      BY <1>2, <1>8, <2>1, <3>1 DEF Sound, Distinct
  <2>2. CASE r \in d.new
    <3>1. o \notin kept /\ o \notin PutBack(d)
      BY <1>4, <1>5, <1>6, <1>7, <2>2
    <3> QED
      BY <1>1, <1>2, <2>2, <3>1 DEF Sound, Distinct
  <2>3. CASE r \in PutBack(d)
    <3>1. o \notin kept /\ o \notin d.new
      BY <1>3, <1>4, <1>5, <1>7, <2>3
    <3> QED
      BY <1>2, <1>5, <2>3, <3>1 DEF Distinct
  <2> QED
    BY <1>2, <2>1, <2>2, <2>3
<1>11. \A r \in AfterIt(d) : RowOk(r)
  BY <1>2, <1>4, <1>5, <1>6
<1>12. Alone => ApartIn(AfterIt(d))
  <2>1. \A x \in PutBack(d) : x.charge # 0 /\ ~AsRead(x)
    BY <1>5 DEF AsRead
  <2>2. Alone => ApartIn(kept \cup d.new)
    BY <1>1 DEF UpToDate, kept
  <2> QED
    BY <1>2, <2>1, <2>2, ApartMore
<1> QED
  BY <1>2, <1>3, <1>4, <1>5, <1>9, <1>10, <1>11, <1>12 DEF Sound

\* A log counts what its deletion would take away.
LEMMA CountedAll ==
  ASSUME StatementsInv, NEW d \in inFlight, Cardinality(I!Places(d)) = Cardinality(d.merged)
  PROVE  Cardinality(Mine(AfterIt(d), d.log)) = d.count
<1>1. Looked(d)
  BY DEF StatementsInv
<1>2. IsFiniteSet(d.new) /\ IsFiniteSet(d.merged) /\ IsFiniteSet(PutBack(d))
  BY <1>1, PutBackIs DEF Looked, Sound
<1>3. /\ \A r \in d.new : r.log = d.log /\ r.id[1] = d.log
      /\ d.log # 0 /\ d.count = Cardinality(d.new) + Cardinality(d.merged)
  BY <1>1 DEF Looked
<1>4. \A x \in PutBack(d) : x.log = d.log /\ x.id[1] = 0
  BY PutBackIs
<1>5. \A r \in rows : r.log # d.log
  BY NoRowYet
<1>6. Mine(AfterIt(d), d.log) = d.new \cup PutBack(d)
  BY <1>3, <1>4, <1>5 DEF AfterIt, Mine
<1>7. d.new \cap PutBack(d) = {}
  BY <1>3, <1>4
<1>8. Cardinality(d.new \cap PutBack(d)) = 0
  BY <1>7, FS_EmptySet
<1>9. Cardinality(d.new \cup PutBack(d)) =
        Cardinality(d.new) + Cardinality(PutBack(d)) - Cardinality(d.new \cap PutBack(d))
  BY <1>2, FS_Union
<1>10. Cardinality(PutBack(d)) = Cardinality(d.merged)
  BY AllPut
<1>11. Cardinality(d.new) \in Nat /\ Cardinality(d.merged) \in Nat
  BY <1>2, FS_CardinalityType
<1> QED
  BY <1>3, <1>6, <1>8, <1>9, <1>10, <1>11

-----------------------------------------------------------------------------
(* Imports *)

LEMMA RowSame ==
  ASSUME NEW r \in RowOfAccount
  PROVE  [r EXCEPT !.date = r.date, !.text = r.text, !.touched = r.touched] = r
<1>1. ASSUME NEW B, NEW C, NEW D, NEW E, NEW q \in RowFields(B, C, D, E)
      PROVE  [q EXCEPT !.date = q.date, !.text = q.text, !.touched = q.touched] = q
  BY DEF RowFields
<1> QED
  BY <1>1 DEF RowOfAccount

LEMMA ImportRun == ASSUME StatementsInv, I!Import PROVE StatementsInv'
<1> DEFINE log == edits + 1
           lines == page.review.lines
           detect == I!IsCsv(page.name) /\ I!IsCsv(page.review.of) => page.detect
           taken == I!Taken(lines, log, detect)
           mine == {r \in taken.rows : r.merged /\ r.log = log}
           fresh == {r \in taken.rows : ~r.merged /\ r.log = log}
           e == [log |-> log, name |-> page.name, lines |-> lines, merged |-> mine, new |-> fresh,
                 count |-> taken.count, here |-> TRUE]
<1>1. log \in Nat \ {0} /\ edits \in Nat /\ edits' = log
  BY DEF StatementsInv, Counting, I!Import, I!Bounded
<1>2. page \in Page
  BY DEF StatementsInv, PageInv
<1>3. page.name \in DOMAIN Statements \cup {"none"} /\ page.review \in Review
  BY <1>2, PageKept DEF Page
<1>4. lines \in Seq(StatedLine)
  BY <1>3 DEF Review
<1>5. detect \in BOOLEAN
  OBVIOUS
<1>6. /\ inFlight' = inFlight \cup {e} /\ I!Bounded
      /\ UNCHANGED <<rows, logs, page, asked, raced, crossed>>
  BY DEF I!Import
<1>7. \A l \in logs : l.id # log
  <2>1. \A l \in logs : l \in LogOf /\ l.id <= edits
    BY DEF StatementsInv, AccountInv
  <2> QED
    BY <1>1, <2>1 DEF LogOf
<1>8. Sound(rows) /\ (Alone => ApartIn(rows)) /\ \A r \in rows : r.log # log
  BY <1>1, <1>7 DEF StatementsInv, AccountInv
<1> HIDE DEF log, lines, detect
<1>9. /\ taken \in TakenRows(log)
      /\ \A j \in 1 .. Len(lines) : lines[j].out \/ I!HasRow(lines[j], taken.rows)
  BY <1>1, <1>4, <1>5, <1>8, TakenIs
<1> HIDE DEF taken
<1>10. /\ taken.count \in Nat /\ Sound(taken.rows) /\ (Alone => ApartIn(taken.rows))
       /\ Traced(taken, log)
  BY <1>9 DEF TakenRows, Tally
<1>11. Sound(mine) /\ Sound(fresh)
  <2>1. mine \subseteq taken.rows /\ fresh \subseteq taken.rows
    OBVIOUS
  <2> QED
    BY <1>10, <2>1, SoundPart
<1>12. \A r \in taken.rows : r.log = log => RowOk(r) /\ r.charge # 0
  BY <1>1, <1>10 DEF Sound, RowOk
<1>13. \A r \in mine : r.charge # 0 /\ r.log = log /\ r.merged /\ Took(r, log)
  BY <1>8, <1>10, <1>12 DEF Traced, Inserted
<1>14. \A r \in fresh : r.charge # 0 /\ r.log = log /\ r.id[1] = log
  BY <1>8, <1>10, <1>12 DEF Traced, Inserted, Took
<1>15. taken.count = Cardinality(fresh) + Cardinality(mine)
  <2>1. Mine(taken.rows, log) = fresh \cup mine /\ fresh \cap mine = {}
    BY DEF Mine
  <2>2. IsFiniteSet(fresh) /\ IsFiniteSet(mine)
    BY <1>11 DEF Sound
  <2> HIDE DEF mine, fresh
  <2>3. Cardinality(fresh \cup mine) =
          Cardinality(fresh) + Cardinality(mine) - Cardinality(fresh \cap mine)
    BY <2>2, FS_Union
  <2>4. Cardinality(fresh \cap mine) = 0
    BY <2>1, FS_EmptySet
  <2>5. Cardinality(fresh) \in Nat /\ Cardinality(mine) \in Nat
    BY <2>2, FS_CardinalityType
  <2> QED
    BY <1>10, <2>1, <2>3, <2>4, <2>5 DEF Traced
<1>16. mine \subseteq RowOfAccount /\ fresh \subseteq RowOfAccount
  BY <1>11 DEF Sound, RowOk
<1>17. \A r \in taken.rows : r.log = log => r \in mine \/ r \in fresh
  OBVIOUS
<1>18. \A r \in mine : r \in taken.rows
  OBVIOUS
<1>19. \A r \in rows : r \in taken.rows \/ \E m \in mine : m.id = r.id
  BY <1>10 DEF Traced
<1>20. fresh \subseteq taken.rows
  OBVIOUS
<1> HIDE DEF mine, fresh
<1>21. /\ e \in Running /\ e.new = fresh /\ e.merged = mine /\ e.log = log /\ e.lines = lines
       /\ e.count = taken.count
  <2>1. TRUE \in BOOLEAN
    OBVIOUS
  <2> QED
    BY <1>1, <1>3, <1>4, <1>10, <1>16, <2>1 DEF Running, RunningFields
<1> HIDE DEF e
<1>22. PICK z : z = e
  OBVIOUS
<1>23. /\ z \in Running /\ z.new = fresh /\ z.merged = mine /\ z.log = log /\ z.lines = lines
       /\ z.count = taken.count /\ inFlight' = inFlight \cup {z}
  BY <1>6, <1>21, <1>22
<1>24. Looked(z)'
  <2>1. \A r \in mine : r.id[1] = 0
    BY <1>13 DEF Took
  <2>2. z.log \in 1 .. edits'
    BY <1>1, <1>23
  <2>3. Sound(z.new)' /\ Sound(z.merged)'
    BY <1>11, <1>23 DEF Sound, RowOk, Distinct
  <2> QED
    BY <1>6, <1>7, <1>13, <1>14, <1>15, <1>23, <2>1, <2>2, <2>3 DEF Looked
<1>25. I!Places(z) = {r \in rows : \E m \in mine : m.id = r.id}
  BY <1>23 DEF I!Places
<1>26. taken.rows \subseteq AfterIt(z)
  <2> SUFFICES ASSUME NEW r \in taken.rows PROVE r \in AfterIt(z)
    OBVIOUS
  <2>1. CASE r \in rows
    <3>1. ASSUME NEW m \in mine, m.id = r.id PROVE FALSE
      <4>1. m = r
        BY <1>10, <1>18, <3>1 DEF Sound, Distinct
      <4> QED
        BY <1>8, <1>13, <2>1, <4>1
    <3>2. r \in rows \ I!Places(z)
      BY <1>25, <2>1, <3>1
    <3> QED
      BY <3>2 DEF AfterIt
  <2>2. CASE r \in fresh
    BY <1>23, <2>2 DEF AfterIt
  <2>3. CASE r \in mine
    <3>1. PICK q \in rows : /\ q.id = r.id /\ q.date = r.date /\ q.text = r.text
                            /\ q.touched = r.touched
      BY <1>13, <2>3 DEF Took
    <3>2. r \in z.merged /\ q \in I!Places(z)
      BY <1>23, <1>25, <2>3, <3>1
    <3>3. r \in RowOfAccount
      BY <1>16, <2>3
    <3>4. PutAt(<<r, q>>) = [r EXCEPT !.date = q.date, !.text = q.text, !.touched = q.touched]
      BY DEF PutAt
    <3>5. PutAt(<<r, q>>) = r
      BY <3>1, <3>3, <3>4, RowSame
    <3>6. <<r, q>> \in {p \in z.merged \X I!Places(z) : p[1].id = p[2].id}
      BY <3>1, <3>2
    <3>7. r \in PutBack(z)
      BY <3>5, <3>6 DEF PutBack
    <3> QED
      BY <3>7 DEF AfterIt
  <2>4. r \in rows \/ r.log = log
    BY <1>10 DEF Traced, Inserted, Took
  <2> QED
    BY <1>17, <2>1, <2>2, <2>3, <2>4
<1>27. UpToDate(z)
  <2>1. (rows \ I!Places(z)) \cup fresh \subseteq taken.rows
    BY <1>19, <1>20, <1>25
  <2>2. Alone => ApartIn((rows \ I!Places(z)) \cup z.new)
    BY <1>10, <1>23, <2>1, ApartPart
  <2>3. \A l : I!HasRow(l, taken.rows) => I!HasRow(l, AfterIt(z))
    BY <1>26 DEF I!HasRow
  <2> QED
    BY <1>9, <1>23, <2>2, <2>3 DEF UpToDate
<1>28. ASSUME NEW d \in inFlight' PROVE Looked(d)' /\ UpToDate(d)'
  <2>1. UpToDate(d)
    BY <1>27, <1>28, <1>23 DEF StatementsInv
  <2>2. I!Places(d)' = I!Places(d) /\ AfterIt(d)' = AfterIt(d)
    BY <1>6 DEF I!Places, AfterIt, PutBack
  <2>3. UpToDate(d)'
    BY <1>6, <2>1, <2>2 DEF UpToDate, Alone
  <2>4. Looked(d)'
    BY <1>6, <1>24, <1>28, <1>23, LookedStays DEF StatementsInv
  <2> QED
    BY <2>3, <2>4
<1>29. ASSUME NEW d \in inFlight', NEW f \in inFlight', d.log = f.log PROVE d = f
  <2>1. \A c \in inFlight : c.log # log
    <3>1. \A c \in inFlight : c.log \in 1 .. edits
      BY DEF StatementsInv, Looked
    <3> QED
      BY <1>1, <3>1 DEF log
  <2> QED
    BY <1>6, <1>23, <1>29, <2>1 DEF StatementsInv
<1>30. AccountInv'
  BY <1>6, LogsStay DEF StatementsInv, AccountInv, Alone
<1>31. PageInv'
  BY <1>6 DEF StatementsInv, PageInv
<1>32. Counting'
  BY <1>6, Later DEF StatementsInv
<1> QED
  BY <1>28, <1>29, <1>30, <1>31, <1>32 DEF StatementsInv

LEMMA StatementCards == \A S : I!Cardinality(S) = Cardinality(S)
  BY DEF I!Cardinality, Cardinality

\* What a commit does with the rows and the logs.
LEMMA CommitIs ==
  ASSUME NEW d, I!Commit(d), Cardinality(I!Places(d)) = Cardinality(d.merged)
  PROVE  /\ rows' = AfterIt(d)
         /\ logs' = logs \cup {[id |-> d.log, name |-> d.name, count |-> d.count]}
         /\ crossed' = (crossed \/ inFlight' # {})
  BY StatementCards DEF I!Commit, I!Counted, AfterIt, PutBack, PutAt

LEMMA Committed == ASSUME StatementsInv, NEW d \in inFlight, I!Commit(d) PROVE StatementsInv'
<1>1. inFlight' = inFlight \ {d} /\ UNCHANGED <<asked, edits>>
  BY DEF I!Commit
<1>2. PageInv'
  <2>1. CASE UNCHANGED <<page, raced>>
    BY <1>1, <2>1 DEF StatementsInv, PageInv
  <2>2. CASE page' = I!EmptyPage /\ raced' = (raced \/ asked # {})
    <3>1. raced' \in BOOLEAN
      BY <2>2
    <3> QED
      BY <1>1, <2>2, <3>1, EmptyIsPage DEF StatementsInv, PageInv
  <2> QED
    BY <2>1, <2>2 DEF I!Commit
<1>3. Counting' /\ \A c, e \in inFlight' : c.log = e.log => c = e
  BY <1>1 DEF StatementsInv, Counting
<1>4. CASE Cardinality(I!Places(d)) = Cardinality(d.merged)
  <2> DEFINE log == [id |-> d.log, name |-> d.name, count |-> d.count]
  <2>1. rows' = AfterIt(d) /\ logs' = logs \cup {log} /\ crossed' = (crossed \/ inFlight' # {})
    BY <1>4, CommitIs
  <2>2. Looked(d)
    BY DEF StatementsInv
  <2>3. Counting /\ \A l \in logs : l \in LogOf /\ l.id <= edits
    BY DEF StatementsInv, AccountInv
  <2>4. d.log \in 1 .. edits /\ d.name \in DOMAIN Statements \cup {"none"} /\ d.count \in Nat
    BY <2>2 DEF Looked, Running, RunningFields
  <2>5. log \in LogOf /\ log.id = d.log /\ log.id <= edits
    BY <2>3, <2>4 DEF LogOf, Counting
  <2> HIDE DEF log
  <2>6. Sound(rows') /\ (Alone' => ApartIn(rows'))
    <3>1. Alone' => Alone
      BY <2>1 DEF Alone
    <3> QED
      BY <2>1, <3>1, LeftBehind
  <2>7. \A r \in rows' : r.log = 0 \/ \E l \in logs' : l.id = r.log
    <3>1. \A r \in rows : r.log = 0 \/ \E l \in logs : l.id = r.log
      BY DEF StatementsInv, AccountInv
    <3>2. \A r \in rows' : r \in rows \/ r.log = d.log
      BY <2>1, LeftBehind
    <3> QED
      BY <2>1, <2>5, <3>1, <3>2
  <2>8. crossed' \in BOOLEAN /\ \A l \in logs' : l \in LogOf /\ l.id <= edits'
    BY <1>1, <2>1, <2>3, <2>5
  <2>9. AccountInv'
    BY <2>6, <2>7, <2>8 DEF AccountInv
  <2>10. ASSUME NEW e \in inFlight' PROVE Looked(e)' /\ UpToDate(e)'
    <3>1. Looked(e) /\ e.log # d.log /\ crossed'
      BY <1>1, <2>1, <2>10 DEF StatementsInv
    <3>2. \A l \in logs' : l.id # e.log
      BY <2>1, <2>5, <3>1 DEF Looked
    <3>3. Looked(e)'
      BY <1>1, <3>1, <3>2 DEF Looked, Sound, RowOk, Distinct
    <3> QED
      BY <3>1, <3>3 DEF UpToDate, Alone
  <2> QED
    BY <1>2, <1>3, <2>9, <2>10 DEF StatementsInv
<1>5. CASE ~(Cardinality(I!Places(d)) = Cardinality(d.merged))
  <2>1. UNCHANGED <<rows, logs, crossed>>
    BY <1>5, StatementCards DEF I!Commit
  <2>2. ASSUME NEW e \in inFlight' PROVE Looked(e)' /\ UpToDate(e)'
    <3>1. Looked(e) /\ UpToDate(e)
      BY <1>1, <2>2 DEF StatementsInv
    <3>2. I!Places(e)' = I!Places(e) /\ AfterIt(e)' = AfterIt(e)
      BY <2>1 DEF I!Places, AfterIt, PutBack
    <3>3. Looked(e)'
      BY <1>1, <2>1, <3>1 DEF Looked, Sound, RowOk, Distinct
    <3> QED
      BY <2>1, <3>1, <3>2, <3>3 DEF UpToDate, Alone
  <2>3. AccountInv'
    BY <1>1, <2>1 DEF StatementsInv, AccountInv, Alone
  <2> QED
    BY <1>2, <1>3, <2>2, <2>3 DEF StatementsInv
<1> QED
  BY <1>4, <1>5

-----------------------------------------------------------------------------
(* The user and the generator *)

LEMMA RowDescribed == ASSUME StatementsInv, NEW r \in rows, I!Describe(r) PROVE StatementsInv'
<1> DEFINE x == [r EXCEPT !.text = "mine", !.touched = TRUE]
<1>1. Sound(rows) /\ r \in RowOfAccount /\ RowOk(r)
  BY DEF StatementsInv, AccountInv, Sound, RowOk
<1>2. rows' = (rows \ {r}) \cup {x} /\ I!ByUser /\ logs' = logs
  BY DEF I!Describe
<1>3. /\ x \in RowOfAccount /\ x.charge = r.charge /\ x.merged = r.merged /\ x.source = r.source
      /\ x.id = r.id /\ x.log = r.log /\ x.touched
  <2>1. "mine" \in Texts
    BY DEF Texts
  <2>2. TRUE \in BOOLEAN
    OBVIOUS
  <2>3. Reworded(x, r, RowOfAccount)
    <3>1. 0 \in Nat
      OBVIOUS
    <3> QED
      BY <1>1, <2>1, <2>2, <3>1, RowWith
  <2>4. x.touched
    BY <1>1 DEF RowOfAccount, RowFields
  <2> HIDE DEF x
  <2> QED
    BY <2>3, <2>4 DEF Reworded
<1> HIDE DEF x
<1>4. RowOk(x)
  BY <1>1, <1>3 DEF RowOk, AsRead
<1>5. Sound(rows')
  <2>1. IsFiniteSet(rows \ {r})
    BY <1>1, FS_RemoveElement DEF Sound
  <2>2. IsFiniteSet((rows \ {r}) \cup {x})
    BY <2>1, FS_AddElement
  <2> QED
    BY <1>1, <1>2, <1>3, <1>4, <2>2 DEF Sound, Distinct
<1>6. \A q \in rows' : q.log = 0 \/ \E l \in logs' : l.id = q.log
  BY <1>2, <1>3 DEF StatementsInv, AccountInv
<1>7. ApartIn(rows) => ApartIn(rows')
  BY <1>2, <1>3 DEF ApartIn, AsRead
<1> QED
  BY <1>2, <1>5, <1>6, <1>7, UserStep

LEMMA PlaceWritten ==
  ASSUME I!ImportsAssumption, StatementsInv, NEW day \in StatementDays, I!Generate(day)
  PROVE  StatementsInv'
<1> DEFINE x == [id |-> <<0, 0>>, charge |-> 0, date |-> day, text |-> Bill,
                 flip |-> FALSE, ext |-> 0, source |-> "recurring", log |-> 0,
                 sure |-> TRUE, merged |-> FALSE, touched |-> FALSE]
<1>1. rows' = rows \cup {x} /\ I!ByUser /\ (\A r \in rows : r.id[1] # 0) /\ logs' = logs
  BY DEF I!Generate
<1>2. Sound(rows)
  BY DEF StatementsInv, AccountInv
<1>3. day \in Nat /\ Bill \in Texts
  BY DEF I!ImportsAssumption, Texts
<1>4. /\ x \in RowOfAccount /\ x.charge = 0 /\ x.id[1] = 0 /\ x.log = 0 /\ ~x.merged
  BY <1>3 DEF RowOfAccount, RowFields
<1> HIDE DEF x
<1>5. RowOk(x)
  BY <1>4 DEF RowOk
<1>6. Sound(rows')
  <2>1. IsFiniteSet(rows')
    BY <1>1, <1>2, FS_AddElement DEF Sound
  <2> QED
    BY <1>1, <1>2, <1>4, <1>5, <2>1 DEF Sound, Distinct
<1>7. \A r \in rows : r.charge # 0
  BY <1>1, <1>2 DEF Sound, RowOk
<1>8. ApartIn(rows) => ApartIn(rows')
  BY <1>1, <1>4, <1>7 DEF ApartIn
<1>9. \A q \in rows' : q.log = 0 \/ \E l \in logs' : l.id = q.log
  BY <1>1, <1>4 DEF StatementsInv, AccountInv
<1> QED
  BY <1>1, <1>6, <1>8, <1>9, UserStep

LEMMA LogDeleted == ASSUME StatementsInv, NEW k \in logs, I!DeleteLog(k) PROVE StatementsInv'
<1>1. I!ByUser /\ logs' = logs \ {k} /\ rows' = {r \in rows : r.log # k.id}
  BY DEF I!DeleteLog
<1>2. rows' \subseteq rows /\ logs' \subseteq logs
  BY <1>1
<1>3. Sound(rows')
  BY <1>2, SoundPart DEF StatementsInv, AccountInv
<1>4. ApartIn(rows) => ApartIn(rows')
  BY <1>2, ApartPart
<1>5. \A q \in rows' : q.log = 0 \/ \E l \in logs' : l.id = q.log
  BY <1>1 DEF StatementsInv, AccountInv
<1> QED
  BY <1>1, <1>2, <1>3, <1>4, <1>5, UserStep

LEMMA RowDeleted == ASSUME StatementsInv, NEW o \in rows, I!DeleteRow(o) PROVE StatementsInv'
<1>1. I!ByUser /\ logs' = logs /\ rows' = rows \ {o}
  BY DEF I!DeleteRow
<1>2. rows' \subseteq rows /\ logs' \subseteq logs
  BY <1>1
<1>3. Sound(rows')
  BY <1>2, SoundPart DEF StatementsInv, AccountInv
<1>4. ApartIn(rows) => ApartIn(rows')
  BY <1>2, ApartPart
<1>5. \A q \in rows' : q.log = 0 \/ \E l \in logs' : l.id = q.log
  BY <1>1 DEF StatementsInv, AccountInv
<1> QED
  BY <1>1, <1>2, <1>3, <1>4, <1>5, UserStep

-----------------------------------------------------------------------------
(* The account of the statements *)

LEMMA StatementsStep ==
  ASSUME I!ImportsAssumption, StatementsInv, [I!Next]_(I!vars) PROVE StatementsInv'
<1>1. CASE UNCHANGED I!vars
  <2>1. PageInv'
    BY <1>1 DEF I!vars, StatementsInv, PageInv
  <2> QED
    BY <1>1, <2>1, PageStep DEF I!vars
<1>2. ASSUME NEW f \in DOMAIN Statements, I!ProcessFile(f) PROVE StatementsInv'
  BY <1>2, FileChosen
<1>3. ASSUME NEW p \in asked, I!Answer(p) PROVE StatementsInv'
  BY <1>3, Answered
<1>4. ASSUME NEW l \in logs, I!DeleteLog(l) PROVE StatementsInv'
  BY <1>4, LogDeleted
<1>5. ASSUME NEW r \in rows, I!DeleteRow(r) PROVE StatementsInv'
  BY <1>5, RowDeleted
<1>6. CASE I!Flip \/ I!DetectOff \/ I!Reload \/ I!Import
  BY <1>6, SignFlipped, DetectionOff, Reloaded, ImportRun
<1>7. ASSUME NEW d \in inFlight, I!Commit(d) PROVE StatementsInv'
  BY <1>7, Committed
<1>8. ASSUME NEW i \in 1 .. Len(page.review.lines), I!ToggleExcluded(i) PROVE StatementsInv'
  BY <1>8, LineToggled
<1>9. ASSUME NEW p \in asked, I!Refused(p) PROVE StatementsInv'
  BY <1>9, AnswerRefused
<1>10. ASSUME NEW r \in rows, I!Describe(r) PROVE StatementsInv'
  BY <1>10, RowDescribed
<1>11. ASSUME NEW day \in StatementDays, I!Generate(day) PROVE StatementsInv'
  BY <1>11, PlaceWritten
<1> QED
  BY <1>1, <1>2, <1>3, <1>4, <1>5, <1>6, <1>7, <1>8, <1>9, <1>10, <1>11 DEF I!Next, I!Names

\* Only a commit writes a log, and it writes the rows with it.
LEMMA LogWritten ==
  ASSUME StatementsInv, [I!Next]_(I!vars), NEW l \in logs' \ logs
  PROVE  \E d \in inFlight : /\ rows' = AfterIt(d) /\ crossed' = (crossed \/ inFlight' # {})
                             /\ l.id = d.log /\ l.count = d.count
                             /\ Cardinality(I!Places(d)) = Cardinality(d.merged)
<1>1. ~(logs' \subseteq logs)
  OBVIOUS
<1>2. CASE \E d \in inFlight : I!Commit(d)
  <2>1. PICK d \in inFlight : I!Commit(d)
    BY <1>2
  <2>2. Cardinality(I!Places(d)) = Cardinality(d.merged)
    BY <1>1, <2>1, StatementCards DEF I!Commit
  <2>3. /\ rows' = AfterIt(d) /\ crossed' = (crossed \/ inFlight' # {})
        /\ logs' = logs \cup {[id |-> d.log, name |-> d.name, count |-> d.count]}
    BY <2>1, <2>2, CommitIs
  <2>4. l = [id |-> d.log, name |-> d.name, count |-> d.count]
    BY <2>3
  <2>5. l.id = d.log /\ l.count = d.count
    BY <2>4
  <2> QED
    BY <2>2, <2>3, <2>5
<1>3. CASE UNCHANGED I!vars
  BY <1>1, <1>3 DEF I!vars
<1>4. CASE (\E f \in DOMAIN Statements : I!ProcessFile(f)) \/ I!Flip \/ I!DetectOff
  BY <1>1, <1>4 DEF I!ProcessFile, I!Flip, I!DetectOff, I!Server
<1>5. CASE I!Reload \/ I!Import
  BY <1>1, <1>5 DEF I!Reload, I!Import
<1>6. CASE (\E p \in asked : I!Answer(p) \/ I!Refused(p))
           \/ (\E i \in 1 .. Len(page.review.lines) : I!ToggleExcluded(i))
  BY <1>1, <1>6 DEF I!Answer, I!Refused, I!ToggleExcluded, I!Server
<1>7. CASE (\E k \in logs : I!DeleteLog(k)) \/ (\E r \in rows : I!DeleteRow(r) \/ I!Describe(r))
           \/ (\E day \in StatementDays : I!Generate(day))
  BY <1>1, <1>7 DEF I!DeleteLog, I!DeleteRow, I!Describe, I!Generate
<1> QED
  BY <1>2, <1>3, <1>4, <1>5, <1>6, <1>7 DEF I!Next, I!Names

LEMMA LinesKept == ASSUME StatementsInv, [I!Next]_(I!vars) PROVE I!LinesStep /\ I!CountStep
<1>1. ASSUME NEW d \in inFlight \ inFlight', NEW l \in logs' \ logs, l.id = d.log, ~crossed',
             NEW i \in 1 .. Len(d.lines)
      PROVE  d.lines[i].out \/ I!HasRow(d.lines[i], rows')
  <2>1. PICK c \in inFlight : rows' = AfterIt(c) /\ crossed' = (crossed \/ inFlight' # {})
                              /\ l.id = c.log
    BY LogWritten
  <2>2. c = d /\ UpToDate(c)
    BY <1>1, <2>1 DEF StatementsInv
  <2> QED
    BY <1>1, <2>1, <2>2 DEF UpToDate
<1>2. ASSUME NEW l \in logs' \ logs
      PROVE  l.count = Cardinality({r \in rows' : r.log = l.id})
  <2>1. PICK d \in inFlight : /\ rows' = AfterIt(d) /\ l.id = d.log /\ l.count = d.count
                              /\ Cardinality(I!Places(d)) = Cardinality(d.merged)
    BY LogWritten
  <2>2. Cardinality(Mine(AfterIt(d), d.log)) = d.count
    BY <2>1, CountedAll
  <2> QED
    BY <2>1, <2>2 DEF Mine
<1>3. I!LinesStep
  <2>1. ASSUME NEW d \in inFlight \ inFlight', \E l \in logs' \ logs : l.id = d.log, ~crossed'
        PROVE  \A i \in 1 .. Len(d.lines) : d.lines[i].out \/ I!HasRow(d.lines[i], rows')
    BY <1>1, <2>1
  <2> QED
    BY <2>1 DEF I!LinesStep
<1>4. I!CountStep
  BY <1>2, StatementCards DEF I!CountStep
<1> QED
  BY <1>3, <1>4

LEMMA StatementFacts ==
  ASSUME StatementsInv PROVE I!TypeOK /\ I!ShownAsAsked /\ (I!WrittenAlike => I!OneRowPerMovement)
<1>1. I!WrittenAlike => I!OneRowPerMovement
  <2>1. Alone => ApartIn(rows)
    BY DEF StatementsInv, AccountInv
  <2> QED
    BY <2>1 DEF ApartIn, AsRead, Alone, I!OneRowPerMovement
<1>2. I!ShownAsAsked
  BY DEF StatementsInv, PageInv, I!ShownAsAsked
<1>3. \A r \in rows : /\ r.log = 0 \/ \E l \in logs : l.id = r.log
                      /\ r.source \in {"import", "recurring"}
                      /\ r.source = "recurring" => r.log = 0
                      /\ \A o \in rows : o.id = r.id => o = r
  BY DEF StatementsInv, AccountInv, Sound, Distinct, RowOk, RowOfAccount, RowFields
<1>4. /\ page.name \in DOMAIN Statements \cup {"none"}
      /\ page.review.of \in DOMAIN Statements \cup {"none"}
  <2>1. page \in Page
    BY DEF StatementsInv, PageInv
  <2>2. page.name \in DOMAIN Statements \cup {"none"} /\ page.review \in Review
    BY <2>1, PageKept DEF Page
  <2> QED
    BY <2>2 DEF Review
<1>5. \A d \in inFlight : d.log \in 1 .. MaxImportEdits
  <2>1. Counting /\ \A d \in inFlight : d.log \in 1 .. edits
    BY DEF StatementsInv, Looked
  <2> QED
    BY <2>1 DEF Counting
<1>6. /\ logs \subseteq LogOf /\ asked \subseteq [of : DOMAIN Statements, flip : BOOLEAN]
      /\ {raced, crossed} \subseteq BOOLEAN /\ edits \in 0 .. MaxImportEdits
  BY DEF StatementsInv, AccountInv, PageInv, Counting
<1>7. I!TypeOK
  BY <1>3, <1>4, <1>5, <1>6 DEF I!TypeOK, I!Names, LogOf
<1> QED
  BY <1>1, <1>2, <1>7

-----------------------------------------------------------------------------
(* PART SIX: MARKET HOLDINGS *)
(* A ledger that is replayed *)

Trading(trades) == trades \in Seq(M!Trades)

LEMMA TradesAre ==
  ASSUME M!HoldingAssumption, NEW trades, Trading(trades)
  PROVE  /\ IsFiniteSet(DOMAIN trades) /\ DOMAIN trades \subseteq Nat
         /\ \A i \in DOMAIN trades : /\ trades[i].kind \in {"buy", "sell"}
                                     /\ trades[i].qty \in Nat \ {0} /\ trades[i].day \in 1 .. MaxDay
<1>1. DOMAIN trades = 1 .. Len(trades) /\ Len(trades) \in Nat
  BY DEF Trading
<1>2. IsFiniteSet(1 .. Len(trades))
  BY <1>1, FS_Interval
<1>3. \A i \in DOMAIN trades : trades[i] \in M!Trades
  BY DEF Trading
<1>4. Quantities \subseteq Nat \ {0}
  BY DEF M!HoldingAssumption
<1>5. \A t \in M!Trades : t.kind \in {"buy", "sell"} /\ t.qty \in Nat \ {0} /\ t.day \in 1 .. MaxDay
  BY <1>4 DEF M!Trades, M!Days
<1>6. IsFiniteSet(DOMAIN trades) /\ DOMAIN trades \subseteq Nat
  BY <1>1, <1>2
<1> QED
  BY <1>3, <1>5, <1>6

LEMMA PrecedesOrders ==
  ASSUME M!HoldingAssumption, NEW trades, Trading(trades),
         NEW i \in DOMAIN trades, NEW j \in DOMAIN trades
  PROVE  /\ i # j => M!Precedes(trades, i, j) \/ M!Precedes(trades, j, i)
         /\ ~(M!Precedes(trades, i, j) /\ M!Precedes(trades, j, i))
         /\ \A k \in DOMAIN trades :
               M!Precedes(trades, i, j) /\ M!Precedes(trades, j, k) => M!Precedes(trades, i, k)
<1>1. \A k \in DOMAIN trades : k \in Nat /\ trades[k].day \in Nat
  BY TradesAre DEF M!HoldingAssumption
<1> QED
  BY <1>1 DEF M!Precedes

LEMMA LastIsThere ==
  ASSUME M!HoldingAssumption, NEW trades, Trading(trades), NEW s \in SUBSET DOMAIN trades, s # {}
  PROVE  LET i == M!LastOf(trades, s) IN i \in s /\ \A j \in s \ {i} : M!Precedes(trades, j, i)
<1> DEFINE Order == {p \in s \X s : M!Precedes(trades, p[2], p[1])}
<1>1. \A x, y \in s : <<x, y>> \in Order <=> M!Precedes(trades, y, x)
  OBVIOUS
<1> HIDE DEF Order
<1>2. /\ \A x, y \in s : x # y => <<x, y>> \in Order \/ <<y, x>> \in Order
      /\ \A x, y, z \in s : <<x, y>> \in Order /\ <<y, z>> \in Order => <<x, z>> \in Order
  BY <1>1, PrecedesOrders
<1>3. IsFiniteSet(s)
  BY TradesAre, FS_Subset
<1>4. \E x \in s : \A y \in s : y # x => <<x, y>> \in Order
  BY <1>2, <1>3, Foremost
<1>5. \E x \in s : \A y \in s \ {x} : M!Precedes(trades, y, x)
  BY <1>1, <1>4
<1> QED
  BY <1>5 DEF M!LastOf

LEMMA HeldIs ==
  ASSUME M!HoldingAssumption, NEW trades, Trading(trades)
  PROVE  LET h == M!Held(trades) IN
         /\ h[{}] = 0
         /\ \A s \in SUBSET DOMAIN trades : h[s] \in Nat
         /\ \A s \in SUBSET DOMAIN trades : s # {} =>
              h[s] = M!Clamped(h[s \ {M!LastOf(trades, s)}], trades[M!LastOf(trades, s)])
<1> DEFINE S == DOMAIN trades
           It(f) == f = [s \in SUBSET S |->
                           IF s = {} THEN 0
                           ELSE M!Clamped(f[s \ {M!LastOf(trades, s)}], trades[M!LastOf(trades, s)])]
           ch == [s \in SUBSET S |-> M!LastOf(trades, s)]
           st == [i \in S |-> [e \in Nat |-> M!Clamped(e, trades[i])]]
<1>1. M!Held(trades) = CHOOSE f : It(f)
  BY DEF M!Held
<1>2. IsFiniteSet(S) /\ \A s \in SUBSET S : s # {} => ch[s] = M!LastOf(trades, s) /\ ch[s] \in s
  BY TradesAre, LastIsThere
<1>3. \A i \in S : \A e \in Nat : st[i][e] = M!Clamped(e, trades[i]) /\ st[i][e] \in Nat
  BY TradesAre DEF M!Clamped
<1> HIDE DEF ch, st
<1>4. PICK f : TakesOut(st, ch, 0, S, f) /\ \A s \in SUBSET S : f[s] \in Nat
  <2>1. /\ IsFiniteSet(S) /\ 0 \in Nat
        /\ \A s \in SUBSET S : s # {} => ch[s] \in s
        /\ \A i \in S : \A e \in Nat : st[i][e] \in Nat
    BY <1>2, <1>3
  <2> HIDE DEF S
  <2> QED
    BY <2>1, TakingOut
<1>5. \A s \in SUBSET S : s # {} =>
        st[ch[s]][f[s \ {ch[s]}]]
          = M!Clamped(f[s \ {M!LastOf(trades, s)}], trades[M!LastOf(trades, s)])
  <2> TAKE s \in SUBSET S
  <2> HAVE s # {}
  <2>1. ch[s] = M!LastOf(trades, s) /\ ch[s] \in S /\ f[s \ {ch[s]}] \in Nat
    BY <1>2, <1>4
  <2> QED
    BY <1>3, <2>1
<1>6. It(f)
  <2>1. f = [s \in SUBSET S |-> IF s = {} THEN 0 ELSE st[ch[s]][f[s \ {ch[s]}]]]
    BY <1>4 DEF TakesOut
  <2> QED
    BY <1>5, <2>1
<1> DEFINE h == CHOOSE g : It(g)
<1>7. It(h)
  BY <1>6
<1> HIDE DEF h
<1>8. h[{}] = 0 /\ \A s \in SUBSET S : s # {} =>
        h[s] = M!Clamped(h[s \ {M!LastOf(trades, s)}], trades[M!LastOf(trades, s)])
  BY <1>7
<1>9. \A s \in SUBSET S : h[s] \in Nat
  <2> DEFINE B == {s \in SUBSET S : h[s] \notin Nat}
  <2>1. SUFFICES ASSUME B # {} PROVE FALSE
    OBVIOUS
  <2>2. \A s \in B : IsFiniteSet(s)
    BY <1>2, FS_Subset
  <2>3. PICK s \in B : \A t \in B : t \subseteq s => t = s
    <3> HIDE DEF B
    <3> QED
      BY <2>1, <2>2, Smallest
  <2>4. s # {} /\ M!LastOf(trades, s) \in s
    <3>1. h[s] \notin Nat /\ s \in SUBSET S
      BY <2>3
    <3>2. h[{}] \in Nat
      BY <1>8
    <3>3. s # {}
      BY <3>1, <3>2
    <3> QED
      BY <3>1, <3>3, LastIsThere
  <2>5. h[s \ {M!LastOf(trades, s)}] \in Nat
    BY <2>3, <2>4
  <2>6. h[s] = M!Clamped(h[s \ {M!LastOf(trades, s)}], trades[M!LastOf(trades, s)])
    BY <1>8, <2>4
  <2>7. M!LastOf(trades, s) \in S
    BY <2>4
  <2> QED
    BY <2>3, <2>5, <2>6, <2>7, TradesAre DEF M!Clamped
<1> QED
  BY <1>1, <1>8, <1>9 DEF h

NetOf(trades) == [i \in DOMAIN trades |-> M!Signed(trades[i])]
Enough(trades, i) ==
  trades[i].kind = "sell" =>
    \/ trades[i].qty <= M!Held(trades)[M!Earlier(trades, i)]
    \/ trades[i].qty <= SumOver(NetOf(trades), M!Earlier(trades, i))
Begins(trades, s) == s \subseteq DOMAIN trades /\ \A i \in s : M!Earlier(trades, i) \subseteq s

LEMMA NetIsInt ==
  ASSUME M!HoldingAssumption, NEW trades, Trading(trades)
  PROVE  \A i \in DOMAIN trades : NetOf(trades)[i] \in Int
  BY TradesAre DEF NetOf, M!Signed

LEMMA EarlierIs ==
  ASSUME M!HoldingAssumption, NEW trades, Trading(trades), NEW i \in DOMAIN trades
  PROVE  i \notin M!Earlier(trades, i) /\ Begins(trades, M!Earlier(trades, i))
<1>1. i \notin M!Earlier(trades, i)
  BY PrecedesOrders DEF M!Earlier
<1>2. Begins(trades, M!Earlier(trades, i))
  BY PrecedesOrders DEF M!Earlier, Begins
<1> QED
  BY <1>1, <1>2

\* Where nothing is sold that is not held, the units are what was bought less
\* what was sold.
LEMMA HeldAddsUp ==
  ASSUME M!HoldingAssumption, NEW trades, Trading(trades), NEW s, Begins(trades, s),
         \A i \in s : Enough(trades, i)
  PROVE  M!Held(trades)[s] = SumOver(NetOf(trades), s)
<1> DEFINE h == M!Held(trades)
           g == NetOf(trades)
           Starts(t) == Begins(trades, t) /\ \A i \in t : Enough(trades, i)
           B == {t \in SUBSET DOMAIN trades : Starts(t) /\ h[t] # SumOver(g, t)}
<1>1. s \in SUBSET DOMAIN trades /\ Starts(s)
  BY DEF Begins
<1>2. SUFFICES ASSUME B # {} PROVE FALSE
  BY <1>1
<1>3. \A t \in SUBSET DOMAIN trades : IsFiniteSet(t)
  BY TradesAre, FS_Subset
<1>4. PICK t \in B : \A u \in B : u \subseteq t => u = t
  <2>1. \A t \in B : IsFiniteSet(t)
    BY <1>3
  <2> HIDE DEF B
  <2> QED
    BY <1>2, <2>1, Smallest
<1>5. t \in SUBSET DOMAIN trades /\ Starts(t) /\ h[t] # SumOver(g, t)
  BY <1>4
<1>6. t # {}
  <2>1. h[{}] = 0
    BY HeldIs
  <2>2. SumOver(g, {}) = 0
    BY SumOfNone
  <2> QED
    BY <1>5, <2>1, <2>2
<1>7. PICK i : i = M!LastOf(trades, t)
  OBVIOUS
<1>8. i \in t /\ \A j \in t \ {i} : M!Precedes(trades, j, i)
  BY <1>5, <1>6, <1>7, LastIsThere
<1>9. t \ {i} = M!Earlier(trades, i) /\ i \in DOMAIN trades
  <2>1. i \in DOMAIN trades /\ M!Earlier(trades, i) \subseteq t
    BY <1>5, <1>8 DEF Begins
  <2>2. i \notin M!Earlier(trades, i)
    BY <2>1, EarlierIs
  <2>3. t \ {i} \subseteq M!Earlier(trades, i)
    BY <1>5, <1>8 DEF M!Earlier
  <2> QED
    BY <2>1, <2>2, <2>3
<1>10. h[t \ {i}] = SumOver(g, t \ {i})
  <2>1. Begins(trades, t \ {i})
    BY <1>9, EarlierIs
  <2>2. Starts(t \ {i}) /\ t \ {i} \in SUBSET DOMAIN trades
    BY <1>5, <2>1
  <2>3. t \ {i} \notin B
    BY <1>4, <1>8
  <2> HIDE DEF Starts
  <2> QED
    BY <2>2, <2>3
<1>11. h[t] = M!Clamped(h[t \ {i}], trades[i])
  BY <1>5, <1>6, <1>7, HeldIs
<1>12. SumOver(g, t) = g[i] + SumOver(g, t \ {i})
  <2>1. \A x \in t : g[x] \in Int
    BY <1>5, NetIsInt
  <2>2. IsFiniteSet(t)
    BY <1>3, <1>5
  <2> HIDE DEF g
  <2> QED
    BY <1>8, <2>1, <2>2, SumTakesOut
<1>13. h[t \ {i}] \in Nat /\ trades[i].qty \in Nat /\ trades[i].kind \in {"buy", "sell"}
  BY <1>5, <1>9, HeldIs, TradesAre
<1>14. trades[i].kind = "sell" => trades[i].qty <= h[t \ {i}]
  <2>1. Enough(trades, i)
    BY <1>5, <1>8
  <2> QED
    BY <1>9, <1>10, <2>1 DEF Enough
<1>15. g[i] = M!Signed(trades[i])
  BY <1>9 DEF NetOf
<1> HIDE DEF h, g
<1>16. h[t] = g[i] + h[t \ {i}]
  BY <1>11, <1>13, <1>14, <1>15 DEF M!Clamped, M!Signed
<1> QED
  BY <1>5, <1>10, <1>12, <1>16

\* A ledger that is never short, by sums.
LEMMA NeverShortIs ==
  ASSUME M!HoldingAssumption, NEW trades, Trading(trades)
  PROVE  ~M!Oversold(trades) <=>
           \A i \in DOMAIN trades : trades[i].kind = "sell" =>
              trades[i].qty <= SumOver(NetOf(trades), M!Earlier(trades, i))
<1> DEFINE h == M!Held(trades)
           g == NetOf(trades)
           E(i) == M!Earlier(trades, i)
<1>1. \A i \in DOMAIN trades : /\ E(i) \in SUBSET DOMAIN trades /\ Begins(trades, E(i))
                               /\ h[E(i)] \in Nat /\ trades[i].qty \in Nat
  <2> TAKE i \in DOMAIN trades
  <2>1. E(i) \in SUBSET DOMAIN trades /\ Begins(trades, E(i))
    BY EarlierIs DEF Begins
  <2> QED
    BY <2>1, HeldIs, TradesAre
<1>2. ASSUME \A i \in DOMAIN trades : Enough(trades, i), NEW i \in DOMAIN trades
      PROVE  h[E(i)] = SumOver(g, E(i))
  <2>1. Begins(trades, E(i)) /\ \A j \in E(i) : Enough(trades, j)
    BY <1>1, <1>2
  <2> QED
    BY <2>1, HeldAddsUp
<1>3. M!Oversold(trades) <=> \E i \in DOMAIN trades : trades[i].kind = "sell" /\ trades[i].qty > h[E(i)]
  BY DEF M!Oversold
<1>4. ASSUME ~M!Oversold(trades), NEW i \in DOMAIN trades, trades[i].kind = "sell"
      PROVE  trades[i].qty <= SumOver(g, E(i))
  <2>1. \A j \in DOMAIN trades : Enough(trades, j)
    <3> TAKE j \in DOMAIN trades
    <3>1. trades[j].kind = "sell" => trades[j].qty <= h[E(j)]
      <4>1. h[E(j)] \in Nat /\ trades[j].qty \in Nat
        BY <1>1
      <4> HIDE DEF h, E
      <4> QED
        BY <1>3, <1>4, <4>1
    <3> QED
      BY <3>1 DEF Enough
  <2>2. trades[i].qty <= h[E(i)]
    BY <1>4, <1>1, <1>3
  <2> QED
    BY <1>2, <2>1, <2>2
<1>5. ASSUME \A i \in DOMAIN trades : trades[i].kind = "sell" => trades[i].qty <= SumOver(g, E(i)),
             NEW i \in DOMAIN trades, trades[i].kind = "sell"
      PROVE  ~(trades[i].qty > h[E(i)])
  <2>1. \A j \in DOMAIN trades : Enough(trades, j)
    BY <1>5 DEF Enough
  <2>2. trades[i].qty <= h[E(i)]
    BY <1>2, <1>5, <2>1
  <2> HIDE DEF h, E
  <2> QED
    BY <1>1, <2>2
<1> HIDE DEF h, g, E
<1> QED
  BY <1>3, <1>4, <1>5 DEF g, E

LEMMA PositionAddsUp ==
  ASSUME M!HoldingAssumption, NEW trades, Trading(trades), ~M!Oversold(trades)
  PROVE  M!Position(trades) = SumOver(NetOf(trades), DOMAIN trades)
<1>1. \A i \in DOMAIN trades : Enough(trades, i)
  BY NeverShortIs DEF Enough
<1>2. Begins(trades, DOMAIN trades)
  BY DEF Begins, M!Earlier
<1> QED
  BY <1>1, <1>2, HeldAddsUp DEF M!Position

LEMMA BuyNeverShort ==
  ASSUME M!HoldingAssumption, NEW trades, Trading(trades), ~M!Oversold(trades),
         NEW t \in M!Trades, t.kind = "buy"
  PROVE  ~M!Oversold(Append(trades, t))
<1> DEFINE n == Len(trades)
           more == Append(trades, t)
           g == NetOf(trades)
           h == NetOf(more)
<1>1. /\ Trading(more) /\ n \in Nat /\ DOMAIN trades = 1 .. n /\ DOMAIN more = 1 .. n + 1
      /\ \A i \in 1 .. n : more[i] = trades[i]
      /\ more[n + 1] = t
  BY DEF Trading
<1> HIDE DEF more, n
<1>2. \A i \in 1 .. n : h[i] = g[i]
  <2>1. \A i \in 1 .. n : i \in 1 .. n + 1
    BY <1>1
  <2> QED
    BY <1>1, <2>1 DEF NetOf
<1>3. h[n + 1] \in Nat
  <2>1. n + 1 \in DOMAIN more
    BY <1>1
  <2>2. h[n + 1] = t.qty /\ t.qty \in Nat
    BY <1>1, <2>1, TradesAre DEF NetOf, M!Signed
  <2> QED
    BY <2>2
<1>4. ASSUME NEW i \in DOMAIN more, more[i].kind = "sell"
      PROVE  more[i].qty <= SumOver(h, M!Earlier(more, i))
  <2> DEFINE E == M!Earlier(trades, i)
             F == M!Earlier(more, i)
  <2>1. i \in 1 .. n /\ more[i] = trades[i]
    BY <1>1, <1>4
  <2>2. E = F \ {n + 1} /\ E \subseteq 1 .. n /\ F \subseteq 1 .. n + 1
    <3>1. \A j \in 1 .. n : M!Precedes(more, j, i) <=> M!Precedes(trades, j, i)
      BY <1>1, <2>1 DEF M!Precedes
    <3>2. \A j \in 1 .. n + 1 : j = n + 1 \/ j \in 1 .. n
      BY <1>1
    <3>3. \A j \in 1 .. n : j \in 1 .. n + 1 /\ j # n + 1
      BY <1>1
    <3> QED
      BY <1>1, <3>1, <3>2, <3>3 DEF M!Earlier
  <2>3. IsFiniteSet(E) /\ IsFiniteSet(F)
    <3>1. IsFiniteSet(1 .. n) /\ IsFiniteSet(1 .. n + 1)
      BY <1>1, FS_Interval
    <3> HIDE DEF E, F
    <3> QED
      BY <2>2, <3>1, FS_Subset
  <2>4. trades[i].qty <= SumOver(g, E)
    BY <1>1, <1>4, <2>1, NeverShortIs
  <2> HIDE DEF E, F, g, h
  <2>5. SumOver(g, E) = SumOver(h, E)
    <3>1. \A x \in E : g[x] = h[x]
      BY <1>2, <2>2
    <3> QED
      BY <2>3, <3>1, SumSame
  <2>6. \A x \in F : h[x] \in Int
    BY <1>1, <2>2, NetIsInt DEF h
  <2>7. SumOver(h, E) \in Int /\ SumOver(h, F) \in Int
    <3>1. \A x \in E : h[x] \in Int
      BY <2>2, <2>6
    <3> QED
      BY <2>3, <2>6, <3>1, SumIsInt
  <2>8. SumOver(h, E) <= SumOver(h, F)
    <3>1. CASE n + 1 \in F
      <4>1. SumOver(h, F) = h[n + 1] + SumOver(h, F \ {n + 1})
        BY <2>3, <2>6, <3>1, SumTakesOut
      <4> QED
        BY <1>3, <2>2, <2>7, <4>1
    <3>2. CASE n + 1 \notin F
      BY <2>2, <2>7, <3>2
    <3> QED
      BY <3>1, <3>2
  <2>9. trades[i].qty \in Nat
    BY <1>1, <2>1, TradesAre
  <2> QED
    BY <2>1, <2>4, <2>5, <2>7, <2>8, <2>9 DEF F
<1> QED
  BY <1>1, <1>4, NeverShortIs DEF more

LEMMA SignedAddsUp ==
  LET S == {i \in DOMAIN ledger : ledger[i].day <= today}
  IN  M!SignedQuantity = SumOver(NetOf(ledger), S)
<1> DEFINE S == {i \in DOMAIN ledger : ledger[i].day <= today}
           g == NetOf(ledger)
           F(f) == [s \in SUBSET S |-> IF s = {} THEN 0
                                      ELSE M!Signed(ledger[Some(s)]) + f[s \ {Some(s)}]]
           H(f) == [s \in SUBSET S |-> IF s = {} THEN 0 ELSE g[Some(s)] + f[s \ {Some(s)}]]
<1>1. M!SignedQuantity = (CHOOSE f : f = F(f))[S]
  BY Zenon DEF M!SignedQuantity, M!MapThenSumSet, M!MapThenFoldSet, Some
<1>2. \A f : F(f) = H(f)
  <2>1. \A s \in SUBSET S : s # {} => g[Some(s)] = M!Signed(ledger[Some(s)])
    BY SomeIn DEF NetOf
  <2> HIDE DEF g, S
  <2> QED
    BY <2>1
<1>3. \A f : AddsUpOn(g, S, f) <=> f = F(f)
  <2> HIDE DEF F
  <2> QED
    BY <1>2 DEF AddsUpOn
<1>4. (CHOOSE f : f = F(f)) = (CHOOSE f : AddsUpOn(g, S, f))
  <2> HIDE DEF F, g, S
  <2> QED
    BY <1>3, Zenon
<1> HIDE DEF F, g, S
<1> QED
  BY <1>1, <1>4 DEF SumOver, g, S

-----------------------------------------------------------------------------
(* The holding: what its row, its ledger and its values say together. *)

HoldingRow == [exists : BOOLEAN, units : Nat, price : Prices \cup {0},
               sold : M!Days \cup {M!Never}, archived : BOOLEAN, cost : BOOLEAN, typed : BOOLEAN]
DayValue == [amount : Nat, price : Prices \cup {0}]

Priced(v) == {d \in M!Days : v[d].price # 0}
ShownOn(v, d) == d \in Priced(v) /\ \A e \in Priced(v) : d >= e

HoldingTypes ==
  /\ today \in M!Days
  /\ asset \in HoldingRow
  /\ Trading(ledger) /\ Len(ledger) <= MaxTrades + 1
  /\ values \in [M!Days -> DayValue]
  /\ refresh \in [Refreshers -> [busy : BOOLEAN, units : Nat]]
  /\ lagging \in {"no", "amount", "price"}
  /\ edits \in 0 .. MaxMarketEdits

\* The latest value is of the price of the row, and of its units unless a
\* refresh wrote after a trade.
ShownWell(row, v, lag) ==
  row.units > 0 /\ lag # "price" =>
    \E d \in M!Days : /\ ShownOn(v, d) /\ v[d].price = row.price
                      /\ lag = "no" => v[d].amount = row.units * row.price

HoldingInv ==
  /\ HoldingTypes
  /\ ~asset.exists => /\ asset = M!NoAsset /\ ledger = <<>>
                      /\ \A r \in Refreshers : ~refresh[r].busy
  /\ asset.exists => asset.price \in Prices
  /\ ledger # <<>> /\ ~asset.typed => asset.units = M!Position(ledger)
  /\ \A d \in M!Days : d > today => values[d].price = 0
  /\ ShownWell(asset, values, lagging)

\* What is written for today is what is shown.
LEMMA StoredIs ==
  ASSUME M!HoldingAssumption, HoldingTypes, \A d \in M!Days : d > today => values[d].price = 0,
         NEW units \in Nat, NEW price \in Prices
  PROVE  /\ M!Stored(units, price) \in [M!Days -> DayValue]
         /\ \A d \in M!Days : d > today => M!Stored(units, price)[d].price = 0
         /\ units > 0 => /\ ShownOn(M!Stored(units, price), today)
                         /\ M!Stored(units, price)[today] = [amount |-> units * price, price |-> price]
<1> DEFINE v == M!Stored(units, price)
           x == [amount |-> units * price, price |-> price]
<1>1. Prices \subseteq Nat \ {0}
  BY DEF M!HoldingAssumption
<1>2. M!Days \subseteq Nat /\ today \in M!Days
  BY DEF M!Days, M!HoldingAssumption, HoldingTypes
<1>3. x \in DayValue /\ x.price = price /\ price # 0
  <2>1. price \in Nat \ {0}
    BY <1>1
  <2>2. units * price \in Nat
    BY <2>1
  <2> QED
    BY <2>1, <2>2 DEF DayValue
<1> HIDE DEF x
<1>4. CASE ~(units > 0)
  <2>1. v = values
    BY <1>4 DEF M!Stored
  <2> QED
    BY <1>4, <2>1 DEF HoldingTypes
<1>5. CASE units > 0
  <2>1. v = [values EXCEPT ![today] = x]
    BY <1>5 DEF M!Stored, x
  <2> HIDE DEF v
  <2>2. v \in [M!Days -> DayValue]
    BY <1>3, <2>1 DEF HoldingTypes
  <2>3. v[today] = x /\ \A d \in M!Days : d # today => v[d] = values[d]
    BY <1>2, <2>1 DEF HoldingTypes
  <2>4. \A d \in M!Days : d > today => v[d].price = 0
    <3> TAKE d \in M!Days
    <3> HAVE d > today
    <3>1. d # today
      BY <1>2
    <3> QED
      BY <2>3, <3>1
  <2>5. ShownOn(v, today)
    <3>1. \A e \in M!Days : v[e].price # 0 => today >= e
      <4> TAKE e \in M!Days
      <4> HAVE v[e].price # 0
      <4>1. e \in Nat /\ today \in Nat
        BY <1>2
      <4>2. ~(e > today)
        BY <2>4
      <4> QED
        BY <4>1, <4>2
    <3> QED
      BY <1>2, <1>3, <2>3, <3>1 DEF ShownOn, Priced
  <2> QED
    BY <2>2, <2>3, <2>4, <2>5 DEF v, x
<1> QED
  BY <1>4, <1>5

LEMMA LastSellIs ==
  ASSUME M!HoldingAssumption, NEW trades, Trading(trades), M!Sells(trades) # {}
  PROVE  M!LastSell(trades) \in M!Days
<1> DEFINE S == {t.day : t \in M!Sells(trades)}
<1>1. S \subseteq 1 .. MaxDay /\ S # {} /\ MaxDay \in Nat
  <2>1. \A t \in M!Sells(trades) : t.day \in 1 .. MaxDay
    BY TradesAre DEF M!Sells, M!ToSet
  <2> QED
    BY <2>1 DEF M!HoldingAssumption
<1>2. IsFiniteSet(1 .. MaxDay)
  BY <1>1, FS_Interval
<1>3. M!LastSell(trades) = Top(S)
  BY DEF M!LastSell, M!Max, Top
<1> HIDE DEF S
<1>4. IsFiniteSet(S) /\ S \subseteq Int
  <2>1. IsFiniteSet(S)
    BY <1>1, <1>2, FS_Subset
  <2> QED
    BY <1>1, <2>1
<1>5. Top(S) \in S
  BY <1>1, <1>4, TopIs
<1> QED
  BY <1>1, <1>3, <1>5 DEF M!Days

LEMMA RecomputedIs ==
  ASSUME M!HoldingAssumption, NEW row \in HoldingRow, NEW trades, Trading(trades)
  PROVE  LET q == M!Recomputed(row, trades) IN
         /\ q \in HoldingRow /\ q.units = M!Position(trades) /\ q.exists = row.exists
         /\ q.price = row.price
<1> DEFINE units == M!Position(trades)
           sold == IF units > 0 THEN M!Never
                   ELSE IF M!Sells(trades) # {} THEN M!LastSell(trades) ELSE row.sold
<1>1. M!Recomputed(row, trades)
        = [row EXCEPT !.units = units, !.cost = units > 0, !.typed = FALSE, !.sold = sold]
  BY DEF M!Recomputed, HoldingRow
<1>2. units \in Nat
  BY HeldIs DEF M!Position
<1>3. sold \in M!Days \cup {M!Never}
  BY LastSellIs DEF HoldingRow
<1>4. (units > 0) \in BOOLEAN
  OBVIOUS
<1> HIDE DEF units, sold
<1> QED
  BY <1>1, <1>2, <1>3, <1>4 DEF HoldingRow, units

\* A trade was recorded, changed or taken back.
LEMMA Recorded ==
  ASSUME M!HoldingAssumption, HoldingInv, NEW row \in HoldingRow, row.exists, row.price \in Prices,
         NEW trades, Trading(trades), Len(trades) <= MaxTrades + 1,
         M!Record(row, trades), M!Bounded, UNCHANGED <<today, refresh>>
  PROVE  HoldingInv'
<1> DEFINE units == M!Position(trades)
<1>1. /\ asset' \in HoldingRow /\ asset'.units = units /\ asset'.exists /\ asset'.price = row.price
      /\ ledger' = trades /\ values' = M!Stored(units, row.price)
      /\ lagging' = IF units > 0 THEN "no" ELSE lagging
  BY RecomputedIs DEF M!Record
<1>2. units \in Nat
  BY HeldIs DEF M!Position
<1>3. HoldingTypes /\ \A d \in M!Days : d > today => values[d].price = 0
  BY DEF HoldingInv
<1> HIDE DEF units
<1>4. /\ values' \in [M!Days -> DayValue]
      /\ \A d \in M!Days : d > today => values'[d].price = 0
      /\ units > 0 => /\ ShownOn(values', today)
                      /\ values'[today] = [amount |-> units * row.price, price |-> row.price]
  BY <1>1, <1>2, <1>3, StoredIs
<1>5. edits' \in 0 .. MaxMarketEdits
  BY <1>3 DEF M!Bounded, HoldingTypes, M!HoldingAssumption
<1>6. HoldingTypes'
  BY <1>1, <1>3, <1>4, <1>5 DEF HoldingTypes
<1>7. ShownWell(asset', values', lagging')
  <2>1. units > 0 => /\ ShownOn(values', today) /\ values'[today].price = row.price
                     /\ values'[today].amount = units * row.price
    BY <1>4
  <2>2. today \in M!Days
    BY <1>3 DEF HoldingTypes
  <2> QED
    BY <1>1, <2>1, <2>2 DEF ShownWell
<1>8. \A d \in M!Days : d > today' => values'[d].price = 0
  BY <1>4
<1> QED
  BY <1>1, <1>6, <1>7, <1>8 DEF HoldingInv, units
LEMMA HoldingInit == M!HoldingAssumption /\ M!Init => HoldingInv
<1> SUFFICES ASSUME M!HoldingAssumption, M!Init PROVE HoldingInv
  OBVIOUS
<1> USE DEF M!Init
<1>1. today \in M!Days /\ MaxTrades \in Nat /\ MaxMarketEdits \in Nat
  BY DEF M!HoldingAssumption, M!Days
<1>2. M!NoAsset \in HoldingRow /\ M!NoAsset.units = 0 /\ ~M!NoAsset.exists
  BY DEF M!NoAsset, HoldingRow, M!Never
<1>3. Trading(<<>>) /\ Len(<<>>) = 0
  BY DEF Trading
<1>4. values \in [M!Days -> DayValue] /\ \A d \in M!Days : values[d].price = 0
  BY DEF M!NoValue, DayValue
<1>5. refresh \in [Refreshers -> [busy : BOOLEAN, units : Nat]] /\ \A r \in Refreshers : ~refresh[r].busy
  BY DEF M!Idle
<1>6. HoldingTypes
  BY <1>1, <1>2, <1>3, <1>4, <1>5 DEF HoldingTypes
<1>7. ShownWell(asset, values, lagging)
  BY <1>2 DEF ShownWell
<1> QED
  BY <1>2, <1>4, <1>5, <1>6, <1>7 DEF HoldingInv

LEMMA OpenKeeps ==
  ASSUME M!HoldingAssumption, HoldingInv, NEW price \in Prices, NEW qty \in Quantities,
         NEW day \in M!Days, M!Open(price, qty, day)
  PROVE  HoldingInv'
<1> DEFINE row == [M!NoAsset EXCEPT !.exists = TRUE, !.price = price]
           trades == <<[kind |-> "buy", day |-> day, qty |-> qty]>>
<1>1. row \in HoldingRow /\ row.exists /\ row.price \in Prices
  BY DEF M!NoAsset, HoldingRow, M!Never
<1>2. Trading(trades) /\ Len(trades) <= MaxTrades + 1
  <2>1. [kind |-> "buy", day |-> day, qty |-> qty] \in M!Trades
    BY DEF M!Trades
  <2> QED
    BY <2>1 DEF Trading, M!HoldingAssumption
<1>3. M!Record(row, trades) /\ M!Bounded /\ UNCHANGED <<today, refresh>>
  BY DEF M!Open
<1> HIDE DEF row, trades
<1> QED
  BY <1>1, <1>2, <1>3, Recorded

LEMMA HeldRow ==
  ASSUME HoldingInv, asset.exists
  PROVE  asset \in HoldingRow /\ asset.price \in Prices
BY DEF HoldingInv, HoldingTypes

LEMMA AddTradeKeeps ==
  ASSUME M!HoldingAssumption, HoldingInv, NEW t \in M!Trades, M!AddTrade(t)
  PROVE  HoldingInv'
<1>1. asset.exists /\ Len(ledger) < MaxTrades /\ M!Record(asset, Append(ledger, t))
      /\ M!Bounded /\ UNCHANGED <<today, refresh>>
  BY DEF M!AddTrade
<1>2. Trading(Append(ledger, t)) /\ Len(Append(ledger, t)) <= MaxTrades + 1
  BY <1>1 DEF HoldingInv, HoldingTypes, Trading, M!HoldingAssumption
<1>3. asset \in HoldingRow /\ asset.price \in Prices
  BY <1>1, HeldRow
<1> QED
  BY <1>1, <1>2, <1>3, Recorded

\* Trades to edit or to take back are those of a holding that exists.
LEMMA TradesOfAHolding ==
  ASSUME HoldingInv, NEW i \in DOMAIN ledger
  PROVE  asset.exists
BY DEF HoldingInv

LEMMA UpdateTradeKeeps ==
  ASSUME M!HoldingAssumption, HoldingInv, NEW i \in DOMAIN ledger, NEW t \in M!Trades,
         M!UpdateTrade(i, t)
  PROVE  HoldingInv'
<1> DEFINE trades == [ledger EXCEPT ![i] = t]
<1>1. M!Record(asset, trades) /\ M!Bounded /\ UNCHANGED <<today, refresh>>
  BY DEF M!UpdateTrade
<1>2. Trading(trades) /\ Len(trades) <= MaxTrades + 1
  <2>1. ledger \in Seq(M!Trades) /\ Len(ledger) <= MaxTrades + 1
    BY DEF HoldingInv, HoldingTypes, Trading
  <2>2. trades \in Seq(M!Trades) /\ Len(trades) = Len(ledger)
    BY <2>1
  <2> QED
    BY <2>1, <2>2 DEF Trading
<1>3. asset.exists
  BY TradesOfAHolding
<1>4. asset \in HoldingRow /\ asset.price \in Prices
  BY <1>3, HeldRow
<1> HIDE DEF trades
<1> QED
  BY <1>1, <1>2, <1>3, <1>4, Recorded

LEMMA WithoutOne ==
  ASSUME NEW trades, Trading(trades), NEW i \in DOMAIN trades
  PROVE  Trading(M!RemoveAt(trades, i)) /\ Len(M!RemoveAt(trades, i)) = Len(trades) - 1
<1>1. trades \in Seq(M!Trades) /\ Len(trades) \in Nat /\ i \in 1 .. Len(trades)
  BY DEF Trading
<1>2. SubSeq(trades, 1, i - 1) \in Seq(M!Trades) /\ Len(SubSeq(trades, 1, i - 1)) = i - 1
  BY <1>1
<1>3. SubSeq(trades, i + 1, Len(trades)) \in Seq(M!Trades)
      /\ Len(SubSeq(trades, i + 1, Len(trades))) = Len(trades) - i
  BY <1>1
<1> DEFINE front == SubSeq(trades, 1, i - 1)
           back == SubSeq(trades, i + 1, Len(trades))
<1>4. M!RemoveAt(trades, i) = front \o back
  BY DEF M!RemoveAt
<1> HIDE DEF front, back
<1>5. front \o back \in Seq(M!Trades) /\ Len(front \o back) = Len(front) + Len(back)
  BY <1>2, <1>3 DEF front, back
<1>6. Len(front) + Len(back) = Len(trades) - 1
  BY <1>1, <1>2, <1>3 DEF front, back
<1> QED
  BY <1>4, <1>5, <1>6 DEF Trading

LEMMA DeleteTradeKeeps ==
  ASSUME M!HoldingAssumption, HoldingInv, NEW i \in DOMAIN ledger, M!DeleteTrade(i)
  PROVE  HoldingInv'
<1> DEFINE trades == M!RemoveAt(ledger, i)
<1>1. M!Record(asset, trades) /\ M!Bounded /\ UNCHANGED <<today, refresh>>
  BY DEF M!DeleteTrade
<1>2. Trading(ledger) /\ Len(ledger) \in Nat /\ Len(ledger) <= MaxTrades + 1
  BY DEF HoldingInv, HoldingTypes, Trading
<1>3. Trading(trades) /\ Len(trades) = Len(ledger) - 1
  BY <1>2, WithoutOne
<1>4. Len(trades) <= MaxTrades + 1
  BY <1>2, <1>3 DEF M!HoldingAssumption
<1>5. asset.exists
  BY TradesOfAHolding
<1>6. asset \in HoldingRow /\ asset.price \in Prices
  BY <1>5, HeldRow
<1> HIDE DEF trades
<1> QED
  BY <1>1, <1>3, <1>4, <1>5, <1>6, Recorded

LEMMA SaveFormKeeps ==
  ASSUME M!HoldingAssumption, HoldingInv, NEW units, M!SaveForm(units)
  PROVE  HoldingInv'
<1> USE DEF M!SaveForm
<1>1. HoldingTypes /\ \A d \in M!Days : d > today => values[d].price = 0
  BY DEF HoldingInv
<1>2. asset \in HoldingRow /\ asset.price \in Prices
  BY HeldRow
<1>3. units \in Nat
  BY <1>2 DEF M!HoldingAssumption, HoldingRow
<1>4. /\ values' \in [M!Days -> DayValue]
      /\ \A d \in M!Days : d > today => values'[d].price = 0
      /\ units > 0 => /\ ShownOn(values', today)
                      /\ values'[today] = [amount |-> units * asset.price, price |-> asset.price]
  BY <1>1, <1>2, <1>3, StoredIs
<1>5. /\ asset' \in HoldingRow /\ asset'.exists /\ asset'.units = units /\ asset'.price = asset.price
      /\ ~asset'.typed => ~asset.typed /\ units = asset.units
  <2>1. (asset.typed \/ units # asset.units) \in BOOLEAN /\ M!Never \in M!Days \cup {M!Never}
    OBVIOUS
  <2> QED
    BY <1>2, <1>3, <2>1 DEF HoldingRow
<1>6. edits' \in 0 .. MaxMarketEdits
  BY <1>1 DEF M!Bounded, HoldingTypes, M!HoldingAssumption
<1>7. HoldingTypes'
  BY <1>1, <1>4, <1>5, <1>6 DEF HoldingTypes
<1>8. ShownWell(asset', values', lagging')
  <2>1. units > 0 => /\ ShownOn(values', today) /\ values'[today].price = asset.price
                     /\ values'[today].amount = units * asset.price
    BY <1>4
  <2>2. today \in M!Days
    BY <1>1 DEF HoldingTypes
  <2> QED
    BY <1>5, <2>1, <2>2 DEF ShownWell
<1>9. \A d \in M!Days : d > today' => values'[d].price = 0
  BY <1>4
<1>10. ledger' # <<>> /\ ~asset'.typed => asset'.units = M!Position(ledger')
  BY <1>5 DEF HoldingInv
<1> QED
  BY <1>2, <1>5, <1>7, <1>8, <1>9, <1>10 DEF HoldingInv

LEMMA ArchiveKeeps ==
  ASSUME M!HoldingAssumption, HoldingInv, NEW flag \in BOOLEAN, M!Archive(flag)
  PROVE  HoldingInv'
<1> USE DEF M!Archive
<1>1. HoldingTypes
  BY DEF HoldingInv
<1>2. /\ asset' \in HoldingRow /\ asset'.exists /\ asset'.units = asset.units
      /\ asset'.price = asset.price /\ asset'.typed = asset.typed
  BY <1>1 DEF HoldingTypes, HoldingRow
<1>3. edits' \in 0 .. MaxMarketEdits
  BY <1>1 DEF M!Bounded, HoldingTypes, M!HoldingAssumption
<1>4. HoldingTypes'
  BY <1>1, <1>2, <1>3 DEF HoldingTypes
<1>5. ShownWell(asset', values', lagging')
  BY <1>2 DEF ShownWell, HoldingInv
<1>6. asset.price \in Prices
  BY DEF HoldingInv
<1>7. ledger' # <<>> /\ ~asset'.typed => asset'.units = M!Position(ledger')
  BY <1>2 DEF HoldingInv
<1>8. \A d \in M!Days : d > today' => values'[d].price = 0
  BY DEF HoldingInv
<1> QED
  BY <1>2, <1>4, <1>5, <1>6, <1>7, <1>8 DEF HoldingInv

LEMMA DeleteKeeps ==
  ASSUME M!HoldingAssumption, HoldingInv, M!Delete
  PROVE  HoldingInv'
<1> USE DEF M!Delete
<1>1. HoldingTypes
  BY DEF HoldingInv
<1>2. M!NoAsset \in HoldingRow /\ M!NoAsset.units = 0 /\ ~M!NoAsset.exists
  BY DEF M!NoAsset, HoldingRow, M!Never
<1>3. Trading(<<>>) /\ Len(<<>>) = 0 /\ MaxTrades \in Nat
  BY DEF Trading, M!HoldingAssumption
<1>4. values' \in [M!Days -> DayValue] /\ \A d \in M!Days : values'[d].price = 0
  BY DEF M!NoValue, DayValue
<1>5. refresh' \in [Refreshers -> [busy : BOOLEAN, units : Nat]] /\ \A r \in Refreshers : ~refresh'[r].busy
  BY DEF M!Idle
<1>6. edits' \in 0 .. MaxMarketEdits
  BY <1>1 DEF M!Bounded, HoldingTypes, M!HoldingAssumption
<1>7. HoldingTypes'
  BY <1>1, <1>2, <1>3, <1>4, <1>5, <1>6 DEF HoldingTypes
<1>8. ShownWell(asset', values', lagging')
  BY <1>2 DEF ShownWell
<1> QED
  BY <1>2, <1>4, <1>5, <1>7, <1>8 DEF HoldingInv

LEMMA StartRefreshKeeps ==
  ASSUME M!HoldingAssumption, HoldingInv, NEW r \in Refreshers, M!StartRefresh(r)
  PROVE  HoldingInv'
<1> USE DEF M!StartRefresh
<1>1. HoldingTypes
  BY DEF HoldingInv
<1>2. refresh' \in [Refreshers -> [busy : BOOLEAN, units : Nat]]
  BY <1>1 DEF HoldingTypes, HoldingRow
<1>3. edits' \in 0 .. MaxMarketEdits
  BY <1>1 DEF M!Bounded, HoldingTypes, M!HoldingAssumption
<1>4. HoldingTypes'
  BY <1>1, <1>2, <1>3 DEF HoldingTypes
<1> QED
  BY <1>4 DEF HoldingInv

\* A refresh in flight reads and writes a holding that exists.
LEMMA Refreshing ==
  ASSUME HoldingInv, NEW r \in Refreshers, refresh[r].busy
  PROVE  asset.exists
BY DEF HoldingInv

LEMMA EndRefreshKeeps ==
  ASSUME M!HoldingAssumption, HoldingInv, NEW r \in Refreshers, NEW price \in Prices,
         M!EndRefresh(r, price)
  PROVE  HoldingInv'
<1> USE DEF M!EndRefresh
<1> DEFINE units == refresh[r].units
<1>1. HoldingTypes /\ \A d \in M!Days : d > today => values[d].price = 0
  BY DEF HoldingInv
<1>2. asset.exists
  BY Refreshing
<1>3. units \in Nat /\ asset.units \in Nat
  BY <1>1 DEF HoldingTypes, HoldingRow
<1>4. /\ values' \in [M!Days -> DayValue]
      /\ \A d \in M!Days : d > today => values'[d].price = 0
      /\ units > 0 => /\ ShownOn(values', today)
                      /\ values'[today] = [amount |-> units * price, price |-> price]
  BY <1>1, <1>3, StoredIs
<1>5. /\ asset' \in HoldingRow /\ asset'.exists /\ asset'.units = asset.units
      /\ asset'.price = price /\ asset'.typed = asset.typed
  BY <1>1, <1>2 DEF HoldingTypes, HoldingRow
<1>6. /\ lagging' \in {"no", "amount", "price"}
      /\ lagging' # "price" => units > 0
      /\ lagging' = "no" => units = asset.units
  BY <1>3
<1>7. refresh' \in [Refreshers -> [busy : BOOLEAN, units : Nat]]
  BY <1>1 DEF HoldingTypes, M!Idle
<1> HIDE DEF units
<1>8. HoldingTypes'
  BY <1>1, <1>4, <1>5, <1>6, <1>7 DEF HoldingTypes
<1>9. ShownWell(asset', values', lagging')
  <2>1. units > 0 => /\ ShownOn(values', today) /\ values'[today].price = price
                     /\ values'[today].amount = units * price
    BY <1>4
  <2>2. today \in M!Days
    BY <1>1 DEF HoldingTypes
  <2> QED
    BY <1>5, <1>6, <2>1, <2>2 DEF ShownWell
<1>10. \A d \in M!Days : d > today' => values'[d].price = 0
  BY <1>4
<1>11. ledger' # <<>> /\ ~asset'.typed => asset'.units = M!Position(ledger')
  BY <1>5 DEF HoldingInv
<1> QED
  BY <1>5, <1>8, <1>9, <1>10, <1>11 DEF HoldingInv

LEMMA FailRefreshKeeps ==
  ASSUME M!HoldingAssumption, HoldingInv, NEW r \in Refreshers, M!FailRefresh(r)
  PROVE  HoldingInv'
<1> USE DEF M!FailRefresh
<1>1. HoldingTypes
  BY DEF HoldingInv
<1>2. refresh' \in [Refreshers -> [busy : BOOLEAN, units : Nat]]
  BY <1>1 DEF HoldingTypes, M!Idle
<1>3. HoldingTypes'
  BY <1>1, <1>2 DEF HoldingTypes
<1>4. asset.exists
  BY Refreshing
<1> QED
  BY <1>3, <1>4 DEF HoldingInv

LEMMA HoldingTickKeeps ==
  ASSUME M!HoldingAssumption, HoldingInv, M!Tick
  PROVE  HoldingInv'
<1> USE DEF M!Tick
<1>1. HoldingTypes
  BY DEF HoldingInv
<1>2. today \in Nat /\ today' \in M!Days /\ M!Days \subseteq Nat
  BY <1>1 DEF HoldingTypes, M!Days, M!HoldingAssumption
<1>3. HoldingTypes'
  BY <1>1, <1>2 DEF HoldingTypes
<1>4. \A d \in M!Days : d > today' => values'[d].price = 0
  <2> TAKE d \in M!Days
  <2> HAVE d > today'
  <2>1. d > today
    BY <1>2
  <2> QED
    BY <2>1 DEF HoldingInv
<1> QED
  BY <1>3, <1>4 DEF HoldingInv

LEMMA HoldingStep ==
  ASSUME M!HoldingAssumption, HoldingInv, M!Next
  PROVE  HoldingInv'
<1>1. ASSUME NEW p \in Prices, NEW q \in Quantities, NEW d \in M!Days, M!Open(p, q, d)
      PROVE  HoldingInv'
  BY <1>1, OpenKeeps
<1>2. ASSUME NEW t \in M!Trades, M!AddTrade(t) PROVE HoldingInv'
  BY <1>2, AddTradeKeeps
<1>3. ASSUME NEW i \in DOMAIN ledger, NEW t \in M!Trades, M!UpdateTrade(i, t) PROVE HoldingInv'
  BY <1>3, UpdateTradeKeeps
<1>4. ASSUME NEW i \in DOMAIN ledger, M!DeleteTrade(i) PROVE HoldingInv'
  BY <1>4, DeleteTradeKeeps
<1>5. ASSUME NEW u \in Quantities \cup {asset.units}, M!SaveForm(u) PROVE HoldingInv'
  BY <1>5, SaveFormKeeps
<1>6. ASSUME NEW flag \in BOOLEAN, M!Archive(flag) PROVE HoldingInv'
  BY <1>6, ArchiveKeeps
<1>7. ASSUME NEW r \in Refreshers, M!StartRefresh(r) PROVE HoldingInv'
  BY <1>7, StartRefreshKeeps
<1>8. ASSUME NEW r \in Refreshers, NEW p \in Prices, M!EndRefresh(r, p) PROVE HoldingInv'
  BY <1>8, EndRefreshKeeps
<1>9. ASSUME NEW r \in Refreshers, M!FailRefresh(r) PROVE HoldingInv'
  BY <1>9, FailRefreshKeeps
<1> QED
  BY <1>1, <1>2, <1>3, <1>4, <1>5, <1>6, <1>7, <1>8, <1>9, DeleteKeeps, HoldingTickKeeps DEF M!Next

-----------------------------------------------------------------------------
(* The holding: the figures of the screens. *)

LEMMA LatestIs ==
  ASSUME M!HoldingAssumption, NEW d \in M!Days, ShownOn(values, d)
  PROVE  M!LatestDay = d
<1> DEFINE S == Priced(values)
<1>1. M!LatestDay = CHOOSE x \in S : \A y \in S : x >= y
  BY DEF M!LatestDay, M!Max, Priced
<1>2. d \in S /\ \A y \in S : d >= y
  BY DEF ShownOn
<1>3. S \subseteq Nat
  BY DEF Priced, M!Days
<1> HIDE DEF S
<1>4. \A x \in S : (\A y \in S : x >= y) => x = d
  <2> TAKE x \in S
  <2> HAVE \A y \in S : x >= y
  <2>1. x \in Nat /\ d \in Nat /\ x >= d /\ d >= x
    BY <1>2, <1>3
  <2> QED
    BY <2>1
<1> QED
  BY <1>1, <1>2, <1>4, Zenon

LEMMA LatestIsThere ==
  ASSUME M!HoldingAssumption, NEW d \in M!Days, values[d].price # 0
  PROVE  M!LatestDay \in M!Days
<1> DEFINE S == Priced(values)
<1>1. M!LatestDay = Top(S)
  BY DEF M!LatestDay, M!Max, Priced, Top
<1>2. S \subseteq 1 .. MaxDay /\ S # {} /\ MaxDay \in Nat
  BY DEF Priced, M!Days, M!HoldingAssumption
<1>3. IsFiniteSet(1 .. MaxDay)
  BY <1>2, FS_Interval
<1> HIDE DEF S
<1>4. IsFiniteSet(S) /\ S \subseteq Int
  <2>1. IsFiniteSet(S)
    BY <1>2, <1>3, FS_Subset
  <2> QED
    BY <1>2, <2>1
<1>5. Top(S) \in S
  BY <1>2, <1>4, TopIs
<1> QED
  BY <1>1, <1>2, <1>5 DEF M!Days

LEMMA WalletIsRight ==
  ASSUME M!HoldingAssumption, HoldingInv PROVE M!WalletAgrees
<1> SUFFICES ASSUME asset.units > 0, lagging = "no" PROVE M!Wallet = M!Current
  BY DEF M!WalletAgrees
<1>1. PICK d \in M!Days : ShownOn(values, d) /\ values[d].amount = asset.units * asset.price
  BY DEF HoldingInv, ShownWell
<1>2. values[d].price # 0
  BY <1>1 DEF ShownOn, Priced
<1>3. M!LatestDay = d
  BY <1>1, LatestIs
<1> QED
  BY <1>1, <1>2, <1>3 DEF M!Wallet, M!Current

LEMMA NetWorthIsRight ==
  ASSUME M!HoldingAssumption, HoldingInv PROVE M!NetWorthAgrees
<1> SUFFICES ASSUME ledger # <<>>, ~asset.typed, ~M!Oversold(ledger),
                    \A t \in M!ToSet(ledger) : t.day <= today, lagging # "price"
             PROVE  M!NetWorth = M!Current
  BY DEF M!NetWorthAgrees
<1>1. HoldingTypes /\ Trading(ledger) /\ asset.units = M!Position(ledger)
  BY DEF HoldingInv, HoldingTypes
<1>2. asset.units \in Nat /\ asset.price \in Nat
  <2>1. Prices \cup {0} \subseteq Nat
    BY DEF M!HoldingAssumption
  <2> QED
    BY <1>1, <2>1 DEF HoldingTypes, HoldingRow
<1>3. M!SignedQuantity = asset.units
  <2>1. \A i \in DOMAIN ledger : ledger[i].day <= today
    BY DEF M!ToSet
  <2>2. {i \in DOMAIN ledger : ledger[i].day <= today} = DOMAIN ledger
    BY <2>1
  <2>3. M!SignedQuantity = SumOver(NetOf(ledger), DOMAIN ledger)
    BY <2>2, SignedAddsUp
  <2> QED
    BY <1>1, <2>3, PositionAddsUp
<1>4. M!Max({asset.units, 0}) = asset.units
  <2> DEFINE n == asset.units
  <2>1. n \in Nat /\ M!Max({n, 0}) = CHOOSE x \in {n, 0} : \A y \in {n, 0} : x >= y
    BY <1>2 DEF M!Max
  <2> HIDE DEF n
  <2>2. M!Max({n, 0}) = n
    BY <2>1
  <2> QED
    BY <2>2 DEF n
<1>5. CASE asset.units > 0
  <2>1. PICK d \in M!Days : ShownOn(values, d) /\ values[d].price = asset.price
    BY <1>5 DEF HoldingInv, ShownWell
  <2>2. values[d].price # 0
    BY <2>1 DEF ShownOn, Priced
  <2>3. M!LatestDay = d
    BY <2>1, LatestIs
  <2> QED
    BY <1>3, <1>4, <2>1, <2>2, <2>3 DEF M!NetWorth, M!Current
<1>6. CASE asset.units = 0
  <2>1. M!Current = 0
    BY <1>2, <1>6 DEF M!Current
  <2>2. CASE \A d \in M!Days : values[d].price = 0
    BY <2>1, <2>2 DEF M!NetWorth
  <2>3. CASE ~\A d \in M!Days : values[d].price = 0
    <3>1. M!LatestDay \in M!Days
      BY <2>3, LatestIsThere
    <3>2. values[M!LatestDay].price \in Nat
      <4>1. values[M!LatestDay] \in DayValue
        BY <1>1, <3>1 DEF HoldingTypes
      <4>2. Prices \cup {0} \subseteq Nat
        BY DEF M!HoldingAssumption
      <4> QED
        BY <4>1, <4>2 DEF DayValue
    <3>3. M!NetWorth = 0 * values[M!LatestDay].price
      BY <1>3, <1>4, <1>6, <2>3 DEF M!NetWorth
    <3> QED
      BY <2>1, <3>2, <3>3
  <2> QED
    BY <2>2, <2>3
<1> QED
  BY <1>2, <1>5, <1>6

LEMMA HoldingTypeOK ==
  ASSUME M!HoldingAssumption, HoldingInv PROVE M!TypeOK
<1>1. HoldingTypes
  BY DEF HoldingInv
<1>2. \A d \in M!Days : values[d].amount \in Nat /\ values[d].price \in Prices \cup {0}
  BY <1>1 DEF HoldingTypes, DayValue
<1> QED
  BY <1>1, <1>2 DEF HoldingTypes, HoldingRow, Trading, M!TypeOK

LEMMA ShortOnlyByDeletion ==
  ASSUME M!HoldingAssumption, HoldingInv, M!Next
  PROVE  M!ShortByDeletion
<1>1. Trading(ledger)
  BY DEF HoldingInv, HoldingTypes
<1>2. ASSUME NEW p \in Prices, NEW q \in Quantities, NEW d \in M!Days, M!Open(p, q, d)
      PROVE  ~M!Oversold(ledger')
  <2>1. ledger' = <<[kind |-> "buy", day |-> d, qty |-> q]>>
    BY <1>2 DEF M!Open, M!Record
  <2> QED
    BY <2>1 DEF M!Oversold
<1>3. ASSUME NEW t \in M!Trades, M!AddTrade(t) PROVE M!Oversold(ledger') => M!Oversold(ledger)
  <2>1. ledger' = Append(ledger, t) /\ (t.kind = "sell" => ~M!Oversold(Append(ledger, t)))
    BY <1>3 DEF M!AddTrade, M!Record
  <2>2. t.kind \in {"buy", "sell"}
    BY DEF M!Trades
  <2>3. t.kind = "buy" /\ ~M!Oversold(ledger) => ~M!Oversold(Append(ledger, t))
    BY <1>1, BuyNeverShort
  <2> QED
    BY <2>1, <2>2, <2>3
<1>4. ASSUME NEW i \in DOMAIN ledger, NEW t \in M!Trades, M!UpdateTrade(i, t)
      PROVE  ~M!Oversold(ledger')
  BY <1>4 DEF M!UpdateTrade, M!Record
<1>5. ASSUME NEW i \in DOMAIN ledger, M!DeleteTrade(i) PROVE Len(ledger') < Len(ledger)
  <2>1. ledger' = M!RemoveAt(ledger, i)
    BY <1>5 DEF M!DeleteTrade, M!Record
  <2>2. Len(ledger') = Len(ledger) - 1
    BY <1>1, <2>1, WithoutOne
  <2>3. Len(ledger) \in Nat
    BY <1>1 DEF Trading
  <2> QED
    BY <2>2, <2>3
<1>6. ASSUME M!Delete PROVE ~M!Oversold(ledger')
  <2>1. ledger' = <<>>
    BY <1>6 DEF M!Delete
  <2> QED
    BY <2>1 DEF M!Oversold
<1>7. CASE UNCHANGED ledger
  BY <1>7 DEF M!ShortByDeletion
<1> QED
  BY <1>2, <1>3, <1>4, <1>5, <1>6, <1>7
  DEF M!Next, M!SaveForm, M!Archive, M!StartRefresh, M!EndRefresh, M!FailRefresh, M!Tick,
      M!ShortByDeletion

LEMMA HoldingStays == ASSUME HoldingInv, UNCHANGED M!vars PROVE HoldingInv'
<1>1. UNCHANGED <<today, asset, ledger, values, refresh, lagging, edits>>
  BY DEF M!vars
<1>2. HoldingTypes'
  BY <1>1 DEF HoldingInv, HoldingTypes
<1>3. ShownWell(asset', values', lagging')
  BY <1>1 DEF HoldingInv
<1> QED
  BY <1>1, <1>2, <1>3 DEF HoldingInv

-----------------------------------------------------------------------------
(* PART SEVEN: VALUED ASSETS *)
(* What a rule gives *)

ValuedRow == [kind : {"none", "growth", "synced"}, archived : BOOLEAN, sold : BOOLEAN,
              base : V!MaybeDay, price : Nat, start : V!MaybeDay, rate : Rates \cup {0},
              bank : 0 .. 2]
Worth == [day : V!Days, amount : Nat \ {0}, src : {"manual", "rule", "sync"}, copy : {1, 2}]

\* The first k periods from some day and amount.
Periods(from, amount, rate, k) ==
  {V!Value(from + n * Step, amount + n * rate, "rule") : n \in 1 .. k}

LEMMA TimesGrows ==
  ASSUME NEW s \in Nat, NEW n \in Nat, NEW j \in Nat, n <= j
  PROVE  n * s \in Nat /\ j * s \in Nat /\ n * s <= j * s
<1>1. PICK d \in Nat : j = n + d
  <2>1. j - n \in Nat /\ j = n + (j - n)
    OBVIOUS
  <2> QED
    BY <2>1
<1>2. d * s \in Nat /\ n * s \in Nat
  OBVIOUS
<1>3. j * s = n * s + d * s
  BY <1>1
<1> QED
  BY <1>2, <1>3

LEMMA StepIs == ASSUME V!ValuedAssumption PROVE Step \in Nat /\ Step >= 1
BY DEF V!ValuedAssumption

LEMMA StepsGrow ==
  ASSUME V!ValuedAssumption, NEW n \in Nat
  PROVE  /\ Step \in Nat /\ n * Step \in Nat /\ (n + 1) * Step \in Nat
         /\ n <= n * Step /\ (n + 1) * Step = n * Step + Step /\ Step >= 1
<1>1. Step \in Nat /\ Step >= 1
  BY DEF V!ValuedAssumption
<1>2. n * Step \in Nat /\ (n + 1) * Step = n * Step + Step
  BY <1>1
<1>3. n <= n * Step
  <2>1. PICK e \in Nat : Step = e + 1
    <3>1. Step - 1 \in Nat /\ Step = (Step - 1) + 1
      BY <1>1
    <3> QED
      BY <3>1
  <2>2. n * e \in Nat
    OBVIOUS
  <2>3. n * Step = n * e + n
    BY <2>1
  <2> QED
    BY <2>2, <2>3
<1> QED
  BY <1>1, <1>2, <1>3

LEMMA LeastOfTwo ==
  ASSUME NEW x \in Nat, NEW y \in Nat
  PROVE  V!Min({x, y}) \in Nat /\ V!Min({x, y}) <= x /\ V!Min({x, y}) <= y
         /\ (y <= x => V!Min({x, y}) = y)
<1> DEFINE S == {x, y}
<1>1. \E m \in S : \A z \in S : m <= z
  BY DEF S
<1>2. V!Min(S) = CHOOSE m \in S : \A z \in S : m <= z
  BY DEF V!Min
<1>3. V!Min(S) \in S /\ \A z \in S : V!Min(S) <= z
  <2> HIDE DEF S
  <2> QED
    BY <1>1, <1>2
<1> QED
  BY <1>3

LEMMA GrowIs ==
  ASSUME V!ValuedAssumption, NEW from \in Nat, NEW amount, NEW rate, NEW until \in Nat, NEW limit \in Nat
  PROVE  \E j \in Nat : /\ V!Grow(from, amount, rate, until, limit) = Periods(from, amount, rate, j)
                        /\ j > 0 => from + j * Step <= until
                        /\ from >= 1 /\ until <= limit => from + (j + 1) * Step > until
<1> DEFINE m == V!Min({limit, until})
           N == {k \in 1 .. m : from + k * Step <= until}
<1>1. m \in Nat /\ m <= limit /\ m <= until /\ (until <= limit => m = until)
  BY LeastOfTwo
<1> HIDE DEF m
<1>2. \A k \in 1 .. m : k \in Nat /\ k * Step \in Nat
  <2> TAKE k \in 1 .. m
  <2>1. k \in Nat
    BY <1>1
  <2> QED
    BY <2>1, StepsGrow
<1>3. PICK j \in 0 .. m : N = 1 .. j
  <2>1. CASE N = {}
    <3>1. 0 \in 0 .. m /\ 1 .. 0 = {}
      BY <1>1
    <3> QED
      BY <2>1, <3>1
  <2>2. CASE N # {}
    <3> DEFINE j == Top(N)
    <3>1. j \in 1 .. m /\ j \in N /\ \A y \in N : j >= y
      <4>1. N \in SUBSET (1 .. m) /\ IsFiniteSet(1 .. m)
        BY <1>1, FS_Interval
      <4>2. IsFiniteSet(N) /\ N \subseteq Int
        <5>1. IsFiniteSet(N)
          BY <4>1, FS_Subset
        <5> QED
          BY <4>1, <5>1
      <4>3. Top(N) \in N /\ \A y \in N : Top(N) >= y
        BY <2>2, <4>2, TopIs
      <4> QED
        BY <4>1, <4>3
    <3>2. from + j * Step <= until
      BY <3>1
    <3> HIDE DEF j
    <3>3. ASSUME NEW k \in 1 .. j PROVE k \in N
      <4>1. k \in Nat /\ j \in Nat /\ k <= j /\ k \in 1 .. m /\ Step \in Nat
        BY <1>1, <3>1, StepsGrow
      <4>2. k * Step \in Nat /\ j * Step \in Nat /\ k * Step <= j * Step
        BY <4>1, TimesGrows
      <4> QED
        BY <3>2, <4>1, <4>2
    <3>4. ASSUME NEW k \in N PROVE k \in 1 .. j
      BY <1>1, <3>1, <3>4
    <3>5. N = 1 .. j
      BY <3>3, <3>4
    <3>6. j \in 0 .. m
      BY <1>1, <3>1
    <3> QED
      BY <3>5, <3>6
  <2> QED
    BY <2>1, <2>2
<1>4. j \in Nat /\ j * Step \in Nat
  <2>1. j \in Nat
    BY <1>1
  <2> QED
    BY <2>1, StepsGrow
<1>5. V!Grow(from, amount, rate, until, limit) = Periods(from, amount, rate, j)
  BY <1>3 DEF V!Grow, Periods, m
<1>6. j > 0 => from + j * Step <= until
  <2>1. j > 0 => j \in N
    BY <1>3, <1>4
  <2> QED
    BY <2>1
<1>7. from >= 1 /\ until <= limit => from + (j + 1) * Step > until
  <2> SUFFICES ASSUME from >= 1, until <= limit, from + (j + 1) * Step <= until PROVE FALSE
    <3>1. (j + 1) * Step \in Nat
      BY <1>4, StepsGrow
    <3> QED
      BY <3>1
  <2>1. j + 1 \in Nat /\ (j + 1) * Step \in Nat /\ j + 1 <= (j + 1) * Step
    BY <1>4, StepsGrow
  <2>2. j + 1 \in 1 .. m
    BY <1>1, <1>4, <2>1
  <2>3. j + 1 \in N
    BY <2>2
  <2> QED
    BY <1>3, <1>4, <2>3
<1> QED
  BY <1>4, <1>5, <1>6, <1>7

\* The day and the amount after k periods.
After(from, amount, rate, k, later, more) == later = from + k * Step /\ more = amount + k * rate

\* These periods and j more are k and j periods.
GoOn(from, amount, rate, k, later, more, j) ==
  Periods(from, amount, rate, k) \cup Periods(later, more, rate, j)
    = Periods(from, amount, rate, k + j)

LEMMA PeriodsGoOn ==
  ASSUME V!ValuedAssumption, NEW from \in Nat, NEW amount \in Nat, NEW rate \in Nat,
         NEW k \in Nat, NEW j \in Nat,
         NEW later, NEW more, After(from, amount, rate, k, later, more)
  PROVE  GoOn(from, amount, rate, k, later, more, j)
<1> DEFINE f(i) == V!Value(from + i * Step, amount + i * rate, "rule")
           g(i) == V!Value(from + k * Step + i * Step, amount + k * rate + i * rate, "rule")
<1>1. \A i \in 1 .. j : g(i) = f(k + i)
  <2> TAKE i \in 1 .. j
  <2>1. i \in Nat /\ Step \in Nat
    BY StepsGrow
  <2>2. (k + i) * Step = k * Step + i * Step /\ (k + i) * rate = k * rate + i * rate
    BY <2>1
  <2>3. k * Step \in Nat /\ i * Step \in Nat /\ k * rate \in Nat /\ i * rate \in Nat
    BY <2>1
  <2>4. /\ from + k * Step + i * Step = from + (k + i) * Step
        /\ amount + k * rate + i * rate = amount + (k + i) * rate
    BY <2>2, <2>3
  <2> QED
    BY <2>4
<1>2. /\ Periods(from, amount, rate, k) = {f(i) : i \in 1 .. k}
      /\ Periods(from, amount, rate, k + j) = {f(i) : i \in 1 .. k + j}
      /\ Periods(later, more, rate, j) = {g(i) : i \in 1 .. j}
  BY DEF Periods, After
<1> HIDE DEF f, g
<1>3. \A i \in 1 .. k + j : i \in 1 .. k \/ \E m \in 1 .. j : i = k + m
  <2> TAKE i \in 1 .. k + j
  <2>1. i > k => i - k \in 1 .. j /\ i = k + (i - k)
    OBVIOUS
  <2>2. i <= k => i \in 1 .. k
    OBVIOUS
  <2> QED
    BY <2>1, <2>2
<1>4. \A i \in 1 .. j : k + i \in 1 .. k + j
  OBVIOUS
<1>5. \A i \in 1 .. k : i \in 1 .. k + j
  OBVIOUS
<1> QED
  BY <1>1, <1>2, <1>3, <1>4, <1>5 DEF GoOn

\* No calendar ends before a rule does.
LEMMA ValuedDays ==
  ASSUME V!ValuedAssumption
  PROVE  \E last \in Nat : last = MaxDay + 1 /\ V!Days = 1 .. last /\ V!MaybeDay = 0 .. last
<1>1. MaxDay + 1 \in Nat /\ MaxDay + 1 > 0
  BY DEF V!ValuedAssumption
<1>2. V!Days = 1 .. MaxDay + 1
  BY DEF V!Days
<1>3. PICK last \in Nat : last = MaxDay + 1
  BY <1>1
<1>4. V!MaybeDay = 0 .. last
  BY <1>1, <1>2, <1>3 DEF V!MaybeDay, V!NoDay
<1> QED
  BY <1>2, <1>3, <1>4

LEMMA GrowTyped ==
  ASSUME V!ValuedAssumption, NEW from \in Nat, NEW amount \in Nat \ {0}, NEW rate \in Nat,
         NEW until \in V!Days, NEW limit \in Nat,
         NEW v \in V!Grow(from, amount, rate, until, limit)
  PROVE  v \in Worth /\ v.src = "rule"
<1>1. PICK last \in Nat : V!Days = 1 .. last
  BY ValuedDays
<1>2. until \in Nat /\ until <= last
  BY <1>1
<1>3. V!Min({limit, until}) \in Nat
  BY <1>2, LeastOfTwo
<1>4. PICK n \in 1 .. V!Min({limit, until}) :
         from + n * Step <= until /\ v = V!Value(from + n * Step, amount + n * rate, "rule")
  BY DEF V!Grow
<1>5. n \in Nat /\ n >= 1
  BY <1>3
<1>6. n * Step \in Nat /\ n <= n * Step /\ n * rate \in Nat
  BY <1>5, StepsGrow
<1>7. from + n * Step \in V!Days /\ amount + n * rate \in Nat \ {0}
  BY <1>1, <1>2, <1>4, <1>5, <1>6
<1> QED
  BY <1>4, <1>7 DEF Worth, V!Value

LEMMA GeneratedTyped ==
  ASSUME V!ValuedAssumption, today \in V!Days, NEW row \in ValuedRow, row.price # 0
  PROVE  V!BaseDate(row) \in V!Days /\
         \A v \in V!Generated(row, V!BaseDate(row)) : v \in Worth /\ v.src = "rule"
<1>1. PICK last \in Nat : last = MaxDay + 1 /\ V!Days = 1 .. last /\ V!MaybeDay = 0 .. last
  BY ValuedDays
<1>2. row.start \in V!MaybeDay /\ row.base \in V!MaybeDay /\ row.price \in Nat \ {0}
      /\ row.rate \in Rates \cup {0}
  BY DEF ValuedRow
<1>3. row.rate \in Nat
  <2>1. Rates \cup {0} \subseteq Nat
    BY DEF V!ValuedAssumption
  <2> QED
    BY <1>2, <2>1
<1>4. V!BaseDate(row) \in V!Days
  BY <1>1, <1>2 DEF V!BaseDate, V!NoDay
<1> DEFINE from == IF row.start # V!NoDay THEN row.start ELSE V!BaseDate(row)
<1>5. from \in Nat
  BY <1>1, <1>2, <1>4
<1> HIDE DEF from
<1>6. \A v \in V!Grow(from, row.price, row.rate, today, MaxDay + 1) : v \in Worth /\ v.src = "rule"
  <2>1. MaxDay + 1 \in Nat
    BY <1>1
  <2> QED
    BY <1>2, <1>3, <1>5, <2>1, GrowTyped
<1>7. \A v \in V!Generated(row, V!BaseDate(row)) :
          v \in V!Grow(from, row.price, row.rate, today, MaxDay + 1)
  BY DEF V!Generated, from
<1> QED
  BY <1>4, <1>6, <1>7

\* Generated from the purchase, the periods are those until today.
LEMMA GeneratedIs ==
  ASSUME V!ValuedAssumption, today \in V!Days, NEW row \in ValuedRow,
         row.base # V!NoDay, row.start \in {V!NoDay, row.base}
  PROVE  \E k \in Nat : /\ V!Generated(row, V!BaseDate(row)) = Periods(row.base, row.price, row.rate, k)
                        /\ k > 0 => row.base + k * Step <= today
                        /\ row.base + (k + 1) * Step > today
<1>1. PICK last \in Nat : last = MaxDay + 1 /\ V!Days = 1 .. last /\ V!MaybeDay = 0 .. last
  BY ValuedDays
<1>2. row.base \in Nat /\ row.base >= 1 /\ today \in Nat /\ today <= last
  BY <1>1 DEF ValuedRow, V!NoDay
<1>3. CASE row.start > today
  <2>1. V!Generated(row, V!BaseDate(row)) = {}
    BY <1>3 DEF V!Generated
  <2>2. row.start = row.base
    BY <1>2, <1>3 DEF V!NoDay
  <2>3. Periods(row.base, row.price, row.rate, 0) = {}
    <3>1. 1 .. 0 = {}
      OBVIOUS
    <3> QED
      BY <3>1 DEF Periods
  <2>4. (0 + 1) * Step = Step /\ Step \in Nat
    BY StepsGrow
  <2>5. row.base + (0 + 1) * Step > today
    BY <1>2, <1>3, <2>2, <2>4
  <2> QED
    BY <2>1, <2>3, <2>5
<1>4. CASE ~(row.start > today)
  <2>1. V!Generated(row, V!BaseDate(row)) = V!Grow(row.base, row.price, row.rate, today, MaxDay + 1)
    BY <1>4 DEF V!Generated, V!BaseDate
  <2>2. MaxDay + 1 \in Nat /\ today <= MaxDay + 1
    BY <1>1, <1>2
  <2>3. PICK j \in Nat :
           /\ V!Grow(row.base, row.price, row.rate, today, MaxDay + 1)
                = Periods(row.base, row.price, row.rate, j)
           /\ j > 0 => row.base + j * Step <= today
           /\ row.base >= 1 /\ today <= MaxDay + 1 => row.base + (j + 1) * Step > today
    BY <1>2, <2>2, GrowIs
  <2> QED
    BY <1>2, <2>1, <2>2, <2>3
<1> QED
  BY <1>3, <1>4

LEMMA LastDayIs ==
  ASSUME NEW some, NEW d \in Nat, \E v \in some : v.day = d,
         \A v \in some : v.day \in Nat /\ v.day <= d
  PROVE  V!LastDay(some) = d
<1> DEFINE S == {v.day : v \in some}
<1>1. V!LastDay(some) = CHOOSE x \in S : \A y \in S : x >= y
  BY DEF V!LastDay, V!Max
<1>2. d \in S /\ \A y \in S : y \in Nat /\ y <= d
  OBVIOUS
<1> HIDE DEF S
<1>3. \A x \in S : (\A y \in S : x >= y) => x = d
  <2> TAKE x \in S
  <2> HAVE \A y \in S : x >= y
  <2>1. x \in Nat /\ x <= d /\ x >= d
    BY <1>2
  <2> QED
    BY <2>1
<1>4. d \in S /\ \A y \in S : d >= y
  BY <1>2
<1> QED
  BY <1>1, <1>3, <1>4, Zenon

-----------------------------------------------------------------------------
(* What is kept of an asset and its values *)

Bought(row) == V!Value(row.base, row.price, "manual")

\* What the task read goes on from the first k periods with j more.
Continues(row, more, now, k, j) ==
  /\ more = Periods(row.base + k * Step, row.price + k * row.rate, row.rate, j)
  /\ j > 0 => row.base + k * Step + j * Step <= now

\* The first k periods are there; the task that listed the asset has the rule,
\* or nothing to do.
Grown(row, some, job, now, k) ==
  /\ V!Rule(some) = Periods(row.base, row.price, row.rate, k)
  /\ k > 0 => row.base + k * Step <= now
  /\ job.at = "listed" => job.rate = row.rate \/ row.base + (k + 1) * Step > job.today
  /\ job.at = "read" => \E j \in Nat : Continues(row, job.batch, now, k, j)

FollowsRule(row, some, job, now) ==
  /\ some \ V!Rule(some) = {Bought(row)}
  /\ row.start \in {V!NoDay, row.base} => \E k \in Nat : Grown(row, some, job, now, k)

Begun(row) == row.kind = "growth" /\ row.base # V!NoDay

\* What a save under way generated is the first k periods of its rule, and the
\* task that listed the asset before has nothing to add to them.
Pending(save, job, now, k) ==
  /\ save.new = Periods(save.row.base, save.row.price, save.row.rate, k)
  /\ k > 0 => save.row.base + k * Step <= now
  /\ job.at = "listed" /\ ~save.met => save.row.base + (k + 1) * Step > job.today

\* It takes every rule value, if the task did not come between.
Replaces(row, some, save, job, now) ==
  /\ ~save.met => save.gone = V!Rule(some)
  /\ Begun(save.row) /\ save.row.base = row.base /\ save.row.start \in {V!NoDay, row.base}
       => \E k \in Nat : Pending(save, job, now, k)

Sourced(row, some) ==
  /\ \A v \in some : v.src = "rule" => row.kind = "growth"
  /\ \A v \in some : v.src = "sync" => row.kind = "synced"

Listing == [at : {"idle", "listed", "read"}, today : V!Days, rate : Rates \cup {0},
            start : V!MaybeDay, batch : SUBSET Worth]
Saving == [busy : BOOLEAN, row : ValuedRow, gone : SUBSET Worth, new : SUBSET Worth,
           met : BOOLEAN]

ValuedTypes ==
  /\ today \in V!Days
  /\ valued \in ValuedRow
  /\ \A v \in history : v \in Worth
  /\ task \in Listing /\ edit \in Saving
  /\ bank \in 0 .. 2 /\ reported \in Nat
  /\ touched \in BOOLEAN /\ blocked \in BOOLEAN /\ edits \in 0 .. MaxValuedEdits

\* The task and the save, between their steps.
UnderWay ==
  /\ task.at = "listed" => task.today <= today
  /\ \A v \in edit.new \cup task.batch : v.src = "rule"
  /\ edit.busy => edit.row.kind = "growth" /\ edit.row.price # 0
  /\ edit.busy /\ ~touched => Replaces(valued, history, edit, task, today)

ValuedInv ==
  /\ ValuedTypes
  /\ Sourced(valued, history)
  /\ valued.kind = "none" => history = {}
  /\ valued.kind = "growth" => valued.price # 0
  /\ valued.kind # "growth" => task.at = "idle" /\ ~edit.busy
  /\ UnderWay
  /\ Begun(valued) /\ ~touched => FollowsRule(valued, history, task, today)
  /\ valued.kind = "synced" /\ ~touched => \A v \in history : v.src = "sync" /\ v.day <= today
  /\ V!ShowsReport
  /\ V!OneSyncValueADay

\* Nothing added is there already.
LEMMA AddedAnew ==
  ASSUME NEW some, NEW more, more \cap some = {}
  PROVE  V!Inserted(some, more) = some \cup more
BY DEF V!Inserted

LEMMA AddedTyped ==
  ASSUME NEW some, NEW more, \A v \in some : v \in Worth, \A v \in more : v \in Worth
  PROVE  \A v \in V!Inserted(some, more) :
            /\ v \in Worth
            /\ v \in some \/ \E w \in more : v.src = w.src
<1> TAKE v \in V!Inserted(some, more)
<1>1. CASE v \in some
  BY <1>1
<1>2. CASE v \notin some
  <2>1. PICK w \in more : v = w \/ v = [w EXCEPT !.copy = 2]
    BY <1>2 DEF V!Inserted
  <2>2. w \in Worth
    OBVIOUS
  <2>3. v \in Worth /\ v.src = w.src
    BY <2>1, <2>2 DEF Worth
  <2> QED
    BY <2>3
<1> QED
  BY <1>1, <1>2

LEMMA IdleTyped ==
  ASSUME V!ValuedAssumption
  PROVE  /\ V!NoTask \in Listing /\ V!NoTask.at = "idle" /\ V!NoTask.batch = {}
         /\ V!NoEdit \in Saving /\ ~V!NoEdit.busy /\ V!NoEdit.new = {}
<1>1. PICK last \in Nat : last = MaxDay + 1 /\ V!Days = 1 .. last /\ V!MaybeDay = 0 .. last
  BY ValuedDays
<1>2. 1 \in V!Days /\ 0 \in V!MaybeDay
  <2>1. last > 0
    BY <1>1 DEF V!ValuedAssumption
  <2> QED
    BY <1>1, <2>1
<1>3. V!NoAsset \in ValuedRow
  BY <1>1 DEF V!NoAsset, ValuedRow, V!NoDay, V!NoBank
<1>4. V!NoTask \in Listing /\ V!NoTask.at = "idle" /\ V!NoTask.batch = {}
  BY <1>2 DEF V!NoTask, Listing, V!NoDay
<1>5. V!NoEdit \in Saving /\ ~V!NoEdit.busy /\ V!NoEdit.new = {}
  BY <1>3 DEF V!NoEdit, Saving
<1> QED
  BY <1>4, <1>5

LEMMA NoAssetTyped ==
  ASSUME V!ValuedAssumption PROVE V!NoAsset \in ValuedRow /\ V!NoAsset.kind = "none"
<1>1. PICK last \in Nat : V!MaybeDay = 0 .. last
  BY ValuedDays
<1> QED
  BY <1>1 DEF V!NoAsset, ValuedRow, V!NoDay, V!NoBank

LEMMA ValuedInit == ASSUME V!ValuedAssumption, V!Init PROVE ValuedInv
<1> USE DEF V!Init
<1>1. PICK last \in Nat : last = MaxDay + 1 /\ V!Days = 1 .. last /\ V!MaybeDay = 0 .. last
  BY ValuedDays
<1>2. today \in V!Days /\ MaxValuedEdits \in Nat
  <2>1. last > 0 /\ MaxValuedEdits \in Nat
    BY <1>1 DEF V!ValuedAssumption
  <2> QED
    BY <1>1, <2>1
<1>3. V!NoAsset \in ValuedRow /\ V!NoAsset.kind = "none"
  BY NoAssetTyped
<1>4. /\ V!NoTask \in Listing /\ V!NoTask.at = "idle" /\ V!NoTask.batch = {}
      /\ V!NoEdit \in Saving /\ ~V!NoEdit.busy /\ V!NoEdit.new = {}
  BY IdleTyped
<1>5. ValuedTypes
  <2>1. bank = 0 /\ reported = 0 /\ touched = FALSE /\ blocked = FALSE /\ edits = 0
    BY DEF V!NoBank
  <2>2. bank \in 0 .. 2 /\ reported \in Nat /\ edits \in 0 .. MaxValuedEdits
    BY <1>2, <2>1
  <2>3. today \in V!Days /\ valued = V!NoAsset /\ history = {} /\ task = V!NoTask /\ edit = V!NoEdit
    BY <1>2
  <2> QED
    BY <1>3, <1>4, <2>1, <2>2, <2>3 DEF ValuedTypes
<1>6. Sourced(valued, history) /\ V!ShowsReport /\ V!OneSyncValueADay
  BY DEF Sourced, V!ShowsReport, V!OneSyncValueADay
<1>7. UnderWay
  BY <1>4 DEF UnderWay
<1> QED
  BY <1>3, <1>4, <1>5, <1>6, <1>7 DEF ValuedInv, Begun

\* Steps that leave the values and the rule as they are.
LEMMA ValuedStill ==
  ASSUME V!ValuedAssumption, ValuedInv, ValuedTypes', today' >= today,
         valued'.kind = valued.kind, valued'.base = valued.base, valued'.price = valued.price,
         valued'.start = valued.start, valued'.rate = valued.rate,
         UNCHANGED <<history, edit, task, touched>>, reported' \in {reported, 0}
  PROVE  ValuedInv'
<1>1. PICK last \in Nat : V!Days = 1 .. last /\ V!MaybeDay = 0 .. last
  BY ValuedDays
<1>2. today \in Nat /\ today' \in Nat /\ task.today \in Nat /\ valued.base \in Nat
  BY <1>1 DEF ValuedInv, ValuedTypes, ValuedRow, Listing
<1>3. Sourced(valued', history')
  BY DEF ValuedInv, Sourced
<1>4. UnderWay'
  <2>1. task'.at = "listed" => task'.today <= today'
    BY <1>2 DEF ValuedInv, UnderWay
  <2>2. ASSUME edit'.busy, ~touched' PROVE Replaces(valued', history', edit', task', today')
    <3>1. Replaces(valued, history, edit, task, today)
      BY <2>2 DEF ValuedInv, UnderWay
    <3>2. ASSUME NEW k \in Nat, Pending(edit, task, today, k), Begun(edit.row)
          PROVE  Pending(edit, task, today', k)
      <4>1. edit.row.base + k * Step \in Nat
        <5>1. k * Step \in Nat
          BY StepsGrow
        <5>2. edit.row.base \in Nat
          BY <1>1 DEF ValuedInv, ValuedTypes, Saving, ValuedRow
        <5> QED
          BY <5>1, <5>2
      <4>2. k > 0 => edit.row.base + k * Step <= today'
        BY <1>2, <3>2, <4>1 DEF Pending
      <4> QED
        BY <3>2, <4>2 DEF Pending
    <3> QED
      BY <3>1, <3>2 DEF Replaces
  <2> QED
    BY <2>1, <2>2 DEF ValuedInv, UnderWay
<1>5. Begun(valued') /\ ~touched' => FollowsRule(valued', history', task', today')
  <2> SUFFICES ASSUME Begun(valued'), ~touched'
               PROVE  FollowsRule(valued', history', task', today')
    OBVIOUS
  <2>1. FollowsRule(valued, history, task, today)
    BY DEF ValuedInv, Begun
  <2>2. ASSUME NEW k \in Nat, Grown(valued, history, task, today, k)
        PROVE  Grown(valued', history', task', today', k)
    <3>1. valued.base + k * Step \in Nat
      <4>1. k * Step \in Nat
        BY StepsGrow
      <4> QED
        BY <1>2, <4>1
    <3>2. k > 0 => valued.base + k * Step <= today'
      BY <1>2, <2>2, <3>1 DEF Grown
    <3>3. task.at = "read" => \E j \in Nat : Continues(valued', task.batch, today', k, j)
      <4> HAVE task.at = "read"
      <4>1. PICK j \in Nat : Continues(valued, task.batch, today, k, j)
        BY <2>2 DEF Grown
      <4>2. valued.base + k * Step + j * Step \in Nat
        <5>1. j * Step \in Nat
          BY StepsGrow
        <5> QED
          BY <3>1, <5>1
      <4>3. j > 0 => valued.base + k * Step + j * Step <= today'
        BY <1>2, <4>1, <4>2 DEF Continues
      <4> QED
        BY <4>1, <4>3 DEF Continues
    <3> QED
      BY <2>2, <3>2, <3>3 DEF Grown
  <2>3. Bought(valued') = Bought(valued)
    BY DEF Bought
  <2> QED
    BY <2>1, <2>2, <2>3 DEF FollowsRule
<1>6. valued'.kind = "synced" /\ ~touched' => \A v \in history' : v.src = "sync" /\ v.day <= today'
  <2> SUFFICES ASSUME valued'.kind = "synced", ~touched', NEW v \in history'
               PROVE  v.src = "sync" /\ v.day <= today'
    OBVIOUS
  <2>1. v.src = "sync" /\ v.day <= today /\ v \in Worth
    BY DEF ValuedInv, ValuedTypes
  <2>2. v.day \in Nat
    BY <1>1, <2>1 DEF Worth
  <2> QED
    BY <1>2, <2>1, <2>2
<1>7. V!ShowsReport' /\ V!OneSyncValueADay'
  BY DEF ValuedInv, V!ShowsReport, V!OneSyncValueADay
<1> QED
  BY <1>3, <1>4, <1>5, <1>6, <1>7 DEF ValuedInv

\* Steps of an asset that grows by a rule.
LEMMA GrowsOn ==
  ASSUME V!ValuedAssumption, ValuedTypes', valued'.kind = "growth", valued'.price # 0,
         \A v \in history' : v.src # "sync", UnderWay',
         Begun(valued') /\ ~touched' => FollowsRule(valued', history', task', today')
  PROVE  ValuedInv'
<1>1. Sourced(valued', history')
  BY DEF Sourced
<1>2. V!ShowsReport' /\ V!OneSyncValueADay'
  BY DEF V!ShowsReport, V!OneSyncValueADay
<1> QED
  BY <1>1, <1>2 DEF ValuedInv

\* What was entered, and what was generated.
LEMMA EnteredAndGenerated ==
  ASSUME NEW entered, NEW made, \A v \in entered : v.src # "rule", \A v \in made : v.src = "rule"
  PROVE  V!Rule(entered \cup made) = made /\ (entered \cup made) \ V!Rule(entered \cup made) = entered
BY DEF V!Rule

LEMMA CreateGrowthKeeps ==
  ASSUME V!ValuedAssumption, ValuedInv, NEW p \in Worths, NEW r \in Rates,
         NEW b \in FormDays, NEW s \in FormDays, V!CreateGrowth(p, r, b, s)
  PROVE  ValuedInv'
<1> USE DEF V!CreateGrowth
<1> DEFINE row == [V!NoAsset EXCEPT !.kind = "growth", !.price = p, !.rate = r, !.base = b, !.start = s]
           made == V!Generated(row, V!BaseDate(row))
           entered == {V!Value(V!BaseDate(row), p, "manual")}
<1>1. PICK last \in Nat : last = MaxDay + 1 /\ V!Days = 1 .. last /\ V!MaybeDay = 0 .. last
  BY ValuedDays
<1>2. ValuedTypes
  BY DEF ValuedInv
<1>3. p \in Nat \ {0}
  BY DEF V!ValuedAssumption
<1> b \in V!MaybeDay /\ s \in V!MaybeDay
  BY <1>1 DEF V!ValuedAssumption
<1>4. row \in ValuedRow /\ row.price = p /\ row.kind = "growth" /\ row.base = b /\ row.start = s
  <2>1. V!NoAsset \in ValuedRow
    BY NoAssetTyped
  <2>2. p \in Nat /\ "growth" \in {"none", "growth", "synced"}
    BY <1>3
  <2> QED
    BY <2>1, <2>2 DEF ValuedRow
<1>5. valued' = row /\ history' = entered \cup made
  OBVIOUS
<1> HIDE DEF row
<1>6. today \in V!Days
  BY <1>2 DEF ValuedTypes
<1>7. V!BaseDate(row) \in V!Days /\ \A v \in made : v \in Worth /\ v.src = "rule"
  BY <1>3, <1>4, <1>6, GeneratedTyped
<1> HIDE DEF made
<1>8. \A v \in entered : v \in Worth /\ v.src = "manual"
  BY <1>3, <1>7 DEF Worth, V!Value
<1> HIDE DEF entered
<1>9. V!Rule(history') = made /\ history' \ V!Rule(history') = entered
  <2>1. \A v \in entered : v.src # "rule"
    BY <1>8
  <2>2. \A v \in made : v.src = "rule"
    BY <1>7
  <2> QED
    BY <1>5, <2>1, <2>2, EnteredAndGenerated
<1>10. ValuedTypes'
  <2>1. edits' \in 0 .. MaxValuedEdits
    BY <1>2 DEF V!Bounded, ValuedTypes, V!ValuedAssumption
  <2>2. \A v \in history' : v \in Worth
    BY <1>5, <1>7, <1>8
  <2> QED
    BY <1>2, <1>4, <1>5, <2>1, <2>2 DEF ValuedTypes
<1>11. Begun(valued') => FollowsRule(valued', history', task', today')
  <2> SUFFICES ASSUME Begun(row) PROVE FollowsRule(row, history', task, today)
    BY <1>5
  <2>1. row.base # V!NoDay
    BY DEF Begun
  <2>2. entered = {Bought(row)}
    BY <1>4, <2>1 DEF entered, Bought, V!BaseDate
  <2>3. ASSUME row.start \in {V!NoDay, row.base} PROVE \E k \in Nat : Grown(row, history', task, today, k)
    <3>1. PICK k \in Nat : /\ made = Periods(row.base, row.price, row.rate, k)
                           /\ k > 0 => row.base + k * Step <= today
                           /\ row.base + (k + 1) * Step > today
      BY <1>4, <1>6, <2>1, <2>3, GeneratedIs DEF made
    <3>2. task.at = "idle"
      BY DEF ValuedInv
    <3> QED
      BY <1>9, <3>1, <3>2 DEF Grown
  <2> QED
    BY <1>9, <2>2, <2>3 DEF FollowsRule
<1>12. \A v \in history' : v.src # "sync"
  BY <1>5, <1>7, <1>8
<1>13. UnderWay'
  <2>1. task.at = "idle" /\ ~edit.busy
    BY DEF ValuedInv
  <2> QED
    BY <2>1 DEF ValuedInv, UnderWay
<1>14. valued'.kind = "growth" /\ valued'.price # 0
  BY <1>3, <1>4, <1>5
<1> QED
  BY <1>10, <1>11, <1>12, <1>13, <1>14, GrowsOn

LEMMA EditBeginsKeeps ==
  ASSUME V!ValuedAssumption, ValuedInv, NEW p \in Worths, NEW r \in Rates,
         NEW b \in FormDays, NEW s \in FormDays, V!EditBegins(p, r, b, s)
  PROVE  ValuedInv'
<1> USE DEF V!EditBegins
<1> DEFINE row == [valued EXCEPT !.price = p, !.rate = r, !.base = b, !.start = s]
           made == V!Generated(row, V!BaseDate(row))
<1>1. PICK last \in Nat : last = MaxDay + 1 /\ V!Days = 1 .. last /\ V!MaybeDay = 0 .. last
  BY ValuedDays
<1>2. ValuedTypes
  BY DEF ValuedInv
<1>3. p \in Nat \ {0} /\ b \in V!MaybeDay /\ s \in V!MaybeDay
  BY <1>1 DEF V!ValuedAssumption
<1>4. row \in ValuedRow /\ row.price = p /\ row.kind = "growth" /\ row.base = b /\ row.start = s
  BY <1>1, <1>2, <1>3 DEF ValuedRow, ValuedTypes
<1>5. PICK new : edit' = [busy |-> TRUE, row |-> row, gone |-> V!Outdated, met |-> FALSE, new |-> new]
                 /\ new = IF history = {} THEN {} ELSE made
  OBVIOUS
<1> HIDE DEF row
<1>6. today \in V!Days
  BY <1>2 DEF ValuedTypes
<1>7. \A v \in made : v \in Worth /\ v.src = "rule"
  BY <1>3, <1>4, <1>6, GeneratedTyped
<1> HIDE DEF made
<1>8. new \in SUBSET Worth /\ \A v \in new : v.src = "rule"
  BY <1>5, <1>7
<1>9. V!Outdated = V!Rule(history) /\ V!Outdated \in SUBSET Worth
  BY <1>2 DEF V!Outdated, V!Rule, ValuedTypes
<1>10. ValuedTypes'
  <2>1. edits' \in 0 .. MaxValuedEdits
    BY <1>2 DEF V!Bounded, ValuedTypes, V!ValuedAssumption
  <2>2. edit' \in Saving
    BY <1>4, <1>5, <1>8, <1>9 DEF Saving
  <2> QED
    BY <1>2, <2>1, <2>2 DEF ValuedTypes
<1>11. ASSUME ~touched PROVE Replaces(valued, history, edit', task, today)
  <2>1. edit'.gone = V!Rule(history) /\ edit'.row = row /\ edit'.new = new /\ ~edit'.met
    BY <1>5, <1>9
  <2>2. ASSUME Begun(row), row.base = valued.base, row.start \in {V!NoDay, row.base}
        PROVE  \E k \in Nat : Pending(edit', task, today, k)
    <3>1. history # {}
      <4>1. history \ V!Rule(history) = {Bought(valued)}
        BY <1>11, <2>2 DEF ValuedInv, FollowsRule, Begun
      <4> QED
        BY <4>1
    <3>2. row.base # V!NoDay
      BY <2>2 DEF Begun
    <3>3. PICK k \in Nat : /\ made = Periods(row.base, row.price, row.rate, k)
                           /\ k > 0 => row.base + k * Step <= today
                           /\ row.base + (k + 1) * Step > today
      BY <1>4, <1>6, <2>2, <3>2, GeneratedIs DEF made
    <3>4. task.at = "listed" => row.base + (k + 1) * Step > task.today
      <4> HAVE task.at = "listed"
      <4>1. task.today \in Nat /\ today \in Nat /\ task.today <= today
        BY <1>1, <1>2 DEF ValuedInv, ValuedTypes, UnderWay, Listing
      <4>2. row.base \in Nat /\ (k + 1) * Step \in Nat
        BY <1>1, <1>4, StepsGrow DEF ValuedRow
      <4> QED
        BY <3>3, <4>1, <4>2
    <3> QED
      BY <1>5, <2>1, <3>1, <3>3, <3>4 DEF Pending
  <2> QED
    BY <2>1, <2>2 DEF Replaces
<1>12. UnderWay'
  <2>1. edit'.busy /\ edit'.new = new /\ edit'.row = row
    BY <1>5
  <2>2. edit'.row.kind = "growth" /\ edit'.row.price # 0
    BY <1>3, <1>4, <2>1
  <2>3. \A v \in edit'.new \cup task'.batch : v.src = "rule"
    BY <1>8, <2>1 DEF ValuedInv, UnderWay
  <2>4. task'.at = "listed" => task'.today <= today'
    BY DEF ValuedInv, UnderWay
  <2>5. ~touched' => Replaces(valued', history', edit', task', today')
    BY <1>11
  <2> QED
    BY <2>2, <2>3, <2>4, <2>5 DEF UnderWay
<1>13. Begun(valued') /\ ~touched' => FollowsRule(valued', history', task', today')
  BY DEF ValuedInv
<1>14. valued'.price # 0 /\ valued'.kind = "growth" /\ \A v \in history' : v.src # "sync"
  BY DEF ValuedInv, Sourced
<1> QED
  BY <1>10, <1>12, <1>13, <1>14, GrowsOn

LEMMA EditCommitsKeeps ==
  ASSUME V!ValuedAssumption, ValuedInv, V!EditCommits PROVE ValuedInv'
<1> USE DEF V!EditCommits
<1> DEFINE kept == history \ edit.gone
<1>1. ValuedTypes /\ edit.row \in ValuedRow
  BY DEF ValuedInv, ValuedTypes, Saving
<1>2. valued.kind = "growth" /\ edit.row.kind = "growth" /\ edit.row.price # 0
  BY DEF ValuedInv, UnderWay
<1>3. valued' = edit.row /\ history' = V!Inserted(kept, edit.new)
  OBVIOUS
<1>4. \A v \in edit.new : v \in Worth /\ v.src = "rule"
  BY <1>1 DEF ValuedInv, UnderWay, ValuedTypes, Saving
<1>5. \A v \in kept : v \in Worth /\ v.src # "sync"
  BY <1>1, <1>2 DEF ValuedInv, ValuedTypes, Sourced
<1>6. \A v \in history' : v \in Worth /\ v.src # "sync"
  BY <1>3, <1>4, <1>5, AddedTyped
<1>7. V!NoEdit \in Saving /\ ~V!NoEdit.busy /\ V!NoEdit.new = {}
  BY IdleTyped
<1>8. ValuedTypes'
  <2>1. touched' \in BOOLEAN
    OBVIOUS
  <2> QED
    BY <1>1, <1>3, <1>6, <1>7, <2>1 DEF ValuedTypes
<1>9. UnderWay'
  BY <1>7 DEF ValuedInv, UnderWay
<1>10. ASSUME Begun(valued'), ~touched' PROVE FollowsRule(valued', history', task', today')
  <2>1. /\ ~touched /\ ~edit.met /\ task.at # "read"
        /\ edit.row.price = valued.price /\ edit.row.base = valued.base
    BY <1>10
  <2>2. Begun(valued) /\ Begun(edit.row)
    BY <1>2, <1>3, <1>10, <2>1 DEF Begun
  <2>3. Replaces(valued, history, edit, task, today) /\ edit.gone = V!Rule(history)
    BY <2>1 DEF ValuedInv, UnderWay, Replaces
  <2>4. kept = {Bought(edit.row)}
    <3>1. kept = {Bought(valued)}
      BY <2>1, <2>2, <2>3 DEF ValuedInv, FollowsRule
    <3> QED
      BY <2>1, <3>1 DEF Bought
  <2>5. \A v \in kept : v.src # "rule"
    BY <2>4 DEF Bought, V!Value
  <2> HIDE DEF kept
  <2>6. history' = kept \cup edit.new
    <3>1. edit.new \cap kept = {}
      BY <1>4, <2>5
    <3> QED
      BY <1>3, <3>1, AddedAnew
  <2>7. V!Rule(history') = edit.new /\ history' \ V!Rule(history') = kept
    <3>1. \A v \in edit.new : v.src = "rule"
      BY <1>4
    <3> QED
      BY <2>5, <2>6, <3>1, EnteredAndGenerated
  <2>8. ASSUME edit.row.start \in {V!NoDay, edit.row.base}
        PROVE  \E k \in Nat : Grown(edit.row, history', task, today, k)
    <3>1. PICK k \in Nat : Pending(edit, task, today, k)
      BY <2>1, <2>2, <2>3, <2>8 DEF Replaces
    <3> QED
      BY <2>1, <2>7, <3>1 DEF Grown, Pending
  <2> QED
    BY <1>3, <2>4, <2>7, <2>8 DEF FollowsRule
<1> HIDE DEF kept
<1> QED
  BY <1>2, <1>3, <1>6, <1>8, <1>9, <1>10, GrowsOn

LEMMA EditFailsKeeps ==
  ASSUME V!ValuedAssumption, ValuedInv, V!EditFails PROVE ValuedInv'
<1> USE DEF V!EditFails
<1>1. ValuedTypes /\ valued.kind = "growth"
  BY DEF ValuedInv
<1>2. V!NoEdit \in Saving /\ ~V!NoEdit.busy /\ V!NoEdit.new = {}
  BY IdleTyped
<1>3. ValuedTypes'
  BY <1>1, <1>2 DEF ValuedTypes
<1>4. UnderWay'
  BY <1>2 DEF ValuedInv, UnderWay
<1>5. Begun(valued') /\ ~touched' => FollowsRule(valued', history', task', today')
  BY DEF ValuedInv
<1>6. valued'.price # 0 /\ valued'.kind = "growth" /\ \A v \in history' : v.src # "sync"
  BY <1>1 DEF ValuedInv, Sourced
<1> QED
  BY <1>3, <1>4, <1>5, <1>6, GrowsOn

\* The task reads today's rule; a save under way has been met.
LEMMA TaskListsKeeps ==
  ASSUME V!ValuedAssumption, ValuedInv, V!TaskLists PROVE ValuedInv'
<1> USE DEF V!TaskLists
<1>1. PICK last \in Nat : V!Days = 1 .. last
  BY ValuedDays
<1>2. ValuedTypes /\ valued.kind = "growth"
  BY DEF ValuedInv
<1>3. today \in Nat
  BY <1>1, <1>2 DEF ValuedTypes
<1>4. task'.at = "listed" /\ task'.today = today /\ task'.rate = valued.rate /\ task'.batch = {}
  OBVIOUS
<1>5. edit' \in Saving /\ edit'.busy = edit.busy /\ edit'.row = edit.row /\ edit'.new = edit.new
      /\ edit'.gone = edit.gone /\ (edit.busy => edit'.met)
  BY <1>2 DEF V!Met, ValuedTypes, Saving
<1>6. ValuedTypes'
  <2>1. task' \in Listing
    BY <1>2 DEF ValuedTypes, ValuedRow, Listing
  <2> QED
    BY <1>2, <1>5, <2>1 DEF ValuedTypes
<1>7. Begun(valued') /\ ~touched' => FollowsRule(valued', history', task', today')
  BY <1>4 DEF ValuedInv, FollowsRule, Grown
<1>8. valued'.price # 0 /\ valued'.kind = "growth" /\ \A v \in history' : v.src # "sync"
  BY <1>2 DEF ValuedInv, Sourced
<1>9. UnderWay'
  <2>1. ASSUME edit'.busy, ~touched' PROVE Replaces(valued', history', edit', task', today')
    <3>1. Replaces(valued, history, edit, task, today)
      BY <1>5, <2>1 DEF ValuedInv, UnderWay
    <3>2. ASSUME NEW k \in Nat, Pending(edit, task, today, k) PROVE Pending(edit', task', today', k)
      BY <1>5, <2>1, <3>2 DEF Pending
    <3> QED
      BY <1>5, <2>1, <3>1, <3>2 DEF Replaces
  <2>2. \A v \in edit'.new \cup task'.batch : v.src = "rule"
    BY <1>4, <1>5 DEF ValuedInv, UnderWay
  <2>3. edit'.busy => edit'.row.kind = "growth" /\ edit'.row.price # 0
    BY <1>5 DEF ValuedInv, UnderWay
  <2>4. task'.today <= today'
    BY <1>3, <1>4
  <2> QED
    BY <2>1, <2>2, <2>3, <2>4 DEF UnderWay
<1> QED
  BY <1>6, <1>7, <1>8, <1>9, GrowsOn

\* The latest value of a history that follows the rule.
LEMMA LatestOfRule ==
  ASSUME V!ValuedAssumption, NEW row \in ValuedRow, NEW some, NEW k \in Nat,
         some \ V!Rule(some) = {Bought(row)},
         V!Rule(some) = Periods(row.base, row.price, row.rate, k)
  PROVE  /\ V!LastDay(some) = row.base + k * Step
         /\ \A v \in V!Latest(some) : v.day = row.base + k * Step /\ v.amount = row.price + k * row.rate
         /\ \A v \in some : v.day \in Nat /\ v.day <= row.base + k * Step
<1> DEFINE d == row.base + k * Step
<1>1. PICK last \in Nat : V!MaybeDay = 0 .. last
  BY ValuedDays
<1>2. row.base \in Nat /\ row.price \in Nat
  BY <1>1 DEF ValuedRow
<1>3. row.rate \in Nat
  <2>1. Rates \cup {0} \subseteq Nat
    BY DEF V!ValuedAssumption
  <2> QED
    BY <2>1 DEF ValuedRow
<1>4. d \in Nat
  <2>1. k * Step \in Nat
    BY StepsGrow
  <2> QED
    BY <1>2, <2>1
<1>5. some = {Bought(row)} \cup Periods(row.base, row.price, row.rate, k)
  BY DEF V!Rule
<1>6. ASSUME NEW n \in 0 .. k
      PROVE  /\ row.base + n * Step \in Nat /\ row.base + n * Step <= d
             /\ n # k => row.base + n * Step # d
  <2>1. n \in Nat /\ Step \in Nat /\ n <= k
    BY StepsGrow
  <2>2. n * Step \in Nat /\ k * Step \in Nat /\ n * Step <= k * Step
    BY <2>1, TimesGrows
  <2>3. n # k => (n + 1) * Step <= k * Step
    <3> HAVE n # k
    <3>1. n + 1 \in Nat /\ n + 1 <= k
      BY <2>1
    <3> QED
      BY <2>1, <3>1, TimesGrows
  <2>4. (n + 1) * Step = n * Step + Step /\ Step >= 1
    BY <2>1, StepsGrow
  <2> QED
    BY <1>2, <2>1, <2>2, <2>3, <2>4
<1>7. \A v \in some : \E n \in 0 .. k : /\ v.day = row.base + n * Step
                                        /\ v.amount = row.price + n * row.rate
  <2> TAKE v \in some
  <2>1. CASE v = Bought(row)
    <3>1. 0 \in 0 .. k /\ row.base + 0 * Step = row.base /\ row.price + 0 * row.rate = row.price
      <4>1. Step \in Nat
        BY StepIs
      <4>2. 0 * Step = 0 /\ 0 * row.rate = 0
        BY <1>3, <4>1
      <4> QED
        BY <1>2, <4>2
    <3>2. v.day = row.base /\ v.amount = row.price
      BY <2>1 DEF Bought, V!Value
    <3> QED
      BY <3>1, <3>2
  <2>2. CASE v \in Periods(row.base, row.price, row.rate, k)
    <3>1. PICK n \in 1 .. k : v = V!Value(row.base + n * Step, row.price + n * row.rate, "rule")
      BY <2>2 DEF Periods
    <3>2. n \in 0 .. k
      OBVIOUS
    <3> QED
      BY <3>1, <3>2 DEF V!Value
  <2> QED
    BY <1>5, <2>1, <2>2
<1>8. \E v \in some : v.day = d
  <2>1. CASE k = 0
    <3>1. Step \in Nat
      BY StepIs
    <3>2. k * Step = 0
      BY <2>1, <3>1
    <3>3. d = row.base
      BY <1>2, <3>2
    <3>4. Bought(row) \in some /\ Bought(row).day = row.base
      BY <1>5 DEF Bought, V!Value
    <3> HIDE DEF d
    <3> QED
      BY <3>3, <3>4
  <2>2. CASE k # 0
    <3>1. k \in 1 .. k
      BY <2>2
    <3>2. V!Value(row.base + k * Step, row.price + k * row.rate, "rule") \in some
      BY <1>5, <3>1 DEF Periods
    <3> QED
      BY <3>2 DEF V!Value
  <2> QED
    BY <2>1, <2>2
<1> HIDE DEF d
<1>9. \A v \in some : v.day \in Nat /\ v.day <= d
  BY <1>6, <1>7
<1>10. V!LastDay(some) = d
  BY <1>4, <1>8, <1>9, LastDayIs
<1>11. ASSUME NEW v \in V!Latest(some) PROVE v.day = d /\ v.amount = row.price + k * row.rate
  <2>1. v \in some /\ v.day = d
    BY <1>10 DEF V!Latest
  <2>2. PICK n \in 0 .. k : v.day = row.base + n * Step /\ v.amount = row.price + n * row.rate
    BY <1>7, <2>1
  <2>3. n = k
    BY <1>6, <2>1, <2>2
  <2> QED
    BY <2>1, <2>2, <2>3
<1> QED
  BY <1>9, <1>10, <1>11 DEF d

\* The task goes on from the latest value with the rule it listed.
LEMMA RuleGoesOn ==
  ASSUME V!ValuedAssumption, ValuedInv, Begun(valued), ~touched, task.at = "listed",
         NEW late \in V!Latest(history), NEW k \in Nat, Grown(valued, history, task, today, k),
         history \ V!Rule(history) = {Bought(valued)},
         NEW made, made = V!Grow(late.day, late.amount, task.rate, task.today, RunLimit)
  PROVE  \E j \in Nat : Continues(valued, made, today, k, j)
<1> DEFINE from == valued.base + k * Step
           amount == valued.price + k * valued.rate
<1>1. PICK last \in Nat : V!Days = 1 .. last /\ V!MaybeDay = 0 .. last
  BY ValuedDays
<1>2. ValuedTypes
  BY DEF ValuedInv
<1>3. /\ valued \in ValuedRow /\ valued.base \in Nat /\ valued.price \in Nat
      /\ task.today \in Nat /\ today \in Nat /\ task.today <= today
  BY <1>1, <1>2 DEF ValuedTypes, ValuedRow, ValuedInv, Listing, UnderWay
<1>4. valued.rate \in Nat /\ task.rate \in Nat /\ RunLimit \in Nat
  <2>1. Rates \cup {0} \subseteq Nat /\ RunLimit \in Nat
    BY DEF V!ValuedAssumption
  <2> QED
    BY <1>2, <2>1 DEF ValuedTypes, ValuedRow, Listing
<1>5. late.day = from /\ late.amount = amount
  BY <1>3, LatestOfRule DEF Grown
<1>6. from \in Nat /\ amount \in Nat /\ k * Step \in Nat
  <2>1. k * Step \in Nat
    BY StepsGrow
  <2>2. k * valued.rate \in Nat
    BY <1>4
  <2> QED
    BY <1>3, <2>1, <2>2
<1> HIDE DEF from, amount
<1>7. PICK j \in Nat : /\ made = Periods(from, amount, task.rate, j)
                       /\ j > 0 => from + j * Step <= task.today
  BY <1>3, <1>4, <1>5, <1>6, GrowIs
<1>8. j * Step \in Nat /\ j <= j * Step /\ (j > 0 => Step <= j * Step)
  <2>1. j * Step \in Nat /\ j <= j * Step
    BY StepsGrow
  <2>2. j > 0 => 1 * Step <= j * Step
    <3> HAVE j > 0
    <3>1. 1 \in Nat /\ 1 <= j /\ Step \in Nat
      BY StepsGrow
    <3> QED
      BY <3>1, TimesGrows
  <2>3. 1 * Step = Step
    BY StepsGrow
  <2> QED
    BY <2>1, <2>2, <2>3
<1>9. j > 0 => task.rate = valued.rate
  <2> HAVE j > 0
  <2>1. valued.base + (k + 1) * Step = from + Step /\ Step \in Nat
    <3>1. (k + 1) * Step = k * Step + Step /\ Step \in Nat
      BY StepsGrow
    <3> QED
      BY <1>3, <1>6, <3>1 DEF from
  <2>2. ~(valued.base + (k + 1) * Step > task.today)
    BY <1>3, <1>6, <1>7, <1>8, <2>1
  <2> QED
    BY <2>2 DEF Grown
<1>10. made = Periods(from, amount, valued.rate, j)
  <2>1. CASE j > 0
    BY <1>7, <1>9, <2>1
  <2>2. CASE j = 0
    <3>1. 1 .. j = {}
      BY <2>2
    <3> QED
      BY <1>7, <3>1 DEF Periods
  <2> QED
    BY <2>1, <2>2
<1>11. j > 0 => from + j * Step <= today
  BY <1>3, <1>6, <1>7, <1>8
<1> QED
  BY <1>10, <1>11 DEF Continues, from, amount

LEMMA BatchTyped ==
  ASSUME V!ValuedAssumption, ValuedTypes, NEW late \in V!Latest(history)
  PROVE  \A v \in V!Grow(late.day, late.amount, task.rate, task.today, RunLimit) :
            v \in Worth /\ v.src = "rule"
<1>1. PICK last \in Nat : V!Days = 1 .. last
  BY ValuedDays
<1>2. late \in Worth
  BY DEF V!Latest, ValuedTypes
<1>3. late.day \in Nat /\ late.amount \in Nat \ {0} /\ task.today \in V!Days
  BY <1>1, <1>2 DEF Worth, ValuedTypes, Listing
<1>4. task.rate \in Nat /\ RunLimit \in Nat
  <2>1. Rates \cup {0} \subseteq Nat /\ RunLimit \in Nat
    BY DEF V!ValuedAssumption
  <2> QED
    BY <2>1 DEF ValuedTypes, Listing
<1> QED
  BY <1>3, <1>4, GrowTyped

LEMMA TaskReadsKeeps ==
  ASSUME V!ValuedAssumption, ValuedInv, V!TaskReads PROVE ValuedInv'
<1> USE DEF V!TaskReads
<1>1. ValuedTypes /\ valued.kind = "growth"
  BY DEF ValuedInv
<1>2. V!NoTask \in Listing /\ V!NoTask.at = "idle" /\ V!NoTask.batch = {}
  BY IdleTyped
<1>3. \/ task' = V!NoTask
      \/ \E late \in V!Latest(history) : \E made :
            /\ made = V!Grow(late.day, late.amount, task.rate, task.today, RunLimit)
            /\ task' = [V!NoTask EXCEPT !.at = "read", !.batch = made]
  OBVIOUS
<1>4. ASSUME task' \in Listing, task'.at \in {"idle", "read"},
             \A v \in task'.batch : v.src = "rule",
             Begun(valued) /\ ~touched => FollowsRule(valued, history, task', today)
      PROVE  ValuedInv'
  <2>1. ValuedTypes'
    BY <1>1, <1>4 DEF ValuedTypes
  <2>2. \A v \in edit'.new \cup task'.batch : v.src = "rule"
    BY <1>4 DEF ValuedInv, UnderWay
  <2>3. ASSUME edit'.busy, ~touched' PROVE Replaces(valued', history', edit', task', today')
    <3>1. Replaces(valued, history, edit, task, today)
      BY <2>3 DEF ValuedInv, UnderWay
    <3>2. ASSUME NEW k \in Nat, Pending(edit, task, today, k) PROVE Pending(edit, task', today, k)
      BY <1>4, <3>2 DEF Pending
    <3> QED
      BY <3>1, <3>2 DEF Replaces
  <2>4. edit'.busy => edit'.row.kind = "growth" /\ edit'.row.price # 0
    BY DEF ValuedInv, UnderWay
  <2>5. UnderWay'
    BY <1>4, <2>2, <2>3, <2>4 DEF UnderWay
  <2>6. valued'.price # 0 /\ valued'.kind = "growth" /\ \A v \in history' : v.src # "sync"
    BY <1>1 DEF ValuedInv, Sourced
  <2>7. Begun(valued') /\ ~touched' => FollowsRule(valued', history', task', today')
    BY <1>4
  <2> QED
    BY <2>1, <2>5, <2>6, <2>7, GrowsOn
<1>5. CASE task' = V!NoTask
  <2>1. Begun(valued) /\ ~touched => FollowsRule(valued, history, task', today)
    BY <1>2, <1>5 DEF ValuedInv, FollowsRule, Grown
  <2>2. task' \in Listing /\ task'.at \in {"idle", "read"} /\ \A v \in task'.batch : v.src = "rule"
    BY <1>2, <1>5
  <2> QED
    BY <1>4, <2>1, <2>2
<1>6. ASSUME NEW late \in V!Latest(history), NEW made,
             made = V!Grow(late.day, late.amount, task.rate, task.today, RunLimit),
             task' = [V!NoTask EXCEPT !.at = "read", !.batch = made]
      PROVE  ValuedInv'
  <2>1. \A v \in made : v \in Worth /\ v.src = "rule"
    BY <1>1, <1>6, BatchTyped
  <2>2. task' \in Listing /\ task'.at = "read" /\ task'.batch = made
    BY <1>2, <1>6, <2>1 DEF Listing
  <2>3. ASSUME Begun(valued), ~touched PROVE FollowsRule(valued, history, task', today)
    <3>1. FollowsRule(valued, history, task, today)
      BY <2>3 DEF ValuedInv
    <3>2. ASSUME NEW k \in Nat, Grown(valued, history, task, today, k)
          PROVE  Grown(valued, history, task', today, k)
      <4>1. history \ V!Rule(history) = {Bought(valued)} /\ task.at = "listed"
        BY <3>1 DEF FollowsRule
      <4>2. \E j \in Nat : Continues(valued, made, today, k, j)
        BY <1>6, <2>3, <3>2, <4>1, RuleGoesOn
      <4> QED
        BY <2>2, <3>2, <4>2 DEF Grown
    <3> QED
      BY <3>1, <3>2 DEF FollowsRule
  <2> QED
    BY <1>4, <2>1, <2>2, <2>3
<1> QED
  BY <1>3, <1>5, <1>6

\* What it read goes on from what is there, so none of it is there already.
LEMMA BatchGoesOn ==
  ASSUME V!ValuedAssumption, ValuedInv, NEW k \in Nat, Grown(valued, history, task, today, k),
         task.at = "read", history \ V!Rule(history) = {Bought(valued)},
         NEW idle, idle.at = "idle"
  PROVE  /\ V!Inserted(history, task.batch) = history \cup task.batch
         /\ \E n \in Nat : Grown(valued, history \cup task.batch, idle, today, n)
<1> DEFINE from == valued.base + k * Step
           amount == valued.price + k * valued.rate
           made == task.batch
<1>1. PICK last \in Nat : V!Days = 1 .. last /\ V!MaybeDay = 0 .. last
  BY ValuedDays
<1>2. valued \in ValuedRow /\ valued.base \in Nat /\ valued.price \in Nat /\ today \in Nat
  BY <1>1 DEF ValuedInv, ValuedTypes, ValuedRow
<1>3. valued.rate \in Nat
  <2>1. Rates \cup {0} \subseteq Nat
    BY DEF V!ValuedAssumption
  <2> QED
    BY <1>2, <2>1 DEF ValuedRow
<1>4. from \in Nat /\ k * Step \in Nat
  <2>1. k * Step \in Nat
    BY StepsGrow
  <2> QED
    BY <1>2, <2>1
<1>5. PICK j \in Nat : Continues(valued, made, today, k, j)
  BY DEF Grown
<1>6. made = Periods(from, amount, valued.rate, j) /\ (j > 0 => from + j * Step <= today)
  BY <1>5 DEF Continues
<1>7. \A v \in history : v.day \in Nat /\ v.day <= from
  BY <1>2, LatestOfRule DEF Grown
<1>8. V!Rule(history) = Periods(valued.base, valued.price, valued.rate, k)
  BY DEF Grown
<1>9. After(valued.base, valued.price, valued.rate, k, from, amount)
  BY DEF After
<1>10. valued.base + (k + j) * Step = from + j * Step /\ j * Step \in Nat
  <2>1. Step \in Nat /\ j * Step \in Nat
    BY StepsGrow
  <2>2. (k + j) * Step = k * Step + j * Step
    BY <2>1
  <2> QED
    BY <1>2, <1>4, <2>1, <2>2
<1> HIDE DEF from, amount, made
<1>11. ASSUME NEW v \in made PROVE v.src = "rule" /\ v.day \in Nat /\ v.day > from
  <2>1. PICK n \in 1 .. j : v = V!Value(from + n * Step, amount + n * valued.rate, "rule")
    BY <1>6 DEF Periods
  <2>2. n \in Nat /\ n >= 1
    OBVIOUS
  <2>3. n * Step \in Nat /\ n <= n * Step
    BY <2>2, StepsGrow
  <2>4. v.day = from + n * Step /\ v.src = "rule"
    BY <2>1 DEF V!Value
  <2> QED
    BY <1>4, <2>2, <2>3, <2>4
<1>12. made \cap history = {}
  <2> SUFFICES ASSUME NEW v \in made, v \in history PROVE FALSE
    OBVIOUS
  <2> QED
    BY <1>4, <1>7, <1>11
<1>13. V!Inserted(history, made) = history \cup made
  BY <1>12, AddedAnew
<1>14. V!Rule(history \cup made) = Periods(valued.base, valued.price, valued.rate, k + j)
  <2>1. V!Rule(history \cup made) = V!Rule(history) \cup made
    BY <1>11 DEF V!Rule
  <2>2. GoOn(valued.base, valued.price, valued.rate, k, from, amount, j)
    BY <1>2, <1>3, <1>9, PeriodsGoOn
  <2> QED
    BY <1>6, <1>8, <2>1, <2>2 DEF GoOn
<1>15. k + j > 0 => valued.base + (k + j) * Step <= today
  <2>1. CASE j > 0
    BY <1>6, <1>10, <2>1
  <2>2. CASE j = 0
    <3>1. k + j = k
      BY <2>2
    <3> QED
      BY <3>1 DEF Grown
  <2> QED
    BY <2>1, <2>2
<1>16. k + j \in Nat
  OBVIOUS
<1>17. Grown(valued, history \cup made, idle, today, k + j)
  BY <1>14, <1>15 DEF Grown
<1> QED
  BY <1>13, <1>16, <1>17 DEF made

LEMMA TaskCommitsKeeps ==
  ASSUME V!ValuedAssumption, ValuedInv, V!TaskCommits PROVE ValuedInv'
<1> USE DEF V!TaskCommits
<1>1. ValuedTypes /\ valued.kind = "growth"
  BY DEF ValuedInv
<1>2. V!NoTask \in Listing /\ V!NoTask.at = "idle" /\ V!NoTask.batch = {}
  BY IdleTyped
<1>3. edit' \in Saving /\ edit'.busy = edit.busy /\ edit'.row = edit.row /\ edit'.new = edit.new
      /\ edit'.gone = edit.gone /\ (edit.busy => edit'.met)
  BY <1>1 DEF V!Met, ValuedTypes, Saving
<1>4. \A v \in task.batch : v \in Worth /\ v.src = "rule"
  BY <1>1 DEF ValuedInv, UnderWay, ValuedTypes, Listing
<1>5. \A v \in history' : v \in Worth /\ v.src # "sync"
  <2>1. \A v \in history : v \in Worth /\ v.src # "sync"
    BY <1>1 DEF ValuedInv, ValuedTypes, Sourced
  <2> QED
    BY <1>4, <2>1, AddedTyped
<1>6. ValuedTypes'
  BY <1>1, <1>2, <1>3, <1>5 DEF ValuedTypes
<1>7. UnderWay'
  <2>1. ASSUME edit'.busy, ~touched' PROVE Replaces(valued', history', edit', task', today')
    <3>1. Replaces(valued, history, edit, task, today)
      BY <1>3, <2>1 DEF ValuedInv, UnderWay
    <3>2. ASSUME NEW k \in Nat, Pending(edit, task, today, k) PROVE Pending(edit', task', today', k)
      BY <1>3, <2>1, <3>2 DEF Pending
    <3> QED
      BY <1>3, <2>1, <3>1, <3>2 DEF Replaces
  <2>2. \A v \in edit'.new \cup task'.batch : v.src = "rule"
    BY <1>2, <1>3 DEF ValuedInv, UnderWay
  <2>3. edit'.busy => edit'.row.kind = "growth" /\ edit'.row.price # 0
    BY <1>3 DEF ValuedInv, UnderWay
  <2>4. task'.at # "listed"
    BY <1>2
  <2> QED
    BY <2>1, <2>2, <2>3, <2>4 DEF UnderWay
<1>8. ASSUME Begun(valued'), ~touched' PROVE FollowsRule(valued', history', task', today')
  <2>1. FollowsRule(valued, history, task, today)
    BY <1>8 DEF ValuedInv, Begun
  <2>2. history \ V!Rule(history) = {Bought(valued)}
    BY <2>1 DEF FollowsRule
  <2>3. history' \ V!Rule(history') = {Bought(valued)}
    <3>1. \A v \in V!Inserted(history, task.batch) :
             v \in history \/ \E w \in task.batch : v.src = w.src
      BY <1>1, <1>4, AddedTyped DEF ValuedTypes
    <3>2. history \subseteq history'
      BY DEF V!Inserted
    <3> QED
      BY <1>4, <2>2, <3>1, <3>2 DEF V!Rule
  <2>4. ASSUME valued.start \in {V!NoDay, valued.base}
        PROVE  \E n \in Nat : Grown(valued, history', task', today, n)
    <3>1. PICK k \in Nat : Grown(valued, history, task, today, k)
      BY <2>1, <2>4 DEF FollowsRule
    <3> QED
      BY <1>2, <2>2, <3>1, BatchGoesOn
  <2> QED
    BY <2>3, <2>4 DEF FollowsRule
<1>9. valued'.price # 0 /\ valued'.kind = "growth"
  BY <1>1 DEF ValuedInv
<1> QED
  BY <1>5, <1>6, <1>7, <1>8, <1>9, GrowsOn

\* What the user adds or takes back.
LEMMA Handled ==
  ASSUME V!ValuedAssumption, ValuedInv, ValuedTypes', valued.kind # "none",
         \A v \in history' : v \in history \/ v.src = "manual",
         touched', UNCHANGED <<today, valued, edit, task>>
  PROVE  ValuedInv'
<1>1. Sourced(valued', history')
  BY DEF ValuedInv, Sourced
<1>2. V!ShowsReport' /\ V!OneSyncValueADay'
  BY DEF ValuedInv, V!ShowsReport, V!OneSyncValueADay
<1>3. UnderWay'
  BY DEF ValuedInv, UnderWay
<1> QED
  BY <1>1, <1>2, <1>3 DEF ValuedInv

LEMMA AddValueKeeps ==
  ASSUME V!ValuedAssumption, ValuedInv, NEW d \in V!Days, NEW a \in Typed, V!AddValue(d, a)
  PROVE  ValuedInv'
<1> USE DEF V!AddValue
<1>1. ValuedTypes
  BY DEF ValuedInv
<1>2. V!Value(d, a, "manual") \in Worth /\ V!Value(d, a, "manual").src = "manual"
  BY DEF Worth, V!Value, V!ValuedAssumption
<1>3. \A v \in history' : v \in Worth /\ (v \in history \/ v.src = "manual")
  <2>1. \A v \in history : v \in Worth
    BY <1>1 DEF ValuedTypes
  <2>2. \A w \in {V!Value(d, a, "manual")} : w \in Worth /\ w.src = "manual"
    BY <1>2
  <2>3. history' = V!Inserted(history, {V!Value(d, a, "manual")})
    OBVIOUS
  <2> QED
    BY <2>1, <2>2, <2>3, AddedTyped
<1>4. edits' \in 0 .. MaxValuedEdits
  BY <1>1 DEF V!Bounded, ValuedTypes, V!ValuedAssumption
<1>5. ValuedTypes'
  <2>1. \A v \in history' : v \in Worth
    BY <1>3
  <2> QED
    BY <1>1, <1>4, <2>1 DEF ValuedTypes
<1>6. \A v \in history' : v \in history \/ v.src = "manual"
  BY <1>3
<1> QED
  BY <1>5, <1>6, Handled

LEMMA DeleteValueKeeps ==
  ASSUME V!ValuedAssumption, ValuedInv, NEW v \in history, V!DeleteValue(v) PROVE ValuedInv'
<1> USE DEF V!DeleteValue
<1>1. ValuedTypes /\ valued.kind # "none"
  BY DEF ValuedInv
<1>2. edits' \in 0 .. MaxValuedEdits
  BY <1>1 DEF V!Bounded, ValuedTypes, V!ValuedAssumption
<1>3. \A w \in history' : w \in history
  OBVIOUS
<1>4. ValuedTypes'
  BY <1>1, <1>2, <1>3 DEF ValuedTypes
<1> QED
  BY <1>1, <1>3, <1>4, Handled

LEMMA DeleteAssetKeeps ==
  ASSUME V!ValuedAssumption, ValuedInv, V!Delete PROVE ValuedInv'
<1> USE DEF V!Delete
<1>1. ValuedTypes
  BY DEF ValuedInv
<1>2. edits' \in 0 .. MaxValuedEdits
  BY <1>1 DEF V!Bounded, ValuedTypes, V!ValuedAssumption
<1>3. V!NoAsset \in ValuedRow /\ V!NoAsset.kind = "none"
  BY NoAssetTyped
<1>4. V!NoTask \in Listing /\ V!NoTask.at = "idle" /\ V!NoTask.batch = {}
  BY IdleTyped
<1>6. ValuedTypes'
  <2>1. today \in V!Days /\ edit \in Saving /\ bank \in 0 .. 2
    BY <1>1 DEF ValuedTypes
  <2> QED
    BY <1>2, <1>3, <1>4, <2>1 DEF ValuedTypes
<1>7. UnderWay'
  BY <1>4 DEF ValuedInv, UnderWay
<1>5. Sourced(valued', history') /\ V!ShowsReport' /\ V!OneSyncValueADay'
  BY DEF Sourced, V!ShowsReport, V!OneSyncValueADay
<1> QED
  BY <1>3, <1>4, <1>5, <1>6, <1>7 DEF ValuedInv, Begun

\* What a sync may leave of the values.
SyncedValues(some) ==
  /\ \A v \in some : v \in Worth /\ v.src # "rule"
  /\ ~touched => \A v \in some : v.src = "sync" /\ v.day <= today
  /\ \A v, w \in some : v.src = "sync" /\ w.src = "sync" /\ v.day = w.day => v = w

LEMMA SeedFits ==
  ASSUME V!ValuedAssumption, ValuedInv, valued.kind \in {"none", "synced"}, NEW dated \in BOOLEAN,
         dated => BoughtOn <= today
  PROVE  SyncedValues(V!Seeded(dated))
<1> DEFINE seed == V!Value(BoughtOn, BoughtFor, "sync")
           past == V!Seeded(dated)
<1>1. PICK last \in Nat : V!Days = 1 .. last
  BY ValuedDays
<1>2. today \in V!Days /\ \A v \in history : v \in Worth
  BY DEF ValuedInv, ValuedTypes
<1>3. BoughtFor \in Nat \ {0} /\ BoughtOn \in Nat \ {0} /\ today \in Nat
  BY <1>1, <1>2 DEF V!ValuedAssumption
<1>4. dated => seed \in Worth
  <2>1. dated => BoughtOn \in V!Days
    BY <1>1, <1>2, <1>3
  <2> QED
    BY <1>3, <2>1 DEF Worth, V!Value
<1>5. seed.src = "sync" /\ seed.day = BoughtOn
  BY DEF V!Value
<1> HIDE DEF seed
<1>6. \A v \in past : v \in history \/ (dated /\ v = seed /\ \A w \in history : w.day # BoughtOn)
  BY DEF V!Seeded, V!On, seed
<1> HIDE DEF past
<1>7. \A v \in history : v.src # "rule"
  BY DEF ValuedInv, Sourced
<1>8. ~touched => \A v \in history : v.src = "sync" /\ v.day <= today
  BY DEF ValuedInv
<1>9. \A v, w \in history : v.src = "sync" /\ w.src = "sync" /\ v.day = w.day => v = w
  BY DEF ValuedInv, V!OneSyncValueADay
<1>10. \A v \in past : v \in Worth /\ v.src # "rule"
  BY <1>2, <1>4, <1>5, <1>6, <1>7
<1>11. ~touched => \A v \in past : v.src = "sync" /\ v.day <= today
  BY <1>5, <1>6, <1>8
<1>12. \A v, w \in past : v.src = "sync" /\ w.src = "sync" /\ v.day = w.day => v = w
  BY <1>5, <1>6, <1>9
<1> QED
  BY <1>10, <1>11, <1>12 DEF SyncedValues, past

LEMMA UpsertFits ==
  ASSUME V!ValuedAssumption, today \in V!Days, NEW past, SyncedValues(past), NEW a \in Reports
  PROVE  /\ SyncedValues(V!Upserted(past, a))
         /\ ~touched => \A v \in V!Latest(V!Upserted(past, a)) : v.amount = a
<1> DEFINE new == V!Value(today, a, "sync")
           all == V!Upserted(past, a)
<1>1. PICK last \in Nat : V!Days = 1 .. last
  BY ValuedDays
<1>2. today \in Nat /\ a \in Nat \ {0}
  BY <1>1 DEF V!ValuedAssumption
<1>3. new \in Worth /\ new.src = "sync" /\ new.day = today /\ new.amount = a
  BY <1>2 DEF Worth, V!Value
<1> HIDE DEF new
<1>4. new \in all /\ \A v \in all : v = new \/ (v \in past /\ ~(v.day = today /\ v.src = "sync"))
  BY DEF V!Upserted, new
<1> HIDE DEF all
<1>5. \A v \in all : v \in Worth /\ v.src # "rule"
  BY <1>3, <1>4 DEF SyncedValues
<1>6. ~touched => \A v \in all : v.src = "sync" /\ v.day <= today
  BY <1>2, <1>3, <1>4 DEF SyncedValues
<1>7. \A v, w \in all : v.src = "sync" /\ w.src = "sync" /\ v.day = w.day => v = w
  BY <1>3, <1>4 DEF SyncedValues
<1>8. ~touched => \A v \in V!Latest(all) : v.amount = a
  <2> SUFFICES ASSUME ~touched, NEW v \in V!Latest(all) PROVE v.amount = a
    OBVIOUS
  <2>1. \A w \in all : w.day \in Nat /\ w.day <= today
    BY <1>1, <1>5, <1>6 DEF Worth
  <2>2. \E w \in all : w.day = today
    BY <1>3, <1>4
  <2>3. V!LastDay(all) = today
    BY <1>2, <2>1, <2>2, LastDayIs
  <2>4. v \in all /\ v.day = today
    BY <2>3 DEF V!Latest
  <2>5. v.src = "sync"
    BY <1>6, <2>4
  <2> QED
    BY <1>3, <1>4, <2>4, <2>5
<1> QED
  BY <1>5, <1>6, <1>7, <1>8 DEF SyncedValues, all

\* A sync stores what the bank reports.
LEMMA SyncValueKeeps ==
  ASSUME V!ValuedAssumption, ValuedInv, NEW a \in Reports, NEW dated \in BOOLEAN, V!SyncValue(a, dated)
  PROVE  ValuedInv'
<1> USE DEF V!SyncValue
<1> DEFINE past == V!Seeded(dated)
           row == IF valued.kind = "none" THEN [V!NoAsset EXCEPT !.kind = "synced"] ELSE valued
<1>1. PICK last \in Nat : V!Days = 1 .. last /\ V!MaybeDay = 0 .. last
  BY ValuedDays
<1>2. ValuedTypes /\ valued.kind \in {"none", "synced"} /\ (dated => BoughtOn <= today)
  BY DEF ValuedInv
<1>3. today \in Nat /\ today \in V!Days /\ a \in Nat /\ a # 0 /\ BoughtFor \in Nat /\ BoughtOn \in Nat
      /\ BoughtOn # 0
  BY <1>1, <1>2 DEF ValuedTypes, V!ValuedAssumption
<1>4. row \in ValuedRow /\ row.kind = "synced"
  <2>1. V!NoAsset \in ValuedRow
    BY NoAssetTyped
  <2>2. [V!NoAsset EXCEPT !.kind = "synced"] \in ValuedRow
    BY <2>1 DEF ValuedRow
  <2>3. [V!NoAsset EXCEPT !.kind = "synced"].kind = "synced"
    BY <2>1 DEF ValuedRow
  <2> QED
    BY <1>2, <2>2, <2>3 DEF ValuedTypes
<1>5. valued' \in ValuedRow /\ valued'.kind = "synced"
  <2> DEFINE kept == (row.archived /\ valued.bank = bank)
             base == IF dated THEN BoughtOn ELSE row.base
             price == IF dated THEN BoughtFor ELSE row.price
  <2>1. valued' = [row EXCEPT !.bank = bank, !.archived = kept, !.base = base, !.price = price]
    BY <1>4 DEF V!Row, ValuedRow
  <2>2. kept \in BOOLEAN /\ bank \in 0 .. 2
    BY <1>2 DEF ValuedTypes
  <2>3. base \in V!MaybeDay
    BY <1>1, <1>2, <1>3, <1>4 DEF ValuedRow
  <2>4. price \in Nat
    BY <1>3, <1>4 DEF ValuedRow
  <2> HIDE DEF kept, base, price, row
  <2> QED
    BY <1>4, <2>1, <2>2, <2>3, <2>4 DEF ValuedRow
<1>6. SyncedValues(past)
  BY <1>2, SeedFits
<1>7. SyncedValues(history')
  <2>1. history' = IF ~valued.sold THEN V!Upserted(past, a) ELSE past
    OBVIOUS
  <2> QED
    BY <1>3, <1>6, <2>1, UpsertFits
<1>8. reported' \in {0, a}
  OBVIOUS
<1>9. reported' # 0 /\ ~touched => \A v \in V!Latest(history') : v.amount = reported'
  <2> SUFFICES ASSUME reported' # 0, ~touched PROVE \A v \in V!Latest(history') : v.amount = reported'
    OBVIOUS
  <2>1. history' = V!Upserted(past, a) /\ reported' = a
    OBVIOUS
  <2> HIDE DEF past
  <2> QED
    BY <1>3, <1>6, <2>1, UpsertFits
<1> HIDE DEF past, row
<1>10. ValuedTypes'
  <2>1. edits' \in 0 .. MaxValuedEdits
    BY <1>2 DEF V!Bounded, ValuedTypes, V!ValuedAssumption
  <2>2. \A v \in history' : v \in Worth
    BY <1>7 DEF SyncedValues
  <2>3. reported' \in Nat
    BY <1>3, <1>8
  <2> QED
    BY <1>2, <1>5, <2>1, <2>2, <2>3 DEF ValuedTypes
<1>11. Sourced(valued', history')
  BY <1>5, <1>7 DEF Sourced, SyncedValues
<1>12. V!ShowsReport'
  BY <1>9 DEF V!ShowsReport
<1>13. V!OneSyncValueADay'
  BY <1>7 DEF V!OneSyncValueADay, SyncedValues
<1>14. ~touched' => \A v \in history' : v.src = "sync" /\ v.day <= today'
  BY <1>7 DEF SyncedValues
<1>15. UnderWay' /\ task'.at = "idle" /\ ~edit'.busy
  <2>1. task.at = "idle" /\ ~edit.busy
    BY <1>2 DEF ValuedInv
  <2> QED
    BY <2>1 DEF ValuedInv, UnderWay
<1> QED
  BY <1>5, <1>10, <1>11, <1>12, <1>13, <1>14, <1>15 DEF ValuedInv, Begun

\* The other steps.
LEMMA OtherStepsKeep ==
  ASSUME V!ValuedAssumption, ValuedInv,
         \/ V!Connect \/ V!DeleteConnection \/ V!SyncGone \/ V!SyncClosed \/ V!Tick
         \/ \E dated \in BOOLEAN : V!SyncFails(dated)
         \/ \E flag \in BOOLEAN : V!Archive(flag)
         \/ \E flag \in BOOLEAN : V!Sell(flag)
  PROVE  ValuedInv'
<1>1. PICK last \in Nat : last = MaxDay + 1 /\ V!Days = 1 .. last
  BY ValuedDays
<1>2. ValuedTypes /\ valued \in ValuedRow /\ today \in Nat /\ bank \in 0 .. 2
  BY <1>1 DEF ValuedInv, ValuedTypes
<1>3. /\ valued' \in ValuedRow
      /\ valued'.kind = valued.kind /\ valued'.base = valued.base /\ valued'.price = valued.price
      /\ valued'.start = valued.start /\ valued'.rate = valued.rate
  <2>1. CASE V!Connect \/ V!Tick \/ \E dated \in BOOLEAN : V!SyncFails(dated)
    BY <1>2, <2>1 DEF V!Connect, V!Tick, V!SyncFails
  <2>2. CASE V!DeleteConnection
    <3>1. \/ valued' = [valued EXCEPT !.archived = TRUE, !.bank = 0]
          \/ valued' = valued
      BY <2>2 DEF V!DeleteConnection, V!NoBank
    <3>2. CASE valued' = [valued EXCEPT !.archived = TRUE, !.bank = 0]
      <4>1. 0 \in 0 .. 2
        OBVIOUS
      <4> QED
        BY <1>2, <3>2, <4>1 DEF ValuedRow
    <3>3. CASE valued' = valued
      BY <1>2, <3>3
    <3> QED
      BY <3>1, <3>2, <3>3
  <2>3. CASE V!SyncGone \/ V!SyncClosed
    <3>1. \/ valued' = [valued EXCEPT !.archived = TRUE]
          \/ valued' = [valued EXCEPT !.sold = TRUE, !.bank = bank]
      BY <2>3 DEF V!SyncGone, V!SyncClosed
    <3> QED
      BY <1>2, <3>1 DEF ValuedRow
  <2>4. CASE \E flag \in BOOLEAN : V!Archive(flag) \/ V!Sell(flag)
    <3>1. PICK flag \in BOOLEAN : \/ valued' = [valued EXCEPT !.archived = flag]
                                  \/ valued' = [valued EXCEPT !.sold = flag]
      BY <2>4 DEF V!Archive, V!Sell
    <3> QED
      BY <1>2, <3>1 DEF ValuedRow
  <2> QED
    BY <2>1, <2>2, <2>3, <2>4
<1>4. /\ UNCHANGED <<history, edit, task, touched>> /\ reported' \in {reported, 0}
      /\ blocked' \in {blocked, TRUE, FALSE} /\ bank' \in {bank, 0, 1, 2}
  BY DEF V!Connect, V!DeleteConnection, V!SyncGone, V!SyncClosed, V!Tick, V!SyncFails,
         V!Archive, V!Sell, V!NoBank
<1>5. today' \in V!Days /\ today' >= today
  BY <1>1, <1>2
  DEF ValuedTypes, V!Connect, V!DeleteConnection, V!SyncGone, V!SyncClosed, V!Tick, V!SyncFails,
      V!Archive, V!Sell
<1>6. edits' \in 0 .. MaxValuedEdits
  <2>1. edits' = edits \/ V!Bounded
    BY DEF V!Connect, V!DeleteConnection, V!SyncGone, V!SyncClosed, V!Tick, V!SyncFails,
           V!Archive, V!Sell
  <2> QED
    BY <1>2, <2>1 DEF V!Bounded, ValuedTypes, V!ValuedAssumption
<1>7. ValuedTypes'
  <2>1. reported' \in Nat /\ touched' \in BOOLEAN /\ bank' \in 0 .. 2
    BY <1>2, <1>4 DEF ValuedTypes
  <2>4. blocked' \in BOOLEAN
    <3>1. blocked \in BOOLEAN
      BY <1>2 DEF ValuedTypes
    <3> QED
      BY <1>4, <3>1, Zenon
  <2>2. \A v \in history' : v \in Worth
    BY <1>2, <1>4 DEF ValuedTypes
  <2>3. task' \in Listing /\ edit' \in Saving
    BY <1>2, <1>4 DEF ValuedTypes
  <2> QED
    BY <1>3, <1>5, <1>6, <2>1, <2>2, <2>3, <2>4 DEF ValuedTypes
<1> QED
  BY <1>3, <1>4, <1>5, <1>7, ValuedStill

LEMMA ValuedStep ==
  ASSUME V!ValuedAssumption, ValuedInv, V!Next PROVE ValuedInv'
<1>1. ASSUME NEW p \in Worths, NEW r \in Rates, NEW b \in FormDays, NEW s \in FormDays,
             V!CreateGrowth(p, r, b, s)
      PROVE  ValuedInv'
  BY <1>1, CreateGrowthKeeps
<1>2. ASSUME NEW p \in Worths, NEW r \in Rates, NEW b \in FormDays, NEW s \in FormDays,
             V!EditBegins(p, r, b, s)
      PROVE  ValuedInv'
  BY <1>2, EditBeginsKeeps
<1>3. ASSUME NEW a \in Reports, NEW dated \in BOOLEAN, V!SyncValue(a, dated) PROVE ValuedInv'
  BY <1>3, SyncValueKeeps
<1>4. ASSUME NEW d \in V!Days, NEW a \in Typed, V!AddValue(d, a) PROVE ValuedInv'
  BY <1>4, AddValueKeeps
<1>5. ASSUME NEW v \in history, V!DeleteValue(v) PROVE ValuedInv'
  BY <1>5, DeleteValueKeeps
<1> QED
  BY <1>1, <1>2, <1>3, <1>4, <1>5, EditCommitsKeeps, EditFailsKeeps, TaskListsKeeps,
     TaskReadsKeeps, TaskCommitsKeeps, DeleteAssetKeeps, OtherStepsKeep
  DEF V!Next

-----------------------------------------------------------------------------
(* What is shown *)

LEMMA RuleIsFollowed ==
  ASSUME V!ValuedAssumption, ValuedInv PROVE V!GrowthFollowsRule
<1> SUFFICES ASSUME Begun(valued), ~touched, valued.start \in {V!NoDay, valued.base},
                    V!Rule(history) # {}
             PROVE  V!Rule(history) = V!Grow(valued.base, valued.price, valued.rate,
                                             V!LastDay(V!Rule(history)), MaxDay + 1)
  BY DEF V!GrowthFollowsRule, Begun
<1> DEFINE some == V!Rule(history)
<1>1. PICK last \in Nat : last = MaxDay + 1 /\ V!Days = 1 .. last /\ V!MaybeDay = 0 .. last
  BY ValuedDays
<1>2. PICK k \in Nat : Grown(valued, history, task, today, k)
  BY DEF ValuedInv, FollowsRule
<1>3. some = Periods(valued.base, valued.price, valued.rate, k)
  BY <1>2 DEF Grown
<1>4. k > 0
  <2>1. k = 0 => 1 .. k = {}
    OBVIOUS
  <2> QED
    BY <1>3, <2>1 DEF Periods
<1>5. valued.base \in Nat /\ valued.base >= 1 /\ valued \in ValuedRow /\ today \in Nat /\ today <= last
  BY <1>1 DEF ValuedInv, ValuedTypes, ValuedRow, Begun, V!NoDay
<1> DEFINE d == valued.base + k * Step
<1>6. d \in Nat /\ d <= MaxDay + 1
  <2>1. k * Step \in Nat
    BY StepsGrow
  <2>2. d <= today
    BY <1>2, <1>4 DEF Grown
  <2>3. d \in Nat
    BY <1>5, <2>1
  <2> HIDE DEF d
  <2> QED
    BY <1>1, <1>5, <2>2, <2>3
<1>7. V!LastDay(some) = d
  <2>1. \E v \in some : v.day = d
    <3>1. k \in 1 .. k
      BY <1>4
    <3>2. PICK v : v = V!Value(valued.base + k * Step, valued.price + k * valued.rate, "rule")
      OBVIOUS
    <3>3. v.day = d
      BY <3>2 DEF V!Value
    <3> HIDE DEF some, d
    <3>4. v \in some
      BY <1>3, <3>1, <3>2 DEF Periods
    <3> QED
      BY <3>3, <3>4
  <2>2. ASSUME NEW v \in some PROVE v.day \in Nat /\ v.day <= d
    <3>1. PICK n \in 1 .. k : v.day = valued.base + n * Step
      BY <1>3 DEF Periods, V!Value
    <3>2. n \in Nat /\ n <= k /\ Step \in Nat
      BY StepIs
    <3>3. n * Step \in Nat /\ k * Step \in Nat /\ n * Step <= k * Step
      BY <3>2, TimesGrows
    <3> QED
      BY <1>5, <3>1, <3>3
  <2> HIDE DEF some, d
  <2> QED
    BY <1>6, <2>1, <2>2, LastDayIs
<1>8. PICK j \in Nat : /\ V!Grow(valued.base, valued.price, valued.rate, d, MaxDay + 1)
                            = Periods(valued.base, valued.price, valued.rate, j)
                       /\ j > 0 => valued.base + j * Step <= d
                       /\ valued.base >= 1 /\ d <= MaxDay + 1 => valued.base + (j + 1) * Step > d
  <2>1. MaxDay + 1 \in Nat
    BY <1>1
  <2> HIDE DEF d
  <2> QED
    BY <1>5, <1>6, <2>1, GrowIs
<1>9. Step \in Nat /\ Step >= 1 /\ j * Step \in Nat /\ k * Step \in Nat
  BY StepIs, StepsGrow
<1>10. ~(j > k)
  <2> SUFFICES ASSUME j > k PROVE FALSE
    OBVIOUS
  <2>1. k + 1 \in Nat /\ k + 1 <= j
    OBVIOUS
  <2>2. (k + 1) * Step <= j * Step
    BY <1>9, <2>1, TimesGrows
  <2>3. (k + 1) * Step = k * Step + Step
    BY StepsGrow
  <2> QED
    BY <1>5, <1>8, <1>9, <2>1, <2>2, <2>3
<1>11. ~(j < k)
  <2> SUFFICES ASSUME j < k PROVE FALSE
    OBVIOUS
  <2>1. j + 1 \in Nat /\ j + 1 <= k
    OBVIOUS
  <2>2. (j + 1) * Step \in Nat /\ (j + 1) * Step <= k * Step
    BY <1>9, <2>1, TimesGrows
  <2> QED
    BY <1>5, <1>6, <1>8, <1>9, <2>2
<1>12. j = k
  BY <1>10, <1>11
<1> HIDE DEF some, d
<1> QED
  BY <1>3, <1>7, <1>8, <1>12 DEF some

LEMMA ValuedTypeOK ==
  ASSUME V!ValuedAssumption, ValuedInv PROVE V!TypeOK
<1>1. ValuedTypes /\ Sourced(valued, history)
  BY DEF ValuedInv
<1>2. \A v \in history : v.day \in V!Days /\ v.amount \in Nat \ {0} /\ v.copy \in {1, 2}
  BY <1>1 DEF ValuedTypes, Worth
<1>3. /\ edit.busy \in BOOLEAN /\ edit.met \in BOOLEAN /\ (edit.busy => valued.kind = "growth")
      /\ task.at \in {"idle", "listed", "read"} /\ task.today \in V!Days
  BY <1>1 DEF ValuedInv, ValuedTypes, Saving, Listing
<1> QED
  BY <1>1, <1>2, <1>3 DEF ValuedTypes, ValuedRow, Sourced, V!TypeOK

-----------------------------------------------------------------------------
(* PART EIGHT: THE BOOKS *)

\* Each behaviour follows one story; what the others keep stays as it began.
ReceiptsSide ==
  IF story = "receipts" THEN ReceiptInv
  ELSE recs = {} /\ files = {} /\ jobs = {} /\ preview.shown = 0
ConsentsSide == IF story = "connections" THEN ConnectInv ELSE conns = {}
GoalSide == story = "saving" => GoalInv
StatementsSide ==
  IF story = "statements" THEN StatementsInv
  ELSE rows = {} /\ logs = {} /\ inFlight = {} /\ page.review = I!Nothing

\* What a step of the books is for each of the stories.
LEMMA Sides ==
  ASSUME [BooksNext]_booksVars
  PROVE  /\ story' = story
         /\ story = "receipts" => [R!Next]_(R!vars)
         /\ story = "connections" => [Next]_vars
         /\ story = "saving" => [G!Next]_(G!vars)
         /\ [P!Next]_(P!vars)
         /\ story = "statements" => [I!Next]_(I!vars)
         /\ story # "receipts" => UNCHANGED receipts
         /\ story # "statements" => UNCHANGED statements
         /\ story # "connections" => UNCHANGED connections
<1>1. CASE UNCHANGED booksVars
  BY <1>1 DEF booksVars, receipts, connections, plans, saving, statements, R!vars, I!vars, vars,
             P!vars, G!vars
<1>2. CASE MarketNext
  BY <1>2 DEF MarketNext, statements, plans, P!vars
<1>3. CASE ValuedNext
  BY <1>3 DEF ValuedNext, statements, plans, P!vars
<1>4. CASE StatementsNext
  BY <1>4 DEF StatementsNext, plans, P!vars
<1>5. CASE ReceiptsNext
  BY <1>5 DEF ReceiptsNext, statements, plans, P!vars
<1>6. CASE ConnectionsNext
  BY <1>6 DEF ConnectionsNext, statements, plans, P!vars
<1>7. CASE PlansNext
  BY <1>7 DEF PlansNext, statements
<1>8. CASE SavingNext
  BY <1>8 DEF SavingNext, statements, plans, P!vars
<1> QED
  BY <1>1, <1>2, <1>3, <1>4, <1>5, <1>6, <1>7, <1>8 DEF BooksNext

HoldingSide == IF story = "market" THEN HoldingInv ELSE asset = M!NoAsset /\ ledger = <<>>

ValuedSide ==
  IF story = "valued" THEN ValuedInv ELSE valued.kind = "none" /\ history = {}

LEMMA AssetSides ==
  ASSUME [BooksNext]_booksVars
  PROVE  /\ story' = story
         /\ story = "market" => [M!Next]_(M!vars)
         /\ story # "market" => UNCHANGED market
         /\ story = "valued" => [V!Next]_(V!vars)
         /\ story # "valued" => UNCHANGED value
<1>1. CASE UNCHANGED booksVars
  BY <1>1 DEF booksVars, market, value, M!vars, V!vars
<1>2. CASE BooksNext
  BY <1>2 DEF BooksNext, MarketNext, ValuedNext, StatementsNext, ReceiptsNext, ConnectionsNext,
              PlansNext, SavingNext
<1> QED
  BY <1>1, <1>2

(* A receipt that is listed can be opened, unless a deletion has taken the  *)
(* file and not yet, or never, the row; requests one after the other leave  *)
(* no file without a row and no transaction with more receipts than the     *)
(* settings allow; and whatever the order of the downloads, the preview     *)
(* shows the receipt that was clicked last (attachment_service,             *)
(* transaction_service, transaction-attachments.tsx): for any               *)
(* transactions, limit and number of requests open together.                *)
THEOREM ReceiptsStand == ASSUME R!AttachmentsAssumption PROVE BooksSpec => []ReceiptsKept
<1>1. BooksInit => ReceiptsSide
  BY ReceiptInit DEF BooksInit, R!Init, ReceiptsSide
<1>2. ReceiptsSide /\ [BooksNext]_booksVars => ReceiptsSide'
  <2> SUFFICES ASSUME ReceiptsSide, [BooksNext]_booksVars PROVE ReceiptsSide'
    OBVIOUS
  <2>1. CASE story = "receipts"
    BY <2>1, Sides, ReceiptStep DEF ReceiptsSide
  <2>2. CASE story # "receipts"
    BY <2>2, Sides DEF ReceiptsSide, receipts
  <2> QED
    BY <2>1, <2>2
<1>3. ReceiptsSide => ReceiptsKept
  <2> SUFFICES ASSUME ReceiptsSide PROVE ReceiptsKept
    OBVIOUS
  <2>1. CASE story = "receipts"
    BY <2>1, ReceiptFacts DEF ReceiptsSide, ReceiptsKept
  <2>2. CASE story # "receipts"
    <3>1. R!RecordHasFile /\ R!NoOrphans /\ R!ShownIsLast
      BY <2>2 DEF ReceiptsSide, R!RecordHasFile, R!NoOrphans, R!KeysOf, R!ShownIsLast
    <3>2. R!WithinLimit
      <4>1. MaxPerTx \in Nat
        BY DEF R!AttachmentsAssumption
      <4>2. \A t : R!Of(t) = {}
        BY <2>2 DEF ReceiptsSide, R!Of
      <4> QED
        BY <4>1, <4>2, FS_EmptySet, ReceiptCards DEF R!WithinLimit
    <3> QED
      BY <2>2, <3>1, <3>2 DEF ReceiptsKept
  <2> QED
    BY <2>1, <2>2
<1> QED
  BY <1>1, <1>2, <1>3, PTL DEF BooksSpec

(* An OAuth consent is stored in the workspace in which the user left for   *)
(* the bank, on the connection it was asked for and on no other, and one    *)
(* that comes back after its connection was deleted does not bring it back, *)
(* whatever the tabs, the bank and the clock do in between                  *)
(* (handle_oauth_callback, delete_connection).                              *)
THEOREM ConsentsLand == ASSUME ConnectingAssumption PROVE BooksSpec => []ConsentsKept
<1>1. BooksInit => ConsentsSide
  BY ConnectInit DEF BooksInit, Init, ConsentsSide
<1>2. ConsentsSide /\ [BooksNext]_booksVars => ConsentsSide'
  <2> SUFFICES ASSUME ConsentsSide, [BooksNext]_booksVars PROVE ConsentsSide'
    OBVIOUS
  <2>1. CASE story = "connections"
    BY <2>1, Sides, ConnectStep DEF ConsentsSide
  <2>2. CASE story # "connections"
    BY <2>2, Sides DEF ConsentsSide, connections
  <2> QED
    BY <2>1, <2>2
<1>3. ConsentsSide => ConsentsKept
  <2>1. ConnectInv => ConsentsKept
    BY DEF ConnectInv, ConnsInv, LandsWhereBegun, RenewsItsOwn, StaysDeleted, ConsentsKept
  <2>2. conns = {} => ConsentsKept
    BY DEF LandsWhereBegun, RenewsItsOwn, StaysDeleted, ConsentsKept
  <2> QED
    BY <2>1, <2>2 DEF ConsentsSide
<1> QED
  BY <1>1, <1>2, <1>3, PTL DEF BooksSpec

(* The instalments of a purchase add up to its total to the cent, no two    *)
(* apart by more than half a cent for each instalment, and each falls on a  *)
(* later day than the one before it and never on an earlier bill            *)
(* (create_installment_plan, _add_months, apply_effective_date): for any    *)
(* total, count, day of purchase, cycle of the card and override.           *)
THEOREM InstalmentsStand == ASSUME P!InstalmentsAssumption PROVE BooksSpec => []InstalmentsRight
<1>1. BooksInit => PlanInv
  BY NoPlanYet DEF BooksInit
<1>2. PlanInv /\ [BooksNext]_booksVars => PlanInv'
  BY Sides, PlanStep
<1>3. PlanInv => InstalmentsRight
  BY DEF PlanInv, InstalmentsRight
<1> QED
  BY <1>1, <1>2, <1>3, PTL DEF BooksSpec

LEMMA NoStatementYet == ASSUME I!ImportsAssumption, BooksInit PROVE StatementsSide
  BY NothingRead DEF BooksInit, I!Init, I!EmptyPage, StatementsSide

LEMMA StatementsGoOn ==
  ASSUME I!ImportsAssumption, StatementsSide, [BooksNext]_booksVars PROVE StatementsSide'
<1>1. CASE story = "statements"
  BY <1>1, Sides, StatementsStep DEF StatementsSide
<1>2. CASE story # "statements"
  BY <1>2, Sides DEF StatementsSide, statements
<1> QED
  BY <1>1, <1>2

(* A movement that overlapping statements repeat, that is pending in one    *)
(* and booked in the next, or whose file is imported again has one row of   *)
(* its kind, however the answers cross on the page and whatever the user    *)
(* edits, leaves out or deletes meanwhile (import_service: preview_import,  *)
(* import_transactions): for any statement files that write a booked        *)
(* movement one way.                                                        *)
THEOREM StatementsStand ==
  ASSUME I!ImportsAssumption, I!WrittenAlike PROVE BooksSpec => []OneRowPerMovement
<1>1. BooksInit => StatementsSide
  BY NoStatementYet
<1>2. StatementsSide /\ [BooksNext]_booksVars => StatementsSide'
  BY StatementsGoOn
<1>3. StatementsSide => OneRowPerMovement
  <2>1. rows = {} => OneRowPerMovement
    BY DEF OneRowPerMovement, I!OneRowPerMovement
  <2> QED
    BY <2>1, StatementFacts DEF StatementsSide, OneRowPerMovement
<1> QED
  BY <1>1, <1>2, <1>3, PTL DEF BooksSpec

(* An import loses no line: when it commits, every line it included has a   *)
(* row of its day and text or one that bears its identifier, unless         *)
(* something crossed it; its log counts the rows that deleting it would     *)
(* take away, merged ones included; and what the page reviews was read from *)
(* the file it names under the options it shows, unless answers crossed or  *)
(* one failed (import_service: import_transactions; import_logs:            *)
(* delete_import_log; import.tsx: processFile, rePreview): for any          *)
(* statement files, days and number of imports.                             *)
THEOREM ImportsStand == ASSUME I!ImportsAssumption PROVE BooksSpec => ImportsKept
<1>1. BooksInit => StatementsSide
  BY NoStatementYet
<1>2. StatementsSide /\ [BooksNext]_booksVars => StatementsSide'
  BY StatementsGoOn
<1>3. StatementsSide => (story = "statements" => I!TypeOK) /\ I!ShownAsAsked
  BY StatementFacts DEF StatementsSide, I!ShownAsAsked
<1>4. StatementsSide /\ [BooksNext]_booksVars => I!LinesStep /\ I!CountStep
  <2> SUFFICES ASSUME StatementsSide, [BooksNext]_booksVars PROVE I!LinesStep /\ I!CountStep
    OBVIOUS
  <2>1. CASE story = "statements"
    BY <2>1, Sides, LinesKept DEF StatementsSide
  <2>2. CASE story # "statements"
    BY <2>2, Sides DEF StatementsSide, statements, I!LinesStep, I!CountStep
  <2> QED
    BY <2>1, <2>2
<1>5. StatementsSide /\ [BooksNext]_booksVars => [I!LinesStep]_booksVars /\ [I!CountStep]_booksVars
  BY <1>4
<1> QED
  BY <1>1, <1>2, <1>3, <1>5, PTL DEF BooksSpec, ImportsKept

(* A goal names at most the one thing it tracks, which exists in its own    *)
(* workspace; who puts aside each month what the page says has the target   *)
(* when its date comes; and a day on which nothing changes never makes the  *)
(* verdict better (goal_service: _ensure_goal_link_scope,                   *)
(* _clear_inactive_tracking_links, _compute_monthly_contribution,           *)
(* _compute_on_track): for any amounts, dates and length of the months.     *)
THEOREM GoalStands == ASSUME G!GoalsAssumption PROVE BooksSpec => GoalKept
<1>1. BooksInit => GoalSide
  BY GoalInit DEF BooksInit, GoalSide
<1>2. GoalSide /\ [BooksNext]_booksVars => GoalSide'
  BY Sides, GoalStep DEF GoalSide
<1>3. GoalSide => (story = "saving" => G!TypeOK /\ G!TracksItsOwn /\ G!SavingReaches)
  BY GoalFacts DEF GoalSide
<1>4. GoalSide /\ [BooksNext]_booksVars => [story = "saving" => G!PaceStep]_booksVars
  BY Sides, PaceIsKept DEF GoalSide, GoalInv
<1> QED
  BY <1>1, <1>2, <1>3, <1>4, PTL DEF BooksSpec, GoalKept

(* Net worth, the wallet header and the holdings list show one value of a   *)
(* holding, however its trades are recorded out of order, edited and taken  *)
(* back and whatever refreshes overlap them; and only the deletion of a     *)
(* trade makes a ledger sell more than it holds (asset_transaction_service: *)
(* _recompute, recompute_and_cache, _detect_oversell; asset_service:        *)
(* _apply_price_to_asset, build_market_value_series): for any quantities,   *)
(* prices, days, refreshers and length of the ledger.                       *)
THEOREM HoldingsStand == ASSUME M!HoldingAssumption PROVE BooksSpec => HoldingsShown
<1>1. BooksInit => HoldingSide
  BY HoldingInit DEF BooksInit, M!Init, HoldingSide
<1>2. HoldingSide /\ [BooksNext]_booksVars => HoldingSide'
  <2> SUFFICES ASSUME HoldingSide, [BooksNext]_booksVars PROVE HoldingSide'
    OBVIOUS
  <2>1. CASE story = "market"
    BY <2>1, AssetSides, HoldingStep, HoldingStays DEF HoldingSide
  <2>2. CASE story # "market"
    BY <2>2, AssetSides DEF HoldingSide, market
  <2> QED
    BY <2>1, <2>2
<1>3. HoldingSide => (story = "market" => M!TypeOK) /\ M!NetWorthAgrees /\ M!WalletAgrees
  <2>1. asset = M!NoAsset => M!NetWorthAgrees /\ M!WalletAgrees
    BY DEF M!NetWorthAgrees, M!WalletAgrees, M!Counted, M!NoAsset
  <2> QED
    BY <2>1, HoldingTypeOK, NetWorthIsRight, WalletIsRight DEF HoldingSide
<1>4. HoldingSide /\ [BooksNext]_booksVars => M!ShortByDeletion
  <2> SUFFICES ASSUME HoldingSide, [BooksNext]_booksVars PROVE M!ShortByDeletion
    OBVIOUS
  <2>1. UNCHANGED ledger => M!ShortByDeletion
    BY DEF M!ShortByDeletion
  <2>2. CASE story = "market"
    BY <2>1, <2>2, AssetSides, ShortOnlyByDeletion DEF HoldingSide, M!vars
  <2>3. CASE story # "market"
    BY <2>1, <2>3, AssetSides DEF market
  <2> QED
    BY <2>2, <2>3
<1>5. HoldingSide /\ [BooksNext]_booksVars => [M!ShortByDeletion]_booksVars
  BY <1>4
<1> QED
  BY <1>1, <1>2, <1>3, <1>5, PTL DEF BooksSpec, HoldingsShown

LEMMA ValuedStays == ASSUME V!ValuedAssumption, ValuedInv, UNCHANGED V!vars PROVE ValuedInv'
<1>1. UNCHANGED <<today, valued, history, edit, task, bank, reported, touched, blocked, edits>>
  BY DEF V!vars
<1>2. ValuedTypes'
  BY <1>1 DEF ValuedInv, ValuedTypes
<1>3. today \in Nat
  <2>1. PICK last \in Nat : V!Days = 1 .. last
    BY ValuedDays
  <2> QED
    BY <2>1 DEF ValuedInv, ValuedTypes
<1> QED
  BY <1>1, <1>2, <1>3, ValuedStill

(* The values a growth rule made are those the rule gives from the purchase *)
(* on, without gap or repetition, whoever made them and whatever was edited *)
(* while the task ran; the latest value of a holding is the one its bank    *)
(* last reported; and syncs store one value a day                           *)
(* (_generate_growth_values, apply_asset_growth_rules,                      *)
(* _upsert_asset_value_for_today, _ensure_historical_seed): for any         *)
(* amounts, rates, periods, purchases in the past and lengths of a run.     *)
THEOREM ValuesStand == ASSUME V!ValuedAssumption PROVE BooksSpec => ValuesShown
<1>1. BooksInit => ValuedSide
  <2>1. BooksInit => V!Init
    BY DEF BooksInit
  <2>2. V!Init => valued.kind = "none" /\ history = {}
    BY DEF V!Init, V!NoAsset
  <2> QED
    BY <2>1, <2>2, ValuedInit DEF ValuedSide
<1>2. ValuedSide /\ [BooksNext]_booksVars => ValuedSide'
  <2> SUFFICES ASSUME ValuedSide, [BooksNext]_booksVars PROVE ValuedSide'
    OBVIOUS
  <2>1. CASE story = "valued"
    BY <2>1, AssetSides, ValuedStep, ValuedStays DEF ValuedSide
  <2>2. CASE story # "valued"
    BY <2>2, AssetSides DEF ValuedSide, value
  <2> QED
    BY <2>1, <2>2
<1>3. ValuedSide => /\ story = "valued" => V!TypeOK
                    /\ V!GrowthFollowsRule /\ V!ShowsReport /\ V!OneSyncValueADay
  <2>1. valued.kind = "none" /\ history = {}
        => V!GrowthFollowsRule /\ V!ShowsReport /\ V!OneSyncValueADay
    BY DEF V!GrowthFollowsRule, V!ShowsReport, V!OneSyncValueADay
  <2>2. ValuedInv => V!TypeOK /\ V!GrowthFollowsRule /\ V!ShowsReport /\ V!OneSyncValueADay
    BY ValuedTypeOK, RuleIsFollowed DEF ValuedInv
  <2> QED
    BY <2>1, <2>2 DEF ValuedSide
<1> QED
  BY <1>1, <1>2, <1>3, PTL DEF BooksSpec, ValuesShown

(* What an asset is worth is one figure, whether the market, a rule or a    *)
(* bank says it (HoldingsStand, ValuesStand).                               *)
THEOREM AssetsStand ==
  ASSUME M!HoldingAssumption, V!ValuedAssumption PROVE BooksSpec => AssetsShown
BY HoldingsStand, ValuesStand DEF AssetsShown
=============================================================================
