----------------------------- MODULE HomeProofs -----------------------------
(***************************************************************************)
(* Proofs about what surrounds the ledger, for any users, workspaces,      *)
(* transactions, proposals, notifications and number of requests: an alert *)
(* is announced once, a notification has one row on the right account, an  *)
(* agent writes what it was asked to, and the household stays governed.    *)
(* Part five puts these together as MCHome does.  Two parts more are about *)
(* a conversation with an agent and about the rules of a workspace.        *)
(***************************************************************************)
EXTENDS MCHome, AgentChat, Rules, Lemmas

-----------------------------------------------------------------------------
(* PART ONE: ALERTS *)

\* An alert is pushed by the one whose commit stored it.
AlertsInv ==
  /\ status = [k \in DOMAIN status |-> status[k]]
  /\ run = [c \in Creators |-> run[c]]
  /\ \A c \in Creators : run[c] = [at |-> run[c].at, day |-> run[c].day, batch |-> run[c].batch]
  /\ sent \subseteq DOMAIN status
  /\ \A c \in Creators : run[c].at = "pushing" =>
       run[c].batch \subseteq DOMAIN status /\ run[c].batch \cap sent = {}
  /\ \A c, d \in Creators :
       c # d /\ run[c].at = "pushing" /\ run[d].at = "pushing" => run[c].batch \cap run[d].batch = {}
  /\ ~twice

LEMMA AlertsInit == Init => AlertsInv
<1> SUFFICES ASSUME Init PROVE AlertsInv
  OBVIOUS
<1>1. status = [k \in {} |-> "unread"] /\ run = [c \in Creators |-> Idle]
  BY DEF Init
<1>2. QED
  BY <1>1 DEF Init, AlertsInv, Idle

\* What was never sent is sent for the first time.
LEMMA FirstTime ==
  ASSUME ~twice, NEW S, S \cap sent = {}, MaySend(S)
  PROVE  sent' = sent \cup S /\ ~twice'
<1>1. sent' = sent \cup S /\ (twice' = (twice \/ S \cap sent # {}))
  BY DEF MaySend
<1>2. ~(twice \/ S \cap sent # {})
  OBVIOUS
<1>3. QED
  BY <1>1, <1>2, Zenon

\* One creator moves on, having pushed what it stored, or nothing.
LEMMA RunMoves ==
  ASSUME AlertsInv, NEW c \in Creators, NEW at, NEW day, NEW batch, at # "pushing",
         run' = [run EXCEPT ![c] = [at |-> at, day |-> day, batch |-> batch]],
         status' = [k \in DOMAIN status' |-> status'[k]], DOMAIN status \subseteq DOMAIN status',
         ~twice',
         sent' = sent \/ (run[c].at = "pushing" /\ sent' = sent \cup run[c].batch)
  PROVE  AlertsInv'
<1> DEFINE x == [at |-> at, day |-> day, batch |-> batch]
<1>0. x = [at |-> x.at, day |-> x.day, batch |-> x.batch] /\ x.at # "pushing"
  OBVIOUS
<1>1. run' = [d \in Creators |-> run'[d]] /\ \A d \in Creators : run'[d] = IF d = c THEN x ELSE run[d]
  BY DEF AlertsInv
<1> HIDE DEF x
<1>3. sent' \subseteq DOMAIN status'
  BY DEF AlertsInv
<1>4. \A d \in Creators : run'[d].at = "pushing" =>
        run'[d].batch \subseteq DOMAIN status' /\ run'[d].batch \cap sent' = {}
  BY <1>0, <1>1 DEF AlertsInv
<1>5. \A d \in Creators : run'[d] = [at |-> run'[d].at, day |-> run'[d].day, batch |-> run'[d].batch]
  BY <1>0, <1>1 DEF AlertsInv
<1>6. \A d, e \in Creators :
        d # e /\ run'[d].at = "pushing" /\ run'[e].at = "pushing" =>
          run'[d].batch \cap run'[e].batch = {}
  BY <1>0, <1>1 DEF AlertsInv
<1>7. QED
  BY <1>1, <1>3, <1>4, <1>5, <1>6 DEF AlertsInv

\* The alerts of nobody change.
LEMMA StatusMoves ==
  ASSUME AlertsInv, run' = run, sent' = sent, ~twice',
         status' = [k \in DOMAIN status |-> status'[k]]
  PROVE  AlertsInv'
<1>1. DOMAIN status' = DOMAIN status /\ status' = [k \in DOMAIN status' |-> status'[k]]
  OBVIOUS
<1>2. QED
  BY <1>1 DEF AlertsInv

LEMMA AlertsStep == AlertsInv /\ [Next]_vars => AlertsInv' /\ Onwards
<1> SUFFICES ASSUME AlertsInv, [Next]_vars PROVE AlertsInv' /\ Onwards
  OBVIOUS
<1>a. status = [k \in DOMAIN status |-> status[k]]
  BY DEF AlertsInv
<1>b. \A s : Rank(s) \in {1, 2, 3}
  BY DEF Rank
<1>c. Rank("dismissed") = 3 /\ Rank("unread") = 1 /\ Rank("read") = 2
  BY DEF Rank
<1>d. UNCHANGED status => Onwards
  BY <1>b DEF Onwards
<1>e. ASSUME NEW S, status' = Dismissed(S)
      PROVE  Onwards /\ DOMAIN status' = DOMAIN status /\ status' = [k \in DOMAIN status |-> status'[k]]
  BY <1>b, <1>c, <1>e DEF Onwards, Dismissed
<1>f. ~twice /\ \A c \in Creators : run[c].at = "pushing" => run[c].batch \cap sent = {}
  BY DEF AlertsInv
<1>1. ASSUME NEW c \in Creators, DismissStale(c) PROVE AlertsInv' /\ Onwards
  <2>1. /\ status' = Dismissed(Stale) /\ sent' = sent /\ ~twice'
        /\ run' = [run EXCEPT ![c] = [at |-> "dismissed", day |-> today, batch |-> {}]]
    BY <1>1, <1>f DEF DismissStale
  <2>2. /\ Onwards /\ DOMAIN status \subseteq DOMAIN status'
        /\ status' = [k \in DOMAIN status' |-> status'[k]]
    BY <1>e, <2>1
  <2>3. QED
    BY <2>1, <2>2, RunMoves
<1>0. ASSUME NEW c \in Creators, NEW at, NEW day, NEW batch, at # "pushing",
             run' = [run EXCEPT ![c] = [at |-> at, day |-> day, batch |-> batch]],
             status' = status, sent' = sent, ~twice'
      PROVE  AlertsInv' /\ Onwards
  BY <1>a, <1>d, <1>0, RunMoves
<1>10. ASSUME NEW c \in Creators, ScanTxs(c) PROVE AlertsInv' /\ Onwards
  <2>3. run' = [run EXCEPT ![c] = [at |-> "reading", day |-> run[c].day,
                                   batch |-> DueTxs(run[c].day)]]
    BY <1>10 DEF ScanTxs
  <2>4. status' = status /\ sent' = sent /\ ~twice'
    BY <1>10, <1>f DEF ScanTxs
  <2>5. QED
    BY <1>0, <2>3, <2>4
<1>11. ASSUME NEW c \in Creators, Scan(c) PROVE AlertsInv' /\ Onwards
  <2> DEFINE day == run[c].day
             new == NewAlerts(run[c].batch \cup DueBills(day) \cup DueOccurrences(day))
  <2>1. status' = status /\ sent' = sent /\ ~twice'
    BY <1>11, <1>f DEF Scan
  <2>2. run' = [run EXCEPT ![c] = IF new = {} THEN Idle
                                  ELSE [at |-> "scanned", day |-> day, batch |-> new]]
    BY <1>11 DEF Scan
  <2> HIDE DEF day, new
  <2>3. CASE new = {}
    <3>1. run' = [run EXCEPT ![c] = [at |-> "idle", day |-> 0, batch |-> {}]]
      BY <2>2, <2>3 DEF Idle
    <3>2. QED
      BY <1>0, <2>1, <3>1
  <2>4. CASE new # {}
    <3>1. run' = [run EXCEPT ![c] = [at |-> "scanned", day |-> day, batch |-> new]]
      BY <2>2, <2>4
    <3>2. QED
      BY <1>0, <2>1, <3>1
  <2>5. QED
    BY <2>3, <2>4
<1>2. ASSUME NEW c \in Creators, Commit(c) PROVE AlertsInv' /\ Onwards
  <2>1. CASE run[c].batch \cap DOMAIN status = {}
    <3>1. /\ run[c].at = "scanned" /\ status' = Inserted(c)
          /\ run' = [run EXCEPT ![c].at = "pushing"]
          /\ sent' = sent /\ twice' = twice
      BY <1>2, <2>1 DEF Commit
    <3>2. /\ DOMAIN status' = DOMAIN status \cup run[c].batch
          /\ status' = [k \in DOMAIN status' |-> status'[k]]
          /\ \A k \in DOMAIN status : status'[k] = status[k]
      BY <3>1 DEF Inserted
    <3>3. Onwards
      BY <1>b, <3>2 DEF Onwards
    <3>4. /\ run' = [d \in Creators |-> run'[d]]
          /\ \A d \in Creators : d # c => run'[d] = run[d]
          /\ run'[c] = [at |-> "pushing", day |-> run[c].day, batch |-> run[c].batch]
      BY <3>1 DEF AlertsInv
    <3>5. \A d \in Creators : run'[d].at = "pushing" =>
            run'[d].batch \subseteq DOMAIN status' /\ run'[d].batch \cap sent' = {}
      BY <2>1, <3>1, <3>2, <3>4 DEF AlertsInv
    <3>6. \A d, e \in Creators :
            d # e /\ run'[d].at = "pushing" /\ run'[e].at = "pushing" =>
              run'[d].batch \cap run'[e].batch = {}
      BY <2>1, <3>4 DEF AlertsInv
    <3>7. QED
      BY <3>1, <3>2, <3>3, <3>4, <3>5, <3>6 DEF AlertsInv
  <2>2. CASE run[c].batch \cap DOMAIN status # {}
    <3>1. /\ run' = [run EXCEPT ![c] = [at |-> "idle", day |-> 0, batch |-> {}]]
          /\ status' = status /\ sent' = sent /\ ~twice'
      BY <1>2, <1>f, <2>2 DEF Commit, Idle
    <3>2. QED
      BY <1>a, <1>d, <3>1, RunMoves
  <2>3. QED
    BY <2>1, <2>2
<1>3. ASSUME NEW c \in Creators, Push(c) PROVE AlertsInv' /\ Onwards
  <2>1. /\ run' = [run EXCEPT ![c] = [at |-> "idle", day |-> 0, batch |-> {}]] /\ status' = status
        /\ run[c].at = "pushing" /\ MaySend(run[c].batch)
    BY <1>3 DEF Push, Idle
  <2>2. sent' = sent \cup run[c].batch /\ ~twice'
    BY <1>f, <2>1, FirstTime
  <2>3. QED
    BY <1>a, <1>d, <2>1, <2>2, RunMoves
<1>4. ASSUME NEW c \in Creators, Crash(c) PROVE AlertsInv' /\ Onwards
  <2>1. /\ run' = [run EXCEPT ![c] = [at |-> "idle", day |-> 0, batch |-> {}]] /\ status' = status
        /\ MaySend(IF run[c].at = "pushing" THEN run[c].batch ELSE {})
    BY <1>4 DEF Crash, Idle
  <2>2. (IF run[c].at = "pushing" THEN run[c].batch ELSE {}) \cap sent = {}
    BY <1>f
  <2>3. sent' = sent \cup (IF run[c].at = "pushing" THEN run[c].batch ELSE {}) /\ ~twice'
    BY <1>f, <2>1, <2>2, FirstTime
  <2>4. sent' = sent \/ (run[c].at = "pushing" /\ sent' = sent \cup run[c].batch)
    BY <2>3
  <2>5. QED
    BY <1>a, <1>d, <2>1, <2>3, <2>4, RunMoves
<1>5. ASSUME NEW k \in DOMAIN status, Dismiss(k) PROVE AlertsInv' /\ Onwards
  <2>1. /\ status' = [status EXCEPT ![k] = "dismissed"]
        /\ run' = run /\ sent' = sent /\ ~twice'
    BY <1>5, <1>f DEF Dismiss
  <2>a. \A j \in DOMAIN status : status'[j] = IF j = k THEN "dismissed" ELSE status[j]
    BY <1>a, <2>1
  <2>b. status' = [j \in DOMAIN status |-> status'[j]] /\ DOMAIN status' = DOMAIN status
    BY <1>a, <2>1
  <2>2. Onwards
    BY <1>b, <1>c, <2>a, <2>b DEF Onwards
  <2>3. QED
    BY <2>1, <2>2, <2>b, StatusMoves
<1>6. ASSUME NEW k \in DOMAIN status, MarkRead(k) PROVE AlertsInv' /\ Onwards
  <2>1. /\ status' = [status EXCEPT ![k] = "read"] /\ status[k] = "unread"
        /\ run' = run /\ sent' = sent /\ ~twice'
    BY <1>6, <1>f DEF MarkRead
  <2>a. \A j \in DOMAIN status : status'[j] = IF j = k THEN "read" ELSE status[j]
    BY <1>a, <2>1
  <2>b. status' = [j \in DOMAIN status |-> status'[j]] /\ DOMAIN status' = DOMAIN status
    BY <1>a, <2>1
  <2>2. Onwards
    BY <1>b, <1>c, <2>1, <2>a, <2>b DEF Onwards
  <2>3. QED
    BY <2>1, <2>2, <2>b, StatusMoves
<1>7. ASSUME MarkAllRead PROVE AlertsInv' /\ Onwards
  <2>1. /\ status' = [k \in DOMAIN status |-> IF status[k] = "unread" THEN "read" ELSE status[k]]
        /\ run' = run /\ sent' = sent /\ ~twice'
    BY <1>7, <1>f DEF MarkAllRead
  <2>2. status' = [j \in DOMAIN status |-> status'[j]] /\ Onwards
    BY <1>b, <1>c, <2>1 DEF Onwards
  <2>3. QED
    BY <2>1, <2>2, StatusMoves
<1>8. ASSUME status' = status, run' = run, sent' = sent, twice' = twice
      PROVE AlertsInv' /\ Onwards
  <2>1. ~twice' /\ status' = [k \in DOMAIN status |-> status'[k]]
    <3>1. ~twice'
      BY <1>8, <1>f
    <3>2. status' = [k \in DOMAIN status |-> status'[k]]
      BY <1>8, <1>a
    <3>3. QED
      BY <3>1, <3>2
  <2>2. QED
    BY <1>8, <1>d, <2>1, StatusMoves
<1>9. QED
  BY <1>1, <1>10, <1>11, <1>2, <1>3, <1>4, <1>5, <1>6, <1>7, <1>8
     DEF Next, vars, AddTx, Settle, Reopen, Recategorise, MoveDue, DeleteTx, Generate, Edit,
         Tick, ZoneBack, EditRec, SyncBill

-----------------------------------------------------------------------------
(* PART TWO: NOTIFICATIONS *)

\* While nothing crosses, a fingerprint has one row, what is in flight has none
\* yet, and the account it was given is the one it would be given again.
CaptureInv ==
  /\ C!TypeOK
  /\ ~crossed => \A r, s \in captured : r.key = s.key => r = s
  /\ ~crossed => \A d \in inFlight :
       d.acc = C!Resolve(d.key, d.user) /\ \A r \in captured : r.key # d.key

LEMMA Earliest ==
  ASSUME NEW T, T \subseteq Nat, T # {}
  PROVE  \E d \in T : \A e \in T : d <= e
<1>1. PICK d \in T : \A e \in T : <<e, d>> \notin OpToRel(<, Nat)
  BY NatLessThanWellFounded, WFMin
<1>2. \A e \in T : ~(e < d)
  BY <1>1 DEF OpToRel
<1> QED
  BY <1>2

LEMMA CaptureCards == \A S : C!Cardinality(S) = Cardinality(S)
  BY DEF C!Cardinality, Cardinality

LEMMA FirstIn ==
  ASSUME C!CaptureAssumption, NEW S, S \subseteq Accounts, S # {}
  PROVE  C!First(S) \in S
<1>1. S \subseteq Nat
  BY DEF C!CaptureAssumption
<1>2. \E a \in S : \A b \in S : a <= b
  BY <1>1, Earliest
<1> QED
  BY <1>2 DEF C!First

LEMMA PreferredIn ==
  ASSUME C!CaptureAssumption, NEW S, S \subseteq Accounts
  PROVE  /\ S = {} => C!Preferred(S) = 0
         /\ S # {} => C!Preferred(S) \in S
<1> DEFINE exact == {a \in S : account[a].named = "app"}
           own == {a \in S : account[a].named = "person"}
<1>1. exact \subseteq Accounts /\ own \subseteq Accounts
  OBVIOUS
<1>2. /\ exact # {} => C!First(exact) \in exact
      /\ own # {} => C!First(own) \in own
      /\ S # {} => C!First(S) \in S
  BY <1>1, FirstIn
<1>3. C!Preferred(S) = IF S = {} THEN 0 ELSE IF exact # {} THEN C!First(exact)
                       ELSE IF own # {} THEN C!First(own) ELSE C!First(S)
  BY DEF C!Preferred
<1> HIDE DEF exact, own
<1>4. exact \subseteq S /\ own \subseteq S
  BY DEF exact, own
<1> QED
  BY <1>2, <1>3, <1>4

LEMMA AccountsLookedUp ==
  \A k, u : C!Card(k, u) \subseteq Accounts /\ C!Specific(k, u) \subseteq Accounts
            /\ C!AnyOf(u) \subseteq Accounts
  BY DEF C!Card, C!Specific, C!AnyOf, C!There

\* Where a notification goes: its card, an account of the right type, any of
\* the application, or a new one when there is none.
LEMMA Resolved ==
  ASSUME C!CaptureAssumption, NEW k, NEW u
  PROVE  /\ C!Resolve(k, u) \in Accounts \cup {0}
         /\ C!Card(k, u) # {} => C!Resolve(k, u) \in C!Card(k, u)
         /\ C!Card(k, u) = {} /\ C!Specific(k, u) # {} => C!Resolve(k, u) \in C!Specific(k, u)
         /\ C!Resolve(k, u) = 0 => /\ C!Card(k, u) = {} /\ C!Specific(k, u) = {}
                                   /\ C!AnyOf(u) = {}
<1>1. 0 \notin Accounts
  BY DEF C!CaptureAssumption
<1>2. /\ C!Card(k, u) # {} => C!First(C!Card(k, u)) \in C!Card(k, u)
      /\ C!Specific(k, u) # {} => C!Preferred(C!Specific(k, u)) \in C!Specific(k, u)
      /\ C!AnyOf(u) # {} => C!Preferred(C!AnyOf(u)) \in C!AnyOf(u)
      /\ C!AnyOf(u) = {} => C!Preferred(C!AnyOf(u)) = 0
  BY AccountsLookedUp, FirstIn, PreferredIn
<1> QED
  BY <1>1, <1>2, AccountsLookedUp DEF C!Resolve

LEMMA TypesKnown == \A k : C!TypeFor(k) \in C!Types
  BY DEF C!TypeFor, C!Types

LEMMA OpenedIsAccount ==
  ASSUME NEW d, d.user \in {u1, u2}
  PROVE  C!Opened(d) \in C!AccountRow
  BY TypesKnown DEF C!Opened, C!AccountRow

LEMMA NoAccountIsNone == C!NoAccount \notin C!AccountRow /\ C!NoAccount.opened = "user"
  BY DEF C!NoAccount, C!AccountRow

LEMMA CaptureInit == C!CaptureAssumption /\ C!Init => CaptureInv
<1> SUFFICES ASSUME C!CaptureAssumption, C!Init PROVE CaptureInv
  OBVIOUS
<1>1. /\ goesBy \subseteq {u1, u2} /\ captured = {} /\ inFlight = {}
      /\ crossed = FALSE /\ edits = 0 /\ MaxCaptureEdits \in Nat
  BY DEF C!CaptureAssumption, C!Init
<1>2. account \in [Accounts -> C!AccountRow \cup {C!NoAccount}]
  BY DEF C!Init
<1>3. crossed \in BOOLEAN
  BY Zenon DEF C!Init
<1>6. edits \in 0..MaxCaptureEdits
  BY <1>1
<1>4. \A S : captured \subseteq S /\ inFlight \subseteq S
  BY <1>1
<1>5. C!TypeOK
  BY <1>1, <1>2, <1>3, <1>4, <1>6, Zenon DEF C!TypeOK
<1> QED
  BY <1>1, <1>5 DEF CaptureInv

\* An account changes, and the rows of what is there no longer go with it.
LEMMA AccountMoves ==
  ASSUME C!TypeOK, NEW a \in Accounts, NEW x \in C!AccountRow \cup {C!NoAccount},
         account' = [account EXCEPT ![a] = x]
  PROVE  /\ account' \in [Accounts -> C!AccountRow \cup {C!NoAccount}]
         /\ \A b \in Accounts : account'[b] = IF b = a THEN x ELSE account[b]
         /\ C!There' = IF x = C!NoAccount THEN C!There \ {a} ELSE C!There \cup {a}
<1>1. account \in [Accounts -> C!AccountRow \cup {C!NoAccount}]
  BY DEF C!TypeOK
<1>2. /\ account' \in [Accounts -> C!AccountRow \cup {C!NoAccount}]
      /\ \A b \in Accounts : account'[b] = IF b = a THEN x ELSE account[b]
  BY <1>1
<1>3. C!There' = {b \in Accounts : account'[b] # C!NoAccount}
  BY DEF C!There, C!NoAccount
<1> QED
  BY <1>2, <1>3 DEF C!There

LEMMA ReceiveKeeps ==
  ASSUME C!CaptureAssumption, CaptureInv,
         NEW k \in CaptureKeys, NEW s \in Senders, NEW c, C!Receive(k, s, c)
  PROVE  CaptureInv' /\ UNCHANGED <<account, captured>>
<1> DEFINE user == C!Titular(s)
           new == [id |-> edits, key |-> k, sender |-> s, user |-> user,
                   acc |-> C!Resolve(k, user)]
<1>0. C!TypeOK /\ MaxCaptureEdits \in Nat
  BY DEF CaptureInv, C!CaptureAssumption
<1>1. /\ edits < MaxCaptureEdits /\ edits' = edits + 1 /\ inFlight' = inFlight \cup {new}
      /\ goesBy' = goesBy /\ account' = account /\ captured' = captured /\ crossed' = crossed
      /\ \A r \in captured : r.key # k
  BY DEF C!Receive, C!Bounded, C!Known
<1>2. user \in {u1, u2} /\ C!Resolve(k, user) \in Accounts \cup {0}
  BY <1>0, Resolved DEF C!Titular, C!TypeOK, C!CaptureAssumption
<1>3. new \in [id : 0..MaxCaptureEdits, key : CaptureKeys, sender : Senders, user : {u1, u2},
               acc : Accounts \cup {0}]
  BY <1>0, <1>2 DEF C!TypeOK
<1>4. new.key = k /\ new.acc = C!Resolve(new.key, new.user)
  OBVIOUS
<1> HIDE DEF new, user
<1>5. C!There' = C!There
  BY <1>1 DEF C!There
<1>6. C!TypeOK'
  BY <1>0, <1>1, <1>3, <1>5 DEF C!TypeOK
<1>7. \A d : C!Resolve(d.key, d.user)' = C!Resolve(d.key, d.user)
  BY <1>1, <1>5 DEF C!Resolve, C!Card, C!Specific, C!AnyOf, C!Preferred, C!NameMatch
<1>8. ~crossed' => \A d \in inFlight' :
        d.acc = C!Resolve(d.key, d.user)' /\ \A r \in captured' : r.key # d.key
  BY <1>1, <1>4, <1>7 DEF CaptureInv
<1> QED
  BY <1>1, <1>6, <1>8 DEF CaptureInv

\* What leaves the accounts and the rows alone opens nothing and lands nowhere.
LEMMA NothingLands ==
  ASSUME account' = account, captured' \subseteq captured
  PROVE  C!OpeningStep /\ C!LandingStep
  BY DEF C!OpeningStep, C!LandingStep

\* The user is alone with the rows, or something has crossed.
LEMMA UserMoves ==
  ASSUME C!CaptureAssumption, CaptureInv, C!ByUser,
         goesBy' \subseteq {u1, u2}, inFlight' = inFlight,
         account' \in [Accounts -> C!AccountRow \cup {C!NoAccount}],
         captured' \subseteq captured,
         \A r \in captured' : r.acc \in C!There'
  PROVE  CaptureInv' /\ C!LandingStep
<1>0. C!TypeOK /\ MaxCaptureEdits \in Nat
  BY DEF CaptureInv, C!CaptureAssumption
<1>1. edits < MaxCaptureEdits /\ edits' = edits + 1
  BY DEF C!ByUser, C!Bounded
<1>2. crossed' = (crossed \/ inFlight # {})
  BY DEF C!ByUser
<1>3. edits' \in 0..MaxCaptureEdits
  BY <1>0, <1>1 DEF C!TypeOK
<1>4. crossed' \in BOOLEAN
  BY <1>2
<1>5. ~crossed' => ~crossed /\ inFlight = {}
  BY <1>2, Zenon
<1>6. captured' \subseteq [id : 0..MaxCaptureEdits, key : CaptureKeys, sender : Senders,
                           user : {u1, u2}, acc : C!There']
  BY <1>0 DEF C!TypeOK
<1>7. inFlight' \subseteq [id : 0..MaxCaptureEdits, key : CaptureKeys, sender : Senders,
                           user : {u1, u2}, acc : Accounts \cup {0}]
  BY <1>0 DEF C!TypeOK
<1>8. C!TypeOK'
  BY <1>3, <1>4, <1>6, <1>7, Zenon DEF C!TypeOK
<1>9. C!LandingStep
  BY DEF C!LandingStep
<1> QED
  BY <1>5, <1>8, <1>9 DEF CaptureInv

LEMMA CommitKeeps ==
  ASSUME C!CaptureAssumption, CaptureInv, NEW d \in inFlight, C!Commit(d)
  PROVE  CaptureInv' /\ C!OpeningStep /\ C!LandingStep
<1> DEFINE a == IF d.acc = 0 THEN C!First(C!Free) ELSE d.acc
           lost == d.acc # 0 /\ account[d.acc] = C!NoAccount
           new == [id |-> d.id, key |-> d.key, sender |-> d.sender, user |-> d.user, acc |-> a]
<1>0. C!TypeOK /\ MaxCaptureEdits \in Nat /\ 0 \notin Accounts
  BY DEF CaptureInv, C!CaptureAssumption
<1>1. /\ d.acc = 0 => C!Free # {}
      /\ inFlight' = inFlight \ {d} /\ goesBy' = goesBy /\ edits' = edits
      /\ account' = IF d.acc = 0 THEN [account EXCEPT ![a] = C!Opened(d)] ELSE account
      /\ captured' = IF lost THEN captured ELSE captured \cup {new}
  BY DEF C!Commit
<1>2. crossed' = (crossed \/ inFlight' # {})
  BY DEF C!Commit
<1>3. ~crossed' => ~crossed /\ inFlight' = {}
  BY <1>2, Zenon
<1>4. crossed' \in BOOLEAN
  BY <1>2
<1>5. d \in [id : 0..MaxCaptureEdits, key : CaptureKeys, sender : Senders, user : {u1, u2},
             acc : Accounts \cup {0}]
  BY <1>0 DEF C!TypeOK
<1>6. d.acc = 0 => a \in C!Free
  BY <1>1, FirstIn DEF C!Free, C!There
<1>7. a \in Accounts
  BY <1>5, <1>6 DEF C!Free
<1>8. /\ new \in [id : 0..MaxCaptureEdits, key : CaptureKeys, sender : Senders,
                  user : {u1, u2}, acc : {a}]
      /\ new.key = d.key /\ new.user = d.user /\ new.acc = a
  BY <1>5
<1>9. C!Opened(d) \in C!AccountRow
  BY <1>5, OpenedIsAccount
<1> HIDE DEF new, a
<1>10. /\ account' \in [Accounts -> C!AccountRow \cup {C!NoAccount}]
       /\ C!There' = IF d.acc = 0 THEN C!There \cup {a} ELSE C!There
       /\ \A b \in Accounts : account'[b] = IF d.acc = 0 /\ b = a THEN C!Opened(d) ELSE account[b]
  <2>1. CASE d.acc = 0
    BY <1>0, <1>1, <1>7, <1>9, <2>1, AccountMoves, NoAccountIsNone
  <2>2. CASE d.acc # 0
    BY <1>0, <1>1, <2>2 DEF C!TypeOK, C!There
  <2> QED
    BY <2>1, <2>2
<1>11. ~lost => a \in C!There'
  BY <1>6, <1>7, <1>10 DEF a, C!There
<1>12. captured' \subseteq [id : 0..MaxCaptureEdits, key : CaptureKeys, sender : Senders,
                            user : {u1, u2}, acc : C!There']
  <2>1. \A r \in captured : r \in [id : 0..MaxCaptureEdits, key : CaptureKeys,
                                   sender : Senders, user : {u1, u2}, acc : C!There']
    BY <1>0, <1>10 DEF C!TypeOK
  <2>2. ~lost => new \in [id : 0..MaxCaptureEdits, key : CaptureKeys, sender : Senders,
                          user : {u1, u2}, acc : C!There']
    BY <1>8, <1>11
  <2> QED
    BY <1>1, <2>1, <2>2
<1>13. inFlight' \subseteq [id : 0..MaxCaptureEdits, key : CaptureKeys, sender : Senders,
                            user : {u1, u2}, acc : Accounts \cup {0}]
  BY <1>0, <1>1 DEF C!TypeOK
<1>14. C!TypeOK'
  <2>1. edits' \in 0..MaxCaptureEdits /\ goesBy' \subseteq {u1, u2}
    BY <1>0, <1>1 DEF C!TypeOK
  <2> QED
    BY <1>4, <1>10, <1>12, <1>13, <2>1, Zenon DEF C!TypeOK
<1>15. ~crossed' => \A r, s \in captured' : r.key = s.key => r = s
  BY <1>1, <1>3, <1>8 DEF CaptureInv
<1>16. CaptureInv'
  BY <1>3, <1>14, <1>15 DEF CaptureInv
<1>17. ~crossed' => d.acc = C!Resolve(d.key, d.user)
  BY <1>3 DEF CaptureInv
<1>18. C!OpeningStep
  <2> SUFFICES ASSUME NEW x \in Accounts, account[x] = C!NoAccount,
                      account'[x] # C!NoAccount, ~crossed',
                      NEW b \in C!There, account[b].user = account'[x].user
               PROVE  account[b].named = "other"
    BY DEF C!OpeningStep
  <2>1. d.acc = 0 /\ account'[x] = C!Opened(d)
    BY <1>10
  <2>2. account[b].user = d.user
    BY <2>1 DEF C!Opened
  <2>3. C!AnyOf(d.user) = {}
    BY <1>17, <2>1, Resolved
  <2>4. ~C!NameMatch(b)
    BY <2>2, <2>3 DEF C!AnyOf
  <2>5. account[b] \in C!AccountRow
    BY <1>0 DEF C!TypeOK, C!There
  <2> QED
    BY <2>4, <2>5 DEF C!NameMatch, C!AccountRow
<1>19. C!LandingStep
  <2> SUFFICES ASSUME NEW r \in captured' \ captured, ~crossed' PROVE C!Suits(r)'
    BY DEF C!LandingStep
  <2>1. r = new /\ ~lost
    BY <1>1
  <2>2. r.key = d.key /\ r.user = d.user /\ r.acc = a
    BY <1>8, <2>1
  <2> DEFINE master == C!Card(d.key, d.user)
             specific == C!Specific(d.key, d.user)
  <2>3. CASE d.acc # 0
    <3>1. C!Card(d.key, d.user)' = master /\ C!Specific(d.key, d.user)' = specific
      BY <1>1, <1>10, <2>3 DEF C!Card, C!Specific, C!NameMatch
    <3>2. /\ master # {} => a \in master
          /\ master = {} /\ specific # {} => a \in specific
      BY <1>17, <2>3, Resolved DEF a
    <3> HIDE DEF master, specific
    <3>3. \/ master # {} /\ r.acc \in master
          \/ master = {} /\ r.acc \in specific
          \/ master \cup specific = {}
      BY <2>2, <3>2
    <3> QED
      BY <2>2, <3>1, <3>3 DEF C!Suits
  <2>4. CASE d.acc = 0
    <3>1. master = {}
      BY <1>17, <2>4, Resolved
    <3>2. account'[a] = C!Opened(d) /\ C!Opened(d).last4 = 0
      BY <1>7, <1>10, <2>4 DEF C!Opened
    <3>3. C!Card(d.key, d.user)' = {}
      <4> SUFFICES ASSUME NEW b \in C!Card(d.key, d.user)' PROVE FALSE
        OBVIOUS
      <4>1. CASE b = a
        BY <3>2, <4>1 DEF C!Card
      <4>2. CASE b # a
        <5>1. b \in Accounts /\ b \in C!There /\ account'[b] = account[b]
          BY <1>10, <2>4, <4>2 DEF C!Card, C!There
        <5>2. b \in master
          BY <5>1 DEF C!Card
        <5> QED
          BY <3>1, <5>2
      <4> QED
        BY <4>1, <4>2
    <3>4. a \in C!Specific(d.key, d.user)'
      BY <1>10, <2>4, <3>2 DEF C!Specific, C!NameMatch, C!Opened
    <3> QED
      BY <2>2, <3>3, <3>4 DEF C!Suits
  <2> QED
    BY <2>3, <2>4
<1> QED
  BY <1>16, <1>18, <1>19

LEMMA DropKeeps ==
  ASSUME CaptureInv, NEW d, C!Drop(d)
  PROVE  CaptureInv' /\ C!OpeningStep /\ C!LandingStep
<1>1. /\ inFlight' = inFlight \ {d}
      /\ UNCHANGED <<goesBy, account, captured, crossed, edits>>
  BY DEF C!Drop
<1>2. C!There' = C!There
  BY <1>1 DEF C!There
<1>3. C!TypeOK'
  BY <1>1, <1>2 DEF CaptureInv, C!TypeOK
<1>4. \A e : C!Resolve(e.key, e.user)' = C!Resolve(e.key, e.user)
  BY <1>1, <1>2 DEF C!Resolve, C!Card, C!Specific, C!AnyOf, C!Preferred, C!NameMatch
<1> QED
  BY <1>1, <1>3, <1>4, NothingLands DEF CaptureInv

LEMMA EditKeeps ==
  ASSUME C!CaptureAssumption, CaptureInv,
         \/ \E r \in captured : C!DeleteRow(r)
         \/ \E a \in Accounts : C!DeleteAccount(a)
         \/ \E a \in Accounts, n \in {"app", "person", "other"} : C!RenameAccount(a, n)
         \/ \E a \in Accounts, u \in {u1, u2}, t \in C!Types, n \in {"app", "person", "other"},
               l \in {0, 1} : C!OpenAccount(a, u, t, n, l)
         \/ \E u \in {u1, u2} : C!RenameUser(u)
  PROVE  CaptureInv' /\ C!OpeningStep /\ C!LandingStep
<1>0. C!TypeOK
  BY DEF CaptureInv
<1>a. /\ goesBy \subseteq {u1, u2} /\ account \in [Accounts -> C!AccountRow \cup {C!NoAccount}]
      /\ \A r \in captured : r.acc \in C!There
  BY <1>0 DEF C!TypeOK
<1>1. ASSUME NEW r \in captured, C!DeleteRow(r)
      PROVE  CaptureInv' /\ C!OpeningStep /\ C!LandingStep
  <2>1. C!ByUser /\ captured' = captured \ {r} /\ UNCHANGED <<goesBy, account, inFlight>>
    BY <1>1 DEF C!DeleteRow
  <2>2. C!There' = C!There
    BY <2>1 DEF C!There
  <2> QED
    BY <1>a, <2>1, <2>2, UserMoves, NothingLands
<1>2. ASSUME NEW a \in Accounts, C!DeleteAccount(a)
      PROVE  CaptureInv' /\ C!OpeningStep /\ C!LandingStep
  <2>1. /\ C!ByUser /\ account' = [account EXCEPT ![a] = C!NoAccount]
        /\ captured' = {r \in captured : r.acc # a} /\ UNCHANGED <<goesBy, inFlight>>
    BY <1>2 DEF C!DeleteAccount
  <2>2. /\ account' \in [Accounts -> C!AccountRow \cup {C!NoAccount}]
        /\ \A b \in Accounts : account'[b] = IF b = a THEN C!NoAccount ELSE account[b]
        /\ C!There' = C!There \ {a}
    BY <1>0, <2>1, AccountMoves
  <2>3. C!OpeningStep
    BY <2>2 DEF C!OpeningStep
  <2>4. captured' \subseteq captured /\ \A r \in captured' : r.acc \in C!There'
    BY <1>a, <2>1, <2>2
  <2> QED
    BY <1>a, <2>1, <2>2, <2>3, <2>4, UserMoves
<1>3. ASSUME NEW a \in Accounts, NEW x \in C!AccountRow, C!ByUser,
             account[a] = C!NoAccount => x.opened = "user",
             account' = [account EXCEPT ![a] = x], UNCHANGED <<goesBy, captured, inFlight>>
      PROVE  CaptureInv' /\ C!OpeningStep /\ C!LandingStep
  <2>1. /\ account' \in [Accounts -> C!AccountRow \cup {C!NoAccount}]
        /\ \A b \in Accounts : account'[b] = IF b = a THEN x ELSE account[b]
        /\ C!There' = C!There \cup {a}
    BY <1>0, <1>3, AccountMoves, NoAccountIsNone
  <2>2. C!OpeningStep
    BY <1>3, <2>1 DEF C!OpeningStep
  <2>3. captured' \subseteq captured /\ \A r \in captured' : r.acc \in C!There'
    BY <1>a, <1>3, <2>1
  <2> QED
    BY <1>a, <1>3, <2>1, <2>2, <2>3, UserMoves
<1>4. ASSUME NEW a \in Accounts, NEW n \in {"app", "person", "other"}, C!RenameAccount(a, n)
      PROVE  CaptureInv' /\ C!OpeningStep /\ C!LandingStep
  <2> DEFINE x == [account[a] EXCEPT !.named = n]
  <2>1. /\ C!ByUser /\ account[a] # C!NoAccount /\ account' = [account EXCEPT ![a] = x]
        /\ UNCHANGED <<goesBy, captured, inFlight>>
    BY <1>a, <1>4 DEF C!RenameAccount
  <2>2. x \in C!AccountRow
    BY <1>a, <2>1 DEF C!AccountRow
  <2> HIDE DEF x
  <2> QED
    BY <1>3, <2>1, <2>2
<1>5. ASSUME NEW a \in Accounts, NEW u \in {u1, u2}, NEW t \in C!Types,
             NEW n \in {"app", "person", "other"}, NEW l \in {0, 1}, C!OpenAccount(a, u, t, n, l)
      PROVE  CaptureInv' /\ C!OpeningStep /\ C!LandingStep
  <2> DEFINE x == [user |-> u, type |-> t, named |-> n, last4 |-> l, opened |-> "user"]
  <2>1. C!ByUser /\ account' = [account EXCEPT ![a] = x] /\ UNCHANGED <<goesBy, captured, inFlight>>
    BY <1>5 DEF C!OpenAccount
  <2>2. x \in C!AccountRow /\ x.opened = "user"
    BY DEF C!AccountRow
  <2> HIDE DEF x
  <2> QED
    BY <1>3, <2>1, <2>2
<1>6. ASSUME NEW u \in {u1, u2}, C!RenameUser(u)
      PROVE  CaptureInv' /\ C!OpeningStep /\ C!LandingStep
  <2>1. C!ByUser /\ UNCHANGED <<account, captured, inFlight>>
    BY <1>6 DEF C!RenameUser
  <2>2. goesBy' \subseteq {u1, u2}
    BY <1>a, <1>6 DEF C!RenameUser
  <2>3. C!There' = C!There
    BY <2>1 DEF C!There
  <2> QED
    BY <1>a, <2>1, <2>2, <2>3, UserMoves, NothingLands
<1> QED
  BY <1>1, <1>2, <1>4, <1>5, <1>6

LEMMA CaptureStep ==
  C!CaptureAssumption /\ CaptureInv /\ [C!Next]_(C!vars)
    => CaptureInv' /\ C!OpeningStep /\ C!LandingStep
<1> SUFFICES ASSUME C!CaptureAssumption, CaptureInv, [C!Next]_(C!vars)
             PROVE  CaptureInv' /\ C!OpeningStep /\ C!LandingStep
  OBVIOUS
<1>1. CASE UNCHANGED C!vars
  <2>1. UNCHANGED <<goesBy, account, captured, inFlight, crossed, edits>>
    BY <1>1 DEF C!vars
  <2>2. C!There' = C!There
    BY <2>1 DEF C!There
  <2>3. C!TypeOK'
    BY <2>1, <2>2 DEF CaptureInv, C!TypeOK
  <2>4. \A e : C!Resolve(e.key, e.user)' = C!Resolve(e.key, e.user)
    BY <2>1, <2>2 DEF C!Resolve, C!Card, C!Specific, C!AnyOf, C!Preferred, C!NameMatch
  <2> QED
    BY <2>1, <2>3, <2>4, NothingLands DEF CaptureInv
<1>2. ASSUME NEW k \in CaptureKeys, NEW s \in Senders, NEW c, C!Receive(k, s, c)
      PROVE  CaptureInv' /\ C!OpeningStep /\ C!LandingStep
  BY <1>2, ReceiveKeeps, NothingLands
<1>3. CASE C!Next
  BY <1>2, <1>3, CommitKeeps, DropKeeps, EditKeeps DEF C!Next
<1> QED
  BY <1>1, <1>3

LEMMA CaptureFacts == CaptureInv => C!TypeOK /\ C!OneRowEach
<1> SUFFICES ASSUME CaptureInv, NEW k \in CaptureKeys, ~crossed
             PROVE  C!Cardinality({r \in captured : r.key = k}) <= 1
  BY DEF CaptureInv, C!OneRowEach
<1> DEFINE S == {r \in captured : r.key = k}
<1>1. \A r, s \in S : r = s
  BY DEF CaptureInv
<1> HIDE DEF S
<1>2. S = {} \/ \E r : S = {r}
  BY <1>1
<1>3. Cardinality({}) = 0 /\ \A r : Cardinality({r}) = 1
  BY FS_EmptySet, FS_Singleton
<1>4. Cardinality(S) <= 1
  BY <1>2, <1>3
<1> QED
  BY <1>4, CaptureCards DEF S
-----------------------------------------------------------------------------
(* PART THREE: PROPOSALS *)

\* Requests of a card on their way to the service.
SentFor(p) == {r \in requests : r.p = p /\ r.res = "sent"}
Made(p) == prop[p].kind # "none"
Done(p) == prop[p].kind # "categorize" => P!Written(p) > 0

\* Each write was asked for and used up its request; only what was proposed has
\* cards and requests; only what was carried out is marked.
Paid ==
  /\ IsFiniteSet(requests)
  /\ \A p \in Ids : asked[p] <= edits /\ P!Written(p) + Cardinality(SentFor(p)) <= asked[p]
ProposedInv ==
  /\ \A p \in Ids : /\ Made(p) => prop[p].to = 2
                    /\ ~Made(p) => writes[p][Home] = 0 /\ writes[p][Other] = 0 /\ p \notin stored
  /\ \A b \in P!Tabs, p \in Ids : card[b][p].at # "none" => Made(p)
  /\ \A r \in requests : Made(r.p) /\ r.id[2] = r.p
MarkedInv ==
  /\ \A r \in requests : r.res = "ok" => Done(r.p)
  /\ \A d \in {"draft", "saved"}, p \in Ids : <<d, p>> \in marked => Made(p) /\ Done(p)
  /\ \A b \in P!Tabs, p \in Ids : card[b][p].applied => Made(p) /\ Done(p)

ProposalsInv == P!TypeOK /\ Paid /\ ProposedInv /\ MarkedInv /\ P!LandsWithAccount

LEMMA ToolKinds ==
  /\ P!AllKinds = {"categorize", "category", "budget", "entry", "bill", "amend", "stop",
                   "drop", "goal", "rule"}
  /\ "none" \notin P!AllKinds
<1>1. P!AllKinds = {"categorize", "category", "budget", "entry", "bill", "amend", "stop",
                   "drop", "goal", "rule"}
  BY DEF P!AllKinds, P!Tool
<1> QED
  BY <1>1

\* An entry and a recurring bill name an account, which the tool and the
\* endpoint both look for.
LEMMA ToolsFind ==
  ASSUME NEW k \in {"entry", "bill"}
  PROVE  "account" \in P!Tool[k].names /\ "account" \in P!Tool[k].checked
<1>1. CASE k = "entry"
  BY <1>1 DEF P!Tool, P!CreateTransaction
<1>2. CASE k = "bill"
  BY <1>2 DEF P!Tool, P!CreateRecurring
<1> QED
  BY <1>1, <1>2

LEMMA ProposalsInit == P!ProposalsAssumption /\ P!Init => ProposalsInv
<1> SUFFICES ASSUME P!ProposalsAssumption, P!Init PROVE ProposalsInv
  OBVIOUS
<1>1. /\ where = Home /\ filed = FALSE /\ taken \in {{}, {Home}}
      /\ plan = [there |-> TRUE, amount |-> 1, label |-> 1, active |-> TRUE]
      /\ prop = [p \in Ids |-> P!NoProp]
      /\ writes = [p \in Ids |-> [s \in P!Spaces |-> 0]]
      /\ asked = [p \in Ids |-> 0] /\ stored = {}
      /\ card = [b \in P!Tabs |-> [p \in Ids |-> P!NoCard]]
      /\ marked = {} /\ requests = {} /\ edits = 0 /\ MaxProposalEdits \in Nat
      /\ Home \in P!Spaces /\ Other \in P!Spaces
  BY DEF P!Init, P!ProposalsAssumption, P!Spaces
<1>2. P!NoProp \in [kind : P!AllKinds \cup {"none"}, space : P!Spaces, external : BOOLEAN,
                    seen : 0..2, to : 0..2] /\ P!NoProp.kind = "none"
  BY <1>1 DEF P!NoProp
<1>3. /\ P!NoCard \in [at : {"none", "draft", "saved"}, applied : BOOLEAN]
      /\ P!NoCard.at = "none" /\ ~P!NoCard.applied
  BY DEF P!NoCard
<1>4. /\ where \in P!Spaces /\ taken \subseteq P!Spaces
      /\ plan \in [there : BOOLEAN, amount : 1..2, label : 1..2, active : BOOLEAN]
      /\ writes \in [Ids -> [P!Spaces -> 0..MaxProposalEdits]]
      /\ asked \in [Ids -> 0..MaxProposalEdits]
      /\ stored \subseteq Ids /\ edits \in 0..MaxProposalEdits
  BY <1>1
<1>5. prop \in [Ids -> [kind : P!AllKinds \cup {"none"}, space : P!Spaces, external : BOOLEAN,
                    seen : 0..2, to : 0..2]]
  BY <1>1, <1>2
<1>6. card \in [P!Tabs -> [Ids -> [at : {"none", "draft", "saved"}, applied : BOOLEAN]]]
  BY <1>1, <1>3
<1>7. filed \in BOOLEAN
  BY Zenon DEF P!Init
<1>8. \A S : marked \subseteq S /\ requests \subseteq S
  BY <1>1
<1>9. P!TypeOK
  BY <1>4, <1>5, <1>6, <1>7, <1>8, Zenon DEF P!TypeOK
<1>10. Paid
  <2>1. \A p \in Ids : SentFor(p) = {} /\ P!Written(p) = 0
    BY <1>1 DEF SentFor, P!Written
  <2>2. IsFiniteSet({}) /\ Cardinality({}) = 0
    BY FS_EmptySet
  <2>3. \A p \in Ids : asked[p] = 0 /\ asked[p] <= edits
    BY <1>1
  <2> QED
    <3>1. \A p \in Ids : P!Written(p) + Cardinality(SentFor(p)) = 0
      BY <2>1, <2>2
    <3>2. requests = {}
      BY <1>1
    <3> QED
      BY <2>2, <2>3, <3>1, <3>2 DEF Paid
<1>11. ProposedInv /\ MarkedInv /\ P!LandsWithAccount
  BY <1>1, <1>2, <1>3 DEF ProposedInv, MarkedInv, Made, P!LandsWithAccount
<1> QED
  BY <1>9, <1>10, <1>11 DEF ProposalsInv

\* What carrying out a proposal does to the rows, and to its count.
LEMMA Carried ==
  ASSUME P!ProposalsAssumption, P!TypeOK, NEW p \in Ids, NEW pr, NEW space \in P!Spaces,
         pr.to = 2, P!Written(p) < MaxProposalEdits, P!Effect(p, pr, space)
  PROVE  /\ plan' \in [there : BOOLEAN, amount : 1..2, label : 1..2, active : BOOLEAN]
         /\ filed' \in BOOLEAN /\ taken' \subseteq P!Spaces
         /\ writes' \in [Ids -> [P!Spaces -> 0..MaxProposalEdits]]
         /\ \A q \in Ids \ {p} : writes'[q] = writes[q]
         /\ P!Written(p)' >= P!Written(p) /\ P!Written(p)' <= P!Written(p) + 1
         /\ pr.kind # "categorize" => P!Written(p)' > 0
         /\ space = Home => writes'[p][Other] = writes[p][Other]
         /\ plan'.label = plan.label
<1>1. /\ plan \in [there : BOOLEAN, amount : 1..2, label : 1..2, active : BOOLEAN]
      /\ taken \subseteq P!Spaces /\ writes \in [Ids -> [P!Spaces -> 0..MaxProposalEdits]]
      /\ MaxProposalEdits \in Nat /\ Home # Other /\ P!Spaces = {Home, Other}
  BY DEF P!TypeOK, P!ProposalsAssumption, P!Spaces
<1>2. /\ plan' = CASE pr.kind = "amend" -> [plan EXCEPT !.amount = 2]
                   [] pr.kind = "stop" -> [plan EXCEPT !.active = FALSE]
                   [] pr.kind = "drop" -> [plan EXCEPT !.there = FALSE]
                   [] OTHER -> plan
      /\ taken' = IF pr.kind = "category" THEN taken \cup {space} ELSE taken
      /\ writes' = IF pr.kind = "categorize" /\ space # Home THEN writes
                   ELSE [writes EXCEPT ![p][space] = @ + 1]
  BY DEF P!Effect, P!Amended
<1>3. filed' \in BOOLEAN
  BY DEF P!Effect
<1>4. taken' \subseteq P!Spaces
  BY <1>1, <1>2
<1>5. /\ plan' \in [there : BOOLEAN, amount : 1..2, label : 1..2, active : BOOLEAN]
      /\ plan'.label = plan.label
  <2>1. CASE pr.kind = "amend"
    BY <1>1, <1>2, <2>1
  <2>2. CASE pr.kind = "stop"
    BY <1>1, <1>2, <2>2
  <2>3. CASE pr.kind = "drop"
    BY <1>1, <1>2, <2>3
  <2>4. CASE pr.kind \notin {"amend", "stop", "drop"}
    BY <1>1, <1>2, <2>4
  <2> QED
    BY <2>1, <2>2, <2>3, <2>4
<1>6. P!Written(p) = writes[p][Home] + writes[p][Other]
      /\ P!Written(p)' = writes'[p][Home] + writes'[p][Other]
  BY DEF P!Written
<1>7. writes[p][Home] \in Nat /\ writes[p][Other] \in Nat
  BY <1>1
<1>8. CASE pr.kind = "categorize" /\ space # Home
  <2>1. writes' = writes
    BY <1>2, <1>8
  <2>2. P!Written(p)' = P!Written(p) /\ P!Written(p) \in Nat
    BY <1>6, <1>7, <2>1
  <2> QED
    <3>1. /\ writes' \in [Ids -> [P!Spaces -> 0..MaxProposalEdits]]
          /\ \A q \in Ids \ {p} : writes'[q] = writes[q]
          /\ writes'[p][Other] = writes[p][Other]
      BY <1>1, <2>1
    <3>2. P!Written(p)' >= P!Written(p) /\ P!Written(p)' <= P!Written(p) + 1
      BY <2>2
    <3> QED
      BY <1>3, <1>4, <1>5, <1>8, <3>1, <3>2
<1>9. CASE ~(pr.kind = "categorize" /\ space # Home)
  <2> DEFINE up == [writes[p] EXCEPT ![space] = @ + 1]
  <2>1. writes' = [writes EXCEPT ![p] = up]
    BY <1>2, <1>9
  <2>2. up \in [P!Spaces -> 0..MaxProposalEdits]
    BY <1>1, <1>6, <1>7
  <2>3. \A s \in P!Spaces : up[s] = IF s = space THEN writes[p][s] + 1 ELSE writes[p][s]
    BY <1>1
  <2> HIDE DEF up
  <2>4. /\ writes' \in [Ids -> [P!Spaces -> 0..MaxProposalEdits]]
        /\ \A q \in Ids \ {p} : writes'[q] = writes[q]
        /\ writes'[p] = up
    BY <1>1, <2>1, <2>2
  <2>5. /\ P!Written(p)' = P!Written(p) + 1
        /\ space = Home => writes'[p][Other] = writes[p][Other]
    BY <1>1, <1>6, <1>7, <2>3, <2>4
  <2>6. P!Written(p) \in Nat
    BY <1>6, <1>7
  <2> QED
    BY <1>3, <1>4, <1>5, <2>4, <2>5, <2>6
<1> QED
  BY <1>8, <1>9

\* What is spent on a proposal when it is neither made, written nor sent.
LEMMA PaidKept ==
  ASSUME P!TypeOK, Paid, edits' \in Nat, edits' >= edits, writes' = writes, asked' = asked,
         requests' \subseteq requests
  PROVE  Paid'
<1> SUFFICES ASSUME NEW p \in Ids
             PROVE  /\ IsFiniteSet(requests')
                    /\ asked'[p] <= edits'
                    /\ P!Written(p)' + Cardinality(SentFor(p)') <= asked'[p]
  BY FS_Subset DEF Paid
<1>1. IsFiniteSet(requests') /\ IsFiniteSet(SentFor(p)) /\ SentFor(p)' \subseteq SentFor(p)
  BY FS_Subset DEF Paid, SentFor
<1>2. /\ Cardinality(SentFor(p)') <= Cardinality(SentFor(p))
      /\ Cardinality(SentFor(p)) \in Nat /\ Cardinality(SentFor(p)') \in Nat
  BY <1>1, FS_Subset, FS_CardinalityType
<1>3. P!Written(p)' = P!Written(p)
  BY DEF P!Written
<1>4. P!Written(p) \in Nat /\ asked[p] \in Nat /\ edits \in Nat
  BY DEF P!TypeOK, P!Written, P!Spaces
<1> QED
  BY <1>1, <1>2, <1>3, <1>4 DEF Paid

\* A request that is answered or lost, a card that is mounted, whatever else
\* moves without a write.
LEMMA QuietKeeps ==
  ASSUME ProposalsInv, prop' = prop, writes' = writes, asked' = asked,
         where' \in P!Spaces, edits' \in 0..MaxProposalEdits, edits' >= edits,
         plan' \in [there : BOOLEAN, amount : 1..2, label : 1..2, active : BOOLEAN],
         UNCHANGED <<filed, taken>>, requests' \subseteq requests,
         stored' \subseteq Ids, \A p \in stored' : Made(p),
         card' \in [P!Tabs -> [Ids -> [at : {"none", "draft", "saved"}, applied : BOOLEAN]]],
         \A b \in P!Tabs, p \in Ids : card'[b][p].at # "none" => Made(p),
         \A b \in P!Tabs, p \in Ids : card'[b][p].applied => Made(p) /\ Done(p),
         marked' \subseteq {"draft", "saved"} \X Ids,
         \A d \in {"draft", "saved"}, p \in Ids : <<d, p>> \in marked' => Made(p) /\ Done(p)
  PROVE  ProposalsInv'
<1>0. P!TypeOK /\ Paid /\ ProposedInv /\ MarkedInv /\ P!LandsWithAccount
  BY DEF ProposalsInv
<1>1. P!TypeOK'
  <2>1. requests' \subseteq [tab : P!Tabs, id : {"draft", "saved"} \X Ids, p : Ids,
                             space : P!Spaces, res : {"sent", "ok", "failed"}]
    BY <1>0 DEF P!TypeOK
  <2>2. filed' \in BOOLEAN
    BY <1>0 DEF P!TypeOK
  <2>3. /\ taken' \subseteq P!Spaces
        /\ prop' \in [Ids -> [kind : P!AllKinds \cup {"none"}, space : P!Spaces,
                              external : BOOLEAN, seen : 0..2, to : 0..2]]
        /\ writes' \in [Ids -> [P!Spaces -> 0..MaxProposalEdits]]
        /\ asked' \in [Ids -> 0..MaxProposalEdits]
    BY <1>0 DEF P!TypeOK
  <2> QED
    BY <2>1, <2>2, <2>3, Zenon DEF P!TypeOK
<1>2. \A p : (Made(p)' <=> Made(p)) /\ (Done(p)' <=> Done(p))
  BY DEF Made, Done, P!Written
<1>3. Paid'
  <2>1. edits' \in Nat
    OBVIOUS
  <2> QED
    BY <1>0, <2>1, PaidKept
<1>4. ProposedInv'
  BY <1>0, <1>2 DEF ProposedInv
<1>5. MarkedInv'
  BY <1>0, <1>2 DEF MarkedInv
<1>6. P!LandsWithAccount'
  BY <1>0 DEF P!LandsWithAccount
<1> QED
  BY <1>1, <1>3, <1>4, <1>5, <1>6 DEF ProposalsInv

\* The cards of a tab are mounted, or stay as they are.
LEMMA Mounts ==
  ASSUME ProposalsInv, NEW b \in P!Tabs, NEW S, \A p \in S : Made(p),
         card' = [card EXCEPT ![b] = [p \in Ids |->
                    IF p \in S THEN P!Mounted(p) ELSE card[b][p]]]
  PROVE  /\ card' \in [P!Tabs -> [Ids -> [at : {"none", "draft", "saved"}, applied : BOOLEAN]]]
         /\ \A c \in P!Tabs, p \in Ids : card'[c][p].at # "none" => Made(p)
         /\ \A c \in P!Tabs, p \in Ids : card'[c][p].applied => Made(p) /\ Done(p)
<1>1. /\ card \in [P!Tabs -> [Ids -> [at : {"none", "draft", "saved"}, applied : BOOLEAN]]]
      /\ ProposedInv /\ MarkedInv
  BY DEF ProposalsInv, P!TypeOK
<1>2. \A p \in Ids : /\ P!Mounted(p) \in [at : {"none", "draft", "saved"}, applied : BOOLEAN]
                     /\ P!Mounted(p).applied => Made(p) /\ Done(p)
  <2> SUFFICES ASSUME NEW p \in Ids
               PROVE  /\ P!Mounted(p) \in [at : {"none", "draft", "saved"}, applied : BOOLEAN]
                      /\ P!Mounted(p).applied => Made(p) /\ Done(p)
    OBVIOUS
  <2> DEFINE m == <<"saved", p>> \in marked
  <2>1. P!Mounted(p) = [at |-> "saved", applied |-> m]
    BY DEF P!Mounted
  <2>2. m \in BOOLEAN
    OBVIOUS
  <2>3. m => Made(p) /\ Done(p)
    BY <1>1 DEF MarkedInv
  <2> HIDE DEF m
  <2>4. P!Mounted(p).applied = m
    BY <2>1
  <2>5. P!Mounted(p) \in [at : {"none", "draft", "saved"}, applied : BOOLEAN]
    BY <2>1, <2>2
  <2> QED
    BY <2>3, <2>4, <2>5, Zenon
<1> DEFINE row == [p \in Ids |-> IF p \in S THEN P!Mounted(p) ELSE card[b][p]]
<1>3. /\ row \in [Ids -> [at : {"none", "draft", "saved"}, applied : BOOLEAN]]
      /\ \A p \in Ids : row[p].at # "none" => Made(p)
      /\ \A p \in Ids : row[p].applied => Made(p) /\ Done(p)
  BY <1>1, <1>2 DEF ProposedInv, MarkedInv
<1> HIDE DEF row
<1>4. card' = [card EXCEPT ![b] = row]
  BY DEF row
<1>5. /\ card' \in [P!Tabs -> [Ids -> [at : {"none", "draft", "saved"}, applied : BOOLEAN]]]
      /\ \A c \in P!Tabs : card'[c] = IF c = b THEN row ELSE card[c]
  BY <1>1, <1>3, <1>4
<1> QED
  BY <1>1, <1>3, <1>5 DEF ProposedInv, MarkedInv

LEMMA ProposalFacts ==
  ASSUME P!ProposalsAssumption, ProposalsInv
  PROVE  /\ P!TypeOK /\ Paid /\ ProposedInv /\ MarkedInv /\ P!LandsWithAccount
         /\ MaxProposalEdits \in Nat /\ edits \in 0..MaxProposalEdits
         /\ where \in P!Spaces /\ stored \subseteq Ids /\ \A p \in stored : Made(p)
         /\ plan \in [there : BOOLEAN, amount : 1..2, label : 1..2, active : BOOLEAN]
         /\ card \in [P!Tabs -> [Ids -> [at : {"none", "draft", "saved"}, applied : BOOLEAN]]]
         /\ marked \subseteq {"draft", "saved"} \X Ids
         /\ requests \subseteq [tab : P!Tabs, id : {"draft", "saved"} \X Ids, p : Ids,
                                space : P!Spaces, res : {"sent", "ok", "failed"}]
         /\ Chat \in P!Tabs
  BY DEF ProposalsInv, P!TypeOK, ProposedInv, P!ProposalsAssumption, P!Tabs

LEMMA ScreensKeep ==
  ASSUME P!ProposalsAssumption, ProposalsInv,
         P!EndTurn \/ P!Switch \/ P!EditRec \/ (\E b \in P!Tabs : P!OpenTab(b))
           \/ (\E r \in requests : P!Answer(r) \/ P!Lose(r))
  PROVE  ProposalsInv' /\ P!LabelStep
<1>0. /\ P!TypeOK /\ Paid /\ ProposedInv /\ MarkedInv /\ P!LandsWithAccount
      /\ MaxProposalEdits \in Nat /\ edits \in 0..MaxProposalEdits
      /\ where \in P!Spaces /\ stored \subseteq Ids /\ \A p \in stored : Made(p)
      /\ plan \in [there : BOOLEAN, amount : 1..2, label : 1..2, active : BOOLEAN]
      /\ card \in [P!Tabs -> [Ids -> [at : {"none", "draft", "saved"}, applied : BOOLEAN]]]
      /\ marked \subseteq {"draft", "saved"} \X Ids
      /\ requests \subseteq [tab : P!Tabs, id : {"draft", "saved"} \X Ids, p : Ids,
                             space : P!Spaces, res : {"sent", "ok", "failed"}]
      /\ Chat \in P!Tabs
  BY ProposalFacts
<1>a. /\ \A b \in P!Tabs, p \in Ids : card[b][p].at # "none" => Made(p)
      /\ \A b \in P!Tabs, p \in Ids : card[b][p].applied => Made(p) /\ Done(p)
      /\ \A d \in {"draft", "saved"}, p \in Ids : <<d, p>> \in marked => Made(p) /\ Done(p)
  BY <1>0 DEF ProposedInv, MarkedInv
<1>b. edits \in Nat /\ edits >= edits
  BY <1>0
<1>c. UNCHANGED plan => P!LabelStep
  BY DEF P!LabelStep
<1>d. ASSUME P!Bounded PROVE edits' \in 0..MaxProposalEdits /\ edits' >= edits
  BY <1>0, <1>d DEF P!Bounded
<1>1. ASSUME P!EndTurn PROVE ProposalsInv' /\ P!LabelStep
  <2> DEFINE drafts == {p \in Ids : card[Chat][p].at = "draft"}
  <2>1. /\ stored' = stored \cup drafts
        /\ card' = [card EXCEPT ![Chat] = [p \in Ids |->
                      IF p \in drafts THEN P!Mounted(p) ELSE card[Chat][p]]]
        /\ UNCHANGED <<where, plan, filed, taken, prop, writes, asked, marked, requests, edits>>
    BY <1>1 DEF P!EndTurn
  <2>2. drafts \subseteq Ids /\ \A p \in drafts : Made(p)
    BY <1>0, <1>a
  <2> HIDE DEF drafts
  <2>3. /\ card' \in [P!Tabs -> [Ids -> [at : {"none", "draft", "saved"}, applied : BOOLEAN]]]
        /\ \A c \in P!Tabs, p \in Ids : card'[c][p].at # "none" => Made(p)
        /\ \A c \in P!Tabs, p \in Ids : card'[c][p].applied => Made(p) /\ Done(p)
    BY <1>0, <2>1, <2>2, Mounts
  <2> QED
    BY <1>0, <1>a, <1>b, <1>c, <2>1, <2>2, <2>3, QuietKeeps
<1>2. ASSUME NEW b \in P!Tabs, P!OpenTab(b) PROVE ProposalsInv' /\ P!LabelStep
  <2>1. /\ card' = [card EXCEPT ![b] = [p \in Ids |->
                      IF p \in stored THEN P!Mounted(p) ELSE card[b][p]]]
        /\ UNCHANGED <<where, plan, filed, taken, prop, writes, asked, stored, marked,
                       requests, edits>>
    BY <1>2 DEF P!OpenTab
  <2>3. /\ card' \in [P!Tabs -> [Ids -> [at : {"none", "draft", "saved"}, applied : BOOLEAN]]]
        /\ \A c \in P!Tabs, p \in Ids : card'[c][p].at # "none" => Made(p)
        /\ \A c \in P!Tabs, p \in Ids : card'[c][p].applied => Made(p) /\ Done(p)
    BY <1>0, <2>1, Mounts
  <2> QED
    BY <1>0, <1>a, <1>b, <1>c, <2>1, <2>3, QuietKeeps
<1>3. ASSUME NEW r \in requests, P!Answer(r) PROVE ProposalsInv' /\ P!LabelStep
  <2>1. /\ requests' = requests \ {r}
        /\ marked' = IF r.res = "ok" THEN marked \cup {r.id} ELSE marked
        /\ card' = IF r.res = "ok" /\ card[r.tab][r.p].at = r.id[1]
                   THEN [card EXCEPT ![r.tab][r.p].applied = TRUE] ELSE card
        /\ UNCHANGED <<where, plan, filed, taken, prop, writes, asked, stored, edits>>
    BY <1>3 DEF P!Answer
  <2>2. /\ r.tab \in P!Tabs /\ r.p \in Ids /\ r.id \in {"draft", "saved"} \X Ids
        /\ Made(r.p) /\ r.id[2] = r.p
        /\ r.res = "ok" => Done(r.p)
    BY <1>0 DEF ProposedInv, MarkedInv
  <2>3. /\ marked' \subseteq {"draft", "saved"} \X Ids
        /\ \A d \in {"draft", "saved"}, p \in Ids : <<d, p>> \in marked' => Made(p) /\ Done(p)
    <3>1. \A d, p : <<d, p>> = r.id => p = r.p
      BY <2>2
    <3> QED
      BY <1>0, <1>a, <2>1, <2>2, <3>1
  <2>4. /\ card' \in [P!Tabs -> [Ids -> [at : {"none", "draft", "saved"}, applied : BOOLEAN]]]
        /\ \A b \in P!Tabs, p \in Ids : card'[b][p].at # "none" => Made(p)
        /\ \A b \in P!Tabs, p \in Ids : card'[b][p].applied => Made(p) /\ Done(p)
    <3> DEFINE x == [card[r.tab][r.p] EXCEPT !.applied = TRUE]
               row == [card[r.tab] EXCEPT ![r.p] = x]
    <3>1. CASE r.res = "ok" /\ card[r.tab][r.p].at = r.id[1]
      <4>1. card' = [card EXCEPT ![r.tab] = row]
        BY <2>1, <3>1
      <4>2. x \in [at : {"none", "draft", "saved"}, applied : BOOLEAN]
        <5>1. card[r.tab][r.p] \in [at : {"none", "draft", "saved"}, applied : BOOLEAN]
          BY <1>0, <2>2
        <5> QED
          BY <5>1
      <4> HIDE DEF x
      <4>3. /\ row \in [Ids -> [at : {"none", "draft", "saved"}, applied : BOOLEAN]]
            /\ \A p \in Ids : p = r.p \/ row[p] = card[r.tab][p]
        BY <1>0, <2>2, <4>2
      <4> HIDE DEF row
      <4>4. /\ card' \in [P!Tabs -> [Ids -> [at : {"none", "draft", "saved"}, applied : BOOLEAN]]]
            /\ \A b \in P!Tabs : card'[b] = IF b = r.tab THEN row ELSE card[b]
        BY <1>0, <2>2, <4>1, <4>3
      <4>5. \A b \in P!Tabs, p \in Ids :
              (b = r.tab /\ p = r.p) \/ card'[b][p] = card[b][p]
        BY <4>3, <4>4
      <4>6. Made(r.p) /\ Done(r.p)
        BY <2>2, <3>1
      <4> QED
        BY <1>a, <4>4, <4>5, <4>6
    <3>2. CASE ~(r.res = "ok" /\ card[r.tab][r.p].at = r.id[1])
      BY <1>0, <1>a, <2>1, <3>2
    <3> QED
      BY <3>1, <3>2
  <2> QED
    BY <1>0, <1>b, <1>c, <2>1, <2>3, <2>4, QuietKeeps
<1>4. ASSUME NEW r \in requests, P!Lose(r) PROVE ProposalsInv' /\ P!LabelStep
  <2>1. /\ P!Bounded /\ requests' = requests \ {r}
        /\ UNCHANGED <<where, plan, filed, taken, prop, writes, asked, stored, card, marked>>
    BY <1>4 DEF P!Lose
  <2> QED
    BY <1>0, <1>a, <1>c, <1>d, <2>1, QuietKeeps
<1>5. ASSUME P!Switch PROVE ProposalsInv' /\ P!LabelStep
  <2>1. /\ P!Bounded /\ where' \in P!Spaces
        /\ UNCHANGED <<plan, filed, taken, prop, writes, asked, stored, card, marked, requests>>
    BY <1>5 DEF P!Switch, P!Spaces
  <2> QED
    BY <1>0, <1>a, <1>c, <1>d, <2>1, QuietKeeps
<1>6. ASSUME P!EditRec PROVE ProposalsInv' /\ P!LabelStep
  <2>1. /\ P!Bounded /\ plan' \in {[plan EXCEPT !.label = 2], [plan EXCEPT !.there = FALSE]}
        /\ UNCHANGED <<where, filed, taken, prop, writes, asked, stored, card, marked, requests>>
    BY <1>6 DEF P!EditRec
  <2>2. /\ plan' \in [there : BOOLEAN, amount : 1..2, label : 1..2, active : BOOLEAN]
        /\ plan'.label \in {plan.label, 2}
    <3>1. CASE plan' = [plan EXCEPT !.label = 2]
      BY <1>0, <3>1
    <3>2. CASE plan' = [plan EXCEPT !.there = FALSE]
      BY <1>0, <3>2
    <3> QED
      BY <2>1, <3>1, <3>2
  <2>3. P!LabelStep
    BY <2>2 DEF P!LabelStep
  <2> QED
    BY <1>0, <1>a, <1>d, <2>1, <2>2, <2>3, QuietKeeps
<1> QED
  BY <1>1, <1>2, <1>3, <1>4, <1>5, <1>6

\* The types, put back together from what an action says of each variable.
LEMMA TypedAgain ==
  ASSUME filed' \in BOOLEAN, where' \in P!Spaces, taken' \subseteq P!Spaces,
         plan' \in [there : BOOLEAN, amount : 1..2, label : 1..2, active : BOOLEAN],
         prop' \in [Ids -> [kind : P!AllKinds \cup {"none"}, space : P!Spaces,
                            external : BOOLEAN, seen : 0..2, to : 0..2]],
         writes' \in [Ids -> [P!Spaces -> 0..MaxProposalEdits]],
         asked' \in [Ids -> 0..MaxProposalEdits], stored' \subseteq Ids,
         card' \in [P!Tabs -> [Ids -> [at : {"none", "draft", "saved"}, applied : BOOLEAN]]],
         marked' \subseteq {"draft", "saved"} \X Ids,
         requests' \subseteq [tab : P!Tabs, id : {"draft", "saved"} \X Ids, p : Ids,
                              space : P!Spaces, res : {"sent", "ok", "failed"}],
         edits' \in 0..MaxProposalEdits
  PROVE  P!TypeOK'
  BY Zenon DEF P!TypeOK

\* An amount is asked for once more.
LEMMA AskedAgain ==
  ASSUME ProposalsInv, P!ProposalsAssumption, P!Bounded, NEW p \in Ids,
         asked' = [asked EXCEPT ![p] = @ + 1]
  PROVE  /\ asked' \in [Ids -> 0..MaxProposalEdits] /\ edits' \in 0..MaxProposalEdits
         /\ asked'[p] = asked[p] + 1 /\ \A q \in Ids \ {p} : asked'[q] = asked[q]
         /\ \A q \in Ids : asked'[q] <= edits'
<1>1. /\ asked \in [Ids -> 0..MaxProposalEdits] /\ edits \in 0..MaxProposalEdits
      /\ MaxProposalEdits \in Nat /\ \A q \in Ids : asked[q] <= edits
  BY DEF ProposalsInv, P!TypeOK, Paid, P!ProposalsAssumption
<1>2. edits < MaxProposalEdits /\ edits' = edits + 1
  BY DEF P!Bounded
<1>3. asked[p] + 1 \in 0..MaxProposalEdits
  BY <1>1, <1>2
<1> QED
  BY <1>1, <1>2, <1>3

LEMMA ClickKeeps ==
  ASSUME P!ProposalsAssumption, ProposalsInv, NEW b \in P!Tabs, NEW p \in Ids, P!Click(b, p)
  PROVE  ProposalsInv' /\ P!LabelStep
<1> DEFINE new == P!Sent(b, p, "sent")
<1>0. P!TypeOK /\ Paid /\ ProposedInv /\ MarkedInv /\ P!LandsWithAccount /\ where \in P!Spaces
  BY ProposalFacts
<1>1. /\ P!Bounded /\ card[b][p].at # "none"
      /\ requests' = requests \cup {new} /\ asked' = [asked EXCEPT ![p] = @ + 1]
      /\ UNCHANGED <<where, plan, filed, taken, prop, writes, stored, card, marked>>
  BY DEF P!Click
<1>2. Made(p)
  BY <1>0, <1>1 DEF ProposedInv
<1>3. card[b][p].at \in {"draft", "saved"}
  BY <1>0, <1>1 DEF P!TypeOK
<1>4. /\ new \in [tab : P!Tabs, id : {"draft", "saved"} \X Ids, p : Ids,
                  space : P!Spaces, res : {"sent", "ok", "failed"}]
      /\ new.p = p /\ new.id[2] = p /\ new.res = "sent"
  BY <1>0, <1>3 DEF P!Sent
<1> HIDE DEF new
<1>5. /\ asked' \in [Ids -> 0..MaxProposalEdits] /\ edits' \in 0..MaxProposalEdits
      /\ asked'[p] = asked[p] + 1 /\ \A q \in Ids \ {p} : asked'[q] = asked[q]
      /\ \A q \in Ids : asked'[q] <= edits'
  BY <1>1, AskedAgain
<1>6. P!TypeOK'
  <2>1. requests' \subseteq [tab : P!Tabs, id : {"draft", "saved"} \X Ids, p : Ids,
                             space : P!Spaces, res : {"sent", "ok", "failed"}]
    BY <1>0, <1>1, <1>4 DEF P!TypeOK
  <2>2. filed' \in BOOLEAN
    BY <1>0, <1>1 DEF P!TypeOK
  <2>3. /\ where' \in P!Spaces /\ taken' \subseteq P!Spaces
        /\ plan' \in [there : BOOLEAN, amount : 1..2, label : 1..2, active : BOOLEAN]
        /\ prop' \in [Ids -> [kind : P!AllKinds \cup {"none"}, space : P!Spaces,
                              external : BOOLEAN, seen : 0..2, to : 0..2]]
        /\ writes' \in [Ids -> [P!Spaces -> 0..MaxProposalEdits]]
        /\ stored' \subseteq Ids
        /\ card' \in [P!Tabs -> [Ids -> [at : {"none", "draft", "saved"}, applied : BOOLEAN]]]
        /\ marked' \subseteq {"draft", "saved"} \X Ids
    BY <1>0, <1>1 DEF P!TypeOK
  <2> QED
    BY <1>5, <2>1, <2>2, <2>3, TypedAgain
<1>7. \A q : (Made(q)' <=> Made(q)) /\ (Done(q)' <=> Done(q))
  BY <1>1 DEF Made, Done, P!Written
<1>8. Paid'
  <2>1. IsFiniteSet(requests) /\ IsFiniteSet(requests')
    BY <1>0, <1>1, FS_AddElement DEF Paid
  <2>2. ASSUME NEW q \in Ids
        PROVE  P!Written(q)' + Cardinality(SentFor(q)') <= asked'[q]
    <3>1. IsFiniteSet(SentFor(q)) /\ Cardinality(SentFor(q)) \in Nat
      BY <2>1, FS_Subset, FS_CardinalityType DEF SentFor
    <3>2. /\ P!Written(q)' = P!Written(q) /\ P!Written(q) \in Nat /\ asked[q] \in Nat
          /\ P!Written(q) + Cardinality(SentFor(q)) <= asked[q]
      BY <1>0, <1>1 DEF P!Written, P!TypeOK, P!Spaces, Paid
    <3>3. CASE q = p
      <4>1. SentFor(q)' = SentFor(q) \cup {new}
        BY <1>1, <1>4, <3>3 DEF SentFor
      <4>2. Cardinality(SentFor(q)') <= Cardinality(SentFor(q)) + 1
            /\ Cardinality(SentFor(q)') \in Nat
        <5>1. /\ IsFiniteSet(SentFor(q) \cup {new})
              /\ Cardinality(SentFor(q) \cup {new}) \in
                   {Cardinality(SentFor(q)), Cardinality(SentFor(q)) + 1}
          BY <3>1, FS_AddElement
        <5> QED
          BY <3>1, <4>1, <5>1
      <4> QED
        BY <1>5, <3>1, <3>2, <3>3, <4>2
    <3>4. CASE q # p
      <4>1. SentFor(q)' = SentFor(q)
        BY <1>1, <1>4, <3>4 DEF SentFor
      <4> QED
        BY <1>5, <3>1, <3>2, <3>4, <4>1
    <3> QED
      BY <3>3, <3>4
  <2> QED
    BY <1>5, <2>1, <2>2 DEF Paid
<1>9. ProposedInv'
  BY <1>0, <1>1, <1>2, <1>4, <1>7 DEF ProposedInv
<1>10. MarkedInv'
  BY <1>0, <1>1, <1>4, <1>7 DEF MarkedInv
<1>11. P!LandsWithAccount' /\ P!LabelStep
  BY <1>0, <1>1 DEF P!LandsWithAccount, P!LabelStep
<1> QED
  BY <1>6, <1>8, <1>9, <1>10, <1>11 DEF ProposalsInv

LEMMA ServeKeeps ==
  ASSUME P!ProposalsAssumption, ProposalsInv, NEW r \in requests, P!Serve(r)
  PROVE  ProposalsInv' /\ P!LabelStep
<1> DEFINE ok == P!Accepts(r.p, prop[r.p], r.space)
           new == [r EXCEPT !.res = IF ok THEN "ok" ELSE "failed"]
<1>0. P!TypeOK /\ Paid /\ ProposedInv /\ MarkedInv /\ P!LandsWithAccount
      /\ MaxProposalEdits \in Nat
  BY ProposalFacts
<1>1. /\ r.res = "sent" /\ requests' = (requests \ {r}) \cup {new}
      /\ IF ok THEN P!Effect(r.p, prop[r.p], r.space) ELSE UNCHANGED P!World
      /\ UNCHANGED <<where, prop, asked, stored, card, marked, edits>>
  BY DEF P!Serve
<1>2. /\ r \in [tab : P!Tabs, id : {"draft", "saved"} \X Ids, p : Ids,
                space : P!Spaces, res : {"sent", "ok", "failed"}]
      /\ Made(r.p) /\ r.id[2] = r.p /\ prop[r.p].to = 2
  BY <1>0 DEF P!TypeOK, ProposedInv
<1>3. /\ new \in [tab : P!Tabs, id : {"draft", "saved"} \X Ids, p : Ids,
                  space : P!Spaces, res : {"sent", "ok", "failed"}]
      /\ new.p = r.p /\ new.id[2] = r.p /\ new.res = IF ok THEN "ok" ELSE "failed"
  BY <1>2
<1>4. /\ asked \in [Ids -> 0..MaxProposalEdits] /\ edits \in 0..MaxProposalEdits
      /\ \A q \in Ids : P!Written(q) \in Nat /\ asked[q] <= edits
  BY <1>0 DEF P!TypeOK, P!Written, P!Spaces, Paid
<1>5. IsFiniteSet(requests) /\ \A q : IsFiniteSet(SentFor(q)) /\ Cardinality(SentFor(q)) \in Nat
  BY <1>0, FS_Subset, FS_CardinalityType DEF Paid, SentFor
<1> HIDE DEF new, ok
<1>6. /\ SentFor(r.p)' = SentFor(r.p) \ {r} /\ r \in SentFor(r.p)
      /\ \A q \in Ids \ {r.p} : SentFor(q)' = SentFor(q)
  BY <1>1, <1>3 DEF SentFor
<1>7. Cardinality(SentFor(r.p)') = Cardinality(SentFor(r.p)) - 1
  BY <1>5, <1>6, FS_RemoveElement
<1>8. P!Written(r.p) < asked[r.p]
  BY <1>0, <1>2, <1>4, <1>5, <1>6, <1>7, FS_Subset, FS_CardinalityType DEF Paid
<1>9. /\ plan' \in [there : BOOLEAN, amount : 1..2, label : 1..2, active : BOOLEAN]
      /\ filed' \in BOOLEAN /\ taken' \subseteq P!Spaces
      /\ writes' \in [Ids -> [P!Spaces -> 0..MaxProposalEdits]]
      /\ \A q \in Ids \ {r.p} : writes'[q] = writes[q]
      /\ P!Written(r.p)' >= P!Written(r.p) /\ P!Written(r.p)' <= P!Written(r.p) + 1
      /\ ok /\ prop[r.p].kind # "categorize" => P!Written(r.p)' > 0
      /\ ~ok \/ r.space = Home => writes'[r.p][Other] = writes[r.p][Other]
      /\ plan'.label = plan.label
  <2>1. CASE ok
    <3>1. P!Written(r.p) < MaxProposalEdits
      BY <1>0, <1>2, <1>4, <1>8
    <3> QED
      BY <1>0, <1>1, <1>2, <2>1, <3>1, Carried
  <2>2. CASE ~ok
    <3>1. UNCHANGED <<plan, filed, taken, writes>>
      BY <1>1, <2>2 DEF P!World
    <3>2. filed' \in BOOLEAN
      BY <1>0, <3>1 DEF P!TypeOK
    <3>3. P!Written(r.p)' = P!Written(r.p)
      BY <3>1 DEF P!Written
    <3> QED
      BY <1>0, <1>2, <1>4, <2>2, <3>1, <3>2, <3>3 DEF P!TypeOK
  <2> QED
    BY <2>1, <2>2
<1>10. P!TypeOK'
  <2>1. requests' \subseteq [tab : P!Tabs, id : {"draft", "saved"} \X Ids, p : Ids,
                             space : P!Spaces, res : {"sent", "ok", "failed"}]
    BY <1>0, <1>1, <1>3 DEF P!TypeOK
  <2>2. /\ where' \in P!Spaces
        /\ prop' \in [Ids -> [kind : P!AllKinds \cup {"none"}, space : P!Spaces,
                              external : BOOLEAN, seen : 0..2, to : 0..2]]
        /\ asked' \in [Ids -> 0..MaxProposalEdits]
        /\ stored' \subseteq Ids /\ edits' \in 0..MaxProposalEdits
        /\ card' \in [P!Tabs -> [Ids -> [at : {"none", "draft", "saved"}, applied : BOOLEAN]]]
        /\ marked' \subseteq {"draft", "saved"} \X Ids
    BY <1>0, <1>1 DEF P!TypeOK
  <2> QED
    BY <1>9, <2>1, <2>2, TypedAgain
<1>11. \A q \in Ids : /\ q = r.p \/ P!Written(q)' = P!Written(q)
                      /\ Made(q)' <=> Made(q)
                      /\ Done(q) => Done(q)'
  <2>1. \A q \in Ids \ {r.p} : P!Written(q)' = P!Written(q)
    BY <1>9 DEF P!Written
  <2>2. P!Written(r.p) > 0 => P!Written(r.p)' > 0
    BY <1>2, <1>4, <1>9, <1>10 DEF P!Written, P!TypeOK, P!Spaces
  <2> QED
    BY <1>1, <2>1, <2>2 DEF Made, Done
<1>12. Paid'
  <2>1. IsFiniteSet(requests')
    BY <1>1, <1>5, FS_Subset, FS_AddElement
  <2>2. ASSUME NEW q \in Ids
        PROVE  P!Written(q)' + Cardinality(SentFor(q)') <= asked'[q]
    <3>1. /\ P!Written(q) + Cardinality(SentFor(q)) <= asked[q] /\ asked'[q] = asked[q]
          /\ P!Written(q)' \in Nat
      BY <1>0, <1>1, <1>10 DEF Paid, P!Written, P!TypeOK, P!Spaces
    <3>2. CASE q = r.p
      BY <1>4, <1>5, <1>7, <1>9, <3>1, <3>2
    <3>3. CASE q # r.p
      BY <1>4, <1>5, <1>6, <1>11, <3>1, <3>3
    <3> QED
      BY <3>2, <3>3
  <2> QED
    BY <1>1, <1>4, <2>1, <2>2 DEF Paid
<1>13. ProposedInv'
  <2>1. \A q \in Ids : /\ Made(q)' => prop'[q].to = 2
                       /\ ~Made(q)' => /\ writes'[q][Home] = 0 /\ writes'[q][Other] = 0
                                       /\ q \notin stored'
    BY <1>0, <1>1, <1>2, <1>9, <1>11 DEF ProposedInv
  <2>2. \A b \in P!Tabs, q \in Ids : card'[b][q].at # "none" => Made(q)'
    BY <1>0, <1>1, <1>11 DEF ProposedInv
  <2>3. \A q \in requests' : Made(q.p)' /\ q.id[2] = q.p
    BY <1>0, <1>1, <1>2, <1>3, <1>11 DEF ProposedInv, P!TypeOK
  <2> QED
    BY <2>1, <2>2, <2>3 DEF ProposedInv
<1>14. MarkedInv'
  <2>1. new.res = "ok" => Done(r.p)'
    BY <1>1, <1>3, <1>9 DEF Done
  <2>2. \A q \in requests' : q.res = "ok" => Done(q.p)'
    BY <1>0, <1>1, <1>3, <1>11, <2>1 DEF MarkedInv, P!TypeOK
  <2> QED
    BY <1>0, <1>1, <1>11, <2>2 DEF MarkedInv
<1>15. P!LandsWithAccount'
  <2>1. ok /\ prop[r.p].kind \in {"entry", "bill"} => r.space = Home
    BY ToolsFind DEF ok, P!Accepts, P!Found
  <2> QED
    BY <1>0, <1>1, <1>9, <2>1 DEF P!LandsWithAccount
<1>16. P!LabelStep
  BY <1>9 DEF P!LabelStep
<1> QED
  BY <1>10, <1>12, <1>13, <1>14, <1>15, <1>16 DEF ProposalsInv

\* A new proposal, which nobody has clicked yet, and may be carried out at once.
LEMMA ProposalMade ==
  ASSUME P!ProposalsAssumption, ProposalsInv, NEW p \in Ids, ~Made(p),
         NEW pr \in [kind : P!AllKinds \cup {"none"}, space : P!Spaces, external : BOOLEAN,
                     seen : 0..2, to : 0..2], pr.kind # "none", pr.to = 2,
         prop' = [prop EXCEPT ![p] = pr],
         \A q \in Ids \ {p} : writes'[q] = writes[q],
         writes' \in [Ids -> [P!Spaces -> 0..MaxProposalEdits]],
         pr.kind \in {"entry", "bill"} => writes'[p][Other] = 0,
         asked' \in [Ids -> 0..MaxProposalEdits], P!Written(p)' <= asked'[p],
         \A q \in Ids : asked[q] <= asked'[q] /\ asked'[q] <= edits',
         edits' \in 0..MaxProposalEdits,
         plan' \in [there : BOOLEAN, amount : 1..2, label : 1..2, active : BOOLEAN],
         filed' \in BOOLEAN, taken' \subseteq P!Spaces,
         card' \in [P!Tabs -> [Ids -> [at : {"none", "draft", "saved"}, applied : BOOLEAN]]],
         \A b \in P!Tabs, q \in Ids : q = p \/ card'[b][q] = card[b][q],
         \A b \in P!Tabs : ~card'[b][p].applied,
         UNCHANGED <<where, stored, marked, requests>>
  PROVE  ProposalsInv'
<1>0. P!TypeOK /\ Paid /\ ProposedInv /\ MarkedInv /\ P!LandsWithAccount
  BY ProposalFacts
<1>1. /\ prop' \in [Ids -> [kind : P!AllKinds \cup {"none"}, space : P!Spaces,
                            external : BOOLEAN, seen : 0..2, to : 0..2]]
      /\ prop'[p] = pr /\ \A q \in Ids \ {p} : prop'[q] = prop[q]
  BY <1>0 DEF P!TypeOK
<1>2. P!TypeOK'
  <2>1. /\ where' \in P!Spaces /\ stored' \subseteq Ids
        /\ marked' \subseteq {"draft", "saved"} \X Ids
        /\ requests' \subseteq [tab : P!Tabs, id : {"draft", "saved"} \X Ids, p : Ids,
                                space : P!Spaces, res : {"sent", "ok", "failed"}]
    BY <1>0 DEF P!TypeOK
  <2> QED
    BY <1>1, <2>1, TypedAgain
<1>3. \A q \in Ids : /\ Made(q)' <=> q = p \/ Made(q)
                     /\ q = p \/ (Done(q)' <=> Done(q))
                     /\ q = p \/ P!Written(q)' = P!Written(q)
  BY <1>1 DEF Made, Done, P!Written
<1>4. \A r \in requests : r.p \in Ids /\ r.p # p
  BY <1>0 DEF P!TypeOK, ProposedInv
<1>5. Paid'
  <2>1. IsFiniteSet(requests')
    BY <1>0 DEF Paid
  <2>2. ASSUME NEW q \in Ids
        PROVE  P!Written(q)' + Cardinality(SentFor(q)') <= asked'[q]
    <3>1. SentFor(q)' = SentFor(q)
      BY DEF SentFor
    <3>2. /\ P!Written(q) \in Nat /\ P!Written(q)' \in Nat /\ asked[q] \in Nat
          /\ asked'[q] \in Nat /\ asked[q] <= asked'[q]
      BY <1>0, <1>2 DEF P!Written, P!TypeOK, P!Spaces
    <3>3. /\ Cardinality(SentFor(q)) \in Nat
          /\ P!Written(q) + Cardinality(SentFor(q)) <= asked[q]
      BY <1>0, FS_Subset, FS_CardinalityType DEF Paid, SentFor
    <3>4. CASE q = p
      <4>1. SentFor(p) = {}
        BY <1>4 DEF SentFor
      <4>2. Cardinality(SentFor(p)) = 0
        BY <4>1, FS_EmptySet
      <4> QED
        BY <3>1, <3>2, <3>4, <4>2
    <3>5. CASE q # p
      BY <1>3, <3>1, <3>2, <3>3, <3>5
    <3> QED
      BY <3>4, <3>5
  <2> QED
    BY <2>1, <2>2 DEF Paid
<1>6. ProposedInv'
  <2>1. \A q \in Ids : /\ Made(q)' => prop'[q].to = 2
                       /\ ~Made(q)' => /\ writes'[q][Home] = 0 /\ writes'[q][Other] = 0
                                       /\ q \notin stored'
    BY <1>0, <1>1, <1>3 DEF ProposedInv
  <2>2. \A b \in P!Tabs, q \in Ids : card'[b][q].at # "none" => Made(q)'
    <3>1. \A b \in P!Tabs, q \in Ids : card[b][q].at # "none" => Made(q)
      BY <1>0 DEF ProposedInv
    <3>2. ASSUME NEW b \in P!Tabs, NEW q \in Ids, card'[b][q].at # "none", q # p
          PROVE  Made(q)
      <4>1. card'[b][q] = card[b][q]
        BY <3>2
      <4> QED
        BY <3>1, <3>2, <4>1
    <3> QED
      BY <3>2, <1>3
  <2>3. \A q \in requests' : Made(q.p)' /\ q.id[2] = q.p
    BY <1>0, <1>3, <1>4 DEF ProposedInv
  <2> QED
    BY <2>1, <2>2, <2>3 DEF ProposedInv
<1>7. MarkedInv'
  <2>1. \A q \in requests' : q.res = "ok" => Done(q.p)'
    BY <1>0, <1>3, <1>4 DEF MarkedInv
  <2>2. \A d \in {"draft", "saved"}, q \in Ids : <<d, q>> \in marked' => Made(q)' /\ Done(q)'
    BY <1>0, <1>3 DEF MarkedInv
  <2>3. \A b \in P!Tabs, q \in Ids : card'[b][q].applied => Made(q)' /\ Done(q)'
    <3>1. ASSUME NEW b \in P!Tabs, NEW q \in Ids, card'[b][q].applied
          PROVE  Made(q)' /\ Done(q)'
      <4>1. q # p
        BY <3>1
      <4>2. card[b][q].applied
        BY <3>1, <4>1
      <4> QED
        BY <1>0, <1>3, <4>1, <4>2 DEF MarkedInv
    <3> QED
      BY <3>1
  <2> QED
    BY <2>1, <2>2, <2>3 DEF MarkedInv
<1>8. P!LandsWithAccount'
  BY <1>0, <1>1 DEF P!LandsWithAccount
<1> QED
  BY <1>2, <1>5, <1>6, <1>7, <1>8 DEF ProposalsInv

LEMMA NotMade ==
  ASSUME P!ProposalsAssumption, ProposalsInv, NEW p \in Ids, prop[p] = P!NoProp
  PROVE  /\ ~Made(p) /\ P!Written(p) = 0 /\ writes[p][Home] = 0 /\ writes[p][Other] = 0
         /\ \A b \in P!Tabs : ~card[b][p].applied
<1>1. ~Made(p)
  BY DEF Made, P!NoProp
<1> QED
  BY <1>1 DEF ProposalsInv, ProposedInv, MarkedInv, P!Written

LEMMA ProposeKeeps ==
  ASSUME P!ProposalsAssumption, ProposalsInv, NEW p \in Ids, NEW k \in Kinds,
         NEW a \in BOOLEAN, P!Propose(p, k, a)
  PROVE  ProposalsInv' /\ P!LabelStep
<1> DEFINE pr == P!Proposed(k, FALSE, where)
           new == [at |-> "draft", applied |-> FALSE]
           row == [card[Chat] EXCEPT ![p] = new]
<1>0. /\ P!TypeOK /\ Paid /\ where \in P!Spaces /\ Chat \in P!Tabs
      /\ edits \in 0..MaxProposalEdits /\ MaxProposalEdits \in Nat
      /\ plan \in [there : BOOLEAN, amount : 1..2, label : 1..2, active : BOOLEAN]
      /\ card \in [P!Tabs -> [Ids -> [at : {"none", "draft", "saved"}, applied : BOOLEAN]]]
  BY ProposalFacts
<1>1. /\ P!Bounded /\ prop[p] = P!NoProp /\ prop' = [prop EXCEPT ![p] = pr]
      /\ UNCHANGED <<plan, filed, taken, writes>>
      /\ card' = [card EXCEPT ![Chat] = row]
      /\ UNCHANGED <<where, asked, stored, marked, requests>>
  BY DEF P!Propose, P!CanApply, P!World
<1>2. /\ pr \in [kind : P!AllKinds \cup {"none"}, space : P!Spaces, external : BOOLEAN,
                 seen : 0..2, to : 0..2]
      /\ pr.kind # "none" /\ pr.to = 2
  <2>1. k \in P!AllKinds /\ k # "none"
    BY ToolKinds DEF P!ProposalsAssumption
  <2>2. plan.label \in 0..2
    BY <1>0
  <2> QED
    BY <1>0, <2>1, <2>2 DEF P!Proposed
<1> HIDE DEF pr
<1>3. ~Made(p) /\ P!Written(p) = 0 /\ writes[p][Other] = 0 /\ \A b \in P!Tabs : ~card[b][p].applied
  BY <1>1, NotMade
<1>4. new \in [at : {"none", "draft", "saved"}, applied : BOOLEAN] /\ ~new.applied
  OBVIOUS
<1> HIDE DEF new
<1>5. /\ row \in [Ids -> [at : {"none", "draft", "saved"}, applied : BOOLEAN]]
      /\ row[p] = new /\ \A q \in Ids \ {p} : row[q] = card[Chat][q]
  BY <1>0, <1>4
<1> HIDE DEF row
<1>6. /\ card' \in [P!Tabs -> [Ids -> [at : {"none", "draft", "saved"}, applied : BOOLEAN]]]
      /\ \A b \in P!Tabs : card'[b] = IF b = Chat THEN row ELSE card[b]
  BY <1>0, <1>1, <1>5
<1>7. \A b \in P!Tabs, q \in Ids : q = p \/ card'[b][q] = card[b][q]
  BY <1>5, <1>6
<1>8. \A b \in P!Tabs : ~card'[b][p].applied
  BY <1>3, <1>4, <1>5, <1>6
<1>9. edits' \in 0..MaxProposalEdits /\ edits' = edits + 1
  BY <1>0, <1>1 DEF P!Bounded
<1>10. /\ asked' \in [Ids -> 0..MaxProposalEdits]
       /\ \A q \in Ids : asked[q] <= asked'[q] /\ asked'[q] <= edits'
       /\ writes' \in [Ids -> [P!Spaces -> 0..MaxProposalEdits]]
       /\ taken' \subseteq P!Spaces
  BY <1>0, <1>1, <1>9 DEF P!TypeOK, Paid
<1>11. filed' \in BOOLEAN
  BY <1>0, <1>1 DEF P!TypeOK
<1>12. P!Written(p)' <= asked'[p]
  <2>1. P!Written(p)' = 0
    BY <1>1, <1>3 DEF P!Written
  <2> QED
    BY <1>10, <2>1
<1>13. ProposalsInv'
  <2>1. writes'[p][Other] = 0 /\ \A q \in Ids \ {p} : writes'[q] = writes[q]
    BY <1>1, <1>3
  <2> QED
    BY <1>0, <1>1, <1>2, <1>3, <1>6, <1>7, <1>8, <1>9, <1>10, <1>11, <1>12, <2>1, ProposalMade
<1> QED
  BY <1>1, <1>13 DEF P!LabelStep

LEMMA ExternalKeeps ==
  ASSUME P!ProposalsAssumption, ProposalsInv, NEW p \in Ids, NEW k \in Kinds,
         NEW s \in P!Spaces, NEW a \in BOOLEAN, P!External(p, k, s, a)
  PROVE  ProposalsInv' /\ P!LabelStep
<1> DEFINE pr == P!Proposed(k, TRUE, s)
           done == a /\ ~P!Collides(pr, s)
<1>0. /\ P!TypeOK /\ Paid /\ edits \in 0..MaxProposalEdits /\ MaxProposalEdits \in Nat
      /\ plan \in [there : BOOLEAN, amount : 1..2, label : 1..2, active : BOOLEAN]
      /\ card \in [P!Tabs -> [Ids -> [at : {"none", "draft", "saved"}, applied : BOOLEAN]]]
  BY ProposalFacts
<1>1. /\ P!Bounded /\ prop[p] = P!NoProp /\ P!Valid(k, s) /\ prop' = [prop EXCEPT ![p] = pr]
      /\ asked' = IF a THEN [asked EXCEPT ![p] = @ + 1] ELSE asked
      /\ IF done THEN P!Effect(p, pr, s) ELSE UNCHANGED <<plan, filed, taken, writes>>
      /\ UNCHANGED <<where, stored, card, marked, requests>>
  BY DEF P!External, P!CanApply, P!World
<1>2. /\ pr \in [kind : P!AllKinds \cup {"none"}, space : P!Spaces, external : BOOLEAN,
                 seen : 0..2, to : 0..2]
      /\ pr.kind = k /\ pr.kind # "none" /\ pr.to = 2
  <2>1. k \in P!AllKinds /\ k # "none"
    BY ToolKinds DEF P!ProposalsAssumption
  <2>2. plan.label \in 0..2
    BY <1>0
  <2> QED
    BY <1>0, <2>1, <2>2 DEF P!Proposed
<1>3. done => a
  OBVIOUS
<1> HIDE DEF pr, done
<1>4. ~Made(p) /\ P!Written(p) = 0 /\ writes[p][Other] = 0 /\ \A b \in P!Tabs : ~card[b][p].applied
  BY <1>1, NotMade
<1>5. edits < MaxProposalEdits /\ edits' = edits + 1 /\ edits' \in 0..MaxProposalEdits
  BY <1>0, <1>1 DEF P!Bounded
<1>6. /\ asked \in [Ids -> 0..MaxProposalEdits] /\ \A q \in Ids : asked[q] <= edits
  BY <1>0 DEF P!TypeOK, Paid
<1>7. /\ asked' \in [Ids -> 0..MaxProposalEdits]
      /\ \A q \in Ids : asked[q] <= asked'[q] /\ asked'[q] <= edits'
      /\ a => asked'[p] > 0
  <2>1. CASE a
    <3>1. asked[p] + 1 \in 0..MaxProposalEdits
      BY <1>0, <1>5, <1>6
    <3> QED
      BY <1>0, <1>1, <1>5, <1>6, <2>1, <3>1
  <2>2. CASE ~a
    BY <1>0, <1>1, <1>5, <1>6, <2>2
  <2> QED
    BY <2>1, <2>2
<1>8. /\ plan' \in [there : BOOLEAN, amount : 1..2, label : 1..2, active : BOOLEAN]
      /\ filed' \in BOOLEAN /\ taken' \subseteq P!Spaces
      /\ writes' \in [Ids -> [P!Spaces -> 0..MaxProposalEdits]]
      /\ \A q \in Ids \ {p} : writes'[q] = writes[q]
      /\ P!Written(p)' <= asked'[p]
      /\ ~done \/ s = Home => writes'[p][Other] = 0
      /\ plan'.label = plan.label
  <2>1. CASE done
    <3>1. P!Written(p) < MaxProposalEdits
      BY <1>0, <1>4, <1>5
    <3>2. /\ plan' \in [there : BOOLEAN, amount : 1..2, label : 1..2, active : BOOLEAN]
          /\ filed' \in BOOLEAN /\ taken' \subseteq P!Spaces
          /\ writes' \in [Ids -> [P!Spaces -> 0..MaxProposalEdits]]
          /\ \A q \in Ids \ {p} : writes'[q] = writes[q]
          /\ P!Written(p)' <= P!Written(p) + 1
          /\ s = Home => writes'[p][Other] = writes[p][Other]
          /\ plan'.label = plan.label
      BY <1>0, <1>1, <1>2, <2>1, <3>1, Carried
    <3>3. P!Written(p)' <= 1 /\ P!Written(p)' \in Nat
      BY <1>4, <3>2 DEF P!Written, P!Spaces
    <3>4. asked'[p] \in Nat /\ asked'[p] > 0
      BY <1>3, <1>7, <2>1
    <3> QED
      BY <1>4, <2>1, <3>2, <3>3, <3>4
  <2>2. CASE ~done
    <3>1. UNCHANGED <<plan, filed, taken, writes>>
      BY <1>1, <2>2
    <3>2. filed' \in BOOLEAN
      BY <1>0, <3>1 DEF P!TypeOK
    <3>3. P!Written(p)' = 0
      BY <1>4, <3>1 DEF P!Written
    <3>4. asked'[p] \in Nat
      BY <1>7
    <3> QED
      BY <1>0, <1>4, <2>2, <3>1, <3>2, <3>3, <3>4 DEF P!TypeOK
  <2> QED
    BY <2>1, <2>2
<1>9. pr.kind \in {"entry", "bill"} => s = Home
  BY <1>1, <1>2, ToolsFind DEF P!Valid, P!Found
<1>10. ProposalsInv'
  <2>1. /\ card' \in [P!Tabs -> [Ids -> [at : {"none", "draft", "saved"}, applied : BOOLEAN]]]
        /\ \A b \in P!Tabs, q \in Ids : q = p \/ card'[b][q] = card[b][q]
    BY <1>0, <1>1
  <2>2. \A b \in P!Tabs : ~card'[b][p].applied
    BY <1>1, <1>4
  <2>3. pr.kind \in {"entry", "bill"} => writes'[p][Other] = 0
    BY <1>8, <1>9
  <2> QED
    BY <1>1, <1>2, <1>4, <1>5, <1>7, <1>8, <2>1, <2>2, <2>3, ProposalMade
<1> QED
  BY <1>8, <1>10 DEF P!LabelStep

LEMMA ProposalsStep ==
  P!ProposalsAssumption /\ ProposalsInv /\ [P!Next]_(P!vars) => ProposalsInv' /\ P!LabelStep
<1> SUFFICES ASSUME P!ProposalsAssumption, ProposalsInv, [P!Next]_(P!vars)
             PROVE  ProposalsInv' /\ P!LabelStep
  OBVIOUS
<1>1. CASE UNCHANGED P!vars
  <2>1. UNCHANGED <<where, plan, filed, taken, prop, writes, asked, stored, card, marked,
                    requests, edits>>
    BY <1>1 DEF P!vars
  <2>2. edits >= edits
    BY DEF ProposalsInv, P!TypeOK
  <2> QED
    BY <2>1, <2>2, ProposalFacts, QuietKeeps DEF ProposedInv, MarkedInv, P!LabelStep
<1>2. CASE P!Next
  BY <1>2, ScreensKeep, ClickKeeps, ServeKeeps, ProposeKeeps, ExternalKeeps DEF P!Next
<1> QED
  BY <1>1, <1>2

LEMMA CountsAgree ==
  P!ProposalsAssumption /\ ProposalsInv
    => P!TypeOK /\ P!OnlyAsked /\ P!CardTruth /\ P!LandsWithAccount
<1> SUFFICES ASSUME P!ProposalsAssumption, ProposalsInv
             PROVE  P!TypeOK /\ P!OnlyAsked /\ P!CardTruth /\ P!LandsWithAccount
  OBVIOUS
<1>0. P!TypeOK /\ Paid /\ MarkedInv /\ P!LandsWithAccount
  BY DEF ProposalsInv
<1>1. P!OnlyAsked
  <2> SUFFICES ASSUME NEW p \in Ids PROVE P!Written(p) <= asked[p]
    BY DEF P!OnlyAsked
  <2>1. Cardinality(SentFor(p)) \in Nat /\ P!Written(p) + Cardinality(SentFor(p)) <= asked[p]
    BY <1>0, FS_Subset, FS_CardinalityType DEF Paid, SentFor
  <2>2. P!Written(p) \in Nat /\ asked[p] \in Nat
    BY <1>0 DEF P!Written, P!TypeOK, P!Spaces
  <2> QED
    BY <2>1, <2>2
<1>2. P!CardTruth
  BY <1>0 DEF MarkedInv, Done, P!CardTruth
<1> QED
  BY <1>0, <1>1, <1>2
-----------------------------------------------------------------------------
(* PART FOUR: THE HOUSEHOLD *)

\* What a request names was made before it, and nothing is unmade.
RequestsInv ==
  \A u \in Users : request[u].op \in {"invite", "welcome", "role", "remove", "archive", "book"}
                     => request[u].space \in made

HouseInv == H!TypeOK /\ RequestsInv /\ H!AdminRemains

LEMMA Roles4 == H!NoRole \notin H!Roles /\ "owner" \in H!Roles
  BY DEF H!NoRole, H!Roles

LEMMA SpacesAreNat ==
  H!HouseholdAssumption => Workspaces \subseteq Nat /\ 0 \notin Workspaces
  BY DEF H!HouseholdAssumption

LEMMA RequestTyped ==
  ASSUME H!HouseholdAssumption, H!TypeOK, NEW u \in Users
  PROVE  /\ request[u] \in H!Request \cup {H!NoRequest}
         /\ request[u].op # "none" => request[u] \in H!Request
         /\ request[u].who \in Users /\ request[u].as \in H!Roles \cup {H!NoRole}
         /\ request[u].space \in Workspaces \cup {0}
<1>1. request[u] \in H!Request \cup {H!NoRequest}
  BY DEF H!TypeOK
<1>2. /\ H!NoRequest.op = "none" /\ H!NoRequest.who \in Users
      /\ H!NoRequest.as = H!NoRole /\ H!NoRequest.space = 0
  BY DEF H!HouseholdAssumption, H!NoRequest
<1> QED
  BY <1>1, <1>2 DEF H!Request

\* The workspace that is made next.
LEMMA FreshIsNew ==
  ASSUME H!HouseholdAssumption, H!TypeOK, Workspaces # made
  PROVE  H!Fresh \in Workspaces \ made
<1>1. Workspaces \ made # {} /\ Workspaces \ made \subseteq Nat
  BY SpacesAreNat DEF H!TypeOK
<1>2. \E s \in Workspaces \ made : \A o \in Workspaces \ made : s <= o
  BY <1>1, Earliest
<1> QED
  BY <1>2 DEF H!Fresh

LEMMA OldestIsOne ==
  ASSUME H!HouseholdAssumption, NEW S, S \subseteq Workspaces, S # {}
  PROVE  H!Oldest(S) # 0
<1>1. \E s \in S : \A o \in S : s <= o
  BY SpacesAreNat, Earliest
<1>2. H!Oldest(S) \in S
  BY <1>1 DEF H!Oldest
<1> QED
  BY <1>2, SpacesAreNat

\* One entry of a table of roles.
LEMMA OneRole ==
  ASSUME NEW f \in [Workspaces -> [Users -> H!Roles \cup {H!NoRole}]],
         NEW s \in Workspaces, NEW w \in Users, NEW x \in H!Roles \cup {H!NoRole}
  PROVE  /\ [f EXCEPT ![s][w] = x] \in [Workspaces -> [Users -> H!Roles \cup {H!NoRole}]]
         /\ \A o \in Workspaces, v \in Users :
              [f EXCEPT ![s][w] = x][o][v] = IF o = s /\ v = w THEN x ELSE f[o][v]
<1> DEFINE row == [f[s] EXCEPT ![w] = x]
           g == [f EXCEPT ![s] = row]
<1>1. /\ row \in [Users -> H!Roles \cup {H!NoRole}]
      /\ \A v \in Users : row[v] = IF v = w THEN x ELSE f[s][v]
  OBVIOUS
<1>2. [f EXCEPT ![s][w] = x] = g
  OBVIOUS
<1> HIDE DEF row
<1>3. /\ g \in [Workspaces -> [Users -> H!Roles \cup {H!NoRole}]]
      /\ \A o \in Workspaces : g[o] = IF o = s THEN row ELSE f[o]
  BY <1>1
<1> HIDE DEF g
<1>4. \A o \in Workspaces, v \in Users : g[o][v] = IF o = s /\ v = w THEN x ELSE f[o][v]
  BY <1>1, <1>3
<1> QED
  BY <1>2, <1>3, <1>4

LEMMA HouseholdInit == H!HouseholdAssumption /\ H!Init => HouseInv
<1> SUFFICES ASSUME H!HouseholdAssumption, H!Init PROVE HouseInv
  OBVIOUS
<1>1. /\ Founder \in Users /\ Joiner \in Users /\ {1, 2} \subseteq Workspaces
      /\ MaxHouseholdEdits \in Nat
  BY DEF H!HouseholdAssumption
<1>2. /\ known = {Founder, Joiner} /\ active = known /\ admins = {Founder}
      /\ made = {1, 2} /\ archived = {} /\ rows = {} /\ edits = 0
      /\ personal = [s \in Workspaces |-> IF s = 1 THEN Founder
                                         ELSE IF s = 2 THEN Joiner ELSE H!Nobody]
      /\ manager = [s \in Workspaces |-> H!Nobody]
      /\ role = [s \in Workspaces |-> [u \in Users |->
                   IF u = personal[s] THEN "owner" ELSE H!NoRole]]
      /\ request = [u \in Users |-> H!NoRequest]
  BY DEF H!Init
<1>3. raced \in BOOLEAN
  BY Zenon DEF H!Init
<1>4. /\ personal \in [Workspaces -> Users \cup {H!Nobody}]
      /\ manager \in [Workspaces -> known \cup {H!Nobody}]
      /\ request \in [Users -> H!Request \cup {H!NoRequest}]
  BY <1>1, <1>2
<1>5. /\ role \in [Workspaces -> [Users -> H!Roles \cup {H!NoRole}]]
      /\ \A s \in Workspaces, u \in Users : role[s][u] # H!NoRole => u = personal[s]
  BY <1>2, Roles4
<1>6. \A s \in Workspaces : H!Members(s) \subseteq known
  <2>1. H!Nobody \notin Users
    BY DEF H!HouseholdAssumption
  <2> QED
    BY <1>2, <1>5, <2>1 DEF H!Members
<1>7. /\ active \subseteq known /\ known \subseteq Users /\ admins \subseteq known
      /\ archived \subseteq made /\ made \subseteq Workspaces
      /\ rows \subseteq [space : made, by : known, on : known]
      /\ edits \in 0..MaxHouseholdEdits
  BY <1>1, <1>2
<1>8. H!TypeOK
  BY <1>3, <1>4, <1>5, <1>6, <1>7, Zenon DEF H!TypeOK
<1>9. RequestsInv
  BY <1>2 DEF RequestsInv, H!NoRequest
<1>10. H!AdminRemains
  BY <1>2 DEF H!AdminRemains
<1> QED
  BY <1>8, <1>9, <1>10 DEF HouseInv

LEMMA HouseTyped ==
  ASSUME raced' \in BOOLEAN,
         active' \subseteq known', known' \subseteq Users, admins' \subseteq known',
         archived' \subseteq made', made' \subseteq Workspaces,
         personal' \in [Workspaces -> Users \cup {H!Nobody}],
         manager' \in [Workspaces -> known' \cup {H!Nobody}],
         role' \in [Workspaces -> [Users -> H!Roles \cup {H!NoRole}]],
         \A s \in Workspaces, u \in Users : role'[s][u] # H!NoRole => u \in known',
         rows' \subseteq [space : made', by : known', on : known'],
         request' \in [Users -> H!Request \cup {H!NoRequest}],
         edits' \in 0..MaxHouseholdEdits
  PROVE  H!TypeOK'
<1>1. \A s \in Workspaces : H!Members(s)' \subseteq known'
  BY DEF H!Members, H!NoRole
<1> QED
  BY <1>1, Zenon DEF H!TypeOK

\* What every commit does to the request it carries out.
LEMMA Commits ==
  ASSUME H!HouseholdAssumption, HouseInv, NEW u \in Users, NEW op, H!Committing(u, op)
  PROVE  /\ request[u].op = op /\ edits' = edits /\ edits' \in 0..MaxHouseholdEdits
         /\ request' \in [Users -> H!Request \cup {H!NoRequest}]
         /\ \A v \in Users : request'[v] = IF v = u THEN H!NoRequest ELSE request[v]
         /\ raced' \in BOOLEAN
         /\ ~raced' => ~raced /\ u \in known \cap active /\ H!May(u, request[u])
<1>1. /\ request[u].op = op /\ request' = [request EXCEPT ![u] = H!NoRequest]
      /\ edits' = edits
  BY DEF H!Committing
<1>2. raced' = (raced \/ u \notin known \cap active \/ ~H!May(u, request[u]))
  BY DEF H!Committing
<1>3. ~raced' => ~raced /\ u \in known \cap active /\ H!May(u, request[u])
  BY <1>2, Zenon
<1>4. raced' \in BOOLEAN
  BY <1>2
<1>5. request \in [Users -> H!Request \cup {H!NoRequest}] /\ edits \in 0..MaxHouseholdEdits
  BY DEF HouseInv, H!TypeOK
<1> QED
  BY <1>1, <1>3, <1>4, <1>5

\* A commit that touches no user, no row and no archive.
LEMMA TablesKeep ==
  ASSUME H!HouseholdAssumption, HouseInv, NEW u \in Users, NEW op, H!Committing(u, op),
         UNCHANGED <<known, active, admins, archived, rows>>,
         made \subseteq made', made' \subseteq Workspaces,
         personal' \in [Workspaces -> Users \cup {H!Nobody}],
         manager' \in [Workspaces -> known \cup {H!Nobody}],
         role' \in [Workspaces -> [Users -> H!Roles \cup {H!NoRole}]],
         \A s \in Workspaces, v \in Users : role'[s][v] # H!NoRole => v \in known
  PROVE  HouseInv' /\ H!ArchiveStep /\ H!RowsStep
<1>0. H!TypeOK /\ RequestsInv /\ H!AdminRemains
  BY DEF HouseInv
<1>1. H!TypeOK'
  <2>1. /\ active' \subseteq known' /\ known' \subseteq Users /\ admins' \subseteq known'
        /\ archived' \subseteq made'
        /\ rows' \subseteq [space : made', by : known', on : known']
    BY <1>0 DEF H!TypeOK
  <2>2. /\ request' \in [Users -> H!Request \cup {H!NoRequest}]
        /\ edits' \in 0..MaxHouseholdEdits /\ raced' \in BOOLEAN
    BY Commits
  <2> QED
    BY <2>1, <2>2, HouseTyped
<1>2. RequestsInv'
  <2>1. \A v \in Users : request'[v] = request[v] \/ request'[v].op = "none"
    BY Commits DEF H!NoRequest
  <2> QED
    BY <1>0, <2>1 DEF RequestsInv
<1>3. H!AdminRemains'
  <2>1. ~raced' => ~raced
    BY Commits
  <2> QED
    BY <1>0, <2>1 DEF H!AdminRemains
<1> QED
  BY <1>1, <1>2, <1>3 DEF HouseInv, H!ArchiveStep, H!RowsStep

\* Who governed a workspace still does.
LEMMA StillGoverned ==
  ASSUME NEW s, Workspaces # {},
         manager[s] # H!Nobody => manager'[s] # H!Nobody,
         H!Owners(s) # {} => \E v \in Users : role'[s][v] = "owner",
         H!Governed(s)
  PROVE  H!Governed(s)'
<1>1. H!Owners(s)' = {v \in Users : role'[s][v] = "owner"}
  BY DEF H!Owners
<1> QED
  BY <1>1 DEF H!Governed, H!Nobody

\* A role that is given or taken leaves another owner, or one all the same.
LEMMA AnotherOwner ==
  ASSUME NEW s \in Workspaces, NEW w \in Users, NEW x \in H!Roles \cup {H!NoRole},
         role \in [Workspaces -> [Users -> H!Roles \cup {H!NoRole}]],
         role' = [role EXCEPT ![s][w] = x], manager' = manager,
         x = "owner" \/ ~H!SoleOwner(s, w)
  PROVE  \A o \in Workspaces : H!Governed(o) => H!Governed(o)'
<1>1. \A o \in Workspaces, v \in Users : role'[o][v] = IF o = s /\ v = w THEN x ELSE role[o][v]
  BY OneRole
<1>2. ASSUME NEW o \in Workspaces, H!Owners(o) # {}
      PROVE  \E v \in Users : role'[o][v] = "owner"
  <2>1. CASE o = s /\ x = "owner"
    BY <1>1, <2>1
  <2>2. CASE o = s /\ x # "owner"
    <3>1. \E v \in Users \ {w} : role[o][v] = "owner"
      BY <1>2, <2>2 DEF H!SoleOwner, H!Owners
    <3> QED
      BY <1>1, <3>1
  <2>3. CASE o # s
    BY <1>1, <1>2, <2>3 DEF H!Owners
  <2> QED
    BY <2>1, <2>2, <2>3
<1> QED
  BY <1>2, StillGoverned

LEMMA HouseFacts ==
  ASSUME HouseInv
  PROVE  /\ H!TypeOK /\ RequestsInv /\ H!AdminRemains
         /\ active \subseteq known /\ known \subseteq Users /\ admins \subseteq known
         /\ made \subseteq Workspaces /\ archived \subseteq made
         /\ personal \in [Workspaces -> Users \cup {H!Nobody}]
         /\ manager \in [Workspaces -> known \cup {H!Nobody}]
         /\ role \in [Workspaces -> [Users -> H!Roles \cup {H!NoRole}]]
         /\ \A s \in Workspaces, v \in Users : role[s][v] # H!NoRole => v \in known
         /\ rows \subseteq [space : made, by : known, on : known]
  BY DEF HouseInv, H!TypeOK, H!Members

\* A membership comes, changes or goes.
LEMMA MembersKeep ==
  ASSUME H!HouseholdAssumption, HouseInv, NEW u \in Users,
         H!Invite(u) \/ H!ChangeRole(u) \/ H!Remove(u)
  PROVE  HouseInv' /\ H!ArchiveStep /\ H!RowsStep /\ H!GovernedStep
<1> DEFINE r == request[u]
<1>0. /\ H!TypeOK /\ RequestsInv /\ made \subseteq Workspaces
      /\ personal \in [Workspaces -> Users \cup {H!Nobody}]
      /\ manager \in [Workspaces -> known \cup {H!Nobody}]
      /\ role \in [Workspaces -> [Users -> H!Roles \cup {H!NoRole}]]
      /\ \A s \in Workspaces, v \in Users : role[s][v] # H!NoRole => v \in known
  BY HouseFacts
<1>1. r.who \in Users /\ r.as \in H!Roles \cup {H!NoRole}
  BY <1>0, RequestTyped
<1>2. UNCHANGED <<known, active, admins, made, archived, personal, manager, rows>>
  BY DEF H!Invite, H!ChangeRole, H!Remove
<1>3. ASSUME NEW op, H!Committing(u, op), NEW x \in H!Roles \cup {H!NoRole},
             op \in {"invite", "role", "remove"}, x = H!NoRole \/ r.who \in known,
             ~raced' => x = "owner" \/ ~H!SoleOwner(r.space, r.who),
             role' = [role EXCEPT ![r.space][r.who] = x]
      PROVE  HouseInv' /\ H!ArchiveStep /\ H!RowsStep /\ H!GovernedStep
  <2>1. r.space \in Workspaces
    BY <1>0, <1>3, Commits DEF RequestsInv
  <2>2. /\ role' \in [Workspaces -> [Users -> H!Roles \cup {H!NoRole}]]
        /\ \A o \in Workspaces, v \in Users :
             role'[o][v] = IF o = r.space /\ v = r.who THEN x ELSE role[o][v]
    BY <1>0, <1>1, <1>3, <2>1, OneRole
  <2>3. \A s \in Workspaces, v \in Users : role'[s][v] # H!NoRole => v \in known
    BY <1>0, <1>3, <2>2
  <2>4. HouseInv' /\ H!ArchiveStep /\ H!RowsStep
    BY <1>0, <1>2, <1>3, <2>2, <2>3, TablesKeep
  <2>5. H!GovernedStep
    BY <1>0, <1>1, <1>2, <1>3, <2>1, AnotherOwner DEF H!GovernedStep
  <2> QED
    BY <2>4, <2>5
<1>4. ASSUME NEW op, H!Committing(u, op), role' = role
      PROVE  HouseInv' /\ H!ArchiveStep /\ H!RowsStep /\ H!GovernedStep
  <2>1. HouseInv' /\ H!ArchiveStep /\ H!RowsStep
    BY <1>0, <1>2, <1>4, TablesKeep
  <2>2. H!GovernedStep
    BY <1>2, <1>4 DEF H!GovernedStep, H!Governed, H!Owners
  <2> QED
    BY <2>1, <2>2
<1>5. CASE H!Invite(u)
  <2>1. /\ H!Committing(u, "invite")
        /\ role' = IF role[r.space][r.who] = H!NoRole /\ r.who \in known
                   THEN [role EXCEPT ![r.space][r.who] = r.as] ELSE role
    BY <1>5 DEF H!Invite
  <2>2. CASE role[r.space][r.who] = H!NoRole /\ r.who \in known
    <3>1. ~H!SoleOwner(r.space, r.who)
      BY <2>2, Roles4 DEF H!SoleOwner
    <3> QED
      BY <1>1, <1>3, <2>1, <2>2, <3>1
  <2>3. CASE ~(role[r.space][r.who] = H!NoRole /\ r.who \in known)
    BY <1>4, <2>1, <2>3
  <2> QED
    BY <2>2, <2>3
<1>6. CASE H!ChangeRole(u)
  <2>1. /\ H!Committing(u, "role")
        /\ role' = IF role[r.space][r.who] # H!NoRole
                   THEN [role EXCEPT ![r.space][r.who] = r.as] ELSE role
    BY <1>6 DEF H!ChangeRole
  <2>2. CASE role[r.space][r.who] # H!NoRole
    <3>1. r.space \in Workspaces /\ r.op = "role"
      BY <1>0, <2>1, Commits DEF RequestsInv
    <3>2. r.who \in known
      BY <1>0, <1>1, <2>2, <3>1
    <3>3. ~raced' => H!May(u, r)
      BY <2>1, Commits
    <3>4. ~raced' => r.as = "owner" \/ ~H!SoleOwner(r.space, r.who)
      BY <3>1, <3>3 DEF H!May, H!MayChangeRole
    <3> HIDE DEF r
    <3> QED
      BY <1>1, <1>3, <2>1, <2>2, <3>2, <3>4
  <2>3. CASE role[r.space][r.who] = H!NoRole
    BY <1>4, <2>1, <2>3
  <2> QED
    BY <2>2, <2>3
<1>7. CASE H!Remove(u)
  <2>1. /\ H!Committing(u, "remove")
        /\ role' = [role EXCEPT ![r.space][r.who] = H!NoRole]
    BY <1>7 DEF H!Remove
  <2>2. r.op = "remove" /\ (~raced' => H!May(u, r))
    BY <2>1, Commits
  <2>3. ~raced' => ~H!SoleOwner(r.space, r.who)
    BY <2>2 DEF H!May, H!MayRemove
  <2> QED
    BY <1>3, <2>1, <2>3
<1> QED
  BY <1>5, <1>6, <1>7

\* A workspace comes into being; those that were there keep who governs them.
LEMMA NewSpaceKeeps ==
  ASSUME H!HouseholdAssumption, HouseInv, NEW u \in Users,
         H!Welcome(u) \/ H!Provision(u) \/ H!Create(u)
  PROVE  HouseInv' /\ H!ArchiveStep /\ H!RowsStep /\ H!GovernedStep
<1> DEFINE r == request[u]
           s == H!Fresh
<1>0. /\ H!TypeOK /\ RequestsInv /\ made \subseteq Workspaces /\ known \subseteq Users
      /\ personal \in [Workspaces -> Users \cup {H!Nobody}]
      /\ manager \in [Workspaces -> known \cup {H!Nobody}]
      /\ role \in [Workspaces -> [Users -> H!Roles \cup {H!NoRole}]]
      /\ \A o \in Workspaces, v \in Users : role[o][v] # H!NoRole => v \in known
  BY HouseFacts
<1>1. r.who \in Users /\ r.as \in H!Roles \cup {H!NoRole}
  BY <1>0, RequestTyped
<1>2. s \in Workspaces \ made
  BY <1>0, FreshIsNew DEF H!Welcome, H!Provision, H!Create
<1>3. UNCHANGED <<known, active, admins, archived, rows>>
  BY DEF H!Welcome, H!Provision, H!Create
<1>4. PICK op : H!Committing(u, op) /\ (H!Welcome(u) => op = "welcome")
  BY DEF H!Welcome, H!Provision, H!Create
<1>a. r.op = op
  BY <1>4, Commits
<1> HIDE DEF s
<1>5. ASSUME made' = made \cup {s}, personal' \in [Workspaces -> Users \cup {H!Nobody}],
             manager' \in [Workspaces -> known \cup {H!Nobody}],
             role' \in [Workspaces -> [Users -> H!Roles \cup {H!NoRole}]],
             \A o \in Workspaces, v \in Users : role'[o][v] # H!NoRole => v \in known,
             \A o \in made : manager'[o] = manager[o],
             \A o \in made, v \in Users : role[o][v] = "owner" => role'[o][v] = "owner"
      PROVE  HouseInv' /\ H!ArchiveStep /\ H!RowsStep /\ H!GovernedStep
  <2>1. HouseInv' /\ H!ArchiveStep /\ H!RowsStep
    <3>1. made \subseteq made' /\ made' \subseteq Workspaces
      BY <1>0, <1>2, <1>5
    <3> QED
      BY <1>0, <1>3, <1>4, <1>5, <3>1, TablesKeep
  <2>2. ASSUME NEW o \in made, H!Governed(o) PROVE H!Governed(o)'
    <3>1. Workspaces # {}
      BY <1>2
    <3>2. H!Owners(o) # {} => \E v \in Users : role'[o][v] = "owner"
      BY <1>5 DEF H!Owners
    <3> QED
      BY <1>5, <2>2, <3>1, <3>2, StillGoverned
  <2> QED
    BY <2>1, <2>2 DEF H!GovernedStep
<1>6. ASSUME UNCHANGED <<made, personal, manager, role>>
      PROVE  HouseInv' /\ H!ArchiveStep /\ H!RowsStep /\ H!GovernedStep
  <2>1. HouseInv' /\ H!ArchiveStep /\ H!RowsStep
    BY <1>0, <1>3, <1>4, <1>6, TablesKeep
  <2>2. H!GovernedStep
    BY <1>6 DEF H!GovernedStep, H!Governed, H!Owners
  <2> QED
    BY <2>1, <2>2
<1>7. ASSUME r.who \in known, made' = made \cup {s}, personal' = [personal EXCEPT ![s] = r.who],
             manager' = manager, NEW o \in Workspaces, o \in made, NEW x \in H!Roles \cup {H!NoRole},
             role[o][r.who] = H!NoRole \/ x = role[o][r.who],
             role' = [role EXCEPT ![s][r.who] = "owner", ![o][r.who] = x]
      PROVE  HouseInv' /\ H!ArchiveStep /\ H!RowsStep /\ H!GovernedStep
  <2> DEFINE f == [role EXCEPT ![s][r.who] = "owner"]
  <2>1. /\ f \in [Workspaces -> [Users -> H!Roles \cup {H!NoRole}]]
        /\ \A q \in Workspaces, v \in Users :
             f[q][v] = IF q = s /\ v = r.who THEN "owner" ELSE role[q][v]
    BY <1>0, <1>1, <1>2, OneRole, Roles4
  <2>2. role' = [f EXCEPT ![o][r.who] = x]
    BY <1>7
  <2> HIDE DEF f, r
  <2>3. /\ role' \in [Workspaces -> [Users -> H!Roles \cup {H!NoRole}]]
        /\ \A q \in Workspaces, v \in Users :
             role'[q][v] = IF q = o /\ v = r.who THEN x ELSE f[q][v]
    <3>1. /\ [f EXCEPT ![o][r.who] = x] \in [Workspaces -> [Users -> H!Roles \cup {H!NoRole}]]
          /\ \A q \in Workspaces, v \in Users :
               [f EXCEPT ![o][r.who] = x][q][v] = IF q = o /\ v = r.who THEN x ELSE f[q][v]
      BY <1>1, <2>1, OneRole
    <3> QED
      BY <2>2, <3>1
  <2>4. \A q \in Workspaces, v \in Users : role'[q][v] # H!NoRole => v \in known
    BY <1>0, <1>7, <2>1, <2>3
  <2>5. \A q \in made, v \in Users : role[q][v] = "owner" => role'[q][v] = "owner"
    <3>1. ASSUME NEW q \in made, NEW v \in Users, role[q][v] = "owner"
          PROVE  role'[q][v] = "owner"
      <4>1. q \in Workspaces /\ f[q][v] = role[q][v]
        BY <1>0, <1>2, <2>1
      <4>2. q = o /\ v = r.who => x = "owner"
        BY <1>7, <3>1, Roles4
      <4> QED
        BY <2>3, <3>1, <4>1, <4>2
    <3> QED
      BY <3>1
  <2>6. personal' \in [Workspaces -> Users \cup {H!Nobody}]
    BY <1>0, <1>1, <1>7
  <2> QED
    BY <1>0, <1>5, <1>7, <2>3, <2>4, <2>5, <2>6
<1>8. CASE H!Welcome(u)
  <2>1. /\ IF r.who \in known /\ role[r.space][r.who] = H!NoRole
           THEN /\ H!PersonalSpace(r.who)
                /\ role' = [role EXCEPT ![s][r.who] = "owner", ![r.space][r.who] = r.as]
           ELSE UNCHANGED <<made, personal, role>>
        /\ manager' = manager
    BY <1>8 DEF H!Welcome, s
  <2>2. r.space \in made
    BY <1>0, <1>4, <1>8, <1>a DEF RequestsInv
  <2>3. CASE r.who \in known /\ role[r.space][r.who] = H!NoRole
    <3>1. made' = made \cup {s} /\ personal' = [personal EXCEPT ![s] = r.who]
      BY <2>1, <2>3 DEF H!PersonalSpace, s
    <3>2. r.space \in Workspaces
      BY <1>0, <2>2
    <3> HIDE DEF r
    <3> QED
      BY <1>1, <1>7, <2>1, <2>2, <2>3, <3>1, <3>2
  <2>4. CASE ~(r.who \in known /\ role[r.space][r.who] = H!NoRole)
    BY <1>6, <2>1, <2>4
  <2> QED
    BY <2>3, <2>4
<1>9. CASE H!Provision(u)
  <2>1. /\ IF r.who \in known
           THEN /\ H!PersonalSpace(r.who)
                /\ role' = [role EXCEPT ![s][r.who] = "owner"]
           ELSE UNCHANGED <<made, personal, role>>
        /\ manager' = manager
    BY <1>9 DEF H!Provision, s
  <2>2. CASE r.who \in known
    <3>1. made' = made \cup {s} /\ personal' = [personal EXCEPT ![s] = r.who]
      BY <2>1, <2>2 DEF H!PersonalSpace, s
    <3>2. /\ role' \in [Workspaces -> [Users -> H!Roles \cup {H!NoRole}]]
          /\ \A q \in Workspaces, v \in Users :
               role'[q][v] = IF q = s /\ v = r.who THEN "owner" ELSE role[q][v]
      <4>1. role' = [role EXCEPT ![s][r.who] = "owner"] /\ "owner" \in H!Roles \cup {H!NoRole}
        BY <2>1, <2>2, Roles4
      <4> HIDE DEF r
      <4> QED
        BY <1>0, <1>1, <1>2, <4>1, OneRole
    <3>3. personal' \in [Workspaces -> Users \cup {H!Nobody}]
      BY <1>0, <1>1, <3>1
    <3>4. /\ \A q \in Workspaces, v \in Users : role'[q][v] # H!NoRole => v \in known
          /\ \A q \in made, v \in Users : role[q][v] = "owner" => role'[q][v] = "owner"
      BY <1>0, <2>2, <3>2
    <3> QED
      BY <1>0, <1>5, <2>1, <3>1, <3>2, <3>3, <3>4
  <2>3. CASE r.who \notin known
    BY <1>6, <2>1, <2>3
  <2> QED
    BY <2>2, <2>3
<1>10. CASE H!Create(u)
  <2>1. /\ IF u \in known
           THEN /\ made' = made \cup {s} /\ manager' = [manager EXCEPT ![s] = u]
                /\ role' = IF r.as = "owner" THEN [role EXCEPT ![s][u] = "owner"] ELSE role
           ELSE UNCHANGED <<made, manager, role>>
        /\ personal' = personal
    BY <1>10 DEF H!Create, s
  <2>2. CASE u \in known
    <3>1. made' = made \cup {s} /\ manager' = [manager EXCEPT ![s] = u]
      BY <2>1, <2>2
    <3>2. /\ manager' \in [Workspaces -> known \cup {H!Nobody}]
          /\ \A o \in made : manager'[o] = manager[o]
      BY <1>0, <1>2, <2>2, <3>1
    <3>3. /\ role' \in [Workspaces -> [Users -> H!Roles \cup {H!NoRole}]]
          /\ \A q \in Workspaces, v \in Users :
               role'[q][v] = role[q][v] \/ (v = u /\ role'[q][v] = "owner")
      <4>1. CASE r.as = "owner"
        <5>1. role' = [role EXCEPT ![s][u] = "owner"]
          BY <2>1, <2>2, <4>1
        <5>2. /\ role' \in [Workspaces -> [Users -> H!Roles \cup {H!NoRole}]]
              /\ \A q \in Workspaces, v \in Users :
                   role'[q][v] = IF q = s /\ v = u THEN "owner" ELSE role[q][v]
          BY <1>0, <1>2, <5>1, OneRole, Roles4
        <5> QED
          BY <5>2
      <4>2. CASE r.as # "owner"
        BY <1>0, <2>1, <2>2, <4>2
      <4> QED
        BY <4>1, <4>2
    <3>4. /\ \A q \in Workspaces, v \in Users : role'[q][v] # H!NoRole => v \in known
          /\ \A q \in made, v \in Users : role[q][v] = "owner" => role'[q][v] = "owner"
      BY <1>0, <2>2, <3>3
    <3> QED
      BY <1>0, <1>5, <2>1, <3>1, <3>2, <3>3, <3>4
  <2>3. CASE u \notin known
    BY <1>6, <2>1, <2>3
  <2> QED
    BY <2>2, <2>3
<1> QED
  BY <1>8, <1>9, <1>10

\* Somebody asks, or nobody waits for the answer any more.
LEMMA AskingKeeps ==
  ASSUME H!HouseholdAssumption, HouseInv, NEW u \in Users, NEW W, W \subseteq Users,
         NEW x \in H!Request \cup {H!NoRequest},
         x.op \in {"invite", "welcome", "role", "remove", "archive", "book"} => x.space \in made,
         known' = known \cup W, active' = active \cup W,
         request' = [request EXCEPT ![u] = x], edits' \in 0..MaxHouseholdEdits,
         UNCHANGED <<admins, made, archived, personal, manager, role, rows, raced>>
  PROVE  HouseInv' /\ H!ArchiveStep /\ H!RowsStep /\ H!GovernedStep
<1>0. /\ H!TypeOK /\ RequestsInv /\ H!AdminRemains
      /\ active \subseteq known /\ known \subseteq Users /\ admins \subseteq known
      /\ made \subseteq Workspaces /\ archived \subseteq made
      /\ personal \in [Workspaces -> Users \cup {H!Nobody}]
      /\ manager \in [Workspaces -> known \cup {H!Nobody}]
      /\ role \in [Workspaces -> [Users -> H!Roles \cup {H!NoRole}]]
      /\ \A o \in Workspaces, v \in Users : role[o][v] # H!NoRole => v \in known
      /\ rows \subseteq [space : made, by : known, on : known]
  BY HouseFacts
<1>1. /\ request' \in [Users -> H!Request \cup {H!NoRequest}]
      /\ \A v \in Users : request'[v] = IF v = u THEN x ELSE request[v]
  BY <1>0 DEF H!TypeOK
<1>2. raced' \in BOOLEAN
  BY <1>0 DEF H!TypeOK
<1>3. /\ active' \subseteq known' /\ known' \subseteq Users /\ admins' \subseteq known'
      /\ archived' \subseteq made' /\ made' \subseteq Workspaces
      /\ manager' \in [Workspaces -> known' \cup {H!Nobody}]
      /\ rows' \subseteq [space : made', by : known', on : known']
      /\ \A o \in Workspaces, v \in Users : role'[o][v] # H!NoRole => v \in known'
  BY <1>0
<1>4. H!TypeOK'
  BY <1>0, <1>1, <1>2, <1>3, HouseTyped
<1>5. RequestsInv'
  BY <1>0, <1>1 DEF RequestsInv
<1>6. H!AdminRemains'
  BY <1>0 DEF H!AdminRemains
<1>7. H!ArchiveStep /\ H!RowsStep /\ H!GovernedStep
  BY DEF H!ArchiveStep, H!RowsStep, H!GovernedStep, H!Governed, H!Owners
<1> QED
  BY <1>4, <1>5, <1>6, <1>7 DEF HouseInv

LEMMA AskKeeps ==
  ASSUME H!HouseholdAssumption, HouseInv, NEW u \in Users, NEW r \in H!Request,
         (H!Ask(u, r) /\ r.op # "welcome") \/ H!NewUser(u, r)
  PROVE  HouseInv' /\ H!ArchiveStep /\ H!RowsStep /\ H!GovernedStep
<1>1. edits \in 0..MaxHouseholdEdits /\ MaxHouseholdEdits \in Nat
  BY DEF HouseInv, H!TypeOK, H!HouseholdAssumption
<1>2. edits' \in 0..MaxHouseholdEdits
  BY <1>1 DEF H!Ask, H!NewUser, H!Bounded
<1>3. request' = [request EXCEPT ![u] = r] /\ r.who \in Users
  BY DEF H!Ask, H!NewUser, H!Accept, H!Request
<1>4. CASE H!Ask(u, r) /\ r.op # "welcome"
  <2>1. /\ UNCHANGED <<admins, made, archived, personal, manager, role, rows, raced>>
        /\ known' = known \cup {} /\ active' = active \cup {} /\ H!May(u, r)
    BY <1>4 DEF H!Ask
  <2>2. r.op \in {"invite", "role", "remove", "archive", "book"} => r.space \in made
    BY <2>1 DEF H!May, H!MayInvite, H!MayChangeRole, H!MayRemove, H!MayArchive, H!MayBook
  <2>3. r.op \in {"invite", "welcome", "role", "remove", "archive", "book"} => r.space \in made
    BY <1>4, <2>2
  <2>4. {} \subseteq Users
    OBVIOUS
  <2> QED
    BY <1>2, <1>3, <2>1, <2>3, <2>4, AskingKeeps
<1>5. CASE H!NewUser(u, r)
  <2>1. /\ UNCHANGED <<admins, made, archived, personal, manager, role, rows, raced>>
        /\ known' = known \cup {r.who} /\ active' = active \cup {r.who}
        /\ (r.op = "welcome" /\ r.space \in made) \/ r.op = "newuser"
    BY <1>5 DEF H!NewUser
  <2>2. {r.who} \subseteq Users
    BY <1>3
  <2> QED
    BY <1>2, <1>3, <2>1, <2>2, AskingKeeps
<1> QED
  BY <1>4, <1>5

LEMMA RegisterKeeps ==
  ASSUME H!HouseholdAssumption, HouseInv, NEW u \in Users, H!Register(u) \/ H!Lose(u)
  PROVE  HouseInv' /\ H!ArchiveStep /\ H!RowsStep /\ H!GovernedStep
<1>1. edits \in 0..MaxHouseholdEdits /\ MaxHouseholdEdits \in Nat
  BY DEF HouseInv, H!TypeOK, H!HouseholdAssumption
<1>2. edits' \in 0..MaxHouseholdEdits
  BY <1>1 DEF H!Register, H!Lose, H!Bounded
<1>3. UNCHANGED <<admins, made, archived, personal, manager, role, rows, raced>>
  BY DEF H!Register, H!Lose
<1>4. CASE H!Register(u)
  <2> DEFINE x == [op |-> "newuser", space |-> 0, who |-> u, as |-> H!NoRole]
  <2>1. /\ known' = known \cup {u} /\ active' = active \cup {u}
        /\ request' = [request EXCEPT ![u] = x]
    BY <1>4 DEF H!Register, H!NoRole
  <2>2. x \in H!Request /\ x.op = "newuser" /\ {u} \subseteq Users
    BY DEF H!Request, H!Ops
  <2> HIDE DEF x
  <2> QED
    BY <1>2, <1>3, <2>1, <2>2, AskingKeeps
<1>5. CASE H!Lose(u)
  <2>1. /\ known' = known \cup {} /\ active' = active \cup {}
        /\ request' = [request EXCEPT ![u] = H!NoRequest]
    BY <1>5 DEF H!Lose
  <2>2. H!NoRequest.op = "none" /\ {} \subseteq Users
    BY DEF H!NoRequest
  <2> QED
    BY <1>2, <1>3, <2>1, <2>2, AskingKeeps
<1> QED
  BY <1>4, <1>5

\* Who archives a workspace has another one to work in.
LEMMA ArchiveKeeps ==
  ASSUME H!HouseholdAssumption, HouseInv, NEW u \in Users, H!Archive(u)
  PROVE  HouseInv' /\ H!ArchiveStep /\ H!RowsStep /\ H!GovernedStep
<1> DEFINE s == request[u].space
<1>0. /\ H!TypeOK /\ RequestsInv /\ H!AdminRemains
      /\ active \subseteq known /\ known \subseteq Users /\ admins \subseteq known
      /\ made \subseteq Workspaces /\ archived \subseteq made
      /\ personal \in [Workspaces -> Users \cup {H!Nobody}]
      /\ manager \in [Workspaces -> known \cup {H!Nobody}]
      /\ role \in [Workspaces -> [Users -> H!Roles \cup {H!NoRole}]]
      /\ \A o \in Workspaces, v \in Users : role[o][v] # H!NoRole => v \in known
      /\ rows \subseteq [space : made, by : known, on : known]
  BY HouseFacts
<1>1. /\ H!Committing(u, "archive") /\ archived' = archived \cup {s}
      /\ UNCHANGED <<known, active, admins, made, personal, manager, role, rows>>
  BY DEF H!Archive
<1>2. /\ request[u].op = "archive" /\ edits' \in 0..MaxHouseholdEdits
      /\ request' \in [Users -> H!Request \cup {H!NoRequest}]
      /\ \A v \in Users : request'[v] = IF v = u THEN H!NoRequest ELSE request[v]
      /\ raced' \in BOOLEAN
      /\ ~raced' => ~raced /\ u \in known \cap active /\ H!May(u, request[u])
  BY <1>1, Commits
<1>3. s \in made
  BY <1>0, <1>2 DEF RequestsInv
<1>4. H!TypeOK'
  <2>1. /\ active' \subseteq known' /\ known' \subseteq Users /\ admins' \subseteq known'
        /\ archived' \subseteq made' /\ made' \subseteq Workspaces
        /\ personal' \in [Workspaces -> Users \cup {H!Nobody}]
        /\ manager' \in [Workspaces -> known' \cup {H!Nobody}]
        /\ role' \in [Workspaces -> [Users -> H!Roles \cup {H!NoRole}]]
        /\ \A o \in Workspaces, v \in Users : role'[o][v] # H!NoRole => v \in known'
        /\ rows' \subseteq [space : made', by : known', on : known']
    BY <1>0, <1>1, <1>3
  <2> QED
    BY <1>2, <2>1, HouseTyped
<1>5. RequestsInv' /\ H!AdminRemains'
  BY <1>0, <1>1, <1>2 DEF RequestsInv, H!AdminRemains, H!NoRequest
<1>6. H!RowsStep /\ H!GovernedStep
  BY <1>1 DEF H!RowsStep, H!GovernedStep, H!Governed, H!Owners
<1>7. H!ArchiveStep
  <2> SUFFICES ASSUME NEW v \in known, request[v].op = "archive",
                      request'[v] = H!NoRequest, ~raced'
               PROVE  H!Default(v)' # 0
    BY DEF H!ArchiveStep
  <2>1. v = u
    <3>1. request'[v] # request[v]
      BY DEF H!NoRequest
    <3> QED
      BY <1>0, <1>2, <3>1
  <2>2. H!MayArchive(u, request[u])
    BY <1>2 DEF H!May
  <2>3. H!OthersOf(u, s) # {}
    BY <2>2 DEF H!MayArchive
  <2> DEFINE open == made' \ archived'
             member == {o \in open : role'[o][u] # H!NoRole}
             managed == {o \in open : manager'[o] = u}
  <2>4. member \subseteq Workspaces /\ managed \subseteq Workspaces
    BY <1>0, <1>1
  <2>5. member # {} \/ managed # {}
    BY <1>1, <2>3 DEF H!OthersOf
  <2>6. H!Default(u)' = IF member # {} THEN H!Oldest(member) ELSE H!Oldest(managed)
    BY DEF H!Default, H!Oldest, H!NoRole
  <2> HIDE DEF member, managed
  <2> QED
    BY <2>1, <2>4, <2>5, <2>6, OldestIsOne
<1> QED
  BY <1>4, <1>5, <1>6, <1>7 DEF HouseInv

LEMMA BookKeeps ==
  ASSUME H!HouseholdAssumption, HouseInv, NEW u \in Users, H!Book(u)
  PROVE  HouseInv' /\ H!ArchiveStep /\ H!RowsStep /\ H!GovernedStep
<1> DEFINE r == request[u]
           new == [space |-> r.space, by |-> u, on |-> r.who]
<1>0. /\ H!TypeOK /\ RequestsInv /\ H!AdminRemains
      /\ active \subseteq known /\ known \subseteq Users /\ admins \subseteq known
      /\ made \subseteq Workspaces /\ archived \subseteq made
      /\ personal \in [Workspaces -> Users \cup {H!Nobody}]
      /\ manager \in [Workspaces -> known \cup {H!Nobody}]
      /\ role \in [Workspaces -> [Users -> H!Roles \cup {H!NoRole}]]
      /\ \A o \in Workspaces, v \in Users : role[o][v] # H!NoRole => v \in known
      /\ rows \subseteq [space : made, by : known, on : known]
  BY HouseFacts
<1>1. /\ H!Committing(u, "book")
      /\ rows' = IF {u, r.who} \subseteq known THEN rows \cup {new} ELSE rows
      /\ UNCHANGED <<known, active, admins, made, archived, personal, manager, role>>
  BY DEF H!Book
<1>2. /\ r.op = "book" /\ edits' \in 0..MaxHouseholdEdits
      /\ request' \in [Users -> H!Request \cup {H!NoRequest}]
      /\ \A v \in Users : request'[v] = IF v = u THEN H!NoRequest ELSE request[v]
      /\ raced' \in BOOLEAN /\ (~raced' => ~raced)
  BY <1>1, Commits
<1>3. r.space \in made
  BY <1>0, <1>2 DEF RequestsInv
<1>4. rows' \subseteq [space : made', by : known', on : known']
  <2>1. {u, r.who} \subseteq known => new \in [space : made, by : known, on : known]
    BY <1>3
  <2> HIDE DEF new
  <2> QED
    BY <1>0, <1>1, <2>1
<1>5. H!TypeOK'
  <2>1. /\ active' \subseteq known' /\ known' \subseteq Users /\ admins' \subseteq known'
        /\ archived' \subseteq made' /\ made' \subseteq Workspaces
        /\ personal' \in [Workspaces -> Users \cup {H!Nobody}]
        /\ manager' \in [Workspaces -> known' \cup {H!Nobody}]
        /\ role' \in [Workspaces -> [Users -> H!Roles \cup {H!NoRole}]]
        /\ \A o \in Workspaces, v \in Users : role'[o][v] # H!NoRole => v \in known'
    BY <1>0, <1>1
  <2> QED
    BY <1>2, <1>4, <2>1, HouseTyped
<1>6. RequestsInv' /\ H!AdminRemains'
  BY <1>0, <1>1, <1>2 DEF RequestsInv, H!AdminRemains, H!NoRequest
<1>7. H!ArchiveStep /\ H!RowsStep /\ H!GovernedStep
  BY <1>1 DEF H!ArchiveStep, H!RowsStep, H!GovernedStep, H!Governed, H!Owners
<1> QED
  BY <1>5, <1>6, <1>7 DEF HouseInv

\* The administrator who acts on another stays one.
LEMMA UpdateKeeps ==
  ASSUME H!HouseholdAssumption, HouseInv, NEW u \in Users, H!UpdateUser(u)
  PROVE  HouseInv' /\ H!ArchiveStep /\ H!RowsStep /\ H!GovernedStep
<1> DEFINE r == request[u]
<1>0. /\ H!TypeOK /\ RequestsInv /\ H!AdminRemains
      /\ active \subseteq known /\ known \subseteq Users /\ admins \subseteq known
      /\ made \subseteq Workspaces /\ archived \subseteq made
      /\ personal \in [Workspaces -> Users \cup {H!Nobody}]
      /\ manager \in [Workspaces -> known \cup {H!Nobody}]
      /\ role \in [Workspaces -> [Users -> H!Roles \cup {H!NoRole}]]
      /\ \A o \in Workspaces, v \in Users : role[o][v] # H!NoRole => v \in known
      /\ rows \subseteq [space : made, by : known, on : known]
  BY HouseFacts
<1>1. /\ H!Committing(u, "update")
      /\ active' = IF r.as = "viewer" THEN active \ {r.who} ELSE active
      /\ admins' = CASE r.as = "editor" -> admins \ {r.who}
                     [] r.as = "owner" -> (admins \cup {r.who}) \cap known
                     [] OTHER -> admins
      /\ UNCHANGED <<known, made, archived, personal, manager, role, rows>>
  BY DEF H!UpdateUser
<1>2. /\ r.op = "update" /\ edits' \in 0..MaxHouseholdEdits
      /\ request' \in [Users -> H!Request \cup {H!NoRequest}]
      /\ \A v \in Users : request'[v] = IF v = u THEN H!NoRequest ELSE request[v]
      /\ raced' \in BOOLEAN
      /\ ~raced' => ~raced /\ u \in known \cap active /\ H!May(u, r)
  BY <1>1, Commits
<1>3. active' \subseteq active /\ admins' \subseteq known
  BY <1>0, <1>1
<1>4. H!TypeOK'
  <2>1. /\ active' \subseteq known' /\ known' \subseteq Users /\ admins' \subseteq known'
        /\ archived' \subseteq made' /\ made' \subseteq Workspaces
        /\ personal' \in [Workspaces -> Users \cup {H!Nobody}]
        /\ manager' \in [Workspaces -> known' \cup {H!Nobody}]
        /\ role' \in [Workspaces -> [Users -> H!Roles \cup {H!NoRole}]]
        /\ \A o \in Workspaces, v \in Users : role'[o][v] # H!NoRole => v \in known'
        /\ rows' \subseteq [space : made', by : known', on : known']
    BY <1>0, <1>1, <1>3
  <2> QED
    BY <1>2, <2>1, HouseTyped
<1>5. RequestsInv'
  BY <1>0, <1>1, <1>2 DEF RequestsInv, H!NoRequest
<1>6. H!AdminRemains'
  <2> SUFFICES ASSUME ~raced' PROVE u \in admins' \cap active'
    BY DEF H!AdminRemains
  <2>1. u \in known \cap active /\ u \in admins /\ r.who # u
    BY <1>2 DEF H!May, H!MayUpdateUser
  <2> QED
    BY <1>1, <2>1
<1>7. H!ArchiveStep /\ H!RowsStep /\ H!GovernedStep
  BY <1>1 DEF H!ArchiveStep, H!RowsStep, H!GovernedStep, H!Governed, H!Owners
<1> QED
  BY <1>4, <1>5, <1>6, <1>7 DEF HouseInv

\* A user goes with its memberships and rows, or not at all.
LEMMA DeleteKeeps ==
  ASSUME H!HouseholdAssumption, HouseInv, NEW u \in Users, H!DeleteUser(u)
  PROVE  HouseInv' /\ H!ArchiveStep /\ H!RowsStep /\ H!GovernedStep
<1> DEFINE w == request[u].who
<1>0. /\ H!TypeOK /\ RequestsInv /\ H!AdminRemains
      /\ active \subseteq known /\ known \subseteq Users /\ admins \subseteq known
      /\ made \subseteq Workspaces /\ archived \subseteq made
      /\ personal \in [Workspaces -> Users \cup {H!Nobody}]
      /\ manager \in [Workspaces -> known \cup {H!Nobody}]
      /\ role \in [Workspaces -> [Users -> H!Roles \cup {H!NoRole}]]
      /\ \A o \in Workspaces, v \in Users : role[o][v] # H!NoRole => v \in known
      /\ rows \subseteq [space : made, by : known, on : known]
  BY HouseFacts
<1>1. /\ H!Committing(u, "delete")
      /\ UNCHANGED <<made, archived>>
      /\ IF \E x \in rows : x.on = w /\ x.by # w
         THEN UNCHANGED <<known, active, admins, role, manager, personal, rows>>
         ELSE H!Gone(w) /\ rows' = {x \in rows : x.by # w}
  BY DEF H!DeleteUser
<1>2. /\ request[u].op = "delete" /\ edits' \in 0..MaxHouseholdEdits
      /\ request' \in [Users -> H!Request \cup {H!NoRequest}]
      /\ \A v \in Users : request'[v] = IF v = u THEN H!NoRequest ELSE request[v]
      /\ raced' \in BOOLEAN
      /\ ~raced' => ~raced /\ u \in known \cap active /\ H!May(u, request[u])
  BY <1>1, Commits
<1>3. w \in Users /\ H!Nobody \notin Users
  BY <1>0, RequestTyped DEF H!HouseholdAssumption
<1>4. RequestsInv'
  BY <1>0, <1>1, <1>2 DEF RequestsInv, H!NoRequest
<1>5. H!ArchiveStep
  BY <1>1 DEF H!ArchiveStep
<1>6. ~raced' => u \in known \cap active /\ u \in admins /\ w # u
  BY <1>2 DEF H!May, H!MayDeleteUser
<1> HIDE DEF w
<1>7. CASE \E x \in rows : x.on = w /\ x.by # w
  <2>1. UNCHANGED <<known, active, admins, role, manager, personal, rows>>
    BY <1>1, <1>7
  <2>2. H!TypeOK'
    BY <1>0, <1>1, <1>2, <2>1, HouseTyped
  <2>3. H!AdminRemains'
    BY <1>0, <1>2, <2>1 DEF H!AdminRemains
  <2>4. H!RowsStep /\ H!GovernedStep
    BY <1>1, <2>1 DEF H!RowsStep, H!GovernedStep, H!Governed, H!Owners
  <2> QED
    BY <1>4, <1>5, <2>2, <2>3, <2>4 DEF HouseInv
<1>8. CASE ~ \E x \in rows : x.on = w /\ x.by # w
  <2>1. /\ known' = known \ {w} /\ active' = active \ {w} /\ admins' = admins \ {w}
        /\ role' = [s \in Workspaces |-> [role[s] EXCEPT ![w] = H!NoRole]]
        /\ manager' = [s \in Workspaces |-> IF manager[s] = w THEN H!Nobody ELSE manager[s]]
        /\ personal' = [s \in Workspaces |-> IF personal[s] = w THEN H!Nobody ELSE personal[s]]
        /\ rows' = {x \in rows : x.by # w}
    BY <1>1, <1>8 DEF H!Gone
  <2>2. /\ role' \in [Workspaces -> [Users -> H!Roles \cup {H!NoRole}]]
        /\ \A s \in Workspaces, v \in Users :
             role'[s][v] = IF v = w THEN H!NoRole ELSE role[s][v]
    BY <1>0, <1>3, <2>1
  <2>3. /\ personal' \in [Workspaces -> Users \cup {H!Nobody}]
        /\ manager' \in [Workspaces -> known' \cup {H!Nobody}]
    BY <1>0, <2>1
  <2>4. \A s \in Workspaces, v \in Users : role'[s][v] # H!NoRole => v \in known'
    BY <1>0, <2>1, <2>2
  <2>5. rows' \subseteq [space : made', by : known', on : known']
    <3>1. \A x \in rows' : x \in rows /\ x.by # w /\ x.on # w
      BY <1>8, <2>1
    <3>2. \A x \in rows : x \in [space : made, by : known, on : known]
      BY <1>0
    <3> QED
      BY <1>1, <2>1, <3>1, <3>2
  <2>6. H!TypeOK'
    <3>1. /\ active' \subseteq known' /\ known' \subseteq Users /\ admins' \subseteq known'
          /\ archived' \subseteq made' /\ made' \subseteq Workspaces
      BY <1>0, <1>1, <2>1
    <3> QED
      BY <1>2, <2>2, <2>3, <2>4, <2>5, <3>1, HouseTyped
  <2>7. H!AdminRemains'
    <3> SUFFICES ASSUME ~raced' PROVE u \in admins' \cap active'
      BY DEF H!AdminRemains
    <3> QED
      BY <1>6, <2>1
  <2>8. H!RowsStep
    BY <2>1 DEF H!RowsStep
  <2>9. H!GovernedStep
    <3> SUFFICES ASSUME NEW s \in made, H!Governed(s), known \subseteq known'
                 PROVE  H!Governed(s)'
      BY DEF H!GovernedStep
    <3>1. w \notin known /\ s \in Workspaces
      BY <1>0, <2>1
    <3>2. \A v \in Users : role'[s][v] = role[s][v]
      BY <1>0, <2>2, <3>1
    <3>3. manager'[s] = manager[s]
      BY <1>0, <1>3, <2>1, <3>1
    <3> QED
      BY <3>1, <3>2, <3>3, StillGoverned DEF H!Owners
  <2> QED
    BY <1>4, <1>5, <2>6, <2>7, <2>8, <2>9 DEF HouseInv
<1> QED
  BY <1>7, <1>8

LEMMA AskedAreRequests ==
  /\ \A op \in H!Ops : /\ H!Asked(op, Workspaces, H!Roles) \subseteq H!Request
                       /\ H!Asked(op, Workspaces, {H!NoRole}) \subseteq H!Request
                       /\ H!Asked(op, {0}, H!Roles) \subseteq H!Request
                       /\ H!Asked(op, {0}, {H!NoRole}) \subseteq H!Request
  /\ \A op, S, T : \A r \in H!Asked(op, S, T) : r.op = op
  BY DEF H!Asked, H!Request

\* The actions of the household, one by one.
LEMMA HouseMoves ==
  ASSUME H!HouseholdAssumption, H!Next
  PROVE  \E u \in Users :
           \/ \E r \in H!Request : (H!Ask(u, r) /\ r.op # "welcome") \/ H!NewUser(u, r)
           \/ H!Register(u) \/ H!Lose(u)
           \/ H!Invite(u) \/ H!ChangeRole(u) \/ H!Remove(u)
           \/ H!Welcome(u) \/ H!Provision(u) \/ H!Create(u)
           \/ H!Archive(u) \/ H!Book(u) \/ H!UpdateUser(u) \/ H!DeleteUser(u)
<1>0. {"invite", "welcome", "role", "remove", "create", "archive", "book", "newuser",
       "update", "delete"} = H!Ops
  BY DEF H!Ops
<1>1. ASSUME NEW u \in Users, NEW s \in Workspaces,
             H!Ask(u, [op |-> "archive", space |-> s, who |-> u, as |-> H!NoRole])
      PROVE  \E r \in H!Request : H!Ask(u, r) /\ r.op # "welcome"
  <2> DEFINE r == [op |-> "archive", space |-> s, who |-> u, as |-> H!NoRole]
  <2>1. r \in H!Request /\ r.op # "welcome"
    BY DEF H!Request, H!Ops
  <2> HIDE DEF r
  <2>2. H!Ask(u, r)
    BY <1>1 DEF r
  <2> QED
    BY <2>1, <2>2
<1>2. ASSUME NEW u \in Users, NEW a \in {"owner", H!NoRole},
             H!Ask(u, [op |-> "create", space |-> 0, who |-> u, as |-> a])
      PROVE  \E r \in H!Request : H!Ask(u, r) /\ r.op # "welcome"
  <2> DEFINE r == [op |-> "create", space |-> 0, who |-> u, as |-> a]
  <2>1. r \in H!Request /\ r.op # "welcome"
    BY Roles4 DEF H!Request, H!Ops
  <2> HIDE DEF r
  <2>2. H!Ask(u, r)
    BY <1>2 DEF r
  <2> QED
    BY <2>1, <2>2
<1>3. ASSUME NEW u \in Users,
             NEW r \in H!Asked("invite", Workspaces, H!Roles)
                       \cup H!Asked("role", Workspaces, H!Roles)
                       \cup H!Asked("remove", Workspaces, {H!NoRole})
                       \cup H!Asked("book", Workspaces, {H!NoRole})
                       \cup H!Asked("update", {0}, H!Roles)
                       \cup H!Asked("delete", {0}, {H!NoRole})
      PROVE  r \in H!Request /\ r.op # "welcome"
  BY <1>0, AskedAreRequests
<1>4. ASSUME NEW u \in Users,
             NEW r \in H!Asked("welcome", Workspaces, H!Roles)
                       \cup H!Asked("newuser", {0}, {H!NoRole})
      PROVE  r \in H!Request
  BY <1>0, AskedAreRequests
<1> QED
  BY <1>1, <1>2, <1>3, <1>4 DEF H!Next

LEMMA HouseholdStep ==
  H!HouseholdAssumption /\ HouseInv /\ [H!Next]_(H!vars)
    => HouseInv' /\ H!ArchiveStep /\ H!RowsStep /\ H!GovernedStep
<1> SUFFICES ASSUME H!HouseholdAssumption, HouseInv, [H!Next]_(H!vars)
             PROVE  HouseInv' /\ H!ArchiveStep /\ H!RowsStep /\ H!GovernedStep
  OBVIOUS
<1>1. CASE UNCHANGED H!vars
  <2>1. UNCHANGED <<known, active, admins, made, archived, personal, manager, role, rows,
                    request, raced, edits>>
    BY <1>1 DEF H!vars
  <2>2. HouseInv'
    BY <2>1 DEF HouseInv, H!TypeOK, H!Members, RequestsInv, H!AdminRemains
  <2>3. H!ArchiveStep /\ H!RowsStep /\ H!GovernedStep
    BY <2>1 DEF H!ArchiveStep, H!RowsStep, H!GovernedStep, H!Governed, H!Owners
  <2> QED
    BY <2>2, <2>3
<1>2. CASE H!Next
  BY <1>2, HouseMoves, AskKeeps, RegisterKeeps, MembersKeep, NewSpaceKeeps, ArchiveKeeps,
     BookKeeps, UpdateKeeps, DeleteKeeps
<1> QED
  BY <1>1, <1>2

-----------------------------------------------------------------------------
(* PART FIVE: THE HOME *)

\* Each behaviour follows one story; what the others keep stays as it began.
HouseholdSide == H!AdminRemains /\ (story = "household" => HouseInv)
AlertsSide == ~twice /\ (story = "alerts" => AlertsInv)
ProposalsSide ==
  /\ P!OnlyAsked /\ P!CardTruth /\ P!LandsWithAccount
  /\ story = "proposals" => ProposalsInv
CaptureSide == C!OneRowEach /\ (story = "capture" => CaptureInv)

\* What a step of the home is for each of the four this module is about.
LEMMA HomeSides ==
  ASSUME [HomeNext]_homeVars
  PROVE  /\ story' = story
         /\ story = "household" => [H!Next]_(H!vars)
         /\ story = "alerts" => [Next]_vars
         /\ story = "proposals" => [P!Next]_(P!vars)
         /\ story = "capture" => [C!Next]_(C!vars)
         /\ story # "household" => UNCHANGED household
         /\ story # "alerts" => UNCHANGED alerts
         /\ story # "proposals" => UNCHANGED proposals
         /\ story # "capture" => UNCHANGED capture
<1>1. CASE UNCHANGED homeVars
  BY <1>1 DEF homeVars, household, alerts, proposals, capture, H!vars, vars, P!vars, C!vars
<1>2. CASE HouseholdNext
  BY <1>2 DEF HouseholdNext
<1>3. CASE AlertsNext
  BY <1>3 DEF AlertsNext
<1>4. CASE ProposalsNext
  BY <1>4 DEF ProposalsNext
<1>5. CASE CaptureNext
  BY <1>5 DEF CaptureNext
<1>6. CASE TransfersNext
  BY <1>6 DEF TransfersNext
<1> QED
  BY <1>1, <1>2, <1>3, <1>4, <1>5, <1>6 DEF HomeNext

\* The installation keeps somebody who can administer it, a workspace somebody
\* who can govern it; who archives a workspace has another, and the deletion of
\* a user takes no row of the others with it, unless requests crossed
\* (workspace_service, admin_service): for any users, workspaces and requests.
THEOREM HomeGoverned == HomeSpec => HouseholdGoverned
<1>1. HomeInit => HouseholdSide
  BY HouseholdInit, HomeAssumption DEF HomeInit, HouseholdSide, HouseInv
<1>2. HouseholdSide /\ [HomeNext]_homeVars =>
        HouseholdSide' /\ H!GovernedStep /\ H!ArchiveStep /\ H!RowsStep
  <2> SUFFICES ASSUME HouseholdSide, [HomeNext]_homeVars
               PROVE  HouseholdSide' /\ H!GovernedStep /\ H!ArchiveStep /\ H!RowsStep
    OBVIOUS
  <2>1. CASE story = "household"
    BY <2>1, HomeSides, HouseholdStep, HomeAssumption DEF HouseholdSide, HouseInv
  <2>2. CASE story # "household"
    BY <2>2, HomeSides DEF HouseholdSide, household, H!AdminRemains, H!GovernedStep,
       H!Governed, H!Owners, H!ArchiveStep, H!RowsStep
  <2> QED
    BY <2>1, <2>2
<1>3. HouseholdSide => H!AdminRemains /\ (story = "household" => H!TypeOK)
  BY DEF HouseholdSide, HouseInv
<1> QED
  BY <1>1, <1>2, <1>3, PTL DEF HomeSpec, HouseholdGoverned

(* An alert is pushed to a member once, whatever the hourly task, the       *)
(* button, a crash and a change of time zone do, and never goes back:       *)
(* dismissed it stays dismissed, read it is not unread again                *)
(* (create_due_date_alerts, send_notifications_push,                        *)
(* models/notification.py:28).                                              *)
THEOREM PushedOnce == HomeSpec => AlertedOnce
<1>1. HomeInit => AlertsSide
  BY AlertsInit DEF HomeInit, AlertsSide, AlertsInv
<1>2. AlertsSide /\ [HomeNext]_homeVars => AlertsSide' /\ Onwards
  <2> SUFFICES ASSUME AlertsSide, [HomeNext]_homeVars PROVE AlertsSide' /\ Onwards
    OBVIOUS
  <2>1. CASE story = "alerts"
    BY <2>1, HomeSides, AlertsStep DEF AlertsSide, AlertsInv
  <2>2. CASE story # "alerts"
    <3>1. twice' = twice /\ status' = status /\ story' = story
      BY <2>2, HomeSides DEF alerts
    <3>2. \A s : Rank(s) \in {1, 2, 3}
      BY DEF Rank
    <3>3. Onwards
      BY <3>1, <3>2 DEF Onwards
    <3>4. ~twice'
      BY <3>1 DEF AlertsSide
    <3> QED
      BY <2>2, <3>1, <3>3, <3>4 DEF AlertsSide
  <2> QED
    BY <2>1, <2>2
<1>3. AlertsSide => ~twice
  BY DEF AlertsSide
<1>4. AlertsSide /\ [HomeNext]_homeVars => [Onwards]_vars
  BY <1>2
<1> QED
  BY <1>1, <1>2, <1>3, <1>4, PTL DEF HomeSpec, AlertedOnce

(* Nothing is written more often than somebody asked for it, a card marked  *)
(* as applied was, an entry lands in the workspace of its account, and an   *)
(* amendment leaves the name the user gave the bill since alone             *)
(* (proposals.py:83, chat-panel.tsx): for any number of proposals and       *)
(* clicks, whatever is lost or answered late.                               *)
THEOREM AgentsKeepToIt == HomeSpec => ProposalsKept
<1>1. HomeInit => ProposalsSide
  BY ProposalsInit, CountsAgree, HomeAssumption DEF HomeInit, ProposalsSide
<1>2. ProposalsSide /\ [HomeNext]_homeVars => ProposalsSide' /\ P!LabelStep
  <2> SUFFICES ASSUME ProposalsSide, [HomeNext]_homeVars PROVE ProposalsSide' /\ P!LabelStep
    OBVIOUS
  <2>1. CASE story = "proposals"
    <3>1. ProposalsInv' /\ P!LabelStep
      BY <2>1, HomeSides, ProposalsStep, HomeAssumption DEF ProposalsSide
    <3>2. (P!OnlyAsked /\ P!CardTruth /\ P!LandsWithAccount)'
      <4>1. (P!ProposalsAssumption /\ ProposalsInv
               => P!TypeOK /\ P!OnlyAsked /\ P!CardTruth /\ P!LandsWithAccount)'
        BY CountsAgree, PTL
      <4> QED
        BY <3>1, <4>1, HomeAssumption DEF P!ProposalsAssumption
    <3> QED
      BY <3>1, <3>2 DEF ProposalsSide
  <2>2. CASE story # "proposals"
    <3>1. UNCHANGED proposals /\ story' = story
      BY <2>2, HomeSides
    <3>2. UNCHANGED <<where, plan, filed, taken, prop, writes, asked, stored, card, marked, requests>>
      BY <3>1 DEF proposals
    <3>3. P!OnlyAsked' /\ P!CardTruth' /\ P!LandsWithAccount'
      BY <3>2 DEF ProposalsSide, P!OnlyAsked, P!CardTruth, P!LandsWithAccount, P!Written
    <3>4. P!LabelStep
      BY <3>2 DEF P!LabelStep
    <3> QED
      BY <2>2, <3>1, <3>3, <3>4 DEF ProposalsSide
  <2> QED
    BY <2>1, <2>2
<1>3. ProposalsSide => /\ P!OnlyAsked /\ P!CardTruth /\ P!LandsWithAccount
                       /\ story = "proposals" => P!TypeOK
  BY DEF ProposalsSide, ProposalsInv
<1> QED
  BY <1>1, <1>2, <1>3, PTL DEF HomeSpec, ProposalsKept

(* A notification has one row, the webhook opens no second account for a    *)
(* user who has one of the application, and a purchase lands on the card it *)
(* names, a payment on a checking account, unless deliveries crossed        *)
(* (webhooks.py:227-284, 565): for any users, accounts and notifications.   *)
THEOREM CapturedWell == HomeSpec => CapturedOnce
<1>1. HomeInit => CaptureSide
  BY CaptureInit, CaptureFacts, HomeAssumption DEF HomeInit, CaptureSide
<1>2. CaptureSide /\ [HomeNext]_homeVars => CaptureSide' /\ C!OpeningStep /\ C!LandingStep
  <2> SUFFICES ASSUME CaptureSide, [HomeNext]_homeVars
               PROVE  CaptureSide' /\ C!OpeningStep /\ C!LandingStep
    OBVIOUS
  <2>1. CASE story = "capture"
    <3>1. CaptureInv' /\ C!OpeningStep /\ C!LandingStep
      BY <2>1, HomeSides, CaptureStep, HomeAssumption DEF CaptureSide
    <3>2. (CaptureInv => C!TypeOK /\ C!OneRowEach)'
      BY CaptureFacts, PTL
    <3> QED
      BY <3>1, <3>2 DEF CaptureSide
  <2>2. CASE story # "capture"
    <3>1. UNCHANGED capture /\ story' = story
      BY <2>2, HomeSides
    <3>2. UNCHANGED <<goesBy, account, captured, inFlight, crossed>>
      BY <3>1 DEF capture
    <3>3. C!OneRowEach'
      BY <3>2 DEF CaptureSide, C!OneRowEach
    <3>4. C!OpeningStep /\ C!LandingStep
      BY <3>2, NothingLands
    <3> QED
      BY <2>2, <3>1, <3>3, <3>4 DEF CaptureSide
  <2> QED
    BY <2>1, <2>2
<1>3. CaptureSide => C!OneRowEach /\ (story = "capture" => C!TypeOK)
  BY CaptureFacts DEF CaptureSide
<1> QED
  BY <1>1, <1>2, <1>3, PTL DEF HomeSpec, CapturedOnce

-----------------------------------------------------------------------------
(* PART SIX: A CONVERSATION.  For any number of turns in any order, of     *)
(* tool calls and of rounds, turns cut off anywhere and a conversation     *)
(* deleted under them, every message of a turn sorts after the turn's      *)
(* earlier ones, every tool call of a turn that came to an end has its     *)
(* result, and an answered turn has one question and one last answer.      *)

Mine(t) == {m \in messages : m.turn = t}

\* The ordinals a bound holds: a highest one is needed of a finite set only.
Plain ==
  /\ exists \in BOOLEAN
  /\ messages \subseteq Message
  /\ \A m \in messages : m.ord <= MaxRows
  /\ phase \in [Turns -> Phases]
  /\ number \in [Turns -> Nat]
  /\ \A t \in Turns : number[t] <= MaxRows
  /\ sees \in [Turns -> BOOLEAN]
  /\ wanted \in [Turns -> SUBSET Nat]
  /\ results \in [Turns -> SUBSET Nat]
  /\ iter \in [Turns -> Nat]
  /\ cuts \in 0 .. MaxCuts

\* The local variables of a turn: no result without its call, and calls are
\* asked for before the last round.
Working(t) ==
  /\ results[t] \subseteq wanted[t]
  /\ wanted[t] \subseteq 1 .. MaxCalls[t]
  /\ iter[t] <= MaxIters
  /\ phase[t] \in {"idle", "question", "load", "model", "calls", "tools", "results"} =>
       iter[t] < MaxIters
  /\ phase[t] \in {"idle", "question", "load", "model", "calls", "tools"} => results[t] = {}
  /\ phase[t] \in {"calls", "tools"} => \E k \in Nat \ {0} : wanted[t] = 1 .. k
  /\ phase[t] = "results" => results[t] # {}

\* The messages of a turn are numbered from 1 and ordered by their numbers, and
\* an ordinal that was read and is not yet written is beyond them.
Sorted(t) ==
  /\ IsFiniteSet(Mine(t))
  /\ \A m \in Mine(t) : m.n \in 1 .. Count(t)
  /\ \A m \in Mine(t) : number[t] # 0 => m.ord < number[t]
  /\ \A a, b \in Mine(t) : a.n < b.n => a.ord < b.ord

\* The calls of m have their results, ...
Replied(t, m) ==
  /\ m.n + m.call <= Count(t)
  /\ {r.call : r \in ResultsAfter(t, m)} = 1 .. m.call

\* ... or the first of them have, and the turn holds those of the others.
Replying(t, m) ==
  /\ m.n + m.call > Count(t)
  /\ {r.call : r \in ResultsAfter(t, m)} = 1 .. (Count(t) - m.n)
  /\ wanted[t] = 1 .. m.call
  /\ phase[t] = "tools" => Count(t) = m.n
  /\ phase[t] = "results" => results[t] = (Count(t) - m.n + 1) .. m.call

\* What a turn has written, by where it is; a deleted conversation holds nothing.
Told(t) ==
  exists =>
    /\ phase[t] \in {"idle", "question"} => Mine(t) = {}
    /\ phase[t] \in Phases \ {"idle", "question", "failed", "cut"} =>
         \E q : Written(t, "question") = {q}
    /\ phase[t] \in {"load", "model", "calls", "tools", "results", "answer", "fallback"} =>
         Written(t, "answer") = {}
    /\ phase[t] \in {"answered", "capped"} =>
         \E a : Written(t, "answer") = {a} /\ a.n = Count(t)
    /\ phase[t] \in Phases \ {"tools", "results", "cut"} =>
         \A m \in Written(t, "calls") : Replied(t, m)
    /\ phase[t] \in {"tools", "results"} =>
         \A m \in Written(t, "calls") : Replied(t, m) \/ Replying(t, m)

Turn(t) == Working(t) /\ Sorted(t) /\ Told(t)

ChatInv ==
  /\ Plain
  /\ exists = FALSE => messages = {}
  /\ \A t \in Turns : Turn(t)

-----------------------------------------------------------------------------
LEMMA Least ==
  ASSUME NEW T, T \subseteq Nat, T # {}
  PROVE  \E d \in T : \A e \in T : d <= e
<1>1. PICK d \in T : \A e \in T : <<e, d>> \notin OpToRel(<, Nat)
  BY NatLessThanWellFounded, WFMin
<1>2. \A e \in T : ~(e < d)
  BY <1>1 DEF OpToRel
<1> QED
  BY <1>2

LEMMA MinIs ==
  ASSUME NEW T, T \subseteq Nat, T # {}
  PROVE  Min(T) \in T /\ \A e \in T : Min(T) <= e
<1>1. \E d \in T : \A e \in T : d <= e
  BY Least
<1> QED
  BY <1>1 DEF Min

LEMMA MaxIs ==
  ASSUME NEW T, T \subseteq Nat, T # {}, NEW n \in Nat, \A e \in T : e <= n
  PROVE  Max(T) \in T /\ \A e \in T : e <= Max(T)
<1> DEFINE U == {n - e : e \in T}
<1>0. \A e \in T : n - e \in Nat
  OBVIOUS
<1>1. U \subseteq Nat /\ U # {}
  BY <1>0
<1>2. PICK u \in U : \A v \in U : u <= v
  <2> HIDE DEF U
  <2> QED
    BY <1>1, Least
<1>3. PICK d \in T : u = n - d
  OBVIOUS
<1>4. \A e \in T : n - e \in U
  OBVIOUS
<1> HIDE DEF U
<1>5. \A e \in T : d >= e
  BY <1>2, <1>3, <1>4
<1> QED
  BY <1>5 DEF Max

LEMMA NextIsLater ==
  ASSUME Plain, ChatAssumption, NEW t
  PROVE  NextOrdinal(t) \in Nat \ {0} /\ \A m \in messages : m.ord < NextOrdinal(t)
<1> DEFINE T == {m.ord : m \in messages} \cup {0}
<1>1. \A m \in messages : m.ord \in Nat /\ m.ord <= MaxRows
  BY DEF Plain, Message
<1>2. T \subseteq Nat /\ T # {} /\ MaxRows \in Nat /\ \A e \in T : e <= MaxRows
  BY <1>1 DEF ChatAssumption
<1>3. \A m \in messages : m.ord \in T
  OBVIOUS
<1>4. NextOrdinal(t) = Max(T) + 1
  BY DEF NextOrdinal
<1> HIDE DEF T
<1>5. Max(T) \in T /\ \A e \in T : e <= Max(T)
  BY <1>2, MaxIs
<1>6. \A m \in messages : m.ord <= Max(T)
  BY <1>3, <1>5
<1>7. Max(T) \in Nat
  BY <1>2, <1>5
<1> QED
  BY <1>1, <1>4, <1>6, <1>7

-----------------------------------------------------------------------------
(* Steps of other turns, and steps that write nothing *)

\* The story of a turn rests on its messages and its variables only.
LEMMA TurnUntouched ==
  ASSUME NEW t, Turn(t), exists' => exists, Mine(t)' = Mine(t),
         phase'[t] = phase[t], number'[t] = number[t], wanted'[t] = wanted[t],
         results'[t] = results[t], iter'[t] = iter[t]
  PROVE  Turn(t)'
<1>1. \A kind : Written(t, kind)' = Written(t, kind)
  <2>1. \A kind : /\ Written(t, kind) = {m \in Mine(t) : m.kind = kind}
                  /\ Written(t, kind)' = {m \in Mine(t)' : m.kind = kind}
    BY DEF Written, Mine
  <2> QED
    BY <2>1
<1>2. Count(t)' = Count(t)
  <2>1. Count(t) = Cardinality(Mine(t)) /\ Count(t)' = Cardinality(Mine(t)')
    BY DEF Count, Mine
  <2> QED
    BY <2>1
<1>3. \A m : ResultsAfter(t, m)' = ResultsAfter(t, m)
  BY <1>1 DEF ResultsAfter
<1>4. \A m : (Replied(t, m)' <=> Replied(t, m)) /\ (Replying(t, m)' <=> Replying(t, m))
  BY <1>2, <1>3 DEF Replied, Replying
<1>5. Working(t)'
  BY DEF Turn, Working
<1>6. Sorted(t)'
  BY <1>2 DEF Turn, Sorted
<1>7. Told(t)'
  BY <1>1, <1>2, <1>4 DEF Turn, Told
<1> QED
  BY <1>5, <1>6, <1>7 DEF Turn

\* A step that writes no message leaves what the messages say.
LEMMA NothingWritten ==
  ASSUME messages' = messages
  PROVE  \A t : /\ Mine(t)' = Mine(t)
                /\ Count(t)' = Count(t)
                /\ \A kind : Written(t, kind)' = Written(t, kind)
                /\ \A m : ResultsAfter(t, m)' = ResultsAfter(t, m)
                /\ \A m : Replied(t, m)' <=> Replied(t, m)
  BY DEF Mine, Count, Written, ResultsAfter, Replied

-----------------------------------------------------------------------------
(* Appending a message *)

\* The new message is the last of its turn, and changes nothing else of it.
LEMMA Appended ==
  ASSUME Plain, NEW t \in Turns, Sorted(t), number[t] # 0, NEW kind \in MessageKinds, NEW call \in Nat,
         NEW new, new = [turn |-> t, n |-> Count(t) + 1, kind |-> kind,
                         ord |-> number[t], call |-> call],
         messages' = messages \cup {new}, number'[t] = 0
  PROVE  /\ new \in Message /\ new.ord <= MaxRows
         /\ Count(t) \in Nat /\ Count(t)' = Count(t) + 1
         /\ \A m \in Mine(t) : m \in Message /\ m.n \in 1 .. Count(t)
         /\ \A u : u # t => Mine(u)' = Mine(u)
         /\ Written(t, kind)' = Written(t, kind) \cup {new}
         /\ \A k : k # kind => Written(t, k)' = Written(t, k)
         /\ Sorted(t)'
<1>1. /\ new \in Message /\ new.ord <= MaxRows /\ new.turn = t /\ new.kind = kind
      /\ new.n = Count(t) + 1 /\ new.ord = number[t]
      /\ Count(t) \in Nat
  <2>1. Count(t) = Cardinality(Mine(t)) /\ IsFiniteSet(Mine(t))
    BY DEF Count, Mine, Sorted
  <2>2. Count(t) \in Nat
    BY <2>1, FS_CardinalityType
  <2> QED
    BY <2>2 DEF Plain, Message
<1>2. Mine(t)' = Mine(t) \cup {new} /\ \A u : u # t => Mine(u)' = Mine(u)
  BY <1>1 DEF Mine
<1>3. \A m \in Mine(t) : m \in Message /\ m.n \in 1 .. Count(t) /\ m.ord < new.ord
  BY <1>1 DEF Sorted, Mine, Plain
<1>4. new \notin Mine(t)
  BY <1>1, <1>3
<1>5. IsFiniteSet(Mine(t)') /\ Count(t)' = Count(t) + 1
  <2>1. Count(t) = Cardinality(Mine(t)) /\ Count(t)' = Cardinality(Mine(t)')
    BY DEF Count, Mine
  <2>2. IsFiniteSet(Mine(t) \cup {new}) /\ Cardinality(Mine(t) \cup {new}) = Cardinality(Mine(t)) + 1
    BY <1>4, FS_AddElement DEF Sorted
  <2> QED
    BY <1>2, <2>1, <2>2
<1>6. /\ Written(t, kind)' = Written(t, kind) \cup {new}
      /\ \A k : k # kind => Written(t, k)' = Written(t, k)
  BY <1>1 DEF Written
<1>7. \A m \in Mine(t)' : m.n \in 1 .. Count(t)'
  BY <1>1, <1>2, <1>3, <1>5
<1>8. \A a, b \in Mine(t)' : a.n < b.n => a.ord < b.ord
  <2>1. \A a, b \in Mine(t) : a.n < b.n => a.ord < b.ord
    BY DEF Sorted
  <2> QED
    BY <1>1, <1>2, <1>3, <2>1 DEF Message
<1> QED
  BY <1>1, <1>2, <1>3, <1>5, <1>6, <1>7, <1>8 DEF Sorted

\* Calls that had their results keep them: the next message is beyond.
LEMMA RepliesStand ==
  ASSUME Plain, NEW t \in Turns, Sorted(t), number[t] # 0, NEW kind \in MessageKinds, NEW call \in Nat,
         NEW new, new = [turn |-> t, n |-> Count(t) + 1, kind |-> kind,
                         ord |-> number[t], call |-> call],
         messages' = messages \cup {new}, number'[t] = 0,
         NEW m \in Mine(t), Replied(t, m)
  PROVE  Replied(t, m)'
<1>1. /\ Count(t) \in Nat /\ Count(t)' = Count(t) + 1 /\ m \in Message
      /\ Written(t, "result")' \subseteq Written(t, "result") \cup {new}
      /\ Written(t, "result") \subseteq Written(t, "result")'
      /\ new.n = Count(t) + 1
  BY Appended
<1>2. m.n + m.call <= Count(t) /\ m.n \in Nat /\ m.call \in Nat
  BY <1>1 DEF Replied, Message
<1>3. ResultsAfter(t, m)' = ResultsAfter(t, m)
  BY <1>1, <1>2 DEF ResultsAfter
<1> QED
  BY <1>1, <1>2, <1>3 DEF Replied

\* Either the message is appended, or the conversation is gone and the turn fails.
LEMMA AppendMoves ==
  ASSUME NEW t \in Turns, NEW kind, NEW call, NEW next, AppendMessage(t, kind, call, next)
  PROVE  /\ number[t] # 0
         /\ number' = [number EXCEPT ![t] = 0]
         /\ \/ /\ exists
               /\ messages' = messages \cup {[turn |-> t, n |-> Count(t) + 1, kind |-> kind,
                                          ord |-> number[t], call |-> call]}
               /\ phase' = [phase EXCEPT ![t] = next]
            \/ /\ ~exists
               /\ messages' = messages
               /\ phase' = [phase EXCEPT ![t] = "failed"]
  BY DEF AppendMessage, Go

-----------------------------------------------------------------------------
(* The steps *)

LEMMA InitHolds ==
  ASSUME ChatAssumption, ChatInit
  PROVE  ChatInv
<1>1. Plain
  <2>1. exists \in BOOLEAN
    BY Zenon DEF ChatInit
  <2>2. sees \in [Turns -> BOOLEAN]
    BY Zenon DEF ChatInit
  <2> QED
    BY <2>1, <2>2 DEF ChatInit, Plain, Phases, ChatAssumption
<1>2. exists = FALSE => messages = {}
  BY DEF ChatInit
<1>3. ASSUME NEW t \in Turns PROVE Turn(t)
  <2>1. Mine(t) = {} /\ \A k : Written(t, k) = {}
    BY DEF ChatInit, Mine, Written
  <2>2. Working(t)
    BY DEF Working, ChatInit, ChatAssumption
  <2>3. Sorted(t)
    BY <2>1, FS_EmptySet DEF Sorted
  <2>4. phase[t] = "idle"
    BY DEF ChatInit
  <2>5. Told(t)
    BY <2>1, <2>4 DEF Told
  <2> QED
    BY <2>2, <2>3, <2>5 DEF Turn
<1> QED
  BY <1>1, <1>2, <1>3 DEF ChatInv

\* Where a turn has written nothing, the others see nothing of it.
LEMMA OthersSame ==
  ASSUME ChatInv, NEW t \in Turns, messages' = messages, exists' = exists,
         \A u \in Turns : u # t =>
            /\ phase'[u] = phase[u] /\ number'[u] = number[u] /\ wanted'[u] = wanted[u]
            /\ results'[u] = results[u] /\ iter'[u] = iter[u],
         Turn(t)', Plain'
  PROVE  ChatInv'
<1>1. exists' = FALSE => messages' = {}
  BY DEF ChatInv
<1>2. ASSUME NEW u \in Turns, u # t PROVE Turn(u)'
  <2>1. Turn(u) /\ Mine(u)' = Mine(u)
    BY NothingWritten DEF ChatInv
  <2> QED
    BY <1>2, <2>1, TurnUntouched
<1> QED
  BY <1>1, <1>2 DEF ChatInv

LEMMA SendKeeps ==
  ASSUME ChatInv, NEW t \in Turns, Send(t)
  PROVE  ChatInv'
<1>1. Plain'
  BY DEF ChatInv, Plain, Send, Go, Phases, Writing
<1>2. Turn(t) /\ messages' = messages /\ exists' = exists /\ phase[t] = "idle"
      /\ phase'[t] = "question" /\ phase' = [phase EXCEPT ![t] = "question"]
      /\ number' = number /\ wanted' = wanted /\ results' = results /\ iter' = iter
  BY DEF ChatInv, Plain, Send, Go
<1>3. Working(t)' /\ Sorted(t)'
  BY <1>2, NothingWritten DEF Turn, Working, Sorted
<1>4. Told(t)'
  BY <1>2, NothingWritten DEF Turn, Told, Phases, Writing, Ended
<1> QED
  BY <1>1, <1>2, <1>3, <1>4, OthersSame DEF Turn

LEMMA NumberKeeps ==
  ASSUME ChatAssumption, ChatInv, NEW t \in Turns, Number(t)
  PROVE  ChatInv'
<1>1. /\ NextOrdinal(t) \in Nat \ {0} /\ NextOrdinal(t) <= MaxRows
      /\ \A m \in messages : m.ord < NextOrdinal(t)
  BY NextIsLater DEF ChatInv, Number
<1>2. number' = [number EXCEPT ![t] = NextOrdinal(t)]
      /\ UNCHANGED <<exists, messages, phase, sees, wanted, results, iter, cuts>>
  BY DEF Number
<1>3. Plain'
  BY <1>1, <1>2 DEF ChatInv, Plain
<1>4. Turn(t) /\ number'[t] = NextOrdinal(t)
  BY <1>2 DEF ChatInv, Plain
<1>5. Working(t)'
  BY <1>2, <1>4 DEF Turn, Working
<1>6. Sorted(t)'
  <2>1. \A m \in Mine(t) : m.ord < number'[t]
    BY <1>1, <1>4 DEF Mine
  <2> QED
    BY <1>2, <1>4, <2>1, NothingWritten DEF Turn, Sorted
<1>7. Told(t)'
  <2>1. \A m : Replying(t, m)' <=> Replying(t, m)
    BY <1>2, NothingWritten DEF Replying
  <2> QED
    BY <1>2, <1>4, <2>1, NothingWritten DEF Turn, Told
<1>8. \A u \in Turns : u # t => number'[u] = number[u]
  BY <1>2 DEF ChatInv, Plain
<1> QED
  BY <1>2, <1>3, <1>5, <1>6, <1>7, <1>8, OthersSame DEF Turn

\* An append touches no other turn, and keeps its own in order.
LEMMA AppendKeeps ==
  ASSUME ChatAssumption, ChatInv, NEW t \in Turns, NEW kind \in MessageKinds, NEW call \in Nat, NEW next \in Phases,
         AppendMessage(t, kind, call, next), exists' = exists, cuts' = cuts,
         sees' \in [Turns -> BOOLEAN], wanted' \in [Turns -> SUBSET Nat],
         results' \in [Turns -> SUBSET Nat], iter' \in [Turns -> Nat],
         \A u \in Turns : u # t =>
            wanted'[u] = wanted[u] /\ results'[u] = results[u] /\ iter'[u] = iter[u],
         Working(t)', Told(t)'
  PROVE  ChatInv'
<1> DEFINE new == [turn |-> t, n |-> Count(t) + 1, kind |-> kind, ord |-> number[t], call |-> call]
<1>1. /\ number[t] # 0
      /\ number' = [number EXCEPT ![t] = 0]
      /\ \/ /\ exists
            /\ messages' = messages \cup {new}
            /\ phase' = [phase EXCEPT ![t] = next]
         \/ /\ ~exists
            /\ messages' = messages
            /\ phase' = [phase EXCEPT ![t] = "failed"]
  BY AppendMoves
<1>2. Plain /\ Sorted(t)
  BY DEF ChatInv, Turn
<1>3. /\ number'[t] = 0 /\ number' \in [Turns -> Nat] /\ phase' \in [Turns -> Phases]
      /\ \A u \in Turns : number'[u] <= MaxRows
      /\ \A u \in Turns : u # t => phase'[u] = phase[u] /\ number'[u] = number[u]
  BY <1>1, <1>2 DEF Plain, Phases, Ended, ChatAssumption
<1>4. /\ messages' \subseteq Message
      /\ \A m \in messages' : m.ord <= MaxRows
      /\ \A u : u # t => Mine(u)' = Mine(u)
      /\ Sorted(t)'
      /\ exists' = FALSE => messages' = {}
  <2>1. CASE exists /\ messages' = messages \cup {new}
    <3>1. PICK x : x = new
      OBVIOUS
    <3> HIDE DEF new
    <3>2. /\ x \in Message /\ x.ord <= MaxRows
          /\ \A u : u # t => Mine(u)' = Mine(u)
          /\ Sorted(t)'
      BY <1>2, <1>1, <1>3, <2>1, <3>1, Appended DEF new
    <3> QED
      BY <1>2, <2>1, <3>1, <3>2 DEF Plain
  <2>2. CASE ~exists /\ messages' = messages
    <3>1. Sorted(t)'
      BY <1>2, <1>3, <2>2, NothingWritten DEF Sorted
    <3> QED
      BY <1>2, <2>2, <3>1, NothingWritten DEF ChatInv, Plain
  <2> QED
    BY <1>1, <2>1, <2>2
<1>5. Plain'
  BY <1>2, <1>3, <1>4 DEF Plain
<1>6. ASSUME NEW u \in Turns, u # t PROVE Turn(u)'
  <2>1. Turn(u) /\ Mine(u)' = Mine(u) /\ phase'[u] = phase[u] /\ number'[u] = number[u]
    BY <1>3, <1>4, <1>6 DEF ChatInv
  <2> QED
    BY <1>6, <2>1, TurnUntouched
<1> QED
  BY <1>4, <1>5, <1>6 DEF ChatInv, Turn

LEMMA SaveQuestionKeeps ==
  ASSUME ChatAssumption, ChatInv, NEW t \in Turns, SaveQuestion(t)
  PROVE  ChatInv'
<1>1. /\ AppendMessage(t, "question", 0, "load") /\ phase[t] = "question"
      /\ exists' = exists /\ sees' = sees /\ wanted' = wanted /\ results' = results
      /\ iter' = iter /\ cuts' = cuts
      /\ Plain /\ Turn(t) /\ Sorted(t) /\ Working(t)
  BY DEF SaveQuestion, ChatInv, Turn
<1>2. phase[t] \in Phases /\ phase \in [Turns -> Phases] /\ number \in [Turns -> Nat]
  BY <1>1 DEF Plain
<1> DEFINE new == [turn |-> t, n |-> Count(t) + 1, kind |-> "question", ord |-> number[t], call |-> 0]
<1>3. /\ number[t] # 0 /\ number'[t] = 0
      /\ \/ exists /\ messages' = messages \cup {new} /\ phase'[t] = "load"
         \/ ~exists /\ messages' = messages /\ phase'[t] = "failed"
  BY <1>1, <1>2, AppendMoves
<1>4. Working(t)'
  BY <1>1, <1>3 DEF Working
<1>5. Told(t)'
  <2>1. CASE ~exists
    BY <1>1, <2>1 DEF Told
  <2>2. CASE exists /\ messages' = messages \cup {new} /\ phase'[t] = "load"
    <3>1. Mine(t) = {} /\ \A k : Written(t, k) = {}
      BY <1>1, <2>2 DEF Turn, Told, Mine, Written
    <3>2. PICK x : x = new
      OBVIOUS
    <3> HIDE DEF new
    <3>3. /\ Written(t, "question")' = Written(t, "question") \cup {x}
          /\ Written(t, "answer")' = Written(t, "answer")
          /\ Written(t, "calls")' = Written(t, "calls")
      BY <1>1, <1>3, <2>2, <3>2, Appended DEF new, MessageKinds
    <3> QED
      BY <2>2, <3>1, <3>3 DEF Told
  <2> QED
    BY <1>3, <2>1, <2>2
<1>6. "question" \in MessageKinds /\ "load" \in Phases
  BY DEF MessageKinds, Phases
<1> QED
  BY <1>1, <1>4, <1>5, <1>6, AppendKeeps DEF Plain

LEMMA LoadKeeps ==
  ASSUME ChatInv, NEW t \in Turns, Load(t)
  PROVE  ChatInv'
<1>1. /\ phase[t] = "load" /\ phase' = [phase EXCEPT ![t] = "model"]
      /\ UNCHANGED <<exists, messages, number, wanted, results, iter, cuts>>
      /\ \E b : sees' = [sees EXCEPT ![t] = b]
      /\ Plain /\ Turn(t)
  BY DEF Load, Go, ChatInv
<1>2. sees' \in [Turns -> BOOLEAN]
  <2>1. PICK h : sees' = [sees EXCEPT ![t] = Written(t, "question") \subseteq h]
    BY DEF Load
  <2>2. (Written(t, "question") \subseteq h) \in BOOLEAN
    OBVIOUS
  <2>3. sees \in [Turns -> BOOLEAN]
    BY <1>1, Zenon DEF Plain
  <2> QED
    BY <2>1, <2>2, <2>3, Zenon
<1>3. Plain'
  BY <1>1, <1>2 DEF Plain, Phases
<1>4. phase'[t] = "model" /\ \A u \in Turns : u # t => phase'[u] = phase[u]
  BY <1>1 DEF Plain
<1>5. Working(t)' /\ Sorted(t)'
  BY <1>1, <1>4, NothingWritten DEF Turn, Working, Sorted
<1>6. Told(t)'
  BY <1>1, <1>4, NothingWritten DEF Turn, Told, Phases, Writing, Ended
<1> QED
  BY <1>1, <1>3, <1>4, <1>5, <1>6, OthersSame DEF Turn

LEMMA AnswerKeeps ==
  ASSUME ChatInv, NEW t \in Turns, Answer(t)
  PROVE  ChatInv'
<1>1. /\ phase[t] = "model" /\ phase' = [phase EXCEPT ![t] = "answer"]
      /\ UNCHANGED <<exists, messages, number, sees, wanted, results, iter, cuts>>
      /\ Plain /\ Turn(t)
  BY DEF Answer, Go, ChatInv
<1>2. Plain'
  BY <1>1 DEF Plain, Phases, Writing
<1>3. phase'[t] = "answer" /\ \A u \in Turns : u # t => phase'[u] = phase[u]
  BY <1>1 DEF Plain
<1>4. Working(t)' /\ Sorted(t)'
  BY <1>1, <1>3, NothingWritten DEF Turn, Working, Sorted
<1>5. Told(t)'
  BY <1>1, <1>3, NothingWritten DEF Turn, Told, Phases, Writing, Ended
<1> QED
  BY <1>1, <1>2, <1>3, <1>4, <1>5, OthersSame DEF Turn

LEMMA CallKeeps ==
  ASSUME ChatAssumption, ChatInv, NEW t \in Turns, Call(t)
  PROVE  ChatInv'
<1>1. /\ phase[t] = "model" /\ phase' = [phase EXCEPT ![t] = "calls"]
      /\ UNCHANGED <<exists, messages, number, sees, results, iter, cuts>>
      /\ Plain /\ Turn(t)
  BY DEF Call, Go, ChatInv
<1>2. PICK k \in Nat \ {0} : k <= MaxCalls[t] /\ wanted' = [wanted EXCEPT ![t] = 1 .. k]
  <2>1. MaxCalls[t] \in Nat \ {0}
    BY DEF ChatAssumption
  <2>2. PICK k \in 1 .. (IF iter[t] = 0 THEN MaxCalls[t] ELSE 1) :
           wanted' = [wanted EXCEPT ![t] = 1 .. k]
    BY DEF Call
  <2>3. k \in Nat \ {0} /\ k <= MaxCalls[t]
    BY <2>1, <2>2
  <2> QED
    BY <2>2, <2>3
<1>3. Plain'
  BY <1>1, <1>2 DEF Plain, Phases, Writing
<1>4. /\ phase'[t] = "calls" /\ wanted'[t] = 1 .. k
      /\ \A u \in Turns : u # t => phase'[u] = phase[u] /\ wanted'[u] = wanted[u]
  BY <1>1, <1>2 DEF Plain
<1>5. Working(t)'
  BY <1>1, <1>2, <1>4 DEF Turn, Working, ChatAssumption
<1>6. Sorted(t)'
  BY <1>1, <1>4, NothingWritten DEF Turn, Sorted
<1>7. Told(t)'
  BY <1>1, <1>4, NothingWritten DEF Turn, Told, Phases, Writing, Ended
<1> QED
  BY <1>1, <1>3, <1>4, <1>5, <1>6, <1>7, OthersSame DEF Turn

\* A turn that writes nothing more and has ended loses nothing it has written.
LEMMA ProviderErrorKeeps ==
  ASSUME ChatAssumption, ChatInv, NEW t \in Turns, ProviderError(t)
  PROVE  ChatInv'
<1>1. /\ phase[t] = "model" /\ phase' = [phase EXCEPT ![t] = "failed"]
      /\ wanted' = [wanted EXCEPT ![t] = {}] /\ results' = [results EXCEPT ![t] = {}]
      /\ iter' = [iter EXCEPT ![t] = 0]
      /\ UNCHANGED <<exists, messages, number, cuts>>
      /\ Plain /\ Turn(t)
  BY DEF ProviderError, Go, Forget, ChatInv
<1>2. sees' \in [Turns -> BOOLEAN]
  BY Zenon DEF ProviderError, Forget, ChatInv, Plain
<1>3. Plain'
  BY <1>1, <1>2 DEF Plain, Phases, Ended
<1>4. /\ phase'[t] = "failed" /\ wanted'[t] = {} /\ results'[t] = {} /\ iter'[t] = 0
      /\ \A u \in Turns : u # t => /\ phase'[u] = phase[u] /\ wanted'[u] = wanted[u]
                                   /\ results'[u] = results[u] /\ iter'[u] = iter[u]
  BY <1>1 DEF Plain
<1>5. Working(t)' /\ Sorted(t)'
  BY <1>1, <1>4, NothingWritten DEF Turn, Working, Sorted, ChatAssumption
<1>6. Told(t)'
  BY <1>1, <1>4, NothingWritten DEF Turn, Told, Phases, Writing, Ended
<1> QED
  BY <1>1, <1>3, <1>4, <1>5, <1>6, OthersSame DEF Turn

LEMMA CutOffKeeps ==
  ASSUME ChatAssumption, ChatInv, NEW t \in Turns, CutOff(t)
  PROVE  ChatInv'
<1>1. /\ phase' = [phase EXCEPT ![t] = "cut"] /\ number' = [number EXCEPT ![t] = 0]
      /\ wanted' = [wanted EXCEPT ![t] = {}] /\ results' = [results EXCEPT ![t] = {}]
      /\ iter' = [iter EXCEPT ![t] = 0] /\ cuts' = cuts + 1 /\ cuts < MaxCuts
      /\ UNCHANGED <<exists, messages>>
      /\ Plain /\ Turn(t)
  BY DEF CutOff, Go, Forget, ChatInv
<1>2. sees' \in [Turns -> BOOLEAN]
  BY Zenon DEF CutOff, Forget, ChatInv, Plain
<1>3. Plain'
  <2>1. cuts' \in 0 .. MaxCuts
    BY <1>1 DEF Plain, ChatAssumption
  <2>2. number' \in [Turns -> Nat] /\ \A u \in Turns : number'[u] <= MaxRows
    BY <1>1 DEF Plain, ChatAssumption
  <2>3. phase' \in [Turns -> Phases]
    BY <1>1 DEF Plain, Phases, Ended
  <2> QED
    BY <1>1, <1>2, <2>1, <2>2, <2>3 DEF Plain
<1>4. /\ phase'[t] = "cut" /\ wanted'[t] = {} /\ results'[t] = {} /\ iter'[t] = 0 /\ number'[t] = 0
      /\ \A u \in Turns : u # t => /\ phase'[u] = phase[u] /\ wanted'[u] = wanted[u]
                                   /\ number'[u] = number[u]
                                   /\ results'[u] = results[u] /\ iter'[u] = iter[u]
  BY <1>1 DEF Plain
<1>5. Working(t)' /\ Sorted(t)'
  BY <1>1, <1>4, NothingWritten DEF Turn, Working, Sorted, ChatAssumption
<1>6. Told(t)'
  BY <1>1, <1>4, NothingWritten DEF Turn, Told, Phases, Writing, Ended
<1> QED
  BY <1>1, <1>3, <1>4, <1>5, <1>6, OthersSame DEF Turn

LEMMA DeleteConversationKeeps ==
  ASSUME ChatInv, DeleteConversation
  PROVE  ChatInv'
<1>1. exists' = FALSE /\ messages' = {} /\ Plain
      /\ UNCHANGED <<phase, number, sees, wanted, results, iter, cuts>>
  BY DEF DeleteConversation, ChatInv
<1>2. Plain'
  BY <1>1 DEF Plain
<1>3. ASSUME NEW t \in Turns PROVE Turn(t)'
  <2>1. Working(t)'
    BY <1>1 DEF ChatInv, Turn, Working
  <2>2. Mine(t)' = {}
    BY <1>1 DEF Mine
  <2>3. Sorted(t)'
    BY <2>2, FS_EmptySet DEF Sorted
  <2>4. Told(t)'
    BY <1>1 DEF Told
  <2> QED
    BY <2>1, <2>3, <2>4 DEF Turn
<1> QED
  BY <1>1, <1>2, <1>3 DEF ChatInv

-----------------------------------------------------------------------------
(* A round of tool calls *)

LEMMA SaveCallsKeeps ==
  ASSUME ChatAssumption, ChatInv, NEW t \in Turns, SaveCalls(t)
  PROVE  ChatInv'
<1> DEFINE call == Cardinality(wanted[t])
           new == [turn |-> t, n |-> Count(t) + 1, kind |-> "calls", ord |-> number[t], call |-> call]
<1>1. /\ AppendMessage(t, "calls", call, "tools") /\ phase[t] = "calls"
      /\ exists' = exists /\ sees' = sees /\ wanted' = wanted /\ results' = results
      /\ iter' = iter /\ cuts' = cuts
      /\ Plain /\ Turn(t) /\ Sorted(t) /\ Working(t)
  BY DEF SaveCalls, ChatInv, Turn
<1>2. call \in Nat \ {0} /\ wanted[t] = 1 .. call
  <2>1. PICK k \in Nat \ {0} : wanted[t] = 1 .. k
    BY <1>1 DEF Working
  <2>2. Cardinality(1 .. k) = k
    BY FS_Interval
  <2> QED
    BY <2>1, <2>2
<1>3. /\ number[t] # 0 /\ number'[t] = 0
      /\ \/ exists /\ messages' = messages \cup {new} /\ phase'[t] = "tools"
         \/ ~exists /\ messages' = messages /\ phase'[t] = "failed"
  <2>1. phase[t] \in Phases /\ phase \in [Turns -> Phases] /\ number \in [Turns -> Nat]
    BY <1>1 DEF Plain
  <2> QED
    BY <1>1, <2>1, AppendMoves
<1>4. Working(t)'
  BY <1>1, <1>2, <1>3 DEF Working
<1>5. Told(t)'
  <2>1. CASE ~exists
    BY <1>1, <2>1 DEF Told
  <2>2. CASE exists /\ messages' = messages \cup {new} /\ phase'[t] = "tools"
    <3>1. PICK x : x = new
      OBVIOUS
    <3> HIDE DEF new
    <3>2. "calls" \in MessageKinds /\ call \in Nat /\ x.n = Count(t) + 1 /\ x.call = call /\ x.turn = t
      BY <1>2, <3>1 DEF MessageKinds, new
    <3> HIDE DEF call
    <3>3. /\ Written(t, "question")' = Written(t, "question")
          /\ Written(t, "answer")' = Written(t, "answer")
          /\ Written(t, "result")' = Written(t, "result")
          /\ Written(t, "calls")' = Written(t, "calls") \cup {x}
          /\ Count(t) \in Nat /\ Count(t)' = Count(t) + 1
          /\ \A m \in Mine(t) : m.n \in 1 .. Count(t)
      BY <1>1, <1>3, <2>2, <3>1, <3>2, Appended DEF new
    <3>4. \A m \in Written(t, "calls") : Replied(t, m)'
      <4>1. TAKE m \in Written(t, "calls")
      <4>2. m \in Mine(t) /\ Replied(t, m)
        BY <1>1, <2>2 DEF Written, Mine, Turn, Told, Phases, Writing
      <4> QED
        BY <1>1, <1>3, <2>2, <3>1, <3>2, <4>2, RepliesStand DEF new
    <3>5. Replying(t, x)'
      <4>1. \A r \in Written(t, "result") : r.n \in 1 .. Count(t)
        BY <3>3 DEF Written, Mine
      <4>2. ResultsAfter(t, x)' = {}
        BY <3>2, <3>3, <4>1 DEF ResultsAfter
      <4>3. {r.call : r \in ResultsAfter(t, x)'} = 1 .. (Count(t)' - x.n)
        BY <3>2, <3>3, <4>2
      <4> QED
        BY <1>1, <1>2, <2>2, <3>2, <3>3, <4>3 DEF Replying
    <3>6. (\E q : Written(t, "question") = {q}) /\ Written(t, "answer") = {}
      BY <1>1, <2>2 DEF Turn, Told, Phases, Writing
    <3> QED
      BY <2>2, <3>3, <3>4, <3>5, <3>6 DEF Told
  <2> QED
    BY <1>3, <2>1, <2>2
<1>6. "calls" \in MessageKinds /\ "tools" \in Phases /\ call \in Nat
  BY <1>2 DEF MessageKinds, Phases
<1> HIDE DEF call
<1> QED
  BY <1>1, <1>4, <1>5, <1>6, AppendKeeps DEF Plain

LEMMA RunToolsKeeps ==
  ASSUME ChatAssumption, ChatInv, NEW t \in Turns, RunTools(t)
  PROVE  ChatInv'
<1>1. /\ phase[t] = "tools"
      /\ UNCHANGED <<exists, messages, number, sees, wanted, iter, cuts>>
      /\ Plain /\ Turn(t) /\ Working(t)
  BY DEF RunTools, ChatInv, Turn
<1>2. PICK k \in Nat \ {0} : wanted[t] = 1 .. k
  BY <1>1 DEF Working
<1>3. 1 \in wanted[t]
  BY <1>2
<1>4. results' = [results EXCEPT ![t] = wanted[t]] /\ phase' = [phase EXCEPT ![t] = "results"]
  BY <1>3 DEF RunTools, Gathered, Go
<1>5. Plain'
  BY <1>1, <1>4 DEF Plain, Phases, Writing
<1>6. /\ phase'[t] = "results" /\ results'[t] = wanted[t]
      /\ \A u \in Turns : u # t => phase'[u] = phase[u] /\ results'[u] = results[u]
  BY <1>1, <1>4 DEF Plain
<1>7. Working(t)' /\ Sorted(t)'
  BY <1>1, <1>3, <1>6, NothingWritten DEF Turn, Working, Sorted
<1>8. \A m \in Written(t, "calls") : Replying(t, m) => Replying(t, m)'
  <2>1. SUFFICES ASSUME NEW m \in Written(t, "calls"), Replying(t, m) PROVE Replying(t, m)'
    OBVIOUS
  <2>2. m.n \in 1 .. Count(t) /\ Count(t) \in Nat
    <3>1. Count(t) = Cardinality(Mine(t)) /\ IsFiniteSet(Mine(t)) /\ m \in Mine(t)
      BY <1>1 DEF Count, Mine, Turn, Sorted, Written
    <3> QED
      BY <1>1, <3>1, FS_CardinalityType DEF Turn, Sorted
  <2>3. Count(t) = m.n
    BY <1>1, <2>1 DEF Replying
  <2>4. results'[t] = (Count(t) - m.n + 1) .. m.call
    BY <1>6, <2>1, <2>2, <2>3 DEF Replying
  <2> QED
    BY <1>1, <1>6, <2>1, <2>4, NothingWritten DEF Replying
<1>9. Told(t)'
  BY <1>1, <1>6, <1>8, NothingWritten DEF Turn, Told, Phases, Writing, Ended
<1> QED
  BY <1>1, <1>5, <1>6, <1>7, <1>9, OthersSame DEF Turn

\* The result of the first call that waits takes its place behind the others.
LEMMA ResultTold ==
  ASSUME Plain, NEW t \in Turns, Sorted(t), number[t] # 0, phase[t] = "results",
         results[t] # {}, results[t] \subseteq Nat,
         NEW c, c = Min(results[t]), NEW x,
         x = [turn |-> t, n |-> Count(t) + 1, kind |-> "result", ord |-> number[t], call |-> c],
         messages' = messages \cup {x}, number'[t] = 0,
         NEW m \in Written(t, "calls"), Replying(t, m)
  PROVE  /\ results[t] = {c} => Replied(t, m)'
         /\ results[t] # {c} /\ results'[t] = results[t] \ {c} /\ wanted'[t] = wanted[t]
              /\ phase'[t] = "results" => Replying(t, m)'
<1>1. c \in results[t] /\ c \in Nat /\ \A e \in results[t] : c <= e
  BY MinIs
<1>2. x.n = Count(t) + 1 /\ x.call = c /\ "result" \in MessageKinds
  BY DEF MessageKinds
<1>3. /\ Written(t, "result")' = Written(t, "result") \cup {x}
      /\ Count(t) \in Nat /\ Count(t)' = Count(t) + 1
      /\ m \in Mine(t)
      /\ m \in Message /\ m.n \in 1 .. Count(t)
  BY <1>1, <1>2, Appended DEF Written, Mine
<1>4. m.n \in Nat /\ m.call \in Nat
  BY <1>3 DEF Message
<1>5. /\ m.n + m.call > Count(t)
      /\ {r.call : r \in ResultsAfter(t, m)} = 1 .. (Count(t) - m.n)
      /\ wanted[t] = 1 .. m.call
      /\ results[t] = (Count(t) - m.n + 1) .. m.call
  BY DEF Replying
<1>6. c = Count(t) - m.n + 1
  <2>1. PICK lo \in Nat : lo = Count(t) - m.n + 1
    BY <1>3, <1>4
  <2>2. results[t] = lo .. m.call
    BY <1>5, <2>1
  <2>3. lo \in results[t]
    BY <1>1, <1>4, <2>1, <2>2
  <2>4. c <= lo /\ lo <= c
    BY <1>1, <1>4, <2>1, <2>2, <2>3
  <2> QED
    BY <1>1, <2>1, <2>4
<1>7. ResultsAfter(t, m)' = ResultsAfter(t, m) \cup {x}
  BY <1>2, <1>3, <1>4, <1>5 DEF ResultsAfter
<1>8. {r.call : r \in ResultsAfter(t, m)'} = 1 .. (Count(t)' - m.n)
  <2>1. {r.call : r \in ResultsAfter(t, m)'} = {r.call : r \in ResultsAfter(t, m)} \cup {c}
    BY <1>2, <1>7
  <2>2. Count(t) - m.n \in Nat /\ Count(t)' - m.n = c
    BY <1>3, <1>4, <1>6
  <2>3. c - 1 = Count(t) - m.n /\ 1 .. c = 1 .. (c - 1) \cup {c}
    BY <1>1, <1>3, <1>4, <1>6, <2>2
  <2> QED
    BY <1>5, <2>1, <2>2, <2>3
<1>9. ASSUME results[t] = {c} PROVE Replied(t, m)'
  <2>1. m.call = c
    <3>1. m.call \in results[t]
      BY <1>3, <1>4, <1>5
    <3> QED
      BY <1>9, <3>1
  <2> QED
    BY <1>3, <1>4, <1>6, <1>8, <2>1 DEF Replied
<1>10. ASSUME results[t] # {c}, results'[t] = results[t] \ {c}, wanted'[t] = wanted[t],
              phase'[t] = "results"
       PROVE  Replying(t, m)'
  <2>1. c < m.call
    <3>1. PICK e \in results[t] : e # c
      BY <1>1, <1>10
    <3> QED
      BY <1>1, <1>4, <1>5, <1>6, <3>1
  <2>2. results'[t] = (Count(t)' - m.n + 1) .. m.call
    BY <1>3, <1>4, <1>5, <1>6, <1>10, <2>1
  <2>3. m.n + m.call > Count(t)'
    BY <1>3, <1>4, <1>6, <2>1
  <2> QED
    BY <1>5, <1>8, <1>10, <2>2, <2>3 DEF Replying
<1> QED
  BY <1>9, <1>10

LEMMA SaveResultKeeps ==
  ASSUME ChatAssumption, ChatInv, NEW t \in Turns, SaveResult(t)
  PROVE  ChatInv'
<1> DEFINE c == Min(results[t])
           last == results[t] = {c}
           next == IF last THEN AfterRound(t) ELSE "results"
           new == [turn |-> t, n |-> Count(t) + 1, kind |-> "result", ord |-> number[t], call |-> c]
<1>1. /\ AppendMessage(t, "result", c, next) /\ phase[t] = "results"
      /\ exists' = exists /\ sees' = sees /\ cuts' = cuts
      /\ results' = [results EXCEPT ![t] = results[t] \ {c}]
      /\ last => wanted' = [wanted EXCEPT ![t] = {}] /\ iter' = [iter EXCEPT ![t] = iter[t] + 1]
      /\ ~last => wanted' = wanted /\ iter' = iter
      /\ Plain /\ Turn(t) /\ Sorted(t) /\ Working(t)
  BY DEF SaveResult, ChatInv, Turn
<1>2. results[t] # {} /\ results[t] \subseteq Nat
  BY <1>1 DEF Working, Plain
<1>3. c \in results[t] /\ c \in Nat
  BY <1>2, MinIs
<1>4. next \in {"fallback", "model", "results"} /\ next \in Phases /\ "result" \in MessageKinds
  BY DEF AfterRound, Phases, Writing, MessageKinds
<1>5. last /\ next = "model" => iter[t] + 1 < MaxIters
  BY <1>1 DEF AfterRound, Working, Plain, ChatAssumption
<1>6. next = "results" <=> ~last
  BY DEF AfterRound
<1> HIDE DEF next
<1>7. PICK d : d = c
  OBVIOUS
<1>8. PICK x : x = new
  OBVIOUS
<1> HIDE DEF new
<1>9. /\ number[t] # 0 /\ number'[t] = 0
      /\ \/ exists /\ messages' = messages \cup {x} /\ phase'[t] = next
         \/ ~exists /\ messages' = messages /\ phase'[t] = "failed"
  <2>1. phase[t] \in Phases /\ phase \in [Turns -> Phases] /\ number \in [Turns -> Nat]
    BY <1>1 DEF Plain
  <2> QED
    BY <1>1, <1>8, <2>1, AppendMoves DEF new
<1>10. /\ results'[t] = results[t] \ {d}
       /\ last => results'[t] = {} /\ wanted'[t] = {} /\ iter'[t] = iter[t] + 1
       /\ ~last => wanted'[t] = wanted[t] /\ iter'[t] = iter[t] /\ results'[t] # {}
       /\ sees' \in [Turns -> BOOLEAN] /\ wanted' \in [Turns -> SUBSET Nat]
       /\ results' \in [Turns -> SUBSET Nat] /\ iter' \in [Turns -> Nat]
       /\ \A u \in Turns : u # t =>
            wanted'[u] = wanted[u] /\ results'[u] = results[u] /\ iter'[u] = iter[u]
  <2>1. sees' \in [Turns -> BOOLEAN]
    BY <1>1, Zenon DEF Plain
  <2> HIDE DEF c
  <2> QED
    BY <1>1, <1>3, <1>7, <2>1 DEF Plain
<1>11. Working(t)'
  <2>1. iter[t] \in Nat /\ iter[t] < MaxIters /\ MaxIters \in Nat
    BY <1>1 DEF Working, Plain, ChatAssumption
  <2> HIDE DEF last, c
  <2>2. phase'[t] \in {"fallback", "model", "results", "failed"}
    BY <1>4, <1>9
  <2>3. phase'[t] = "model" => iter'[t] < MaxIters /\ results'[t] = {}
    BY <1>5, <1>6, <1>9, <1>10
  <2>4. phase'[t] = "results" => iter'[t] < MaxIters /\ results'[t] # {}
    BY <1>6, <1>9, <1>10, <2>1
  <2>5. results'[t] \subseteq wanted'[t] /\ wanted'[t] \subseteq 1 .. MaxCalls[t] /\ iter'[t] <= MaxIters
    BY <1>1, <1>10, <2>1 DEF Working
  <2> QED
    BY <2>2, <2>3, <2>4, <2>5 DEF Working
<1>12. Told(t)'
  <2>1. CASE ~exists
    BY <1>1, <2>1 DEF Told
  <2>2. CASE exists /\ messages' = messages \cup {x} /\ phase'[t] = next
    <3>1. x = [turn |-> t, n |-> Count(t) + 1, kind |-> "result", ord |-> number[t], call |-> d]
      BY <1>7, <1>8 DEF new
    <3>2. /\ Written(t, "question")' = Written(t, "question")
          /\ Written(t, "answer")' = Written(t, "answer")
          /\ Written(t, "calls")' = Written(t, "calls")
      BY <1>1, <1>3, <1>4, <1>7, <1>9, <2>2, <3>1, Appended
    <3>3. (\E q : Written(t, "question") = {q}) /\ Written(t, "answer") = {}
          /\ \A m \in Written(t, "calls") : Replied(t, m) \/ Replying(t, m)
      BY <1>1, <2>2 DEF Turn, Told, Phases, Writing
    <3>4. \A m \in Written(t, "calls") : Replied(t, m) => Replied(t, m)'
      <4>1. TAKE m \in Written(t, "calls")
      <4>2. m \in Mine(t)
        BY DEF Written, Mine
      <4> QED
        BY <1>1, <1>3, <1>4, <1>7, <1>9, <2>2, <3>1, <4>2, RepliesStand
    <3>5. \A m \in Written(t, "calls") : Replying(t, m) =>
             /\ last => Replied(t, m)'
             /\ ~last => Replying(t, m)'
      <4>1. TAKE m \in Written(t, "calls")
      <4>2. HAVE Replying(t, m)
      <4>3. /\ results[t] = {d} => Replied(t, m)'
            /\ results[t] # {d} /\ results'[t] = results[t] \ {d} /\ wanted'[t] = wanted[t]
                 /\ phase'[t] = "results" => Replying(t, m)'
        BY <1>1, <1>2, <1>7, <1>9, <2>2, <3>1, <4>2, ResultTold
      <4> QED
        BY <1>6, <1>7, <1>10, <2>2, <4>3
    <3> HIDE DEF last, c
    <3> QED
      BY <1>4, <1>6, <2>2, <3>2, <3>3, <3>4, <3>5 DEF Told
  <2> QED
    BY <1>9, <2>1, <2>2
<1> HIDE DEF c, last
<1> QED
  BY <1>1, <1>3, <1>4, <1>10, <1>11, <1>12, AppendKeeps

LEMMA SaveAnswerKeeps ==
  ASSUME ChatAssumption, ChatInv, NEW t \in Turns, SaveAnswer(t)
  PROVE  ChatInv'
<1> DEFINE next == IF phase[t] = "answer" THEN "answered" ELSE "capped"
           new == [turn |-> t, n |-> Count(t) + 1, kind |-> "answer", ord |-> number[t], call |-> 0]
<1>1. /\ AppendMessage(t, "answer", 0, next) /\ phase[t] \in {"answer", "fallback"}
      /\ exists' = exists /\ cuts' = cuts
      /\ wanted' = [wanted EXCEPT ![t] = {}] /\ results' = [results EXCEPT ![t] = {}]
      /\ iter' = [iter EXCEPT ![t] = 0]
      /\ Plain /\ Turn(t) /\ Sorted(t) /\ Working(t)
  BY DEF SaveAnswer, Forget, ChatInv, Turn
<1>2. sees' \in [Turns -> BOOLEAN]
  BY Zenon DEF SaveAnswer, Forget, ChatInv, Plain
<1>3. next \in {"answered", "capped"} /\ next \in Phases /\ "answer" \in MessageKinds
  BY DEF Phases, Ended, MessageKinds
<1> HIDE DEF next
<1>4. PICK x : x = new
  OBVIOUS
<1> HIDE DEF new
<1>5. /\ number[t] # 0 /\ number'[t] = 0
      /\ \/ exists /\ messages' = messages \cup {x} /\ phase'[t] = next
         \/ ~exists /\ messages' = messages /\ phase'[t] = "failed"
  <2>1. phase[t] \in Phases /\ phase \in [Turns -> Phases] /\ number \in [Turns -> Nat]
    BY <1>1 DEF Plain
  <2> QED
    BY <1>1, <1>4, <2>1, AppendMoves DEF new
<1>6. /\ wanted'[t] = {} /\ results'[t] = {} /\ iter'[t] = 0
      /\ wanted' \in [Turns -> SUBSET Nat]
      /\ results' \in [Turns -> SUBSET Nat] /\ iter' \in [Turns -> Nat]
      /\ \A u \in Turns : u # t =>
            wanted'[u] = wanted[u] /\ results'[u] = results[u] /\ iter'[u] = iter[u]
  BY <1>1 DEF Plain
<1>7. Working(t)'
  BY <1>3, <1>5, <1>6 DEF Working, ChatAssumption
<1>8. Told(t)'
  <2>1. CASE ~exists
    BY <1>1, <2>1 DEF Told
  <2>2. CASE exists /\ messages' = messages \cup {x} /\ phase'[t] = next
    <3>1. x = [turn |-> t, n |-> Count(t) + 1, kind |-> "answer", ord |-> number[t], call |-> 0]
      BY <1>4 DEF new
    <3>2. /\ Written(t, "question")' = Written(t, "question")
          /\ Written(t, "answer")' = Written(t, "answer") \cup {x}
          /\ Written(t, "calls")' = Written(t, "calls")
          /\ Count(t)' = Count(t) + 1
      BY <1>1, <1>3, <1>5, <2>2, <3>1, Appended
    <3>3. (\E q : Written(t, "question") = {q}) /\ Written(t, "answer") = {}
          /\ \A m \in Written(t, "calls") : Replied(t, m)
      BY <1>1, <2>2 DEF Turn, Told, Phases, Writing
    <3>4. \A m \in Written(t, "calls") : Replied(t, m)'
      <4>1. TAKE m \in Written(t, "calls")
      <4>2. m \in Mine(t) /\ Replied(t, m)
        BY <3>3 DEF Written, Mine
      <4> QED
        BY <1>1, <1>3, <1>5, <2>2, <3>1, <4>2, RepliesStand
    <3>5. Written(t, "answer")' = {x} /\ x.n = Count(t)'
      BY <3>1, <3>2, <3>3
    <3> QED
      BY <1>3, <2>2, <3>2, <3>3, <3>4, <3>5 DEF Told
  <2> QED
    BY <1>5, <2>1, <2>2
<1> QED
  BY <1>1, <1>2, <1>3, <1>6, <1>7, <1>8, AppendKeeps

-----------------------------------------------------------------------------
(* The invariant and what it says *)

LEMMA Moves ==
  ASSUME [ChatNext]_chat
  PROVE  \/ UNCHANGED chat
         \/ DeleteConversation
         \/ \E t \in Turns : \/ Send(t) \/ Number(t) \/ SaveQuestion(t) \/ Load(t) \/ Answer(t)
                             \/ Call(t) \/ ProviderError(t) \/ SaveCalls(t) \/ RunTools(t)
                             \/ SaveResult(t) \/ SaveAnswer(t) \/ CutOff(t)
  BY DEF ChatNext, Step

LEMMA ChatKept ==
  ASSUME ChatAssumption, ChatInv, [ChatNext]_chat
  PROVE  ChatInv'
<1>1. CASE UNCHANGED chat
  <2>1. UNCHANGED <<exists, messages, phase, number, sees, wanted, results, iter, cuts>>
    BY <1>1 DEF chat
  <2>2. Plain'
    BY <2>1 DEF ChatInv, Plain
  <2>3. ASSUME NEW t \in Turns PROVE Turn(t)'
    BY <2>1, NothingWritten, TurnUntouched DEF ChatInv
  <2> QED
    BY <2>1, <2>2, <2>3 DEF ChatInv
<1> QED
  BY <1>1, Moves, DeleteConversationKeeps, SendKeeps, NumberKeeps, SaveQuestionKeeps, LoadKeeps,
     AnswerKeeps, CallKeeps, ProviderErrorKeeps, SaveCallsKeeps, RunToolsKeeps, SaveResultKeeps,
     SaveAnswerKeeps, CutOffKeeps

LEMMA TranscriptFollows ==
  ASSUME ChatInv
  PROVE  Transcript
<1>1. ChatTypeOK
  <2>1. /\ exists \in BOOLEAN /\ sees \in [Turns -> BOOLEAN]
    BY Zenon DEF ChatInv, Plain
  <2>2. \A t \in Turns : Working(t)
    BY DEF ChatInv, Turn
  <2>3. iter \in [Turns -> 0 .. MaxIters]
    BY <2>2 DEF ChatInv, Plain, Working
  <2> QED
    BY <2>1, <2>2, <2>3 DEF ChatInv, Plain, Working, ChatTypeOK
<1>2. InOrder
  <2>1. SUFFICES ASSUME NEW a \in messages, NEW b \in messages, a.turn = b.turn, a.n < b.n
                 PROVE  a.ord < b.ord
    BY DEF InOrder
  <2>2. a.turn \in Turns /\ a \in Mine(a.turn) /\ b \in Mine(a.turn)
    BY <2>1 DEF ChatInv, Plain, Message, Mine
  <2> QED
    BY <2>1, <2>2 DEF ChatInv, Turn, Sorted
<1>3. CallsAnswered
  <2>1. SUFFICES ASSUME NEW t \in Turns, exists, phase[t] \in Ended \ {"cut"},
                        NEW m \in Written(t, "calls")
                 PROVE  {r.call : r \in ResultsAfter(t, m)} = 1 .. m.call
    BY DEF CallsAnswered
  <2>2. phase[t] \in Phases \ {"tools", "results", "cut"}
    BY <2>1 DEF Ended, Phases
  <2> QED
    BY <2>1, <2>2 DEF ChatInv, Turn, Told, Replied
<1>4. TurnComplete
  <2>1. SUFFICES ASSUME NEW t \in Turns, exists, phase[t] \in {"answered", "capped"}
                 PROVE  /\ Cardinality(Written(t, "question")) = 1
                        /\ \E m \in Written(t, "answer") : m.n = Count(t)
                        /\ Cardinality(Written(t, "answer")) = 1
    BY DEF TurnComplete
  <2>2. /\ \E q : Written(t, "question") = {q}
        /\ \E a : Written(t, "answer") = {a} /\ a.n = Count(t)
    BY <2>1 DEF ChatInv, Turn, Told, Phases, Ended
  <2> QED
    BY <2>2, FS_Singleton
<1> QED
  BY <1>1, <1>2, <1>3, <1>4 DEF Transcript

(* Whatever turns run on a conversation at once, are cut off, fail or lose  *)
(* it: what each has written reads back in the order it was written,        *)
(* append_message's two statements apart (conversation_service.py:94); no   *)
(* tool call of a turn that came to its end is without its result           *)
(* (executor.py:533-572), and a finished turn has its question and its      *)
(* answer.                                                                  *)
THEOREM TranscriptStands == ChatSpec => []Transcript
<1>1. ChatAssumption
  BY ChatAssumption
<1>2. ChatInit => ChatInv
  BY <1>1, InitHolds
<1>3. ChatInv /\ [ChatNext]_chat => ChatInv'
  BY <1>1, ChatKept
<1>4. ChatInv => Transcript
  BY TranscriptFollows
<1> QED
  BY <1>2, <1>3, <1>4, PTL DEF ChatSpec

-----------------------------------------------------------------------------
(* PART SEVEN: RULES.  For any rules, rows, categories and payees, and any *)
(* number of requests: an active rule runs over a row at most once, in the *)
(* order of (priority, id), so a fold over the ordered rules is followed   *)
(* step by step; what each step may change of a row, and what the foreign  *)
(* keys refuse, is all that the invariant needs.                           *)
(* What one rule does. *)

Rule == [ws : Spaces, name : RuleNames, on : Conditions, does : Action,
         cat : CatIds \cup {None}, prio : Priorities, active : BOOLEAN]
RulesTyped == rules \in [RuleIds -> Rule \cup {NoRule}]
Doing == [row : Row, set : BOOLEAN, matched : BOOLEAN]
ActiveOf(w) == {i \in RulesOf(w) : rules[i].active}

LEMMA NoneOfZero == 0 \notin Spaces /\ NoRule.ws = 0 /\ NoRow.ws = 0
  BY RulesAssumption DEF NoRule, NoRow

LEMMA RulesOfAre ==
  ASSUME RulesTyped, NEW w \in Spaces, NEW i \in RulesOf(w)
  PROVE  i \in RuleIds /\ rules[i] \in Rule /\ rules[i].ws = w
<1>1. i \in RuleIds /\ rules[i].ws = w
  BY DEF RulesOf
<1>2. rules[i] # NoRule
  BY <1>1, NoneOfZero
<1> QED
  BY <1>1, <1>2 DEF RulesTyped

LEMMA Taken ==
  ASSUME NEW e \in Doing
  PROVE  /\ Reset(e) \in Doing /\ Reset(e).matched /\ Reset(e).set = e.set
         /\ Reset(e).row.ws = e.row.ws /\ Reset(e).row.mark = e.row.mark
         /\ Reset(e).row.payee = e.row.payee /\ Reset(e).row.given = e.row.given
         /\ Reset(e).row.cat = IF e.matched THEN e.row.cat ELSE None
         /\ Reset(e).row.chosen = IF e.matched THEN e.row.chosen ELSE None
<1>1. CASE e.matched
  BY <1>1 DEF Reset, Doing
<1>2. CASE ~e.matched
  <2> DEFINE r == e.row
             q == [r EXCEPT !.cat = None, !.notes = {}, !.chosen = None]
  <2>1. Reset(e) = [e EXCEPT !.row = q, !.matched = TRUE]
    BY <1>2 DEF Reset, Doing
  <2>2. r \in Row
    BY DEF Doing
  <2> HIDE DEF r
  <2>3. /\ q \in Row /\ q.ws = r.ws /\ q.mark = r.mark /\ q.payee = r.payee
        /\ q.given = r.given /\ q.cat = None /\ q.chosen = None
    BY <2>2 DEF Row
  <2> HIDE DEF q
  <2>4. /\ Reset(e) \in Doing /\ Reset(e).row = q /\ Reset(e).matched /\ Reset(e).set = e.set
    BY <2>1, <2>3 DEF Doing
  <2> QED
    BY <1>2, <2>3, <2>4 DEF r
<1> QED
  BY <1>1, <1>2 DEF Doing

LEMMA Applied ==
  ASSUME NEW e \in Doing, NEW x \in Rule
  PROVE  LET q == Apply(x, e) IN
         /\ q \in Doing /\ q.matched = e.matched /\ q.set = (e.set \/ x.cat # None)
         /\ q.row.ws = e.row.ws /\ q.row.mark = e.row.mark
         /\ q.row.cat = IF x.cat # None /\ ~e.set THEN x.cat ELSE e.row.cat
         /\ q.row.chosen = e.row.chosen
         /\ \/ q.row.payee = e.row.payee /\ q.row.given = e.row.given
            \/ q.row.payee = q.row.given /\ q.row.given # None
<1> DEFINE r == e.row
           to == x.does.payee
           c == IF x.cat # None /\ ~e.set THEN x.cat ELSE r.cat
           p == IF to # None THEN to ELSE r.payee
           g == IF to # None THEN to ELSE r.given
           n == IF x.does.tag THEN r.notes \cup {"tag"} ELSE r.notes
           h == r.hidden \/ x.does.hide
           y == [r EXCEPT !.cat = c, !.payee = p, !.notes = n, !.hidden = h, !.given = g]
           z == (e.set \/ (x.cat # None /\ ~e.set))
<1>1. Apply(x, e) = [e EXCEPT !.row = y, !.set = z]
  <2>1. Apply(x, e) = [e EXCEPT !.row.cat = c, !.row.payee = p, !.row.notes = n,
                                !.row.hidden = h, !.row.given = g, !.set = z]
    BY DEF Apply
  <2>2. e \in [row : Row, set : BOOLEAN, matched : BOOLEAN] /\ r \in Row
    BY DEF Doing
  <2> HIDE DEF c, p, g, n, h, z
  <2> QED
    BY <2>1, <2>2 DEF Row
<1>2. r \in Row
  BY DEF Doing
<1>3. /\ c \in CatIds \cup {None} /\ p \in PayeeIds \cup {None} /\ g \in PayeeIds \cup {None}
      /\ n \in SUBSET Words /\ h \in BOOLEAN
  <2>1. x.does \in Action /\ x.cat \in CatIds \cup {None}
    BY DEF Rule
  <2>2. "tag" \in Words
    BY RulesAssumption
  <2> QED
    BY <1>2, <2>1, <2>2 DEF Row, Action
<1> HIDE DEF c, p, g, n, h
<1>4. /\ y \in Row /\ y.ws = r.ws /\ y.mark = r.mark /\ y.cat = c /\ y.chosen = r.chosen
      /\ y.payee = p /\ y.given = g
  BY <1>2, <1>3 DEF Row
<1> HIDE DEF y
<1>5. z = (e.set \/ x.cat # None) /\ z \in BOOLEAN
  OBVIOUS
<1> HIDE DEF z
<1>6. /\ Apply(x, e) \in Doing /\ Apply(x, e).row = y /\ Apply(x, e).set = z
      /\ Apply(x, e).matched = e.matched
  BY <1>1, <1>4, <1>5 DEF Doing
<1> QED
  BY <1>4, <1>5, <1>6 DEF c, p, g

LEMMA RanIs ==
  ASSUME NEW e \in Doing, NEW i, rules[i] \in Rule
  PROVE  LET q == Ran(e, i) IN
         /\ q \in Doing
         /\ q.row.ws = e.row.ws /\ q.row.mark = e.row.mark
         /\ ~Matches(rules[i], e.row) => q = e
         /\ Matches(rules[i], e.row) =>
              /\ q.matched /\ q.set = (e.set \/ rules[i].cat # None)
              /\ q.row.cat = IF rules[i].cat # None /\ ~e.set THEN rules[i].cat
                             ELSE IF e.matched THEN e.row.cat ELSE None
              /\ q.row.chosen = IF e.matched THEN e.row.chosen ELSE None
              /\ \/ q.row.payee = e.row.payee /\ q.row.given = e.row.given
                 \/ q.row.payee = q.row.given /\ q.row.given # None
<1>1. CASE ~Matches(rules[i], e.row)
  BY <1>1 DEF Ran
<1>2. CASE Matches(rules[i], e.row)
  <2> DEFINE u == Reset(e)
             x == rules[i]
  <2>1. Ran(e, i) = Apply(x, u)
    BY <1>2 DEF Ran
  <2>2. /\ u \in Doing /\ u.matched /\ u.set = e.set /\ x \in Rule
        /\ u.row.ws = e.row.ws /\ u.row.mark = e.row.mark
        /\ u.row.payee = e.row.payee /\ u.row.given = e.row.given
        /\ u.row.cat = IF e.matched THEN e.row.cat ELSE None
        /\ u.row.chosen = IF e.matched THEN e.row.chosen ELSE None
    BY Taken
  <2> HIDE DEF u, x
  <2> DEFINE q == Apply(x, u)
  <2>3. /\ q \in Doing /\ q.matched = u.matched /\ q.set = (u.set \/ x.cat # None)
        /\ q.row.ws = u.row.ws /\ q.row.mark = u.row.mark
        /\ q.row.cat = IF x.cat # None /\ ~u.set THEN x.cat ELSE u.row.cat
        /\ q.row.chosen = u.row.chosen
        /\ \/ q.row.payee = u.row.payee /\ q.row.given = u.row.given
           \/ q.row.payee = q.row.given /\ q.row.given # None
    <3>1. u \in Doing /\ x \in Rule
      BY <2>2
    <3> QED
      BY <3>1, Applied
  <2> HIDE DEF q
  <2> QED
    BY <1>2, <2>1, <2>2, <2>3 DEF q, x
<1> QED
  BY <1>1, <1>2

-----------------------------------------------------------------------------
(* All of them, in their order *)

LEMMA BeforeOrders ==
  ASSUME RulesTyped, NEW w \in Spaces, NEW i \in RulesOf(w), NEW j \in RulesOf(w)
  PROVE  /\ i # j => Before(i, j) \/ Before(j, i)
         /\ ~(Before(i, j) /\ Before(j, i))
         /\ \A k \in RulesOf(w) : Before(i, j) /\ Before(j, k) => Before(i, k)
<1>1. \A k \in RulesOf(w) : k \in Nat /\ rules[k].prio \in Nat
  BY RulesOfAre, RulesAssumption DEF Rule
<1>2. i \in Nat /\ j \in Nat /\ rules[i].prio \in Nat /\ rules[j].prio \in Nat
  BY <1>1
<1> QED
  BY <1>1, <1>2 DEF Before

LEMMA OrderedIs ==
  ASSUME RulesTyped, NEW w \in Spaces
  PROVE  LET s == Ordered(w)
             n == Cardinality(ActiveOf(w))
         IN  /\ n \in Nat /\ DOMAIN s = 1 .. n
             /\ \A k \in 1 .. n : s[k] \in ActiveOf(w)
             /\ \A i \in ActiveOf(w) : \E k \in 1 .. n : s[k] = i
             /\ \A j, k \in 1 .. n : j < k => Before(s[j], s[k])
<1> DEFINE A == ActiveOf(w)
           R == {p \in A \X A : Before(p[1], p[2])}
           n == Cardinality(A)
<1>1. IsFiniteSet(A) /\ A \subseteq RulesOf(w) /\ n \in Nat
  <2>1. A \subseteq RuleIds /\ A \subseteq RulesOf(w)
    BY DEF ActiveOf, RulesOf
  <2>2. IsFiniteSet(A)
    BY <2>1, RulesAssumption, FS_Subset
  <2> QED
    BY <2>1, <2>2, FS_CardinalityType
<1>2. \A x, y \in A : <<x, y>> \in R <=> Before(x, y)
  OBVIOUS
<1>3. /\ \A x, y \in A : x # y => <<x, y>> \in R \/ <<y, x>> \in R
      /\ \A x, y, z \in A : <<x, y>> \in R /\ <<y, z>> \in R => <<x, z>> \in R
  <2> HIDE DEF A, R
  <2> QED
    BY <1>1, <1>2, BeforeOrders
<1> HIDE DEF R
<1>4. PICK s : SortedBy(R, s, A)
  <2> HIDE DEF A
  <2> QED
    BY <1>1, <1>3, SortedExists
<1> DEFINE Good(t) == /\ t \in Bijection(1 .. n, A)
                      /\ \A j, k \in DOMAIN t : j < k => Before(t[j], t[k])
<1>5. Good(s)
  <2>1. s \in Bijection(1 .. n, A) /\ \A j, k \in DOMAIN s : j < k => <<s[j], s[k]>> \in R
    BY <1>4 DEF SortedBy
  <2>2. \A k \in DOMAIN s : s[k] \in A
    BY <2>1 DEF Bijection, Injection
  <2> HIDE DEF A, n
  <2> QED
    BY <1>2, <2>1, <2>2
<1>6. Ordered(w) = CHOOSE t : Good(t)
  BY DEF Ordered, ActiveOf
<1>7. Good(Ordered(w))
  BY <1>5, <1>6
<1> HIDE DEF A, n
<1>8. /\ DOMAIN Ordered(w) = 1 .. n
      /\ \A k \in 1 .. n : Ordered(w)[k] \in A
      /\ \A i \in A : \E k \in 1 .. n : Ordered(w)[k] = i
  BY <1>7 DEF Bijection, Injection, Surjection
<1> QED
  BY <1>1, <1>7, <1>8 DEF A, n

LEMMA AllRanIs ==
  ASSUME RulesTyped, NEW d \in Doing
  PROVE  LET s == Ordered(d.row.ws)
             n == Cardinality(ActiveOf(d.row.ws))
         IN  \E f : /\ f[0] = d /\ AllRan(d) = f[n]
                    /\ \A k \in 0 .. n : f[k] \in Doing
                    /\ \A k \in 1 .. n : f[k] = Ran(f[k - 1], s[k])
<1> DEFINE w == d.row.ws
           s == Ordered(w)
           n == Cardinality(ActiveOf(w))
           It(h) == h = [t \in SUBSET (DOMAIN s) |->
                           IF t = {} THEN d ELSE Ran(h[t \ {Max(t)}], s[Max(t)])]
<1>1. w \in Spaces
  BY DEF Doing, Row
<1>2. n \in Nat /\ DOMAIN s = 1 .. n /\ \A k \in 1 .. n : s[k] \in ActiveOf(w)
  BY <1>1, OrderedIs
<1>3. AllRan(d) = (CHOOSE h : It(h))[DOMAIN s]
  BY Zenon DEF AllRan, FoldLeft, MapThenFoldSet
<1> HIDE DEF w, s, n
<1>4. \A k \in 1 .. n : rules[s[k]] \in Rule
  BY <1>1, <1>2, RulesOfAre DEF ActiveOf
<1> DEFINE st == [k \in 1 .. n |-> [e \in Doing |-> Ran(e, s[k])]]
<1>5. \A k \in 1 .. n : \A e \in Doing : st[k][e] = Ran(e, s[k]) /\ st[k][e] \in Doing
  BY <1>4, RanIs
<1> HIDE DEF st
<1>6. PICK h : RunsOn(st, d, n, h) /\ \A t \in SUBSET (1 .. n) : h[t] \in Doing
  <2>1. n \in Nat /\ \A k \in 1 .. n : \A e \in Doing : st[k][e] \in Doing
    BY <1>2, <1>5
  <2> QED
    BY <2>1, Runs
<1>7. \A t \in SUBSET (1 .. n) : t # {} => Max(t) = Top(t) /\ Max(t) \in t
  <2> TAKE t \in SUBSET (1 .. n)
  <2> HAVE t # {}
  <2>1. IsFiniteSet(1 .. n) /\ t \subseteq Int
    BY <1>2, FS_Interval
  <2>2. IsFiniteSet(t)
    BY <2>1, FS_Subset
  <2>3. Max(t) = Top(t)
    BY DEF Max, Top
  <2> QED
    BY <2>1, <2>2, <2>3, TopIs
<1>8. It(h)
  <2>1. ASSUME NEW t \in SUBSET (1 .. n), t # {}
        PROVE  st[Top(t)][h[t \ {Top(t)}]] = Ran(h[t \ {Max(t)}], s[Max(t)])
    <3>1. Top(t) = Max(t) /\ Top(t) \in 1 .. n /\ t \ {Top(t)} \in SUBSET (1 .. n)
      BY <1>7, <2>1
    <3> QED
      BY <1>5, <1>6, <3>1
  <2>2. h = [t \in SUBSET (1 .. n) |-> IF t = {} THEN d ELSE st[Top(t)][h[t \ {Top(t)}]]]
    BY <1>6 DEF RunsOn
  <2>3. h = [t \in SUBSET (1 .. n) |-> IF t = {} THEN d ELSE Ran(h[t \ {Max(t)}], s[Max(t)])]
    BY <2>1, <2>2
  <2> QED
    BY <1>2, <2>3
<1> DEFINE c == CHOOSE g : It(g)
<1>9. It(c)
  BY <1>8
<1> HIDE DEF c
<1>10. \A t \in SUBSET (1 .. n) : c[t] = IF t = {} THEN d ELSE Ran(c[t \ {Max(t)}], s[Max(t)])
  BY <1>2, <1>9
<1> DEFINE f == [k \in 0 .. n |-> c[1 .. k]]
<1>11. f[0] = d
  <2>1. 0 \in 0 .. n /\ 1 .. 0 = {} /\ {} \in SUBSET (1 .. n)
    BY <1>2
  <2> QED
    BY <1>10, <2>1
<1>12. \A k \in 1 .. n : f[k] = Ran(f[k - 1], s[k])
  <2> TAKE k \in 1 .. n
  <2>1. k \in 0 .. n /\ k - 1 \in 0 .. n /\ 1 .. k \in SUBSET (1 .. n) /\ 1 .. k # {}
    <3>1. n \in Nat /\ k \in Nat /\ 1 <= k /\ k <= n
      BY <1>2
    <3>2. k \in 0 .. n /\ k - 1 \in 0 .. n /\ k \in 1 .. k
      BY <3>1
    <3>3. 1 .. k \subseteq 1 .. n
      BY <3>1
    <3> QED
      BY <3>2, <3>3
  <2>2. Max(1 .. k) = k
    <3>1. k \in 1 .. k /\ \A y \in 1 .. k : k >= y
      BY <1>2
    <3>2. \A x \in 1 .. k : (\A y \in 1 .. k : x >= y) => x = k
      BY <1>2
    <3> QED
      BY <3>1, <3>2 DEF Max
  <2>3. (1 .. k) \ {k} = 1 .. k - 1
    BY <1>2
  <2> QED
    BY <1>10, <2>1, <2>2, <2>3
<1>13. AllRan(d) = f[n]
  <2>1. n \in 0 .. n
    BY <1>2
  <2> QED
    BY <1>2, <1>3, <2>1 DEF c
<1> HIDE DEF f
<1>14. \A k \in 0 .. n : f[k] \in Doing
  <2> DEFINE G == {k \in 0 .. n : f[k] \in Doing}
  <2>1. 0 \in G
    BY <1>2, <1>11
  <2>2. \A k \in 1 .. n : k - 1 \in G => k \in G
    <3> TAKE k \in 1 .. n
    <3> HAVE k - 1 \in G
    <3>1. f[k] = Ran(f[k - 1], s[k]) /\ f[k - 1] \in Doing /\ rules[s[k]] \in Rule
      BY <1>4, <1>12
    <3>2. f[k] \in Doing
      BY <3>1, RanIs
    <3> QED
      BY <1>2, <3>2
  <2> HIDE DEF G
  <2>3. \A k \in 0 .. n : k \in G
    BY <1>2, <2>1, <2>2, StepByStep
  <2> QED
    BY <2>3 DEF G
<1> QED
  BY <1>11, <1>12, <1>13, <1>14 DEF s, n, w

\* Whatever rules do to a row, the category that was set stays, a choice is
\* kept or taken back with its category, and a payee they set is the one given.
LEMMA Treated ==
  ASSUME RulesTyped, NEW d \in Doing
  PROVE  LET e == AllRan(d) IN
         /\ e \in Doing /\ e.row.ws = d.row.ws
         /\ \/ e.row.payee = d.row.payee /\ e.row.given = d.row.given
            \/ e.row.payee = e.row.given /\ e.row.given # None
         /\ d.set /\ d.matched => e.row.cat = d.row.cat
         /\ d.matched => e.row.chosen = d.row.chosen
         /\ ~d.matched => \/ e.row.cat = d.row.cat /\ e.row.chosen = d.row.chosen
                          \/ e.row.chosen = None
<1> DEFINE w == d.row.ws
           s == Ordered(w)
           n == Cardinality(ActiveOf(w))
           K(e) == /\ e.row.ws = d.row.ws
                   /\ \/ e.row.payee = d.row.payee /\ e.row.given = d.row.given
                      \/ e.row.payee = e.row.given /\ e.row.given # None
                   /\ d.set => e.set
                   /\ d.matched => e.matched
                   /\ d.set /\ d.matched => e.row.cat = d.row.cat
                   /\ d.matched => e.row.chosen = d.row.chosen
                   /\ ~d.matched =>
                        \/ ~e.matched /\ e.row.cat = d.row.cat /\ e.row.chosen = d.row.chosen
                        \/ e.matched /\ e.row.chosen = None
<1>1. w \in Spaces
  BY DEF Doing, Row
<1>2. n \in Nat /\ \A k \in 1 .. n : rules[s[k]] \in Rule
  BY <1>1, OrderedIs, RulesOfAre DEF ActiveOf
<1>3. PICK f : /\ f[0] = d /\ AllRan(d) = f[n]
               /\ \A k \in 0 .. n : f[k] \in Doing
               /\ \A k \in 1 .. n : f[k] = Ran(f[k - 1], s[k])
  BY AllRanIs
<1> HIDE DEF w, s, n
<1>4. \A k \in 1 .. n : k \in 0 .. n /\ k - 1 \in 0 .. n
  BY <1>2
<1> DEFINE G == {k \in 0 .. n : K(f[k])}
<1>5. 0 \in G
  BY <1>2, <1>3
<1>6. ASSUME NEW k \in 1 .. n, k - 1 \in G PROVE k \in G
  <2> DEFINE e == f[k - 1]
             q == f[k]
             x == rules[s[k]]
  <2>1. K(e) /\ e \in Doing /\ x \in Rule /\ q = Ran(e, s[k]) /\ k \in 0 .. n
    BY <1>2, <1>3, <1>4, <1>6
  <2> HIDE DEF e, q, K
  <2>2. /\ q.row.ws = e.row.ws
        /\ ~Matches(x, e.row) => q = e
        /\ Matches(x, e.row) =>
             /\ q.matched /\ q.set = (e.set \/ x.cat # None)
             /\ q.row.cat = IF x.cat # None /\ ~e.set THEN x.cat
                            ELSE IF e.matched THEN e.row.cat ELSE None
             /\ q.row.chosen = IF e.matched THEN e.row.chosen ELSE None
             /\ \/ q.row.payee = e.row.payee /\ q.row.given = e.row.given
                \/ q.row.payee = q.row.given /\ q.row.given # None
    BY <2>1, RanIs
  <2> HIDE DEF x
  <2>3. K(q)
    <3>1. CASE ~Matches(x, e.row)
      BY <2>1, <2>2, <3>1
    <3>2. CASE Matches(x, e.row)
      BY <2>1, <2>2, <3>2 DEF K
    <3> QED
      BY <3>1, <3>2
  <2> QED
    BY <2>1, <2>3 DEF q
<1> HIDE DEF G
<1>7. n \in G
  <2>1. \A k \in 0 .. n : k \in G
    BY <1>2, <1>5, <1>6, StepByStep
  <2> QED
    BY <1>2, <2>1
<1>8. n \in 0 .. n /\ K(f[n])
  BY <1>2, <1>7 DEF G
<1>9. AllRan(d) \in Doing /\ K(AllRan(d))
  BY <1>3, <1>8
<1> QED
  BY <1>9

-----------------------------------------------------------------------------
(* The first in priority decides *)

LEMMA Decided ==
  ASSUME RulesTyped, NEW d \in Doing, ~d.set,
         \A i \in RulesOf(d.row.ws) : rules[i].on.reads = "description"
  PROVE  /\ \A i \in Deciding(d.row) : AllRan(d).row.cat = rules[i].cat
         /\ Deciding(d.row) = {} =>
              AllRan(d).row.cat = IF Touched(d.row) /\ ~d.matched THEN None ELSE d.row.cat
<1> DEFINE w == d.row.ws
           s == Ordered(w)
           n == Cardinality(ActiveOf(w))
           Hit(i) == Matches(rules[i], d.row)
<1>1. w \in Spaces
  BY DEF Doing, Row
<1>2. /\ n \in Nat
      /\ \A k \in 1 .. n : s[k] \in ActiveOf(w)
      /\ \A i \in ActiveOf(w) : \E k \in 1 .. n : s[k] = i
      /\ \A j, k \in 1 .. n : j < k => Before(s[j], s[k])
  BY <1>1, OrderedIs
<1>3. PICK f : /\ f[0] = d /\ AllRan(d) = f[n]
               /\ \A k \in 0 .. n : f[k] \in Doing
               /\ \A k \in 1 .. n : f[k] = Ran(f[k - 1], s[k])
  BY AllRanIs
<1> HIDE DEF w, s, n
<1>4. \A k \in 1 .. n : /\ k \in 0 .. n /\ k - 1 \in 0 .. n
                        /\ s[k] \in RulesOf(w) /\ rules[s[k]].active /\ rules[s[k]] \in Rule
                        /\ rules[s[k]].on.reads = "description"
  BY <1>1, <1>2, RulesOfAre DEF ActiveOf, w
<1>5. \A k \in 0 .. n : f[k].row.mark = d.row.mark
  <2> DEFINE G == {k \in 0 .. n : f[k].row.mark = d.row.mark}
  <2>1. 0 \in G
    BY <1>2, <1>3
  <2>2. ASSUME NEW k \in 1 .. n, k - 1 \in G PROVE k \in G
    <3>1. f[k - 1] \in Doing /\ rules[s[k]] \in Rule /\ f[k] = Ran(f[k - 1], s[k])
      BY <1>3, <1>4
    <3>2. f[k].row.mark = f[k - 1].row.mark
      BY <3>1, RanIs
    <3> QED
      BY <1>4, <2>2, <3>2
  <2> HIDE DEF G
  <2>3. \A k \in 0 .. n : k \in G
    BY <1>2, <2>1, <2>2, StepByStep
  <2> QED
    BY <2>3 DEF G
<1>6. \A k \in 1 .. n :
        /\ ~Hit(s[k]) => f[k] = f[k - 1]
        /\ Hit(s[k]) =>
             /\ f[k].matched /\ f[k].set = (f[k - 1].set \/ rules[s[k]].cat # None)
             /\ f[k].row.cat = IF rules[s[k]].cat # None /\ ~f[k - 1].set THEN rules[s[k]].cat
                               ELSE IF f[k - 1].matched THEN f[k - 1].row.cat ELSE None
  <2> TAKE k \in 1 .. n
  <2> DEFINE e == f[k - 1]
             x == rules[s[k]]
  <2>1. e \in Doing /\ x \in Rule /\ f[k] = Ran(e, s[k]) /\ e.row.mark = d.row.mark
        /\ x.on.reads = "description"
    BY <1>3, <1>4, <1>5
  <2>2. Matches(x, e.row) <=> Hit(s[k])
    BY <2>1 DEF Matches
  <2> HIDE DEF e, Hit
  <2> QED
    BY <2>1, <2>2, RanIs DEF e
<1> HIDE DEF Hit
<1>7. ASSUME NEW i \in Deciding(d.row) PROVE AllRan(d).row.cat = rules[i].cat
  <2>1. /\ i \in RulesOf(w) /\ rules[i].active /\ rules[i].cat # None /\ Hit(i)
        /\ \A j \in RulesOf(w) : /\ j # i /\ rules[j].active /\ rules[j].cat # None /\ Hit(j)
                                 => Before(i, j)
    BY DEF Deciding, Hit, w
  <2>2. PICK p \in 1 .. n : s[p] = i
    BY <1>2, <2>1 DEF ActiveOf
  <2>3. \A k \in 1 .. n : k < p /\ Hit(s[k]) => rules[s[k]].cat = None
    <3> TAKE k \in 1 .. n
    <3> HAVE k < p /\ Hit(s[k])
    <3>1. Before(s[k], i) /\ s[k] \in RulesOf(w) /\ rules[s[k]].active
      BY <1>2, <1>4, <2>2
    <3>2. ~(Before(s[k], i) /\ Before(i, s[k]))
      BY <1>1, <2>1, <3>1, BeforeOrders
    <3>3. s[k] # i
      BY <3>1, <3>2
    <3> QED
      BY <2>1, <3>1, <3>2, <3>3
  <2> DEFINE J(k) == IF k < p THEN ~f[k].set
                     ELSE f[k].set /\ f[k].matched /\ f[k].row.cat = rules[i].cat
             G == {k \in 0 .. n : J(k)}
  <2>4. 0 \in G
    BY <1>2, <1>3
  <2>5. ASSUME NEW k \in 1 .. n, k - 1 \in G PROVE k \in G
    <3>1. k \in 0 .. n /\ J(k - 1)
      BY <1>4, <2>5
    <3>2. CASE ~Hit(s[k])
      <4>1. f[k] = f[k - 1] /\ k # p
        BY <1>6, <2>1, <2>2, <3>2
      <4> QED
        BY <3>1, <4>1
    <3>3. CASE Hit(s[k])
      <4>1. /\ f[k].matched /\ f[k].set = (f[k - 1].set \/ rules[s[k]].cat # None)
            /\ f[k].row.cat = IF rules[s[k]].cat # None /\ ~f[k - 1].set THEN rules[s[k]].cat
                              ELSE IF f[k - 1].matched THEN f[k - 1].row.cat ELSE None
        BY <1>6, <3>3
      <4>2. CASE k < p
        <5>1. rules[s[k]].cat = None /\ ~f[k - 1].set
          BY <2>3, <3>1, <3>3, <4>2
        <5> QED
          BY <3>1, <4>1, <4>2, <5>1
      <4>3. CASE k = p
        <5>1. ~f[k - 1].set /\ rules[s[k]].cat # None /\ s[k] = i
          BY <2>1, <2>2, <3>1, <4>3
        <5>2. f[k].set /\ f[k].matched
          BY <4>1, <5>1
        <5>3. f[k].row.cat = rules[i].cat
          BY <4>1, <5>1
        <5> QED
          BY <3>1, <4>3, <5>2, <5>3
      <4>4. CASE k > p
        <5>1. f[k - 1].set /\ f[k - 1].matched /\ f[k - 1].row.cat = rules[i].cat /\ ~(k < p)
          BY <3>1, <4>4
        <5> QED
          BY <3>1, <4>1, <5>1
      <4> QED
        BY <4>2, <4>3, <4>4
    <3> QED
      BY <3>2, <3>3
  <2> HIDE DEF G
  <2>6. n \in G
    <3>1. \A k \in 0 .. n : k \in G
      BY <1>2, <2>4, <2>5, StepByStep
    <3> QED
      BY <1>2, <3>1
  <2>7. J(n) /\ ~(n < p)
    BY <1>2, <2>6 DEF G
  <2> QED
    BY <1>3, <2>7
<1>8. ASSUME Deciding(d.row) = {}
      PROVE  AllRan(d).row.cat = IF Touched(d.row) /\ ~d.matched THEN None ELSE d.row.cat
  <2>1. \A i \in ActiveOf(w) : ~(rules[i].cat # None /\ Hit(i))
    <3> DEFINE Able == {i \in ActiveOf(w) : rules[i].cat # None /\ Hit(i)}
               R == {p \in Able \X Able : Before(p[1], p[2])}
    <3> SUFFICES ASSUME Able # {} PROVE FALSE
      OBVIOUS
    <3>1. Able \subseteq RulesOf(w)
      BY DEF ActiveOf
    <3>2. IsFiniteSet(Able)
      <4>1. Able \subseteq RuleIds
        BY DEF ActiveOf, RulesOf
      <4> QED
        BY <4>1, RulesAssumption, FS_Subset
    <3>3. \A x, y \in Able : <<x, y>> \in R <=> Before(x, y)
      OBVIOUS
    <3> HIDE DEF Able, R
    <3>4. /\ \A x, y \in Able : x # y => <<x, y>> \in R \/ <<y, x>> \in R
          /\ \A x, y, z \in Able : <<x, y>> \in R /\ <<y, z>> \in R => <<x, z>> \in R
      BY <1>1, <3>1, <3>3, BeforeOrders
    <3>5. PICK i \in Able : \A j \in Able : j # i => <<i, j>> \in R
      BY <3>2, <3>4, Foremost
    <3>6. /\ i \in RulesOf(w) /\ rules[i].active /\ rules[i].cat # None /\ Hit(i)
          /\ \A j \in RulesOf(w) \ {i} :
               rules[j].active /\ rules[j].cat # None /\ Hit(j) => Before(i, j)
      <4>1. i \in RulesOf(w) /\ rules[i].active /\ rules[i].cat # None /\ Hit(i)
        BY <3>5 DEF Able, ActiveOf
      <4>2. ASSUME NEW j \in RulesOf(w) \ {i}, rules[j].active, rules[j].cat # None, Hit(j)
            PROVE  Before(i, j)
        <5>1. j \in Able
          BY <4>2 DEF Able, ActiveOf
        <5> QED
          BY <3>3, <3>5, <4>2, <5>1
      <4> QED
        BY <4>1, <4>2
    <3>7. i \in Deciding(d.row)
      BY <3>6 DEF Deciding, Hit, w
    <3> QED
      BY <1>8, <3>7
  <2>2. \A k \in 1 .. n : Hit(s[k]) => rules[s[k]].cat = None
    BY <1>2, <2>1
  <2> DEFINE J(k) == /\ ~f[k].set
                     /\ f[k].matched <=> (d.matched \/ \E j \in 1 .. k : Hit(s[j]))
                     /\ f[k].row.cat = IF f[k].matched /\ ~d.matched THEN None ELSE d.row.cat
             G == {k \in 0 .. n : J(k)}
  <2>3. 0 \in G
    <3>1. 1 .. 0 = {} /\ 0 \in 0 .. n
      BY <1>2
    <3> QED
      BY <1>3, <3>1
  <2>4. ASSUME NEW k \in 1 .. n, k - 1 \in G PROVE k \in G
    <3>1. k \in 0 .. n /\ J(k - 1)
      BY <1>4, <2>4
    <3>2. \A j : j \in 1 .. k <=> j \in 1 .. k - 1 \/ j = k
      BY <1>2
    <3>3. CASE ~Hit(s[k])
      <4>1. f[k] = f[k - 1]
        BY <1>6, <3>3
      <4>2. f[k].matched <=> (d.matched \/ \E j \in 1 .. k : Hit(s[j]))
        BY <3>1, <3>2, <3>3, <4>1
      <4>3. ~f[k].set
        BY <3>1, <4>1
      <4>4. f[k].row.cat = IF f[k].matched /\ ~d.matched THEN None ELSE d.row.cat
        BY <3>1, <4>1
      <4>5. J(k)
        BY <4>2, <4>3, <4>4
      <4> QED
        BY <3>1, <4>5
    <3>4. CASE Hit(s[k])
      <4>1. /\ f[k].matched /\ f[k].set = (f[k - 1].set \/ rules[s[k]].cat # None)
            /\ f[k].row.cat = IF rules[s[k]].cat # None /\ ~f[k - 1].set THEN rules[s[k]].cat
                              ELSE IF f[k - 1].matched THEN f[k - 1].row.cat ELSE None
        BY <1>6, <3>4
      <4>2. rules[s[k]].cat = None
        BY <2>2, <3>4
      <4>3. ~f[k].set
        BY <3>1, <4>1, <4>2
      <4>4. f[k].row.cat = IF f[k].matched /\ ~d.matched THEN None ELSE d.row.cat
        BY <3>1, <4>1, <4>2
      <4>5. f[k].matched <=> (d.matched \/ \E j \in 1 .. k : Hit(s[j]))
        BY <3>2, <3>4, <4>1
      <4> QED
        BY <3>1, <4>3, <4>4, <4>5
    <3> QED
      BY <3>3, <3>4
  <2> HIDE DEF G
  <2>5. n \in G
    <3>1. \A k \in 0 .. n : k \in G
      BY <1>2, <2>3, <2>4, StepByStep
    <3> QED
      BY <1>2, <3>1
  <2>6. J(n)
    BY <2>5 DEF G
  <2>7. Touched(d.row) <=> \E j \in 1 .. n : Hit(s[j])
    <3>1. Touched(d.row) <=> \E i \in ActiveOf(w) : Hit(i)
      BY DEF Touched, ActiveOf, Hit, w
    <3> QED
      BY <1>2, <3>1
  <2> QED
    BY <1>3, <2>6, <2>7
<1> QED
  BY <1>7, <1>8

LEMMA TypedDecides ==
  ASSUME RulesTyped, txns \in [RowIds -> Row \cup {NoRow}] PROVE PriorityDecides
<1> SUFFICES ASSUME NEW r \in RowIds, txns[r] # NoRow,
                    \A i \in RulesOf(txns[r].ws) : rules[i].on.reads = "description"
             PROVE  LET row == txns[r]
                        fresh == [row EXCEPT !.cat = None]
                    IN  /\ \A i \in Deciding(row) : /\ Reapplied(row).cat = rules[i].cat
                                                    /\ Categorised(fresh, FALSE).cat = rules[i].cat
                        /\ Deciding(row) = {} =>
                             Reapplied(row).cat = IF Touched(row) THEN None ELSE row.cat
  BY DEF PriorityDecides
<1> DEFINE row == txns[r]
           fresh == [row EXCEPT !.cat = None]
           d == [row |-> row, set |-> FALSE, matched |-> FALSE]
           e == [row |-> fresh, set |-> FALSE, matched |-> TRUE]
<1>1. row \in Row
  OBVIOUS
<1>2. fresh \in Row /\ fresh.ws = row.ws /\ fresh.mark = row.mark
  BY <1>1 DEF Row
<1>3. Deciding(fresh) = Deciding(row)
  <2>1. RulesOf(fresh.ws) = RulesOf(row.ws)
    BY <1>2
  <2>2. \A i \in RulesOf(row.ws) : Matches(rules[i], fresh) <=> Matches(rules[i], row)
    BY <1>2 DEF Matches
  <2> HIDE DEF fresh, row
  <2> QED
    BY <2>1, <2>2 DEF Deciding
<1> HIDE DEF row, fresh
<1>4. d \in Doing /\ e \in Doing /\ d.row = row /\ e.row = fresh /\ ~d.set /\ ~e.set /\ ~d.matched
  BY <1>1, <1>2 DEF Doing
<1>5. Reapplied(row) = AllRan(d).row /\ Categorised(fresh, FALSE) = AllRan(e).row
  BY DEF Reapplied, Categorised
<1> HIDE DEF d, e
<1>6. \A i \in RulesOf(row.ws) : rules[i].on.reads = "description"
  BY DEF row
<1>7. /\ \A i \in Deciding(row) : AllRan(d).row.cat = rules[i].cat
      /\ Deciding(row) = {} =>
              AllRan(d).row.cat = IF Touched(row) /\ ~d.matched THEN None ELSE row.cat
  BY <1>4, <1>6, Decided
<1>8. \A i \in Deciding(fresh) : AllRan(e).row.cat = rules[i].cat
  BY <1>2, <1>4, <1>6, Decided
<1> QED
  BY <1>3, <1>4, <1>5, <1>7, <1>8 DEF row, fresh

-----------------------------------------------------------------------------
(* Rows *)

\* Mappings of the payees there are lead to themselves.
TablesInv ==
  /\ cats \in [CatIds -> Cat \cup {NoCat}]
  /\ payees \subseteq PayeeIds
  /\ target \in [PayeeIds -> PayeeIds \cup {None}]
  /\ \A p \in payees \cap ByHand : target[p] = p

\* A row holds the category that was chosen and, if a payee was given, what
\* the merges have made of him.
Holds(x, map, there) ==
  /\ x \in Row
  /\ x.chosen # None => x.cat = x.chosen
  /\ x.given # None =>
        /\ x.given \in there => x.payee = x.given
        /\ x.given \in ByHand => x.payee = map[x.given]

TxnsInv ==
  /\ txns \in [RowIds -> Row \cup {NoRow}]
  /\ \A r \in RowIds : txns[r] # NoRow => Holds(txns[r], target, payees)

LEMMA NoRowIs == NoRow \notin Row
  BY NoneOfZero DEF Row

LEMMA RowsOfAre ==
  ASSUME TxnsInv, NEW w \in Spaces, NEW r \in RowsOf(w)
  PROVE  r \in RowIds /\ txns[r] # NoRow /\ Holds(txns[r], target, payees) /\ txns[r] \in Row
<1>1. r \in RowIds /\ txns[r].ws = w
  BY DEF RowsOf
<1>2. txns[r] # NoRow
  BY <1>1, NoneOfZero
<1> QED
  BY <1>1, <1>2 DEF TxnsInv, Holds

\* What a rule gives a row that the foreign keys accept.
LEMMA GivenHolds ==
  ASSUME TablesInv, NEW x \in Row, Holds(x, target, payees), NEW y \in Row,
         y.chosen # None => y.cat = y.chosen,
         \/ y.payee = x.payee /\ y.given = x.given
         \/ y.payee = y.given /\ y.given # None,
         Sound(y)
  PROVE  Holds(y, target, payees)
<1>1. CASE y.payee = x.payee /\ y.given = x.given
  BY <1>1 DEF Holds
<1>2. CASE y.payee = y.given /\ y.given # None
  <2>1. y.payee \in payees
    BY <1>2 DEF Sound
  <2>2. y.given \in ByHand => target[y.given] = y.payee
    BY <1>2, <2>1 DEF TablesInv
  <2> QED
    BY <1>2, <2>2 DEF Holds
<1> QED
  BY <1>1, <1>2

LEMMA ReappliedHolds ==
  ASSUME RulesTyped, TablesInv, NEW x \in Row, Holds(x, target, payees)
  PROVE  Reapplied(x) \in Row /\ (Sound(Reapplied(x)) => Holds(Reapplied(x), target, payees))
<1> DEFINE d == [row |-> x, set |-> FALSE, matched |-> FALSE]
           e == AllRan(d)
<1>1. d \in Doing /\ d.row = x /\ ~d.matched
  BY DEF Doing
<1>2. Reapplied(x) = e.row
  BY DEF Reapplied
<1> HIDE DEF d
<1>3. /\ e \in Doing
      /\ \/ e.row.payee = x.payee /\ e.row.given = x.given
         \/ e.row.payee = e.row.given /\ e.row.given # None
      /\ \/ e.row.cat = x.cat /\ e.row.chosen = x.chosen
         \/ e.row.chosen = None
  BY <1>1, Treated
<1> HIDE DEF e
<1>4. e.row \in Row /\ (e.row.chosen # None => e.row.cat = e.row.chosen)
  BY <1>3 DEF Doing, Holds
<1> QED
  BY <1>2, <1>3, <1>4, GivenHolds

LEMMA CategorisedHolds ==
  ASSUME RulesTyped, TablesInv, NEW x \in Row, Holds(x, target, payees), NEW set \in BOOLEAN,
         x.chosen # None => set, Sound(Categorised(x, set))
  PROVE  Holds(Categorised(x, set), target, payees)
<1> DEFINE d == [row |-> x, set |-> set, matched |-> TRUE]
           e == AllRan(d)
<1>1. d \in Doing /\ d.row = x /\ d.matched /\ d.set = set
  BY DEF Doing
<1>2. Categorised(x, set) = e.row
  BY DEF Categorised
<1> HIDE DEF d
<1>3. /\ e \in Doing
      /\ \/ e.row.payee = x.payee /\ e.row.given = x.given
         \/ e.row.payee = e.row.given /\ e.row.given # None
      /\ e.row.chosen = x.chosen
      /\ set => e.row.cat = x.cat
  BY <1>1, Treated
<1> HIDE DEF e
<1>4. e.row \in Row /\ (e.row.chosen # None => e.row.cat = e.row.chosen)
  BY <1>3 DEF Doing, Holds
<1> QED
  BY <1>2, <1>3, <1>4, GivenHolds

LEMMA SingleHolds ==
  ASSUME TablesInv, NEW rule \in Rule, NEW x \in Row, Holds(x, target, payees)
  PROVE  Single(rule, x) \in Row /\ (Sound(Single(rule, x)) => Holds(Single(rule, x), target, payees))
<1>1. CASE ~Matches(rule, x)
  BY <1>1 DEF Single
<1>2. CASE Matches(rule, x)
  <2> DEFINE d == [row |-> x, set |-> x.cat # None, matched |-> TRUE]
             e == Apply(rule, d)
  <2>1. d \in Doing /\ d.row = x /\ d.set = (x.cat # None)
    BY DEF Doing
  <2>2. Single(rule, x) = e.row
    BY <1>2 DEF Single
  <2> HIDE DEF d
  <2>3. /\ e \in Doing
        /\ \/ e.row.payee = d.row.payee /\ e.row.given = d.row.given
           \/ e.row.payee = e.row.given /\ e.row.given # None
        /\ e.row.chosen = d.row.chosen
        /\ d.set => e.row.cat = d.row.cat
    BY <2>1, Applied
  <2> HIDE DEF e
  <2>4. e.row \in Row /\ (e.row.chosen # None => e.row.cat = e.row.chosen)
    BY <2>1, <2>3 DEF Doing, Holds
  <2> QED
    BY <2>1, <2>2, <2>3, <2>4, GivenHolds
<1> QED
  BY <1>1, <1>2

\* A statement over rows, which the foreign keys refuse as a whole.
LEMMA CommittedHolds ==
  ASSUME TxnsInv, NEW new, new = [r \in RowIds |-> new[r]],
         \A r \in RowIds : \/ new[r] = txns[r]
                           \/ new[r] \in Row /\ (Sound(new[r]) => Holds(new[r], target, payees)),
         txns' = Committed(new), target' = target /\ payees' = payees
  PROVE  TxnsInv'
<1>1. CASE \A r \in RowIds : new[r] # NoRow => Sound(new[r])
  <2>1. txns' = new
    BY <1>1 DEF Committed
  <2>2. ASSUME NEW r \in RowIds
        PROVE  /\ new[r] \in Row \cup {NoRow}
               /\ new[r] # NoRow => Holds(new[r], target, payees)
    <3>1. CASE new[r] = txns[r]
      BY <3>1 DEF TxnsInv
    <3>2. CASE new[r] \in Row /\ (Sound(new[r]) => Holds(new[r], target, payees))
      BY <1>1, <3>2, NoRowIs
    <3> QED
      BY <3>1, <3>2
  <2>3. new \in [RowIds -> Row \cup {NoRow}]
    BY <2>2
  <2> QED
    BY <2>1, <2>2, <2>3 DEF TxnsInv
<1>2. CASE ~\A r \in RowIds : new[r] # NoRow => Sound(new[r])
  <2>1. txns' = txns
    BY <1>2 DEF Committed
  <2> QED
    BY <2>1 DEF TxnsInv
<1> QED
  BY <1>1, <1>2

LEMMA SameTxns == TxnsInv /\ txns' = txns /\ target' = target /\ payees' = payees => TxnsInv'
  BY DEF TxnsInv

LEMMA EachHolds ==
  ASSUME NEW new, new = [r \in RowIds |-> new[r]],
         \A r \in RowIds : new[r] = NoRow \/ Holds(new[r], target', payees'),
         txns' = new
  PROVE  TxnsInv'
<1>1. new \in [RowIds -> Row \cup {NoRow}]
  BY DEF Holds
<1> QED
  BY <1>1 DEF TxnsInv

LEMMA RowsAdded ==
  ASSUME RulesTyped, TablesInv, TxnsInv, NEW w \in Spaces, AddRow(w) PROVE TxnsInv'
<1>1. PICK r \in RowIds, m \in Marks, c \in CatsOf(w) \cup {None}, p \in payees \cup {None} :
        LET row == [ws |-> w, mark |-> m, cat |-> c, payee |-> p, notes |-> {},
                    hidden |-> FALSE, chosen |-> c, given |-> p]
        IN  /\ txns[r] = NoRow
            /\ \E new \in {IF c = None THEN Categorised(row, FALSE) ELSE row,
                           Categorised(row, c # None), Categorised(row, TRUE)} :
                  /\ Sound(new)
                  /\ txns' = [txns EXCEPT ![r] = new]
  BY Zenon DEF AddRow
<1> DEFINE x == [ws |-> w, mark |-> m, cat |-> c, payee |-> p, notes |-> {},
                 hidden |-> FALSE, chosen |-> c, given |-> p]
<1>2. /\ x \in Row /\ x.chosen = c /\ x.cat = c /\ x.payee = p /\ x.given = p
  <2>1. c \in CatIds \cup {None} /\ p \in PayeeIds \cup {None}
    BY DEF CatsOf, TablesInv
  <2> QED
    BY <2>1 DEF Row
<1> HIDE DEF x
<1>3. Holds(x, target, payees)
  BY <1>2 DEF Holds, TablesInv
<1>4. PICK new \in {IF c = None THEN Categorised(x, FALSE) ELSE x,
                    Categorised(x, c # None), Categorised(x, TRUE)} :
        Sound(new) /\ txns' = [txns EXCEPT ![r] = new]
  BY <1>1 DEF x
<1>5. Holds(new, target, payees)
  <2>1. CASE new = x
    BY <1>3, <2>1
  <2>2. CASE c = None /\ new = Categorised(x, FALSE)
    BY <1>2, <1>3, <1>4, <2>2, CategorisedHolds
  <2>3. CASE new = Categorised(x, c # None)
    <3>1. (c # None) \in BOOLEAN /\ (x.chosen # None => c # None)
      BY <1>2
    <3> QED
      BY <1>2, <1>3, <1>4, <2>3, <3>1, CategorisedHolds
  <2>4. CASE new = Categorised(x, TRUE)
    BY <1>2, <1>3, <1>4, <2>4, CategorisedHolds
  <2> QED
    BY <1>4, <2>1, <2>2, <2>3, <2>4
<1>6. target' = target /\ payees' = payees
  BY DEF AddRow
<1> DEFINE all == [txns EXCEPT ![r] = new]
<1>7. all = [q \in RowIds |-> IF q = r THEN new ELSE txns[q]]
  BY DEF TxnsInv
<1>8. \A q \in RowIds : all[q] = NoRow \/ Holds(all[q], target', payees')
  BY <1>5, <1>6, <1>7 DEF TxnsInv
<1>9. all = [q \in RowIds |-> all[q]] /\ txns' = all
  BY <1>4, <1>7
<1> HIDE DEF all
<1> QED
  BY <1>8, <1>9, EachHolds

LEMMA CategorySet ==
  ASSUME TablesInv, TxnsInv, NEW w \in Spaces, SetCategory(w) PROVE TxnsInv'
<1>1. PICK some \in SUBSET RowsOf(w) \ {{}}, c \in CatsOf(w) \cup {None} :
        txns' = [r \in RowIds |-> IF r \in some THEN [txns[r] EXCEPT !.cat = c, !.chosen = c]
                                  ELSE txns[r]]
  BY DEF SetCategory
<1>2. target' = target /\ payees' = payees /\ c \in CatIds \cup {None}
  BY DEF SetCategory, CatsOf
<1>3. ASSUME NEW r \in RowIds PROVE txns'[r] = NoRow \/ Holds(txns'[r], target', payees')
  <2>1. CASE r \in some
    <3>1. txns[r] \in Row /\ Holds(txns[r], target, payees)
      BY <2>1, RowsOfAre
    <3> DEFINE x == txns[r]
               y == [x EXCEPT !.cat = c, !.chosen = c]
    <3>2. txns'[r] = y
      BY <1>1, <2>1
    <3> HIDE DEF x
    <3>3. y \in Row /\ y.cat = c /\ y.chosen = c /\ y.payee = x.payee /\ y.given = x.given
      BY <1>2, <3>1 DEF Row, x
    <3> HIDE DEF y
    <3>4. Holds(y, target, payees)
      BY <3>1, <3>3 DEF Holds, x
    <3> QED
      BY <1>2, <3>2, <3>4
  <2>2. CASE r \notin some
    BY <1>1, <1>2, <2>2 DEF TxnsInv
  <2> QED
    BY <2>1, <2>2
<1>4. txns' = [r \in RowIds |-> txns'[r]]
  BY <1>1
<1> QED
  BY <1>3, <1>4, EachHolds

\* Notes that are typed, or tags that are added and removed.
LEMMA NotesSet ==
  ASSUME TxnsInv, target' = target /\ payees' = payees, NEW notes, NEW some \in SUBSET RowIds,
         \A r \in some : txns[r] # NoRow /\ notes[r] \in SUBSET Words,
         txns' = [r \in RowIds |-> IF r \in some THEN [txns[r] EXCEPT !.notes = notes[r]]
                                   ELSE txns[r]]
  PROVE  TxnsInv'
<1>1. ASSUME NEW r \in RowIds PROVE txns'[r] = NoRow \/ Holds(txns'[r], target', payees')
  <2>1. CASE r \in some
    <3> DEFINE x == txns[r]
               y == [x EXCEPT !.notes = notes[r]]
    <3>1. Holds(x, target, payees) /\ txns'[r] = y
      BY <2>1 DEF TxnsInv
    <3> HIDE DEF x
    <3>2. /\ y \in Row /\ y.cat = x.cat /\ y.chosen = x.chosen /\ y.payee = x.payee
          /\ y.given = x.given
      BY <2>1, <3>1 DEF Row, Holds
    <3> HIDE DEF y
    <3>3. Holds(y, target, payees)
      BY <3>1, <3>2 DEF Holds
    <3> QED
      BY <3>1, <3>3
  <2>2. CASE r \notin some
    BY <2>2 DEF TxnsInv
  <2> QED
    BY <2>1, <2>2
<1>2. txns' = [r \in RowIds |-> txns'[r]]
  OBVIOUS
<1> QED
  BY <1>1, <1>2, EachHolds

LEMMA NotesTyped ==
  ASSUME TxnsInv, NEW r \in RowIds, TypeNotes(r) PROVE TxnsInv'
<1>1. PICK notes \in SUBSET Words : txns' = [txns EXCEPT ![r].notes = notes]
  BY DEF TypeNotes
<1> DEFINE n == [q \in RowIds |-> notes]
<1>2. /\ target' = target /\ payees' = payees /\ {r} \in SUBSET RowIds
      /\ \A q \in {r} : txns[q] # NoRow /\ n[q] \in SUBSET Words
  BY DEF TypeNotes
<1>3. txns' = [q \in RowIds |-> IF q \in {r} THEN [txns[q] EXCEPT !.notes = n[q]] ELSE txns[q]]
  BY <1>1 DEF TxnsInv
<1> HIDE DEF n
<1> QED
  BY <1>2, <1>3, NotesSet

LEMMA TagsSet ==
  ASSUME TxnsInv, NEW w \in Spaces, AddTags(w) \/ RemoveTags(w) PROVE TxnsInv'
<1>1. target' = target /\ payees' = payees
  BY DEF AddTags, RemoveTags
<1>2. PICK some \in SUBSET RowsOf(w), tags \in SUBSET Words :
        \/ txns' = [r \in RowIds |-> IF r \in some
                                     THEN [txns[r] EXCEPT !.notes = txns[r].notes \cup tags]
                                     ELSE txns[r]]
        \/ txns' = [r \in RowIds |-> IF r \in some
                                     THEN [txns[r] EXCEPT !.notes = txns[r].notes \ tags]
                                     ELSE txns[r]]
  BY DEF AddTags, RemoveTags, Retagged
<1>3. some \in SUBSET RowIds /\ \A r \in some : txns[r] # NoRow /\ txns[r].notes \in SUBSET Words
  BY RowsOfAre DEF Row
<1> DEFINE a == [r \in RowIds |-> txns[r].notes \cup tags]
           b == [r \in RowIds |-> txns[r].notes \ tags]
<1>4. CASE txns' = [r \in RowIds |-> IF r \in some
                                     THEN [txns[r] EXCEPT !.notes = txns[r].notes \cup tags]
                                     ELSE txns[r]]
  <2>1. \A r \in some : txns[r] # NoRow /\ a[r] \in SUBSET Words
    BY <1>3
  <2>2. txns' = [r \in RowIds |-> IF r \in some THEN [txns[r] EXCEPT !.notes = a[r]] ELSE txns[r]]
    BY <1>4
  <2> HIDE DEF a
  <2> QED
    BY <1>1, <1>3, <2>1, <2>2, NotesSet
<1>5. CASE txns' = [r \in RowIds |-> IF r \in some
                                     THEN [txns[r] EXCEPT !.notes = txns[r].notes \ tags]
                                     ELSE txns[r]]
  <2>1. \A r \in some : txns[r] # NoRow /\ b[r] \in SUBSET Words
    BY <1>3
  <2>2. txns' = [r \in RowIds |-> IF r \in some THEN [txns[r] EXCEPT !.notes = b[r]] ELSE txns[r]]
    BY <1>5
  <2> HIDE DEF b
  <2> QED
    BY <1>1, <1>3, <2>1, <2>2, NotesSet
<1> QED
  BY <1>2, <1>4, <1>5

LEMMA RulesReapplied ==
  ASSUME RulesTyped, TablesInv, TxnsInv, NEW w \in Spaces, ApplyAll(w) PROVE TxnsInv'
<1> DEFINE new == AllReapplied(w)
<1>1. new = [r \in RowIds |-> new[r]] /\ txns' = Committed(new) /\ target' = target /\ payees' = payees
  BY DEF AllReapplied, ApplyAll
<1>2. ASSUME NEW r \in RowIds
      PROVE  \/ new[r] = txns[r]
             \/ new[r] \in Row /\ (Sound(new[r]) => Holds(new[r], target, payees))
  <2>1. CASE txns[r].ws = w
    <3>1. r \in RowsOf(w)
      BY <2>1 DEF RowsOf
    <3>2. txns[r] \in Row /\ Holds(txns[r], target, payees)
      BY <3>1, RowsOfAre
    <3>3. new[r] = Reapplied(txns[r])
      BY <2>1 DEF AllReapplied
    <3> QED
      BY <3>2, <3>3, ReappliedHolds
  <2>2. CASE txns[r].ws # w
    BY <2>2 DEF AllReapplied
  <2> QED
    BY <2>1, <2>2
<1> HIDE DEF new
<1> QED
  BY <1>1, <1>2, CommittedHolds

LEMMA RuleApplied ==
  ASSUME TablesInv, TxnsInv, target' = target /\ payees' = payees, NEW i, NEW x \in Rule, NEW a, Store(i, x, a)
  PROVE  TxnsInv'
<1>1. CASE a /\ x.active
  <2> DEFINE new == [r \in RowIds |-> IF txns[r].ws = x.ws THEN Single(x, txns[r]) ELSE txns[r]]
  <2>1. new = [r \in RowIds |-> new[r]] /\ txns' = Committed(new)
    BY <1>1 DEF Store
  <2>2. ASSUME NEW r \in RowIds
        PROVE  \/ new[r] = txns[r]
               \/ new[r] \in Row /\ (Sound(new[r]) => Holds(new[r], target, payees))
    <3>1. CASE txns[r].ws = x.ws
      <4>1. x.ws \in Spaces /\ r \in RowsOf(x.ws)
        BY <3>1 DEF RowsOf, Rule
      <4>2. txns[r] \in Row /\ Holds(txns[r], target, payees)
        BY <4>1, RowsOfAre
      <4>3. new[r] = Single(x, txns[r])
        BY <3>1
      <4> QED
        BY <4>2, <4>3, SingleHolds
    <3>2. CASE txns[r].ws # x.ws
      BY <3>2
    <3> QED
      BY <3>1, <3>2
  <2> HIDE DEF new
  <2> QED
    BY <2>1, <2>2, CommittedHolds
<1>2. CASE ~(a /\ x.active)
  BY <1>2, SameTxns DEF Store
<1> QED
  BY <1>1, <1>2

-----------------------------------------------------------------------------
(* Payees and categories *)

LEMMA PayeeDeleted ==
  ASSUME TablesInv, TxnsInv, NEW p \in PayeeIds, DeletePayee(p) PROVE TablesInv' /\ TxnsInv'
<1>1. /\ payees' = payees \ {p} /\ cats' = cats
      /\ target' = [q \in PayeeIds |-> IF target[q] = p THEN None ELSE target[q]]
      /\ txns' = [r \in RowIds |-> IF txns[r] # NoRow /\ txns[r].payee = p
                                   THEN [txns[r] EXCEPT !.payee = None] ELSE txns[r]]
  BY DEF DeletePayee
<1>2. TablesInv'
  BY <1>1 DEF TablesInv
<1>3. ASSUME NEW r \in RowIds, txns[r] # NoRow PROVE Holds(txns'[r], target', payees')
  <2> DEFINE x == txns[r]
  <2>1. Holds(x, target, payees)
    BY <1>3 DEF TxnsInv
  <2>2. x \in Row /\ x.given \in PayeeIds \cup {None}
    BY <2>1 DEF Holds, Row
  <2>3. CASE x.payee = p
    <3> DEFINE y == [x EXCEPT !.payee = None]
    <3>1. txns'[r] = y
      BY <1>1, <1>3, <2>3
    <3> HIDE DEF x
    <3>2. /\ y \in Row /\ y.cat = x.cat /\ y.chosen = x.chosen /\ y.payee = None
          /\ y.given = x.given
      BY <2>2 DEF Row
    <3> HIDE DEF y
    <3>3. x.given # None =>
            x.given \notin payees' /\ (x.given \in ByHand => target'[x.given] = None)
      BY <1>1, <2>1, <2>2, <2>3 DEF Holds
    <3> QED
      BY <2>1, <3>1, <3>2, <3>3 DEF Holds
  <2>4. CASE x.payee # p
    <3>1. txns'[r] = x
      BY <1>1, <2>4
    <3> HIDE DEF x
    <3>2. x.given # None =>
            /\ x.given \in payees' => x.given \in payees
            /\ x.given \in ByHand => target'[x.given] = x.payee
      BY <1>1, <2>1, <2>2, <2>4 DEF Holds
    <3> QED
      BY <2>1, <3>1, <3>2 DEF Holds
  <2> QED
    BY <2>3, <2>4
<1>4. \A r \in RowIds : txns'[r] = NoRow \/ Holds(txns'[r], target', payees')
  BY <1>1, <1>3
<1>5. txns' = [r \in RowIds |-> txns'[r]]
  BY <1>1
<1> QED
  BY <1>2, <1>4, <1>5, EachHolds

LEMMA PayeesMerged ==
  ASSUME TablesInv, TxnsInv, NEW to \in PayeeIds, MergePayees(to) PROVE TablesInv' /\ TxnsInv'
<1>1. PICK sources \in SUBSET (payees \ {to}) :
        /\ payees' = payees \ sources
        /\ target' = [q \in PayeeIds |-> IF target[q] \in sources THEN to ELSE target[q]]
        /\ txns' = [r \in RowIds |-> IF txns[r] # NoRow /\ txns[r].payee \in sources
                                     THEN [txns[r] EXCEPT !.payee = to] ELSE txns[r]]
  BY DEF MergePayees, Reassigned
<1>2. cats' = cats
  BY DEF MergePayees
<1>3. TablesInv'
  BY <1>1, <1>2 DEF TablesInv
<1>4. ASSUME NEW r \in RowIds, txns[r] # NoRow PROVE Holds(txns'[r], target', payees')
  <2> DEFINE x == txns[r]
  <2>1. Holds(x, target, payees)
    BY <1>4 DEF TxnsInv
  <2>2. x \in Row /\ x.given \in PayeeIds \cup {None}
    BY <2>1 DEF Holds, Row
  <2>3. CASE x.payee \in sources
    <3> DEFINE y == [x EXCEPT !.payee = to]
    <3>1. txns'[r] = y
      BY <1>1, <1>4, <2>3
    <3> HIDE DEF x
    <3>2. /\ y \in Row /\ y.cat = x.cat /\ y.chosen = x.chosen /\ y.payee = to
          /\ y.given = x.given
      BY <2>2 DEF Row
    <3> HIDE DEF y
    <3>3. x.given # None =>
            x.given \notin payees' /\ (x.given \in ByHand => target'[x.given] = to)
      BY <1>1, <2>1, <2>2, <2>3 DEF Holds
    <3> QED
      BY <2>1, <3>1, <3>2, <3>3 DEF Holds
  <2>4. CASE x.payee \notin sources
    <3>1. txns'[r] = x
      BY <1>1, <2>4
    <3> HIDE DEF x
    <3>2. x.given # None =>
            /\ x.given \in payees' => x.given \in payees
            /\ x.given \in ByHand => target'[x.given] = x.payee
      BY <1>1, <2>1, <2>2, <2>4 DEF Holds
    <3> QED
      BY <2>1, <3>1, <3>2 DEF Holds
  <2> QED
    BY <2>3, <2>4
<1>5. \A r \in RowIds : txns'[r] = NoRow \/ Holds(txns'[r], target', payees')
  BY <1>1, <1>4
<1>6. txns' = [r \in RowIds |-> txns'[r]]
  BY <1>1
<1> QED
  BY <1>3, <1>5, <1>6, EachHolds
-----------------------------------------------------------------------------
(* The rules, and the file they are exported to *)

NamesApart(R) ==
  \A i, j \in RuleIds :
    R[i] # NoRule /\ R[j] # NoRule /\ R[i].ws = R[j].ws /\ R[i].name = R[j].name => i = j

FileInv ==
  /\ file \subseteq FileRule
  /\ \A x, y \in file : x.name = y.name => x = y

RulesInv ==
  /\ RulesTyped
  /\ NamesApart(rules)
  /\ TablesInv
  /\ TxnsInv
  /\ FileInv
  /\ changes \in 0 .. MaxChanges
  /\ changes = 0 => \A i \in RuleIds : rules[i] = NoRule

LEMMA ChangesCounted == changes \in 0 .. MaxChanges /\ Allowed => changes' \in 1 .. MaxChanges
  BY RulesAssumption DEF Allowed

LEMMA FirstIs == First \in Spaces
<1>1. PICK w \in Spaces : \A v \in Spaces : <<v, w>> \notin OpToRel(<, Nat)
  <2>1. Spaces \subseteq Nat /\ Spaces # {}
    BY RulesAssumption
  <2> QED
    BY <2>1, NatLessThanWellFounded, WFMin
<1>2. \A v \in Spaces : w <= v
  <2> TAKE v \in Spaces
  <2>1. v \in Nat /\ w \in Nat
    BY RulesAssumption
  <2>2. ~(v < w)
    BY <1>1, <2>1 DEF OpToRel
  <2> QED
    BY <2>1, <2>2
<1> QED
  BY <1>2 DEF First

LEMMA NameFreeIs ==
  ASSUME NEW w \in Spaces, NEW n, NameFree(w, n), NEW j \in RuleIds, rules[j].ws = w
  PROVE  rules[j].name # n
  BY DEF NameFree, RulesOf

LEMMA RuleStored ==
  ASSUME RulesTyped, NamesApart(rules), NEW i \in RuleIds, NEW x \in Rule, NEW a, Store(i, x, a),
         \A j \in RuleIds : j # i /\ rules[j] # NoRule /\ rules[j].ws = x.ws
            => rules[j].name # x.name
  PROVE  RulesTyped' /\ NamesApart(rules')
<1>1. rules' = [rules EXCEPT ![i] = x]
  BY DEF Store
<1>2. RulesTyped'
  BY <1>1 DEF RulesTyped
<1>3. \A j \in RuleIds : rules'[j] = IF j = i THEN x ELSE rules[j]
  BY <1>1 DEF RulesTyped
<1>4. NamesApart(rules')
  BY <1>3 DEF NamesApart
<1> QED
  BY <1>2, <1>4

LEMMA RuleCreated ==
  ASSUME RulesInv, NEW w \in Spaces, CreateRule(w)
  PROVE  RulesTyped' /\ NamesApart(rules') /\ TxnsInv'
<1>1. PICK i \in RuleIds, n \in RuleNames, on \in Conditions, does \in Actions, prio \in Priorities,
          c \in CatsOf(w) \cup {None} :
          /\ NameFree(w, n)
          /\ Store(i, [ws |-> w, name |-> n, on |-> on, does |-> does, cat |-> c, prio |-> prio,
                       active |-> TRUE], TRUE)
  BY DEF CreateRule
<1> DEFINE x == [ws |-> w, name |-> n, on |-> on, does |-> does, cat |-> c, prio |-> prio,
                 active |-> TRUE]
<1>2. x \in Rule /\ x.ws = w /\ x.name = n
  <2>1. c \in CatIds \cup {None} /\ does \in Action
    BY RulesAssumption DEF CatsOf
  <2> QED
    BY <2>1 DEF Rule
<1>3. Store(i, x, TRUE)
  BY <1>1
<1> HIDE DEF x
<1>4. \A j \in RuleIds : j # i /\ rules[j] # NoRule /\ rules[j].ws = x.ws
         => rules[j].name # x.name
  BY <1>1, <1>2, NameFreeIs
<1>5. RulesTyped /\ NamesApart(rules) /\ TablesInv /\ TxnsInv /\ target' = target /\ payees' = payees
  BY DEF RulesInv, CreateRule
<1> QED
  BY <1>2, <1>3, <1>4, <1>5, RuleStored, RuleApplied

LEMMA RevisedIs ==
  ASSUME RulesTyped, NamesApart(rules), NEW i \in RuleIds, rules[i] # NoRule,
         NEW x \in Revised(i)
  PROVE  /\ x \in Rule
         /\ \A j \in RuleIds : j # i /\ rules[j] # NoRule /\ rules[j].ws = x.ws
               => rules[j].name # x.name
<1> DEFINE y == rules[i]
<1>1. y \in Rule /\ y.ws \in Spaces
  BY DEF RulesTyped, Rule
<1>2. \A j \in RuleIds : j # i /\ rules[j] # NoRule /\ rules[j].ws = y.ws
         => rules[j].name # y.name
  BY DEF NamesApart
<1>3. \/ \E on \in Conditions : x = [y EXCEPT !.on = on]
      \/ \E prio \in Priorities : x = [y EXCEPT !.prio = prio]
      \/ \E n \in RuleNames : NameFree(y.ws, n) /\ x = [y EXCEPT !.name = n]
      \/ x = [y EXCEPT !.active = ~y.active]
  BY DEF Revised
<1> HIDE DEF y
<1>4. CASE \E n \in RuleNames : NameFree(y.ws, n) /\ x = [y EXCEPT !.name = n]
  <2>1. PICK n \in RuleNames : NameFree(y.ws, n) /\ x = [y EXCEPT !.name = n]
    BY <1>4
  <2>2. x \in Rule /\ x.ws = y.ws /\ x.name = n
    BY <1>1, <2>1 DEF Rule
  <2> QED
    BY <1>1, <2>1, <2>2, NameFreeIs
<1>5. CASE x = [y EXCEPT !.active = ~y.active]
  <2>1. y.active \in BOOLEAN
    BY <1>1 DEF Rule
  <2>2. (~y.active) \in BOOLEAN
    OBVIOUS
  <2> DEFINE b == ~y.active
  <2>3. x = [y EXCEPT !.active = b] /\ b \in BOOLEAN
    BY <1>5, <2>2
  <2> HIDE DEF b
  <2>4. x \in Rule /\ x.ws = y.ws /\ x.name = y.name
    BY <1>1, <2>3 DEF Rule
  <2> QED
    BY <1>2, <2>4
<1>6. CASE \E on \in Conditions : x = [y EXCEPT !.on = on]
  <2>1. x \in Rule /\ x.ws = y.ws /\ x.name = y.name
    BY <1>1, <1>6 DEF Rule
  <2> QED
    BY <1>2, <2>1
<1>7. CASE \E prio \in Priorities : x = [y EXCEPT !.prio = prio]
  <2>1. x \in Rule /\ x.ws = y.ws /\ x.name = y.name
    BY <1>1, <1>7 DEF Rule
  <2> QED
    BY <1>2, <2>1
<1> QED
  BY <1>3, <1>4, <1>5, <1>6, <1>7

LEMMA RuleUpdated ==
  ASSUME RulesInv, NEW i \in RuleIds, UpdateRule(i)
  PROVE  RulesTyped' /\ NamesApart(rules') /\ TxnsInv'
<1>1. PICK x \in Revised(i) : Store(i, x, x.on # rules[i].on)
  BY DEF UpdateRule
<1>2. RulesTyped /\ NamesApart(rules) /\ TablesInv /\ TxnsInv /\ target' = target /\ payees' = payees
  BY DEF RulesInv, UpdateRule
<1>3. rules[i] # NoRule
  BY DEF UpdateRule
<1>4. /\ x \in Rule
      /\ \A j \in RuleIds : j # i /\ rules[j] # NoRule /\ rules[j].ws = x.ws
            => rules[j].name # x.name
  BY <1>2, <1>3, RevisedIs
<1> QED
  BY <1>1, <1>2, <1>4, RuleStored, RuleApplied

LEMMA RuleDeleted ==
  ASSUME RulesTyped, NamesApart(rules), NEW i \in RuleIds, DeleteRule(i)
  PROVE  RulesTyped' /\ NamesApart(rules')
<1>1. rules' = [rules EXCEPT ![i] = NoRule]
  BY DEF DeleteRule
<1>2. RulesTyped'
  BY <1>1 DEF RulesTyped
<1>3. \A j \in RuleIds : rules'[j] = IF j = i THEN NoRule ELSE rules[j]
  BY <1>1 DEF RulesTyped
<1> QED
  BY <1>2, <1>3 DEF NamesApart

\* What a file, a pack or the default rules add.
LEMMA AddedTyped ==
  ASSUME NEW base \in [RuleIds -> Rule \cup {NoRule}], NamesApart(base), NEW w \in Spaces,
         NEW lines \in SUBSET FileRule, \A x, y \in lines : x.name = y.name => x = y,
         NEW some \in SUBSET CatIds,
         \A i \in RuleIds, x \in lines : base[i] # NoRule /\ base[i].ws = w => base[i].name # x.name,
         NEW new \in Added(base, lines, w, some)
  PROVE  new \in [RuleIds -> Rule \cup {NoRule}] /\ NamesApart(new)
<1>1. PICK f \in Picks(lines, some),
           at \in {g \in [lines -> {i \in RuleIds : base[i] = NoRule}] :
                     \A x, y \in lines : g[x] = g[y] => x = y} :
        new = [i \in RuleIds |-> IF \E x \in lines : at[x] = i
                        THEN LET x == CHOOSE y \in lines : at[y] = i IN Drawn(x, w, f[x])
                        ELSE base[i]]
  BY DEF Added
<1>2. \A x \in lines : f[x] \in CatIds \cup {None} /\ at[x] \in RuleIds
  BY DEF Picks
<1>3. \A x \in lines : /\ Drawn(x, w, f[x]) \in Rule /\ Drawn(x, w, f[x]) # NoRule
                       /\ Drawn(x, w, f[x]).ws = w /\ Drawn(x, w, f[x]).name = x.name
  <2> TAKE x \in lines
  <2>1. x \in FileRule /\ f[x] \in CatIds \cup {None}
    BY <1>2
  <2>2. /\ Drawn(x, w, f[x]) \in Rule
        /\ Drawn(x, w, f[x]).ws = w /\ Drawn(x, w, f[x]).name = x.name
    BY <2>1 DEF Drawn, Rule, FileRule
  <2> QED
    BY <2>2, NoneOfZero
<1>4. ASSUME NEW i \in RuleIds
      PROVE  \/ \E x \in lines : at[x] = i /\ new[i] = Drawn(x, w, f[x])
             \/ new[i] = base[i]
  <2>1. CASE \E x \in lines : at[x] = i
    <3> DEFINE z == CHOOSE y \in lines : at[y] = i
    <3>1. z \in lines /\ at[z] = i
      BY <2>1
    <3>2. new[i] = Drawn(z, w, f[z])
      BY <1>1, <2>1
    <3> HIDE DEF z
    <3> QED
      BY <3>1, <3>2
  <2>2. CASE ~\E x \in lines : at[x] = i
    BY <1>1, <2>2
  <2> QED
    BY <2>1, <2>2
<1>5. new \in [RuleIds -> Rule \cup {NoRule}]
  <2>1. \A i \in RuleIds : new[i] \in Rule \cup {NoRule}
    BY <1>3, <1>4
  <2>2. new = [i \in RuleIds |-> new[i]]
    BY <1>1
  <2> QED
    BY <2>1, <2>2
<1>6. ASSUME NEW i \in RuleIds, NEW j \in RuleIds, new[i] # NoRule, new[j] # NoRule,
             new[i].ws = new[j].ws, new[i].name = new[j].name
      PROVE  i = j
  <2>1. CASE new[i] = base[i] /\ new[j] = base[j]
    BY <1>6, <2>1 DEF NamesApart
  <2>2. ASSUME NEW x \in lines, at[x] = i, new[i] = Drawn(x, w, f[x]), new[j] = base[j]
        PROVE  FALSE
    <3>1. base[j] # NoRule /\ base[j].ws = w /\ base[j].name = x.name
      BY <1>3, <1>6, <2>2
    <3> QED
      BY <3>1
  <2>3. ASSUME NEW x \in lines, at[x] = j, new[j] = Drawn(x, w, f[x]), new[i] = base[i]
        PROVE  FALSE
    <3>1. base[i] # NoRule /\ base[i].ws = w /\ base[i].name = x.name
      BY <1>3, <1>6, <2>3
    <3> QED
      BY <3>1
  <2>4. ASSUME NEW x \in lines, at[x] = i, new[i] = Drawn(x, w, f[x]),
               NEW y \in lines, at[y] = j, new[j] = Drawn(y, w, f[y])
        PROVE  i = j
    <3>1. x.name = y.name
      BY <1>3, <1>6, <2>4
    <3> QED
      BY <2>4, <3>1
  <2> QED
    BY <1>4, <2>1, <2>2, <2>3, <2>4
<1> QED
  BY <1>5, <1>6 DEF NamesApart

LEMMA RulesImported ==
  ASSUME RulesInv, NEW w \in Spaces, Import(w) PROVE RulesTyped' /\ NamesApart(rules')
<1> DEFINE lines == Usable(file, CatsOf(w))
           base == Cleared(w, lines)
<1>1. rules' \in Added(base, lines, w, CatsOf(w))
  BY DEF Import
<1>2. lines \subseteq file
  BY DEF Usable
<1>3. /\ RulesTyped /\ NamesApart(rules)
      /\ lines \in SUBSET FileRule /\ \A x, y \in lines : x.name = y.name => x = y
  BY <1>2 DEF RulesInv, FileInv
<1>4. CatsOf(w) \in SUBSET CatIds
  BY DEF CatsOf
<1> HIDE DEF lines
<1>5. /\ base \in [RuleIds -> Rule \cup {NoRule}] /\ NamesApart(base)
      /\ \A i \in RuleIds, x \in lines : base[i] # NoRule /\ base[i].ws = w
            => base[i].name # x.name
  <2>1. CASE lines = {}
    BY <1>3, <2>1 DEF Cleared, RulesTyped
  <2>2. CASE lines # {}
    <3>1. base = [i \in RuleIds |-> IF i \in RulesOf(w) THEN NoRule ELSE rules[i]]
      BY <2>2 DEF Cleared
    <3>2. \A i \in RuleIds : base[i] = NoRule \/ (base[i] = rules[i] /\ rules[i].ws # w)
      <4> HIDE DEF base
      <4> TAKE i \in RuleIds
      <4>1. i \in RulesOf(w) \/ rules[i].ws # w
        BY DEF RulesOf
      <4> QED
        BY <3>1, <4>1
    <3>3. base \in [RuleIds -> Rule \cup {NoRule}]
      BY <1>3, <3>1 DEF RulesTyped
    <3> HIDE DEF base
    <3> QED
      BY <1>3, <3>2, <3>3 DEF NamesApart
  <2> QED
    BY <2>1, <2>2
<1> HIDE DEF base
<1>6. rules' \in [RuleIds -> Rule \cup {NoRule}] /\ NamesApart(rules')
  BY <1>1, <1>3, <1>4, <1>5, AddedTyped
<1> QED
  BY <1>6 DEF RulesTyped

LEMMA DefaultsOf ==
  /\ Pack \subseteq FileRule /\ Universal \subseteq FileRule
  /\ \A x, y \in Pack : x.name = y.name => x = y
  /\ \A x, y \in Universal : x.name = y.name => x = y
  BY RulesAssumption

LEMMA RulesSeeded ==
  ASSUME RulesInv, NEW w \in Spaces, SeedRules(w) PROVE RulesTyped' /\ NamesApart(rules')
<1> DEFINE lines == Usable(Universal, CatsOf(w))
<1>1. rules' \in Added(rules, lines, w, CatsOf(w)) /\ changes = 0
  BY DEF SeedRules
<1>2. lines \subseteq Universal
  BY DEF Usable
<1>3. lines \in SUBSET FileRule /\ \A x, y \in lines : x.name = y.name => x = y
  BY <1>2, DefaultsOf
<1>4. CatsOf(w) \in SUBSET CatIds
  BY DEF CatsOf
<1> HIDE DEF lines
<1>5. /\ rules \in [RuleIds -> Rule \cup {NoRule}] /\ NamesApart(rules)
      /\ \A i \in RuleIds, x \in lines : rules[i] # NoRule /\ rules[i].ws = w
            => rules[i].name # x.name
  BY <1>1 DEF RulesInv, RulesTyped
<1>6. rules' \in [RuleIds -> Rule \cup {NoRule}] /\ NamesApart(rules')
  BY <1>1, <1>3, <1>4, <1>5, AddedTyped
<1> QED
  BY <1>6 DEF RulesTyped

LEMMA PackInstalled ==
  ASSUME RulesInv, InstallPack PROVE RulesTyped' /\ NamesApart(rules')
<1> DEFINE all == UNION {CatsOf(w) : w \in Spaces}
           lines == Missing(Usable(Pack, all))
<1>1. rules' \in Added(rules, lines, First, all)
  BY DEF InstallPack
<1>2. /\ lines \subseteq Pack
      /\ \A i \in RuleIds, x \in lines : rules[i] # NoRule => rules[i].name # x.name
  BY DEF Usable, Missing
<1>3. all \in SUBSET CatIds
  BY DEF CatsOf
<1> HIDE DEF all, lines
<1>4. lines \in SUBSET FileRule /\ \A x, y \in lines : x.name = y.name => x = y
  BY <1>2, DefaultsOf
<1>5. /\ rules \in [RuleIds -> Rule \cup {NoRule}] /\ NamesApart(rules)
      /\ \A i \in RuleIds, x \in lines : rules[i] # NoRule /\ rules[i].ws = First
            => rules[i].name # x.name
  BY <1>2 DEF RulesInv, RulesTyped
<1>6. rules' \in [RuleIds -> Rule \cup {NoRule}] /\ NamesApart(rules')
  BY <1>1, <1>3, <1>4, <1>5, FirstIs, AddedTyped
<1> QED
  BY <1>6 DEF RulesTyped

LEMMA RulesExported ==
  ASSUME RulesInv, NEW w \in Spaces, Export(w) PROVE FileInv'
<1>1. RulesTyped /\ NamesApart(rules) /\ cats \in [CatIds -> Cat \cup {NoCat}]
  BY DEF RulesInv, TablesInv
<1>2. ASSUME NEW i \in RulesOf(w)
      PROVE  Exported(i) \in FileRule /\ Exported(i).name = rules[i].name
  <2> DEFINE y == rules[i]
             c == y.cat
             there == c # None /\ c \in CatsOf(y.ws)
             n == IF there THEN cats[c].name ELSE None
             a == [y.does EXCEPT !.sets = there]
  <2>1. Exported(i) = [name |-> y.name, on |-> y.on, does |-> a, cat |-> n, prio |-> y.prio,
                       active |-> y.active]
    BY DEF Exported
  <2>2. y \in Rule
    BY <1>1, RulesOfAre
  <2>3. n \in CatNames \cup {None}
    <3>1. CASE there
      <4>1. c \in CatIds /\ cats[c].ws \in Spaces
        BY <2>2, <3>1 DEF CatsOf, Rule
      <4>2. cats[c] # NoCat
        BY <4>1, NoneOfZero DEF NoCat
      <4>3. cats[c] \in Cat
        BY <1>1, <4>1, <4>2
      <4> QED
        BY <3>1, <4>3 DEF Cat
    <3>2. CASE ~there
      BY <3>2
    <3> QED
      BY <3>1, <3>2
  <2>4. a \in Action
    <3>1. there \in BOOLEAN
      OBVIOUS
    <3>2. y.does \in Action
      BY <2>2 DEF Rule
    <3> HIDE DEF there, y
    <3> QED
      BY <3>1, <3>2 DEF Action
  <2> HIDE DEF a, n
  <2> QED
    BY <2>1, <2>2, <2>3, <2>4 DEF FileRule, Rule
<1>3. file' = {Exported(i) : i \in RulesOf(w)}
  BY DEF Export
<1>4. file' \subseteq FileRule
  BY <1>2, <1>3
<1>5. ASSUME NEW x \in file', NEW y \in file', x.name = y.name PROVE x = y
  <2>1. PICK i \in RulesOf(w), j \in RulesOf(w) : x = Exported(i) /\ y = Exported(j)
    BY <1>3
  <2>2. rules[i].name = rules[j].name
    BY <1>2, <1>5, <2>1
  <2>3. /\ i \in RuleIds /\ j \in RuleIds /\ rules[i].ws = rules[j].ws
        /\ rules[i] # NoRule /\ rules[j] # NoRule
    BY NoneOfZero DEF RulesOf
  <2> QED
    BY <1>1, <2>1, <2>2, <2>3 DEF NamesApart
<1> QED
  BY <1>4, <1>5 DEF FileInv
-----------------------------------------------------------------------------
(* All of it *)

LEMMA CategoriesChanged ==
  ASSUME TablesInv,
         \/ \E w \in Spaces : CreateCategory(w)
         \/ \E c \in CatIds : RenameCategory(c) \/ DeleteCategory(c)
  PROVE  TablesInv' /\ UNCHANGED <<payees, target, rules, txns, file>>
<1>1. CASE \E w \in Spaces : CreateCategory(w)
  BY <1>1 DEF CreateCategory, TablesInv, Cat
<1>2. ASSUME NEW c \in CatIds, RenameCategory(c)
      PROVE  TablesInv' /\ UNCHANGED <<payees, target, rules, txns, file>>
  <2>1. PICK n \in CatNames : cats[c] # NoCat /\ cats' = [cats EXCEPT ![c].name = n]
    BY <1>2 DEF RenameCategory
  <2> DEFINE k == [cats[c] EXCEPT !.name = n]
  <2>2. cats[c] \in Cat
    BY <2>1 DEF TablesInv
  <2>3. k \in Cat
    BY <2>2 DEF Cat
  <2>4. cats' = [cats EXCEPT ![c] = k]
    BY <2>1
  <2> HIDE DEF k
  <2>5. cats' \in [CatIds -> Cat \cup {NoCat}]
    BY <2>3, <2>4 DEF TablesInv
  <2> QED
    BY <1>2, <2>5 DEF RenameCategory, TablesInv
<1>3. ASSUME NEW c \in CatIds, DeleteCategory(c)
      PROVE  TablesInv' /\ UNCHANGED <<payees, target, rules, txns, file>>
  BY <1>3 DEF DeleteCategory, TablesInv
<1> QED
  BY <1>1, <1>2, <1>3

LEMMA RulesBegin == RulesInit => RulesInv
<1>1. SUFFICES ASSUME RulesInit PROVE RulesInv
  OBVIOUS
<1>2. RulesTyped /\ NamesApart(rules) /\ \A i \in RuleIds : rules[i] = NoRule
  BY <1>1 DEF RulesInit, RulesTyped, NamesApart
<1>3. TablesInv
  BY <1>1, RulesAssumption DEF RulesInit, TablesInv
<1>4. TxnsInv /\ FileInv
  BY <1>1 DEF RulesInit, TxnsInv, FileInv
<1>5. changes \in 0 .. MaxChanges
  BY <1>1, RulesAssumption DEF RulesInit
<1> QED
  BY <1>2, <1>3, <1>4, <1>5 DEF RulesInv

LEMMA RulesKept == RulesInv /\ [RulesNext]_rulesVars => RulesInv'
<1>1. SUFFICES ASSUME RulesInv, [RulesNext]_rulesVars PROVE RulesInv'
  OBVIOUS
<1>2. /\ RulesTyped /\ NamesApart(rules) /\ TablesInv /\ TxnsInv /\ FileInv
      /\ changes \in 0 .. MaxChanges
      /\ changes = 0 => \A i \in RuleIds : rules[i] = NoRule
  BY <1>1 DEF RulesInv
<1> DEFINE Rules == RulesTyped' /\ NamesApart(rules')
<1>3. UNCHANGED rules => Rules
  BY <1>2 DEF RulesTyped
<1>4. UNCHANGED <<cats, payees, target>> => TablesInv'
  BY <1>2 DEF TablesInv
<1>5. UNCHANGED <<txns, target, payees>> => TxnsInv'
  BY <1>2, SameTxns
<1>6. UNCHANGED file => FileInv'
  BY <1>2 DEF FileInv
<1>7. Rules /\ TablesInv' /\ TxnsInv' /\ FileInv' /\ Allowed => RulesInv'
  <2>1. SUFFICES ASSUME Rules, TablesInv', TxnsInv', FileInv', Allowed PROVE RulesInv'
    OBVIOUS
  <2>2. changes' \in 1 .. MaxChanges
    BY <1>2, <2>1, ChangesCounted
  <2>3. changes' \in 0 .. MaxChanges /\ changes' # 0
    BY <2>2
  <2> QED
    BY <2>1, <2>3 DEF RulesInv
<1>8. CASE UNCHANGED rulesVars
  <2>1. UNCHANGED <<cats, payees, target, rules, txns, file, changes>>
    BY <1>8 DEF rulesVars
  <2>2. RulesTyped' /\ NamesApart(rules') /\ TablesInv' /\ TxnsInv' /\ FileInv'
    BY <1>3, <1>4, <1>5, <1>6, <2>1
  <2> QED
    BY <1>2, <2>1, <2>2 DEF RulesInv
<1>9. ASSUME NEW w \in Spaces, AddRow(w) PROVE RulesInv'
  <2>1. UNCHANGED <<cats, payees, target, rules, file>> /\ Allowed
    BY <1>9 DEF AddRow
  <2> QED
    BY <1>2, <1>3, <1>4, <1>6, <1>7, <1>9, <2>1, RowsAdded
<1>10. ASSUME NEW w \in Spaces, SetCategory(w) PROVE RulesInv'
  <2>1. UNCHANGED <<cats, payees, target, rules, file>> /\ Allowed
    BY <1>10 DEF SetCategory
  <2> QED
    BY <1>2, <1>3, <1>4, <1>6, <1>7, <1>10, <2>1, CategorySet
<1>11. ASSUME NEW w \in Spaces, AddTags(w) \/ RemoveTags(w) PROVE RulesInv'
  <2>1. UNCHANGED <<cats, payees, target, rules, file>> /\ Allowed
    BY <1>11 DEF AddTags, RemoveTags
  <2> QED
    BY <1>2, <1>3, <1>4, <1>6, <1>7, <1>11, <2>1, TagsSet
<1>12. ASSUME NEW w \in Spaces, SeedRules(w) PROVE RulesInv'
  <2>1. UNCHANGED <<cats, payees, target, txns, file>> /\ Allowed
    BY <1>12 DEF SeedRules
  <2> QED
    BY <1>1, <1>4, <1>5, <1>6, <1>7, <1>12, <2>1, RulesSeeded
<1>13. ASSUME NEW w \in Spaces, CreateRule(w) PROVE RulesInv'
  <2>1. UNCHANGED <<cats, payees, target, file>> /\ Allowed
    BY <1>13 DEF CreateRule
  <2> QED
    BY <1>1, <1>4, <1>6, <1>7, <1>13, <2>1, RuleCreated
<1>14. ASSUME NEW w \in Spaces, ApplyAll(w) PROVE RulesInv'
  <2>1. UNCHANGED <<cats, payees, target, rules, file>> /\ Allowed
    BY <1>14 DEF ApplyAll
  <2> QED
    BY <1>2, <1>3, <1>4, <1>6, <1>7, <1>14, <2>1, RulesReapplied
<1>15. ASSUME NEW w \in Spaces, Export(w) PROVE RulesInv'
  <2>1. UNCHANGED <<cats, payees, target, rules, txns, changes>>
    BY <1>15 DEF Export
  <2>2. FileInv'
    BY <1>1, <1>15, RulesExported
  <2>3. RulesTyped' /\ NamesApart(rules') /\ TablesInv' /\ TxnsInv'
    BY <1>3, <1>4, <1>5, <2>1
  <2> QED
    BY <1>2, <2>1, <2>2, <2>3 DEF RulesInv
<1>16. ASSUME NEW w \in Spaces, Import(w) PROVE RulesInv'
  <2>1. UNCHANGED <<cats, payees, target, txns, file>> /\ Allowed
    BY <1>16 DEF Import
  <2> QED
    BY <1>1, <1>4, <1>5, <1>6, <1>7, <1>16, <2>1, RulesImported
<1>17. ASSUME \/ \E w \in Spaces : CreateCategory(w)
              \/ \E c \in CatIds : RenameCategory(c) \/ DeleteCategory(c)
       PROVE  RulesInv'
  <2>1. TablesInv' /\ UNCHANGED <<payees, target, rules, txns, file>>
    BY <1>2, <1>17, CategoriesChanged
  <2>2. Allowed
    BY <1>17 DEF CreateCategory, RenameCategory, DeleteCategory
  <2> QED
    BY <1>3, <1>5, <1>6, <1>7, <2>1, <2>2
<1>18. ASSUME NEW r \in RowIds, TypeNotes(r) PROVE RulesInv'
  <2>1. UNCHANGED <<cats, payees, target, rules, file>> /\ Allowed
    BY <1>18 DEF TypeNotes
  <2> QED
    BY <1>2, <1>3, <1>4, <1>6, <1>7, <1>18, <2>1, NotesTyped
<1>19. ASSUME NEW i \in RuleIds, UpdateRule(i) PROVE RulesInv'
  <2>1. UNCHANGED <<cats, payees, target, file>> /\ Allowed
    BY <1>19 DEF UpdateRule
  <2> QED
    BY <1>1, <1>4, <1>6, <1>7, <1>19, <2>1, RuleUpdated
<1>20. ASSUME NEW i \in RuleIds, DeleteRule(i) PROVE RulesInv'
  <2>1. UNCHANGED <<cats, payees, target, txns, file>> /\ Allowed
    BY <1>20 DEF DeleteRule
  <2> QED
    BY <1>2, <1>4, <1>5, <1>6, <1>7, <1>20, <2>1, RuleDeleted
<1>21. ASSUME InstallPack PROVE RulesInv'
  <2>1. UNCHANGED <<cats, payees, target, txns, file>> /\ Allowed
    BY <1>21 DEF InstallPack
  <2> QED
    BY <1>1, <1>4, <1>5, <1>6, <1>7, <1>21, <2>1, PackInstalled
<1>22. ASSUME NEW p \in PayeeIds, DeletePayee(p) PROVE RulesInv'
  <2>1. UNCHANGED <<cats, rules, file>> /\ Allowed
    BY <1>22 DEF DeletePayee
  <2> QED
    BY <1>2, <1>3, <1>6, <1>7, <1>22, <2>1, PayeeDeleted
<1>23. ASSUME NEW p \in PayeeIds, MergePayees(p) PROVE RulesInv'
  <2>1. UNCHANGED <<cats, rules, file>> /\ Allowed
    BY <1>23 DEF MergePayees
  <2> QED
    BY <1>2, <1>3, <1>6, <1>7, <1>23, <2>1, PayeesMerged
<1>24. CASE RulesNext
  <2>1. CASE \E w \in Spaces : \/ AddRow(w) \/ SetCategory(w) \/ AddTags(w) \/ RemoveTags(w)
                              \/ SeedRules(w) \/ CreateRule(w) \/ ApplyAll(w) \/ Export(w)
                              \/ Import(w) \/ CreateCategory(w)
    BY <2>1, <1>9, <1>10, <1>11, <1>12, <1>13, <1>14, <1>15, <1>16, <1>17
  <2>2. CASE \E r \in RowIds : TypeNotes(r)
    BY <2>2, <1>18
  <2>3. CASE \E i \in RuleIds : UpdateRule(i) \/ DeleteRule(i)
    BY <2>3, <1>19, <1>20
  <2>4. CASE InstallPack
    BY <2>4, <1>21
  <2>5. CASE \E c \in CatIds : RenameCategory(c) \/ DeleteCategory(c)
    BY <2>5, <1>17
  <2>6. CASE \E p \in PayeeIds : DeletePayee(p) \/ MergePayees(p)
    BY <2>6, <1>22, <1>23
  <2> QED
    BY <1>24, <2>1, <2>2, <2>3, <2>4, <2>5, <2>6 DEF RulesNext
<1> QED
  BY <1>1, <1>8, <1>24

LEMMA RulesShown == RulesInv => RulesDecide
<1>1. SUFFICES ASSUME RulesInv PROVE RulesDecide
  OBVIOUS
<1>2. RulesTyped /\ NamesApart(rules) /\ TablesInv /\ TxnsInv /\ FileInv
  BY <1>1 DEF RulesInv
<1>3. txns \in [RowIds -> Row \cup {NoRow}]
  BY <1>2 DEF TxnsInv
<1>4. ASSUME NEW i \in RuleIds, rules[i] # NoRule
      PROVE  /\ rules[i].ws \in Spaces /\ rules[i].cat \in CatIds \cup {None}
             /\ \A j \in RulesOf(rules[i].ws) : rules[j].name = rules[i].name => j = i
  <2>1. rules[i] \in Rule
    BY <1>2, <1>4 DEF RulesTyped
  <2>2. rules[i].ws \in Spaces /\ rules[i].cat \in CatIds \cup {None}
    BY <2>1 DEF Rule
  <2>3. ASSUME NEW j \in RulesOf(rules[i].ws), rules[j].name = rules[i].name PROVE j = i
    <3>1. j \in RuleIds /\ rules[j].ws = rules[i].ws /\ rules[j] # NoRule
      BY <2>2, NoneOfZero DEF RulesOf
    <3> QED
      BY <1>2, <1>4, <2>3, <3>1 DEF NamesApart
  <2> QED
    BY <2>2, <2>3
<1>5. RulesTypeOK
  BY <1>1, <1>2, <1>3, <1>4 DEF RulesTypeOK, TablesInv, FileInv, RulesInv
<1>6. HandKept /\ MergesFollowed
  BY <1>2 DEF HandKept, MergesFollowed, TxnsInv, Holds
<1>7. PriorityDecides
  BY <1>2, <1>3, TypedDecides
<1> QED
  BY <1>5, <1>6, <1>7 DEF RulesDecide

\* In every state the category that a user set by hand is still on its row,
\* a new row and a reapplied one get the category of the rule that is first
\* in (priority, id) among those that match, whatever the other rules do, and
\* a row is where the merges took the payee it was given: rule_engine.py,
\* rule_service.py (apply_rules_to_transaction, apply_all_rules,
\* apply_single_rule), payee_service.py (merge_payees).
THEOREM RulesStand == RulesSpec => []RulesDecide
<1>1. RulesInit => RulesInv
  BY RulesBegin
<1>2. RulesInv /\ [RulesNext]_rulesVars => RulesInv'
  BY RulesKept
<1>3. RulesInv => RulesDecide
  BY RulesShown
<1> QED
  BY <1>1, <1>2, <1>3, PTL DEF RulesSpec

-----------------------------------------------------------------------------
(* A file of rules. *)

Running(w) ==
  LET s == Ordered(w)
      n == Cardinality(ActiveOf(w))
  IN  /\ n \in Nat /\ DOMAIN s = 1 .. n
      /\ \A k \in 1 .. n : s[k] \in ActiveOf(w)
      /\ \A i \in ActiveOf(w) : \E k \in 1 .. n : s[k] = i
      /\ \A j, k \in 1 .. n : j < k => Before(s[j], s[k])

StepByRule(d) ==
  LET s == Ordered(d.row.ws)
      n == Cardinality(ActiveOf(d.row.ws))
  IN  \E f : /\ f[0] = d /\ AllRan(d) = f[n]
             /\ \A k \in 0 .. n : f[k] \in Doing
             /\ \A k \in 1 .. n : f[k] = Ran(f[k - 1], s[k])

Runnable == (\A w \in Spaces : Running(w)) /\ \A d \in Doing : StepByRule(d)

LEMMA TypedRuns == RulesTyped => Runnable
<1>1. ASSUME RulesTyped, NEW w \in Spaces PROVE Running(w)
  BY <1>1, OrderedIs DEF Running
<1>2. ASSUME RulesTyped, NEW d \in Doing PROVE StepByRule(d)
  BY <1>2, AllRanIs DEF StepByRule
<1> QED
  BY <1>1, <1>2 DEF Runnable

LEMMA TypedRunsNext == RulesTyped' => Runnable'
  BY TypedRuns, PTL

Enumerates(R, s, n, B) ==
  /\ \A k \in 1 .. n : s[k] \in B
  /\ \A x \in B : \E k \in 1 .. n : s[k] = x
  /\ \A j, k \in 1 .. n : j < k => <<s[j], s[k]>> \in R

\* Two increasing enumerations of one set are the same.
LEMMA SameOrder ==
  ASSUME NEW n \in Nat, NEW B, NEW R, NEW s, NEW t,
         \A x, y \in B : ~(<<x, y>> \in R /\ <<y, x>> \in R),
         Enumerates(R, s, n, B), Enumerates(R, t, n, B)
  PROVE  \A k \in 1 .. n : s[k] = t[k]
<1> DEFINE G == {k \in 0 .. n : \A j \in 1 .. k : s[j] = t[j]}
<1>1. 0 \in G
  OBVIOUS
<1>2. ASSUME NEW k \in 1 .. n, k - 1 \in G PROVE k \in G
  <2>1. \A j \in 1 .. n : j < k => s[j] = t[j]
    BY <1>2
  <2>2. PICK a \in 1 .. n : t[a] = s[k]
    BY DEF Enumerates
  <2>3. PICK b \in 1 .. n : s[b] = t[k]
    BY DEF Enumerates
  <2>4. s[k] \in B /\ t[k] \in B
    BY DEF Enumerates
  <2>5. ~(a < k)
    <3>1. a < k => s[a] = s[k] /\ <<s[a], s[k]>> \in R
      BY <2>1, <2>2 DEF Enumerates
    <3> QED
      BY <2>4, <3>1
  <2>6. ~(b < k)
    <3>1. b < k => t[b] = t[k] /\ <<t[b], t[k]>> \in R
      BY <2>1, <2>3 DEF Enumerates
    <3> QED
      BY <2>4, <3>1
  <2>7. a = k
    <3>1. SUFFICES ASSUME k < a PROVE FALSE
      BY <2>5
    <3>2. <<t[k], s[k]>> \in R
      BY <2>2, <3>1 DEF Enumerates
    <3>3. k < b => <<s[k], t[k]>> \in R
      BY <2>3 DEF Enumerates
    <3>4. b = k => s[k] = t[k]
      BY <2>3
    <3>5. b = k \/ k < b
      BY <2>6
    <3> QED
      BY <2>4, <3>2, <3>3, <3>4, <3>5
  <2>8. s[k] = t[k]
    BY <2>2, <2>7
  <2>9. ASSUME NEW j \in 1 .. k PROVE s[j] = t[j]
    <3>1. j \in 1 .. n /\ (j < k \/ j = k)
      OBVIOUS
    <3> QED
      BY <2>1, <2>8, <3>1
  <2> QED
    BY <2>9
<1> HIDE DEF G
<1>3. \A k \in 0 .. n : k \in G
  BY <1>1, <1>2, StepByStep
<1>4. n \in G
  BY <1>3
<1> QED
  BY <1>4 DEF G

\* What one rule and the rule it becomes do to a row.
Like(x, y) ==
  /\ x.on = y.on /\ x.cat = y.cat /\ x.prio = y.prio /\ x.active = y.active
  /\ x.does.payee = y.does.payee /\ x.does.tag = y.does.tag /\ x.does.hide = y.does.hide

LEMMA AppliedAlike ==
  ASSUME NEW x, NEW y, NEW e, Like(x, y) PROVE Apply(x, e) = Apply(y, e)
<1>1. /\ x.cat = y.cat /\ x.does.payee = y.does.payee
      /\ x.does.tag = y.does.tag /\ x.does.hide = y.does.hide
  BY DEF Like
<1> QED
  BY Zenon, <1>1 DEF Apply

LEMMA RanAlike ==
  ASSUME NEW i, NEW j, NEW e, Like(rules[i], rules'[j]) PROVE Ran(e, j)' = Ran(e, i)
<1> DEFINE x == rules[i]
           y == rules'[j]
<1>1. Ran(e, i) = IF Matches(x, e.row) THEN Apply(x, Reset(e)) ELSE e
  BY DEF Ran
<1>2. Ran(e, j)' = IF Matches(y, e.row) THEN Apply(y, Reset(e)) ELSE e
  BY DEF Ran
<1>3. x.on = y.on /\ Like(x, y)
  BY DEF Like
<1> HIDE DEF x, y
<1>4. Matches(x, e.row) = Matches(y, e.row)
  BY Zenon, <1>3 DEF Matches
<1>5. Apply(x, Reset(e)) = Apply(y, Reset(e))
  BY <1>3, AppliedAlike
<1> QED
  BY <1>1, <1>2, <1>4, <1>5

\* The rules of w become those of w, one by one, with their order.
Becomes(w, p) ==
  /\ p \in [RulesOf(w) -> RuleIds]
  /\ {p[i] : i \in RulesOf(w)} = RulesOf(w)'
  /\ \A i, j \in RulesOf(w) : p[i] = p[j] => i = j
  /\ \A i \in RulesOf(w) : Like(rules[i], rules'[p[i]])

LEMMA ActiveBecome ==
  ASSUME NEW w \in Spaces, NEW p, Becomes(w, p)
  PROVE  /\ \A i \in ActiveOf(w) : p[i] \in ActiveOf(w)'
         /\ \A j \in ActiveOf(w)' : \E i \in ActiveOf(w) : p[i] = j
         /\ Cardinality(ActiveOf(w))' = Cardinality(ActiveOf(w))
<1>1. PICK A : A = ActiveOf(w)
  OBVIOUS
<1>2. PICK B : B = ActiveOf(w)'
  OBVIOUS
<1>3. \A i \in A : i \in RulesOf(w) /\ p[i] \in B
  <2>1. \A i \in A : /\ i \in RulesOf(w) /\ rules[i].active
                     /\ p[i] \in RulesOf(w)' /\ rules'[p[i]].active = rules[i].active
    BY <1>1 DEF ActiveOf, Becomes, Like
  <2> QED
    BY <1>2, <2>1 DEF ActiveOf
<1>4. \A j \in B : \E i \in A : p[i] = j
  <2> TAKE j \in B
  <2>1. j \in RulesOf(w)' /\ rules'[j].active
    BY <1>2 DEF ActiveOf
  <2>2. PICK i \in RulesOf(w) : p[i] = j
    BY <2>1 DEF Becomes
  <2>3. rules[i].active
    BY <2>1, <2>2 DEF Becomes, Like
  <2>4. i \in A
    BY <1>1, <2>3 DEF ActiveOf
  <2> QED
    BY <2>2, <2>4
<1>5. IsFiniteSet(A)
  <2>1. A \subseteq RuleIds
    BY <1>1 DEF ActiveOf, RulesOf
  <2> QED
    BY <2>1, RulesAssumption, FS_Subset
<1>6. ExistsBijection(A, B)
  <2> DEFINE q == [i \in A |-> p[i]]
  <2>1. q \in Injection(A, B)
    <3>1. \A i, j \in A : p[i] = p[j] => i = j
      BY <1>3 DEF Becomes
    <3> QED
      BY <1>3, <3>1 DEF Injection, IsInjective
  <2>2. q \in Surjection(A, B)
    BY <1>3, <1>4 DEF Surjection
  <2>3. q \in Bijection(A, B)
    BY <2>1, <2>2 DEF Bijection
  <2> QED
    BY <2>3 DEF ExistsBijection
<1>7. Cardinality(B) = Cardinality(A)
  BY <1>5, <1>6, FS_Bijection
<1> QED
  BY <1>1, <1>2, <1>3, <1>4, <1>7

LEMMA OrderBecomes ==
  ASSUME RulesTyped, RulesTyped', NEW w \in Spaces, NEW p, Becomes(w, p),
         \A i, j \in RulesOf(w) : rules[i].prio = rules[j].prio => i = j
  PROVE  \A k \in 1 .. Cardinality(ActiveOf(w)) : Ordered(w)'[k] = p[Ordered(w)[k]]
<1>1. Running(w) /\ Running(w)'
  <2>1. Runnable /\ Runnable'
    BY TypedRuns, TypedRunsNext
  <2> QED
    BY <2>1 DEF Runnable
<1>2. PICK A : A = ActiveOf(w)
  OBVIOUS
<1>3. PICK B : B = ActiveOf(w)'
  OBVIOUS
<1>4. PICK s : s = Ordered(w)
  OBVIOUS
<1>5. PICK t : t = Ordered(w)'
  OBVIOUS
<1>6. PICK n : n = Cardinality(ActiveOf(w))
  OBVIOUS
<1>7. PICK R : R = {z \in B \X B : rules'[z[1]].prio < rules'[z[2]].prio}
  OBVIOUS
<1>8. /\ \A i \in A : p[i] \in B
      /\ \A j \in B : \E i \in A : p[i] = j
      /\ Cardinality(ActiveOf(w))' = n
  BY <1>2, <1>3, <1>6, ActiveBecome
<1>9. /\ n \in Nat
      /\ \A k \in 1 .. n : s[k] \in A
      /\ \A i \in A : \E k \in 1 .. n : s[k] = i
      /\ \A j, k \in 1 .. n : j < k => Before(s[j], s[k])
  BY <1>1, <1>2, <1>4, <1>6 DEF Running
<1>10. /\ \A k \in 1 .. n : t[k] \in B
       /\ \A i \in B : \E k \in 1 .. n : t[k] = i
       /\ \A j, k \in 1 .. n : j < k => Before(t[j], t[k])'
  BY <1>1, <1>3, <1>5, <1>8 DEF Running
<1>11. \A i \in A : /\ i \in RulesOf(w) /\ rules[i].prio \in Nat /\ i \in Nat
                    /\ rules'[p[i]].prio = rules[i].prio
  <2>1. \A i \in RulesOf(w) : rules[i].prio \in Nat /\ i \in Nat
    BY RulesOfAre, RulesAssumption DEF Rule
  <2>2. A \subseteq RulesOf(w)
    BY <1>2 DEF ActiveOf
  <2> QED
    BY <2>1, <2>2 DEF Becomes, Like
<1>12. \A x, y \in B : <<x, y>> \in R <=> rules'[x].prio < rules'[y].prio
  BY <1>7
<1>13. \A x \in B : rules'[x].prio \in Nat
  BY <1>8, <1>11
<1>14. \A x, y \in B : rules'[x].prio = rules'[y].prio => x = y
  <2> TAKE x, y \in B
  <2>1. PICK i \in A : p[i] = x
    BY <1>8
  <2>2. PICK j \in A : p[j] = y
    BY <1>8
  <2> QED
    BY <1>11, <2>1, <2>2
<1> DEFINE u == [k \in 1 .. n |-> p[s[k]]]
<1>15. \A x, y \in B : ~(<<x, y>> \in R /\ <<y, x>> \in R)
  <2> TAKE x, y \in B
  <2>1. rules'[x].prio \in Nat /\ rules'[y].prio \in Nat
    BY <1>13
  <2>2. ~(rules'[x].prio < rules'[y].prio /\ rules'[y].prio < rules'[x].prio)
    BY <2>1
  <2> QED
    BY <1>12, <2>2
<1>16. \A k \in 1 .. n : u[k] \in B /\ t[k] \in B
  BY <1>8, <1>9, <1>10
<1>17. \A x \in B : (\E k \in 1 .. n : u[k] = x) /\ (\E k \in 1 .. n : t[k] = x)
  <2> TAKE x \in B
  <2>1. PICK i \in A : p[i] = x
    BY <1>8
  <2>2. PICK k \in 1 .. n : s[k] = i
    BY <1>9
  <2> QED
    BY <1>10, <2>1, <2>2
<1>18. ASSUME NEW j \in 1 .. n, NEW k \in 1 .. n, j < k
       PROVE  <<u[j], u[k]>> \in R /\ <<t[j], t[k]>> \in R
  <2>1. s[j] \in A /\ s[k] \in A /\ Before(s[j], s[k])
    BY <1>9, <1>18
  <2>2. rules[s[j]].prio < rules[s[k]].prio
    <3>1. rules[s[j]].prio = rules[s[k]].prio => s[j] = s[k]
      BY <1>11, <2>1
    <3>2. s[j] \in Nat /\ ~(s[j] < s[j])
      BY <1>11, <2>1
    <3> QED
      BY <2>1, <3>1, <3>2 DEF Before
  <2>3. <<u[j], u[k]>> \in R
    BY <1>11, <1>12, <1>16, <2>1, <2>2
  <2>4. Before(t[j], t[k])' /\ t[j] \in B /\ t[k] \in B
    BY <1>10, <1>18
  <2>5. rules'[t[j]].prio < rules'[t[k]].prio
    <3>1. rules'[t[j]].prio = rules'[t[k]].prio => t[j] = t[k]
      BY <1>14, <2>4
    <3>2. t[j] \in Nat
      BY <1>3, <2>4, RulesAssumption DEF ActiveOf, RulesOf
    <3>3. ~(t[j] < t[j])
      BY <3>2
    <3> QED
      BY <2>4, <3>1, <3>3 DEF Before
  <2> QED
    BY <1>12, <2>3, <2>4, <2>5
<1> HIDE DEF u
<1>19. \A k \in 1 .. n : u[k] = t[k]
  <2>1. n \in Nat
    BY <1>9
  <2>2. Enumerates(R, u, n, B) /\ Enumerates(R, t, n, B)
    BY <1>16, <1>17, <1>18 DEF Enumerates
  <2> QED
    BY <1>15, <2>1, <2>2, SameOrder
<1> QED
  BY <1>4, <1>5, <1>6, <1>19 DEF u

LEMMA RunBecomes ==
  ASSUME RulesTyped, RulesTyped', NEW w \in Spaces, NEW p, Becomes(w, p),
         \A i, j \in RulesOf(w) : rules[i].prio = rules[j].prio => i = j,
         NEW d \in Doing, d.row.ws = w
  PROVE  AllRan(d)' = AllRan(d)
<1>1. Running(w) /\ StepByRule(d) /\ StepByRule(d)'
  <2>1. Runnable /\ Runnable'
    BY TypedRuns, TypedRunsNext
  <2> QED
    BY <2>1 DEF Runnable
<1>2. PICK s : s = Ordered(w)
  OBVIOUS
<1>3. PICK t : t = Ordered(w)'
  OBVIOUS
<1>4. PICK n : n = Cardinality(ActiveOf(w))
  OBVIOUS
<1>5. n \in Nat /\ \A k \in 1 .. n : s[k] \in RulesOf(w)
  BY <1>1, <1>2, <1>4 DEF Running, ActiveOf
<1>6. Cardinality(ActiveOf(w))' = n
  BY <1>4, ActiveBecome
<1>7. \A k \in 1 .. n : t[k] = p[s[k]]
  BY <1>2, <1>3, <1>4, OrderBecomes
<1>8. PICK f : /\ f[0] = d /\ AllRan(d) = f[n]
               /\ \A k \in 1 .. n : f[k] = Ran(f[k - 1], s[k])
  BY <1>1, <1>2, <1>4 DEF StepByRule
<1>9. PICK g : /\ g[0] = d /\ AllRan(d)' = g[n]
               /\ \A k \in 1 .. n : g[k] = Ran(g[k - 1], t[k])'
  BY <1>1, <1>3, <1>6 DEF StepByRule
<1> DEFINE G == {k \in 0 .. n : f[k] = g[k]}
<1>10. 0 \in G
  BY <1>5, <1>8, <1>9
<1>11. ASSUME NEW k \in 1 .. n, k - 1 \in G PROVE k \in G
  <2>1. f[k - 1] = g[k - 1] /\ k \in 0 .. n
    BY <1>5, <1>11
  <2>2. Like(rules[s[k]], rules'[t[k]])
    BY <1>5, <1>7 DEF Becomes
  <2>3. PICK e : e = f[k - 1]
    OBVIOUS
  <2>4. Ran(e, t[k])' = Ran(e, s[k])
    BY <2>2, RanAlike
  <2> QED
    BY <1>8, <1>9, <2>1, <2>3, <2>4
<1> HIDE DEF G
<1>12. \A k \in 0 .. n : k \in G
  BY <1>5, <1>10, <1>11, StepByStep
<1>13. f[n] = g[n]
  BY <1>5, <1>12 DEF G
<1> QED
  BY <1>8, <1>9, <1>13

LEMMA FileHolds ==
  ASSUME RulesInv, NEW w \in Spaces, Comparable(w), NEW i \in RulesOf(w)
  PROVE  LET x == Exported(i) IN
         /\ x.on = rules[i].on /\ x.prio = rules[i].prio /\ x.active = rules[i].active
         /\ x.does.payee = rules[i].does.payee /\ x.does.tag = rules[i].does.tag
         /\ x.does.hide = rules[i].does.hide
         /\ rules[i].cat = None => x.cat = None
         /\ rules[i].cat # None =>
              /\ x.cat # None /\ Named(CatsOf(w), x.cat) # {}
              /\ \A k \in Named(CatsOf(w), x.cat) : k = rules[i].cat
<1> DEFINE y == rules[i]
           c == y.cat
           there == c # None /\ c \in CatsOf(y.ws)
           n == IF there THEN cats[c].name ELSE None
           a == [y.does EXCEPT !.sets = there]
<1>1. Exported(i) = [name |-> y.name, on |-> y.on, does |-> a, cat |-> n, prio |-> y.prio,
                     active |-> y.active]
  BY DEF Exported
<1>2. y \in Rule /\ y.ws = w
  BY RulesOfAre DEF RulesInv
<1>3. a.payee = y.does.payee /\ a.tag = y.does.tag /\ a.hide = y.does.hide
  <2>1. y.does \in Action
    BY <1>2 DEF Rule
  <2> HIDE DEF y, there
  <2> QED
    BY <2>1 DEF Action
<1>4. c = None => n = None
  OBVIOUS
<1>5. ASSUME c # None
      PROVE  /\ n # None /\ Named(CatsOf(w), n) # {}
             /\ \A k \in Named(CatsOf(w), n) : k = c
  <2>1. c \in CatsOf(w) /\ Cardinality(Named(CatsOf(w), cats[c].name)) = 1
    BY <1>5 DEF Comparable
  <2>2. n = cats[c].name
    BY <1>2, <1>5, <2>1
  <2>3. n # None
    <3>1. c \in CatIds /\ cats[c].ws \in Spaces
      BY <2>1 DEF CatsOf
    <3>2. cats[c] # NoCat
      BY <3>1, NoneOfZero DEF NoCat
    <3>3. cats[c] \in Cat
      BY <3>1, <3>2 DEF RulesInv, TablesInv
    <3> QED
      BY <2>2, <3>3, RulesAssumption DEF Cat
  <2>4. c \in Named(CatsOf(w), n)
    BY <2>1, <2>2 DEF Named
  <2>5. PICK N : N = Named(CatsOf(w), n)
    OBVIOUS
  <2>6. IsFiniteSet(N)
    <3>1. N \subseteq CatIds
      BY <2>5 DEF Named, CatsOf
    <3> QED
      BY <3>1, RulesAssumption, FS_Subset
  <2>7. Cardinality(N) = 1
    BY <2>1, <2>2, <2>5
  <2>8. \E k : N = {k}
    BY <2>6, <2>7, FS_Singleton
  <2> QED
    BY <2>3, <2>4, <2>5, <2>8
<1> HIDE DEF a, n
<1> QED
  BY <1>1, <1>3, <1>4, <1>5

\* A rule is made for each line, each in a place that was free.
MadeOf(base, lines, w, new, f, at) ==
  /\ at \in [lines -> RuleIds]
  /\ \A x \in lines : base[at[x]] = NoRule /\ new[at[x]] = Drawn(x, w, f[x])
  /\ \A x, y \in lines : at[x] = at[y] => x = y
  /\ \A i \in RuleIds : (\E x \in lines : at[x] = i) \/ new[i] = base[i]

LEMMA AddedAre ==
  ASSUME NEW base, NEW lines, NEW w, NEW some, NEW new \in Added(base, lines, w, some)
  PROVE  \E f \in Picks(lines, some) : \E at : MadeOf(base, lines, w, new, f, at)
<1>1. PICK f \in Picks(lines, some),
           at \in {g \in [lines -> {i \in RuleIds : base[i] = NoRule}] :
                     \A x, y \in lines : g[x] = g[y] => x = y} :
        new = [i \in RuleIds |-> IF \E x \in lines : at[x] = i
                        THEN LET x == CHOOSE y \in lines : at[y] = i IN Drawn(x, w, f[x])
                        ELSE base[i]]
  BY DEF Added
<1>2. ASSUME NEW x \in lines
      PROVE  at[x] \in RuleIds /\ base[at[x]] = NoRule /\ new[at[x]] = Drawn(x, w, f[x])
  <2>1. at[x] \in RuleIds /\ base[at[x]] = NoRule
    OBVIOUS
  <2> DEFINE z == CHOOSE y \in lines : at[y] = at[x]
  <2>2. z \in lines /\ at[z] = at[x]
    OBVIOUS
  <2>3. new[at[x]] = Drawn(z, w, f[z])
    BY <1>1, <2>1
  <2> HIDE DEF z
  <2>4. z = x
    BY <2>2
  <2> QED
    BY <2>1, <2>3, <2>4
<1>3. \A i \in RuleIds : (\E x \in lines : at[x] = i) \/ new[i] = base[i]
  BY <1>1
<1>4. at \in [lines -> RuleIds]
  OBVIOUS
<1> QED
  BY <1>2, <1>3, <1>4 DEF MadeOf

LEMMA ImportBecomes ==
  ASSUME RulesInv, NEW w \in Spaces, Comparable(w), Import(w),
         file = {Exported(i) : i \in RulesOf(w)}
  PROVE  \E p : Becomes(w, p)
<1>1. Usable(file, CatsOf(w)) = file /\ file # {}
  <2>1. \A x \in file : x.cat = None \/ Named(CatsOf(w), x.cat) # {}
    BY FileHolds
  <2> QED
    BY <2>1 DEF Usable, Import
<1> DEFINE base == Cleared(w, file)
<1>2. rules' \in Added(base, file, w, CatsOf(w))
  BY <1>1 DEF Import
<1>3. base = [i \in RuleIds |-> IF i \in RulesOf(w) THEN NoRule ELSE rules[i]]
  BY <1>1 DEF Cleared
<1> HIDE DEF base
<1>4. PICK f \in Picks(file, CatsOf(w)) : \E at : MadeOf(base, file, w, rules', f, at)
  BY <1>2, AddedAre
<1>5. PICK at : MadeOf(base, file, w, rules', f, at)
  BY <1>4
<1>6. ASSUME NEW x \in file PROVE at[x] \in RuleIds /\ rules'[at[x]] = Drawn(x, w, f[x])
  BY <1>5 DEF MadeOf
<1>7. ASSUME NEW j \in RuleIds, ~\E x \in file : at[x] = j PROVE rules'[j].ws # w
  <2>1. rules'[j] = base[j]
    BY <1>5, <1>7 DEF MadeOf
  <2>2. base[j] = NoRule \/ (j \notin RulesOf(w) /\ base[j] = rules[j])
    BY <1>3
  <2> QED
    BY <2>1, <2>2, NoneOfZero DEF RulesOf
<1> DEFINE p == [i \in RulesOf(w) |-> at[Exported(i)]]
<1>8. \A i \in RulesOf(w) : Exported(i) \in file /\ p[i] = at[Exported(i)]
  OBVIOUS
<1>9. p \in [RulesOf(w) -> RuleIds]
  BY <1>6, <1>8
<1> HIDE DEF p
<1>10. ASSUME NEW i \in RulesOf(w), NEW j \in RulesOf(w), p[i] = p[j] PROVE i = j
  <2>1. Exported(i) = Exported(j)
    BY <1>5, <1>8, <1>10 DEF MadeOf
  <2>2. rules[i].prio = Exported(i).prio /\ rules[j].prio = Exported(j).prio
    BY FileHolds
  <2> QED
    BY <2>1, <2>2 DEF Comparable
<1>11. ASSUME NEW i \in RulesOf(w)
       PROVE  Like(rules[i], rules'[p[i]]) /\ p[i] \in RulesOf(w)'
  <2>1. PICK x \in file : x = Exported(i)
    BY <1>8
  <2>2. rules'[p[i]] = Drawn(x, w, f[x]) /\ p[i] \in RuleIds
    BY <1>6, <1>8, <2>1
  <2>3. /\ x.on = rules[i].on /\ x.prio = rules[i].prio /\ x.active = rules[i].active
        /\ x.does.payee = rules[i].does.payee /\ x.does.tag = rules[i].does.tag
        /\ x.does.hide = rules[i].does.hide
        /\ rules[i].cat = None => x.cat = None
        /\ rules[i].cat # None =>
             x.cat # None /\ \A k \in Named(CatsOf(w), x.cat) : k = rules[i].cat
    BY <2>1, FileHolds
  <2>4. IF x.cat = None THEN f[x] = None ELSE f[x] \in Named(CatsOf(w), x.cat)
    BY <1>4 DEF Picks
  <2>5. f[x] = rules[i].cat
    BY <2>3, <2>4
  <2>6. rules'[p[i]].ws = w
    BY <2>2 DEF Drawn
  <2>7. p[i] \in RulesOf(w)'
    BY <2>2, <2>6 DEF RulesOf
  <2>8. Like(rules[i], Drawn(x, w, f[x]))
    BY <2>3, <2>5 DEF Like, Drawn
  <2> QED
    BY <2>2, <2>7, <2>8
<1>12. ASSUME NEW j \in RulesOf(w)' PROVE \E i \in RulesOf(w) : p[i] = j
  <2>1. j \in RuleIds /\ rules'[j].ws = w
    BY DEF RulesOf
  <2>2. PICK x \in file : at[x] = j
    BY <1>7, <2>1
  <2> QED
    BY <1>8, <2>2
<1>13. {p[i] : i \in RulesOf(w)} = RulesOf(w)'
  BY <1>11, <1>12
<1> QED
  BY <1>9, <1>10, <1>11, <1>13 DEF Becomes

LEMMA TravelsBack == RulesInv /\ RulesInv' => RoundTrip
<1> SUFFICES ASSUME RulesInv, RulesInv', NEW w \in Spaces,
                    file = {Exported(i) : i \in RulesOf(w)}, Comparable(w), Import(w),
                    NEW r \in RowsOf(w)
             PROVE  Behaviour(txns[r])' = Behaviour(txns[r])
  BY DEF RoundTrip
<1>1. txns' = txns /\ RulesTyped /\ RulesTyped' /\ txns \in [RowIds -> Row \cup {NoRow}]
  BY DEF Import, RulesInv, TxnsInv
<1>2. PICK row : row = txns[r]
  OBVIOUS
<1>3. row \in Row /\ row.ws = w
  <2>1. r \in RowIds /\ row.ws = w
    BY <1>2 DEF RowsOf
  <2>2. row # NoRow
    BY <2>1, NoneOfZero
  <2> QED
    BY <1>1, <1>2, <2>1, <2>2
<1>4. PICK p : Becomes(w, p)
  BY ImportBecomes
<1>5. \A i, j \in RulesOf(w) : rules[i].prio = rules[j].prio => i = j
  BY DEF Comparable
<1>6. \A d \in Doing : d.row.ws = w => AllRan(d)' = AllRan(d)
  BY <1>1, <1>4, <1>5, RunBecomes
<1> DEFINE fresh == [row EXCEPT !.cat = None]
           d == [row |-> row, set |-> FALSE, matched |-> FALSE]
           e == [row |-> fresh, set |-> FALSE, matched |-> TRUE]
<1>7. fresh \in Row /\ fresh.ws = w
  BY <1>3 DEF Row
<1>8. AllRan(d)' = AllRan(d)
  <2>1. d \in Doing /\ d.row.ws = w
    BY <1>3 DEF Doing
  <2> HIDE DEF d
  <2> QED
    BY <1>6, <2>1
<1>9. AllRan(e)' = AllRan(e)
  <2>1. e \in Doing /\ e.row.ws = w
    BY <1>7 DEF Doing
  <2> HIDE DEF e
  <2> QED
    BY <1>6, <2>1
<1>10. Behaviour(row) = <<AllRan(d).row, AllRan(e).row>>
  BY DEF Behaviour, Reapplied, Categorised
<1>11. Behaviour(row)' = <<AllRan(d)'.row, AllRan(e)'.row>>
  BY DEF Behaviour, Reapplied, Categorised
<1>12. Behaviour(txns[r])' = Behaviour(row)'
  BY <1>1, <1>2
<1> QED
  BY <1>2, <1>8, <1>9, <1>10, <1>11, <1>12

-----------------------------------------------------------------------------
(* No workspace loses its rules but by a deletion. *)

LEMMA AddedStay ==
  ASSUME NEW base, NEW lines, NEW w \in Spaces, NEW some, NEW new \in Added(base, lines, w, some)
  PROVE  /\ \A i \in RuleIds : base[i].ws \in Spaces => new[i] = base[i]
         /\ lines # {} => \E i \in RuleIds : new[i].ws = w
<1>1. PICK f \in Picks(lines, some) : \E at : MadeOf(base, lines, w, new, f, at)
  BY AddedAre
<1>2. PICK at : MadeOf(base, lines, w, new, f, at)
  BY <1>1
<1>3. ASSUME NEW i \in RuleIds, base[i].ws \in Spaces PROVE new[i] = base[i]
  BY <1>2, <1>3, NoneOfZero DEF MadeOf
<1>4. ASSUME NEW x \in lines PROVE \E i \in RuleIds : new[i].ws = w
  <2>1. at[x] \in RuleIds /\ new[at[x]] = Drawn(x, w, f[x])
    BY <1>2 DEF MadeOf
  <2> QED
    BY <2>1 DEF Drawn
<1> QED
  BY <1>3, <1>4

\* Rules of a workspace that none of them left.
LEMMA StillThere ==
  ASSUME NEW v \in Spaces, RulesOf(v) # {},
         \A i \in RuleIds : rules[i].ws \in Spaces => rules'[i].ws = rules[i].ws
  PROVE  RulesOf(v)' # {}
  BY DEF RulesOf

LEMMA ImportFills ==
  ASSUME NEW w \in Spaces, Import(w), NEW v \in Spaces, RulesOf(v) # {} PROVE RulesOf(v)' # {}
<1> DEFINE lines == Usable(file, CatsOf(w))
           base == Cleared(w, lines)
<1>1. rules' \in Added(base, lines, w, CatsOf(w))
  BY DEF Import
<1>2. lines = {} => base = rules
  BY DEF Cleared
<1>3. lines # {} => \A i \in RuleIds : rules[i].ws # w => base[i] = rules[i]
  BY DEF Cleared, RulesOf
<1> HIDE DEF base, lines
<1>4. /\ \A i \in RuleIds : base[i].ws \in Spaces => rules'[i] = base[i]
      /\ lines # {} => \E i \in RuleIds : rules'[i].ws = w
  BY <1>1, AddedStay
<1>5. CASE lines = {}
  <2>1. \A i \in RuleIds : rules[i].ws \in Spaces => rules'[i].ws = rules[i].ws
    BY <1>2, <1>4, <1>5
  <2> QED
    BY <2>1, StillThere
<1>6. CASE lines # {} /\ v = w
  BY <1>4, <1>6 DEF RulesOf
<1>7. CASE lines # {} /\ v # w
  <2>1. PICK i \in RuleIds : rules[i].ws = v
    BY DEF RulesOf
  <2>2. rules'[i].ws = v
    BY <1>3, <1>4, <1>7, <2>1
  <2> QED
    BY <2>2 DEF RulesOf
<1> QED
  BY <1>5, <1>6, <1>7

LEMMA UpdateStays ==
  ASSUME RulesTyped, NEW i \in RuleIds, UpdateRule(i)
  PROVE  \A j \in RuleIds : rules'[j].ws = rules[j].ws
<1>1. PICK rule \in Revised(i) : rules' = [rules EXCEPT ![i] = rule] /\ rules[i] # NoRule
  BY DEF UpdateRule, Store
<1>2. rules[i] \in Rule
  BY <1>1 DEF RulesTyped
<1>3. rule.ws = rules[i].ws
  BY <1>2 DEF Revised, Rule
<1> QED
  BY <1>1, <1>3 DEF RulesTyped

LEMMA OnlyDeleted == RulesInv /\ RulesNext => NeverEmptied
<1> SUFFICES ASSUME RulesInv, RulesNext, NEW v \in Spaces, RulesOf(v) # {}, RulesOf(v)' = {}
             PROVE  \E i \in RulesOf(v) : DeleteRule(i)
  BY DEF NeverEmptied
<1>1. RulesTyped
  BY DEF RulesInv
<1>2. ~\A i \in RuleIds : rules[i].ws \in Spaces => rules'[i].ws = rules[i].ws
  BY StillThere
<1>3. rules' # rules
  BY <1>2
<1>4. ASSUME NEW w \in Spaces, SeedRules(w) PROVE FALSE
  <2>1. \A i \in RuleIds : rules[i].ws \in Spaces => rules'[i] = rules[i]
    BY <1>4, AddedStay DEF SeedRules
  <2> QED
    BY <1>2, <2>1
<1>5. ASSUME InstallPack PROVE FALSE
  <2>1. \A i \in RuleIds : rules[i].ws \in Spaces => rules'[i] = rules[i]
    BY <1>5, FirstIs, AddedStay DEF InstallPack
  <2> QED
    BY <1>2, <2>1
<1>6. ASSUME NEW w \in Spaces, CreateRule(w) PROVE FALSE
  <2>1. PICK i \in RuleIds, n \in RuleNames, on \in Conditions, does \in Actions,
             prio \in Priorities, c \in CatsOf(w) \cup {None} :
          /\ rules[i] = NoRule
          /\ Store(i, [ws |-> w, name |-> n, on |-> on, does |-> does, cat |-> c,
                       prio |-> prio, active |-> TRUE], TRUE)
    BY <1>6 DEF CreateRule
  <2>2. \A j \in RuleIds : rules[j].ws \in Spaces => rules'[j] = rules[j]
    BY <1>1, <2>1, NoneOfZero DEF RulesTyped, Store
  <2> QED
    BY <1>2, <2>2
<1>7. ASSUME NEW i \in RuleIds, UpdateRule(i) PROVE FALSE
  BY <1>1, <1>2, <1>7, UpdateStays
<1>8. ASSUME NEW w \in Spaces, Import(w) PROVE FALSE
  BY <1>8, ImportFills
<1>9. ASSUME NEW i \in RuleIds, DeleteRule(i) PROVE i \in RulesOf(v)
  <2>1. rules' = [rules EXCEPT ![i] = NoRule]
    BY <1>9 DEF DeleteRule
  <2>2. PICK j \in RuleIds : rules[j].ws = v
    BY DEF RulesOf
  <2>3. rules'[j].ws # v
    BY <2>2 DEF RulesOf
  <2>4. j = i
    BY <1>1, <2>1, <2>2, <2>3 DEF RulesTyped
  <2> QED
    BY <2>2, <2>4 DEF RulesOf
<1>10. ASSUME NEW w \in Spaces,
              \/ AddRow(w) \/ SetCategory(w) \/ AddTags(w) \/ RemoveTags(w) \/ ApplyAll(w)
              \/ Export(w) \/ CreateCategory(w)
       PROVE  FALSE
  BY <1>3, <1>10 DEF AddRow, SetCategory, AddTags, RemoveTags, ApplyAll, Export, CreateCategory
<1>11. ASSUME \/ \E r \in RowIds : TypeNotes(r)
              \/ \E c \in CatIds : RenameCategory(c) \/ DeleteCategory(c)
              \/ \E p \in PayeeIds : DeletePayee(p) \/ MergePayees(p)
       PROVE  FALSE
  BY <1>3, <1>11 DEF TypeNotes, RenameCategory, DeleteCategory, DeletePayee, MergePayees
<1>12. \E i \in RuleIds : DeleteRule(i)
  BY <1>4, <1>5, <1>6, <1>7, <1>8, <1>10, <1>11 DEF RulesNext
<1> QED
  BY <1>9, <1>12

\* A workspace loses its last rule only when the user deletes it, whatever is
\* imported and however much of the file can be used; and a file that a
\* workspace exported, imported over the rules it came from, treats every row
\* as they did, although the rules have new ids: for any rules, categories and
\* rows, when no two of its rules share a priority and its categories have
\* names of their own (rule_service.py, export_rules and import_rules).
THEOREM RulesGoWhole == RulesSpec => RulesTravel
<1>1. RulesInit => RulesInv
  BY RulesBegin
<1>2. RulesInv /\ [RulesNext]_rulesVars => RulesInv'
  BY RulesKept
<1>3. RulesInv /\ [RulesNext]_rulesVars => [NeverEmptied]_rulesVars
  BY OnlyDeleted
<1>4. RulesInv /\ RulesInv' => [RoundTrip]_rulesVars
  BY TravelsBack
<1> QED
  BY <1>1, <1>2, <1>3, <1>4, PTL DEF RulesSpec, RulesTravel
=============================================================================
