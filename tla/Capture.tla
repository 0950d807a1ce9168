------------------------------ MODULE Capture ------------------------------
(***************************************************************************)
(* The MacroDroid webhook: a phone posts a bank notification, the service  *)
(* looks whether it has it, finds the account of the sender and inserts a  *)
(* row.  The phone posts again when an answer was lost or the notification *)
(* was captured twice, and two phones may see the same one; the user       *)
(* deletes rows and accounts and renames people in the meantime.  The      *)
(* lookup and the insertion are two steps, and no unique key joins them.   *)
(* There is one bank application; a post without the secret is refused     *)
(* before any of this, as is one without a value or with a time that       *)
(* cannot be read.                                                         *)
(***************************************************************************)
EXTENDS Naturals, FiniteSets

CONSTANTS
    Users, Owner, \* the members of the workspace and the one who created it
    Secured,      \* a secret is configured
    Keys,         \* fingerprints of notifications: text, time and description
    Senders,      \* what the phones sign with: a user, or a stranger
    MovesOf,      \* what a notification tells: [Keys -> Notice]
    Accounts,     \* identities of accounts, in alphabetical order
    MaxFlight,    \* bound: deliveries at the same time
    MaxEdits      \* bound: deliveries and edits

Types == {"checking", "credit_card"}
Moves == {"pix", "debit", "credit"}

(* What the text tells, a movement and the digits of a card, and what came  *)
(* with it: a time, and a description, which says a transfer or nothing.    *)
Notice == [told : Moves, last4 : {0, 1}, time : {"absent", "read", "unreadable"},
           said : {"pix", "nothing"}]

Credentials == {"basic", "bearer", "wrong", "none"}

(* What the constants must be; the modules of the runs assume it.           *)
CaptureAssumption ==
    /\ Owner \in Users /\ Accounts \subseteq Nat \ {0}
    /\ MovesOf \in [Keys -> Notice] /\ Secured \in BOOLEAN
    /\ MaxFlight \in Nat /\ MaxEdits \in Nat

VARIABLES
    goesBy,    \* users whose profile has the name they sign with
    account,   \* accounts of the workspace
    rows,      \* rows the webhook inserted
    inFlight,  \* deliveries that were looked up and not yet committed
    crossed,   \* something else was committed during a delivery
    edits

vars == <<goesBy, account, rows, inFlight, crossed, edits>>

(* named: the name is that of the application, contains it, or neither.     *)
AccountRow == [user : Users, type : Types, named : {"app", "person", "other"}, last4 : {0, 1},
               opened : {"user", "webhook"}]
NoAccount == [user |-> Owner, type |-> "checking", named |-> "none", last4 |-> 0,
              opened |-> "user"]

Init ==
    /\ goesBy \in {Users, {Owner}}
    /\ account = [a \in Accounts |-> NoAccount]
    /\ rows = {} /\ inFlight = {} /\ crossed = FALSE /\ edits = 0
-----------------------------------------------------------------------------
There == {a \in Accounts : account[a] # NoAccount}

(* _resolve_sender_user, and the owner for a sender nobody goes by.         *)
Titular(sender) == IF sender \in goesBy THEN sender ELSE Owner

(* _verify_webhook_auth: the secret as a Basic password or a Bearer token;  *)
(* without a secret the endpoint is open.                                   *)
Authorised(credential) == Secured => credential \in {"basic", "bearer"}

(* _parse_horario                                                           *)
Dated(key) == MovesOf[key].time # "unreadable"

(* _parse_descricao: a description overrules the movement of the text.      *)
Move(key) == IF MovesOf[key].said = "nothing" THEN MovesOf[key].told ELSE MovesOf[key].said

(* _TIPO_CONTA_POR_MOVIMENTO                                                *)
TypeFor(key) == IF Move(key) = "credit" THEN "credit_card" ELSE "checking"

NameMatchExact(a) == account[a].named = "app"   \* fault: the name of the application only

(* _account_name_match                                                      *)
NameMatch(a) == account[a].named \in {"app", "person"}

First(S) == CHOOSE a \in S : \A b \in S : a <= b

(* _account_name_order: the exact name first, then the account that bears   *)
(* the name of the sender, then the alphabet.                               *)
Preferred(S) ==
    LET exact == {a \in S : account[a].named = "app"}
        own == {a \in S : account[a].named = "person"}
    IN  IF S = {} THEN 0 ELSE IF exact # {} THEN First(exact)
        ELSE IF own # {} THEN First(own) ELSE First(S)

Card(key, user) ==
    IF Move(key) # "credit" \/ MovesOf[key].last4 = 0 THEN {}
    ELSE {a \in There : account[a].user = user /\ account[a].type = "credit_card"
                        /\ account[a].last4 = MovesOf[key].last4}

Specific(key, user) ==
    {a \in There : account[a].user = user /\ account[a].type = TypeFor(key) /\ NameMatch(a)}

AnyOf(user) == {a \in There : account[a].user = user /\ NameMatch(a)}

(* _resolve_account: every lookup is of the accounts of the one user; 0 is  *)
(* an account to be opened.                                                 *)
Resolve(key, user) ==
    IF Card(key, user) # {} THEN First(Card(key, user))
    ELSE IF Specific(key, user) # {} THEN Preferred(Specific(key, user))
    ELSE Preferred(AnyOf(user))

(* _dedup_key: two posts of one text, time and description have one key.    *)
Known(key, sender) == {r \in rows : r.key = key}
-----------------------------------------------------------------------------
Bounded == edits < MaxEdits /\ edits' = edits + 1

(***************************************************************************)
(* A notification arrives: one that has a row is answered, one that has    *)
(* two fails (scalar_one_or_none), any other is looked up.                 *)
(***************************************************************************)
Receive(key, sender, credential) ==
    /\ Bounded
    /\ Authorised(credential) /\ Dated(key)
    /\ Cardinality(inFlight) < MaxFlight
    /\ Known(key, sender) = {}
    /\ LET user == Titular(sender) IN
       inFlight' = inFlight \cup
           {[id |-> edits, key |-> key, sender |-> sender, user |-> user,
             acc |-> Resolve(key, user)]}
    /\ UNCHANGED <<goesBy, account, rows, crossed>>

Opened(d) == [user |-> d.user, type |-> TypeFor(d.key), named |-> "app", last4 |-> 0,
              opened |-> "webhook"]

Free == Accounts \ There

(* The account, when it is new, and the row in one commit; an account that  *)
(* was deleted in the meantime refuses it.                                  *)
Commit(d) ==
    LET a == IF d.acc = 0 THEN First(Free) ELSE d.acc
        lost == d.acc # 0 /\ account[d.acc] = NoAccount
    IN
    /\ d.acc = 0 => Free # {}
    /\ inFlight' = inFlight \ {d}
    /\ crossed' = (crossed \/ inFlight' # {})
    /\ account' = IF d.acc = 0 THEN [account EXCEPT ![a] = Opened(d)] ELSE account
    /\ rows' = IF lost THEN rows
               ELSE rows \cup {[id |-> d.id, key |-> d.key, sender |-> d.sender,
                                user |-> d.user, acc |-> a]}
    /\ UNCHANGED <<goesBy, edits>>

(* The phone gives up or the process stops before the commit.               *)
Drop(d) ==
    /\ inFlight' = inFlight \ {d}
    /\ UNCHANGED <<goesBy, account, rows, crossed, edits>>

ByUser == Bounded /\ crossed' = (crossed \/ inFlight # {})

DeleteRow(r) ==
    /\ ByUser
    /\ rows' = rows \ {r}
    /\ UNCHANGED <<goesBy, account, inFlight>>

OpenAccount(a, u, t, n, l) ==
    /\ ByUser
    /\ account[a] = NoAccount
    /\ account' = [account EXCEPT ![a] = [user |-> u, type |-> t, named |-> n, last4 |-> l,
                                          opened |-> "user"]]
    /\ UNCHANGED <<goesBy, rows, inFlight>>

RenameAccount(a, n) ==
    /\ ByUser
    /\ account[a] # NoAccount /\ account' = [account EXCEPT ![a].named = n]
    /\ UNCHANGED <<goesBy, rows, inFlight>>

(* delete_account takes the rows of the account with it.                    *)
DeleteAccount(a) ==
    /\ ByUser
    /\ account[a] # NoAccount
    /\ account' = [account EXCEPT ![a] = NoAccount]
    /\ rows' = {r \in rows : r.acc # a}
    /\ UNCHANGED <<goesBy, inFlight>>

(* The display name in the preferences.                                     *)
RenameUser(u) ==
    /\ ByUser
    /\ goesBy' = IF u \in goesBy THEN goesBy \ {u} ELSE goesBy \cup {u}
    /\ UNCHANGED <<account, rows, inFlight>>

Next ==
    \/ \E k \in Keys, s \in Senders, c \in Credentials : Receive(k, s, c)
    \/ \E d \in inFlight : Commit(d) \/ Drop(d)
    \/ \E r \in rows : DeleteRow(r)
    \/ \E a \in Accounts : \/ DeleteAccount(a)
                           \/ \E n \in {"app", "person", "other"} :
                                 \/ RenameAccount(a, n)
                                 \/ \E u \in Users, t \in Types, l \in {0, 1} :
                                       (t = "credit_card" \/ l = 0) /\ OpenAccount(a, u, t, n, l)
    \/ \E u \in Users : RenameUser(u)

Spec == Init /\ [][Next]_vars
-----------------------------------------------------------------------------
TypeOK ==
    /\ goesBy \subseteq Users
    /\ account \in [Accounts -> AccountRow \cup {NoAccount}]
    /\ rows \subseteq [id : 0..MaxEdits, key : Keys, sender : Senders, user : Users,
                       acc : There]
    /\ inFlight \subseteq [id : 0..MaxEdits, key : Keys, sender : Senders, user : Users,
                           acc : Accounts \cup {0}]
    /\ crossed \in BOOLEAN /\ edits \in 0..MaxEdits

(* A notification has one row, however often it is delivered, by whichever  *)
(* phone and after whatever renaming (webhooks.py:136-140, 565-579), unless *)
(* deliveries crossed.  A post without a time is no exception, though       *)
(* tests/test_webhooks.py:607-634 posts one twice and asserts two rows.     *)
OneRowEach == \A k \in Keys : crossed \/ Cardinality({r \in rows : r.key = k}) <= 1

(* The webhook opens an account only for a user who has none of the         *)
(* application: it "used to auto-create a phantom account"                  *)
(* (webhooks.py:250).  Accounts of other members do not keep it from that,  *)
(* though the docstring promises the titular "the workspace-wide rules"     *)
(* (webhooks.py:300-302).                                                   *)
OpeningStep ==
    \A a \in Accounts :
       account[a] = NoAccount /\ account'[a] # NoAccount /\ account'[a].opened = "webhook"
       => crossed' \/ \A b \in There : account[b].user = account'[a].user
                                        => account[b].named = "other"

NoPhantom == [][OpeningStep]_vars

(* A purchase lands on the card it names, else on an account of the right   *)
(* type, when the titular has one (webhooks.py:292-298).                    *)
Suits(r) ==
    \/ Card(r.key, r.user) # {} /\ r.acc \in Card(r.key, r.user)
    \/ Card(r.key, r.user) = {} /\ r.acc \in Specific(r.key, r.user)
    \/ Card(r.key, r.user) \cup Specific(r.key, r.user) = {}

LandingStep == \A r \in rows' \ rows : crossed' \/ Suits(r)'

LandsRight == [][LandingStep]_vars
=============================================================================
