----------------------------- MODULE SharedLedger -----------------------------
(***************************************************************************)
(* Expenses shared in a group.  One user owns the group; members stand for *)
(* him (is_self), for another user (linked_user_id) or for somebody with   *)
(* no account.  Rows carry splits, settlements pay debts back and book the *)
(* cash on both sides, and three views are computed from all that: what    *)
(* each user spent, who owes whom, and what is still pending.              *)
(*                                                                         *)
(* One group, one currency, one workspace and one account per user, one    *)
(* month.  Handlers are atomic.                                            *)
(***************************************************************************)
EXTENDS Integers, FiniteSets, Functions

CONSTANTS
    Users, Owner, Nobody,
    Members,      \* ids group_members rows may take
    Rows,         \* ids transactions may take
    Settlements,  \* ids group_settlements rows may take
    Amounts,      \* amounts of transactions, in cents
    Payments,     \* amounts of settlements, in cents
    Percents,     \* values of share_pct
    MaxEdits      \* bound: how many requests the users make

\* What a user of this module assumes of its constants
UsersAssumption == Owner \in Users /\ Nobody \notin Users /\ IsFiniteSet(Users)
AmountsAssumption == /\ Amounts \cup Payments \subseteq Nat \ {0}
                     /\ Percents \subseteq 0 .. 100
                     /\ MaxEdits \in Nat

VARIABLES
    member,   \* the group's people
    row,      \* transactions
    share,    \* transaction_splits: share_amount per member, by transaction
    settled,  \* group_settlements
    cash,     \* what the credits booked by settlements add up to, by user
    open,     \* users whose account is not closed
    drifted,  \* history: rows whose amount changed under their splits
    edits     \* bound

vars == <<member, row, share, settled, cash, open, drifted, edits>>

NoMember == [in |-> FALSE, user |-> Nobody, self |-> FALSE]
NoRow == [payer |-> Nobody, kind |-> "debit", amount |-> 0, mark |-> "plain"]
NoSettlement == [from |-> Nobody, to |-> Nobody, amount |-> 0]
NoShares == [m \in {} |-> 0]

People == {m \in Members : member[m].in}
Booked == {r \in Rows : row[r] # NoRow}
Recorded == {s \in Settlements : settled[s] # NoSettlement}
Linked(u) == {m \in People : member[m].user = u}
Self == {m \in People : member[m].self}
Parties(r) == DOMAIN share[r]

Bounded == edits < MaxEdits /\ edits' = edits + 1

-----------------------------------------------------------------------------
(* Materialising splits *)

\* ROUND_HALF_UP of n / d to a whole number of cents
HalfUp(n, d) == (2 * n + d) \div (2 * d)

\* Seeded fault for Residual: the last share is rounded like the others.
ResidualRounded(f, total, last) == f

\* The last share takes what rounding left over.
Residual(f, total, last) ==
    [f EXCEPT ![last] = total - SumFunctionOnSet(f, DOMAIN f \ {last})]

Equal(total, S, last) == Residual([m \in S |-> HalfUp(total, Cardinality(S))], total, last)
Percent(total, p, last) == Residual([m \in DOMAIN p |-> HalfUp(total * p[m], 100)], total, last)

\* The payloads that are accepted: shares of the whole, or exact amounts
Divisions(S) == {p \in [S -> Percents] : SumFunction(p) = 100}
Exact(total, S) == {f \in [S -> 0 .. total] : SumFunction(f) = total}

\* _validate_members: of a group the user owns or is linked to
MaySplit(u, S) == S # {} /\ S \subseteq People /\ (u = Owner \/ Linked(u) # {})

\* _materialize: what replace_splits may write for members S; nothing clears them.
Materialized(u, total, S) ==
    IF S = {} THEN {NoShares}
    ELSE IF ~MaySplit(u, S) THEN {}
    ELSE {Equal(total, S, last) : last \in S}
         \cup {Percent(total, p, last) : p \in Divisions(S), last \in S}
         \cup Exact(total, S)

-----------------------------------------------------------------------------
(* Members *)

Init == /\ member = [m \in Members |-> NoMember]
        /\ row = [r \in Rows |-> NoRow]
        /\ share = [r \in Rows |-> NoShares]
        /\ settled = [s \in Settlements |-> NoSettlement]
        /\ cash = [u \in Users |-> 0]
        /\ open = Users
        /\ drifted = {}
        /\ edits = 0

\* Seeded fault for Demoted: the former self member keeps its flag.
DemotedNone(m, self) == member

\* _clear_self_flag, when m becomes the self member
Demoted(m, self) ==
    [n \in Members |-> IF self /\ n # m THEN [member[n] EXCEPT !.self = FALSE] ELSE member[n]]

CreateMember(m, u, self) ==
    /\ Bounded
    /\ m \notin People
    /\ member' = [Demoted(m, self) EXCEPT ![m] = [in |-> TRUE, user |-> u, self |-> self]]
    /\ UNCHANGED <<row, share, settled, cash, open, drifted>>

UpdateMember(m, u, self) ==
    /\ Bounded
    /\ m \in People
    /\ member' = [Demoted(m, self) EXCEPT ![m] = [in |-> TRUE, user |-> u, self |-> self]]
    /\ member' # member
    /\ UNCHANGED <<row, share, settled, cash, open, drifted>>

\* RESTRICT: a member of a split or a settlement stays.
DeleteMember(m) ==
    /\ Bounded
    /\ m \in People
    /\ \A r \in Rows : m \notin Parties(r)
    /\ \A s \in Settlements : m \notin {settled[s].from, settled[s].to}
    /\ member' = [member EXCEPT ![m] = NoMember]
    /\ UNCHANGED <<row, share, settled, cash, open, drifted>>

\* The settlements go with the group, the cash they booked stays; splits keep
\* it alive.  The next group takes its place.
DeleteGroup ==
    /\ Bounded
    /\ People # {}
    /\ \A r \in Rows : share[r] = NoShares
    /\ member' = [m \in Members |-> NoMember]
    /\ settled' = [s \in Settlements |-> NoSettlement]
    /\ UNCHANGED <<row, share, cash, open, drifted>>

-----------------------------------------------------------------------------
(* Rows and their splits *)

\* create_transaction, with or without splits
CreateRow(r, u, kind, a, S) ==
    /\ Bounded
    /\ r \notin Booked
    /\ \E f \in Materialized(u, a, S) : share' = [share EXCEPT ![r] = f]
    /\ row' = [row EXCEPT ![r] = [payer |-> u, kind |-> kind, amount |-> a, mark |-> "plain"]]
    /\ UNCHANGED <<member, settled, cash, open, drifted>>

\* update_transaction with a splits payload, validated against the new amount
EditRow(r, a, S) ==
    /\ Bounded
    /\ r \in Booked
    /\ \E f \in Materialized(row[r].payer, a, S) : share' = [share EXCEPT ![r] = f]
    /\ row' = [row EXCEPT ![r].amount = a]
    /\ drifted' = drifted \ {r}
    /\ <<row', share'>> # <<row, share>>
    /\ UNCHANGED <<member, settled, cash, open>>

\* update_transaction with an amount and no payload (the splits stay as they
\* are), or the same from the other leg of a transfer
EditAmount(r, a) ==
    /\ Bounded
    /\ r \in Booked
    /\ a # row[r].amount
    /\ row' = [row EXCEPT ![r].amount = a]
    /\ drifted' = IF share[r] = NoShares THEN drifted ELSE drifted \cup {r}
    /\ UNCHANGED <<member, share, settled, cash, open>>

\* Hidden or shown, scheduled or paid ("off"), linked as a transfer or unlinked
MarkRow(r, mark) ==
    /\ Bounded
    /\ r \in Booked
    /\ mark # row[r].mark
    /\ row' = [row EXCEPT ![r].mark = mark]
    /\ UNCHANGED <<member, share, settled, cash, open, drifted>>

Splittable(u) == {r \in Booked : /\ row[r].payer = u
                                 /\ row[r].mark # "pair"
                                 /\ share[r] = NoShares}

\* bulk_add_to_group: transfers and rows already split are skipped.
BulkAddToGroup(u, S, T) ==
    /\ Bounded
    /\ MaySplit(u, S)
    /\ T \cap Splittable(u) # {}
    /\ \E last \in S, p \in Divisions(S) \cup {NoShares} :
           share' = [r \in Rows |-> IF r \notin T \cap Splittable(u) THEN share[r]
                                   ELSE IF p = NoShares THEN Equal(row[r].amount, S, last)
                                   ELSE Percent(row[r].amount, p, last)]
    /\ UNCHANGED <<member, row, settled, cash, open, drifted>>

DeleteRow(r) ==
    /\ Bounded
    /\ r \in Booked
    /\ row' = [row EXCEPT ![r] = NoRow]
    /\ share' = [share EXCEPT ![r] = NoShares]
    /\ drifted' = drifted \ {r}
    /\ UNCHANGED <<member, settled, cash, open>>

CloseAccount(u) ==
    /\ Bounded
    /\ u \in open
    /\ open' = open \ {u}
    /\ UNCHANGED <<member, row, share, settled, cash, drifted>>

ReopenAccount(u) ==
    /\ Bounded
    /\ u \notin open
    /\ open' = open \cup {u}
    /\ UNCHANGED <<member, row, share, settled, cash, drifted>>

-----------------------------------------------------------------------------
(* Settlements *)

\* _visible_predicate: from his own workspace, a user sees a group he is a
\* linked member of, unless that member is the self member.
Visible(u) == u = Owner \/ Linked(u) \ Self # {}

\* _can_settle_from: the owner anything, the others what they paid themselves
MaySettle(u, m) == Visible(u) /\ (u = Owner \/ Linked(u) = {m})

\* The user the money goes to: the linked one, else the owner for the self member
Receiver(m) == IF member[m].user # Nobody THEN member[m].user
               ELSE IF member[m].self THEN Owner
               ELSE Nobody

\* The receiver's credit, on his default account when he has an open one.  (The
\* payer's debit, when he names an account, is counted by no view of this module.)
Credited(to, a) ==
    [v \in Users |-> IF v = Receiver(to) /\ v \in open THEN cash[v] + a ELSE cash[v]]

CreateSettlement(s, u, from, to, a) ==
    /\ Bounded
    /\ s \notin Recorded
    /\ {from, to} \subseteq People /\ from # to
    /\ MaySettle(u, from)
    /\ settled' = [settled EXCEPT ![s] = [from |-> from, to |-> to, amount |-> a]]
    /\ cash' = Credited(to, a)
    /\ UNCHANGED <<member, row, share, open, drifted>>

\* update_settlement and delete_settlement: the booked cash stays as it was
UpdateSettlement(s, u, from, to, a) ==
    /\ Bounded
    /\ s \in Recorded
    /\ MaySettle(u, settled[s].from)
    /\ {from, to} \subseteq People /\ from # to
    /\ settled' = [settled EXCEPT ![s] = [@ EXCEPT !.from = from, !.to = to, !.amount = a]]
    /\ settled' # settled
    /\ UNCHANGED <<member, row, share, cash, open, drifted>>

DeleteSettlement(s, u) ==
    /\ Bounded
    /\ s \in Recorded
    /\ MaySettle(u, settled[s].from)
    /\ settled' = [settled EXCEPT ![s] = NoSettlement]
    /\ UNCHANGED <<member, row, share, cash, open, drifted>>

-----------------------------------------------------------------------------
Next ==
    \/ \E m \in Members, u \in Users \cup {Nobody}, self \in BOOLEAN :
           CreateMember(m, u, self) \/ UpdateMember(m, u, self)
    \/ \E m \in Members : DeleteMember(m)
    \/ DeleteGroup
    \/ \E r \in Rows, u \in Users, kind \in {"debit", "credit"}, a \in Amounts, S \in SUBSET Members :
           CreateRow(r, u, kind, a, S)
    \/ \E r \in Rows, a \in Amounts, S \in SUBSET Members : EditRow(r, a, S)
    \/ \E r \in Rows, a \in Amounts : EditAmount(r, a)
    \/ \E r \in Rows, mark \in {"plain", "off", "pair"} : MarkRow(r, mark)
    \/ \E u \in Users, S \in SUBSET Members, T \in SUBSET Rows : BulkAddToGroup(u, S, T)
    \/ \E r \in Rows : DeleteRow(r)
    \/ \E u \in Users : CloseAccount(u) \/ ReopenAccount(u)
    \/ \E s \in Settlements, u \in Users, from, to \in Members, a \in Payments :
           CreateSettlement(s, u, from, to, a) \/ UpdateSettlement(s, u, from, to, a)
    \/ \E s \in Settlements, u \in Users : DeleteSettlement(s, u)

Spec == Init /\ [][Next]_vars

-----------------------------------------------------------------------------
(* What a user spent: the dashboard's expenses less its income *)

\* counts_as_pnl, what of it can be told apart here
Counts(r) == r \in Booked /\ row[r].mark = "plain"
Counted == {r \in Rows : Counts(r)}

Signed(r, a) == IF row[r].kind = "debit" THEN a ELSE -a
Shares(r, S) == SumFunctionOnSet(share[r], Parties(r) \cap S)

\* counts_as_user_pnl: none of a user's settlement rows is income or expense.
CountedSettlements(u) == 0

\* The members that are the viewer himself
StandFor(u) == Linked(u) \cup IF u = Owner THEN Self ELSE {}

OwnRows(u) == {r \in Counted : row[r].payer = u}

\* owner_split_offset_pnl: the shares of the others in what he paid
Offset(u) == SumFunction([r \in OwnRows(u) |-> Signed(r, Shares(r, Members \ StandFor(u)))])

\* Seeded fault for SharedWith: rows the viewer paid himself are not left out.
SharedWithOwn(u) ==
    SumFunction([r \in Counted |-> Signed(r, Shares(r, Linked(u) \ Self))])

\* viewer_shared_pnl: his shares in what others paid
SharedWith(u) ==
    SumFunction([r \in Counted \ OwnRows(u) |-> Signed(r, Shares(r, Linked(u) \ Self))])

\* get_summary: rows of open accounts, less the offset, plus what is shared
Spent(u) == SumFunction([r \in {q \in OwnRows(u) : row[q].payer \in open} |->
                            Signed(r, row[r].amount)])
            - CountedSettlements(u) - Offset(u) + SharedWith(u)

\* The rows of one kind in a period of the report, or in a category
Within(kind, C) == {r \in Counted \cap C : row[r].kind = kind}

\* owner_split_offset_by_category
OffsetIn(u, kind, C) ==
    SumFunction([r \in Within(kind, C) \cap OwnRows(u) |-> Shares(r, Members \ StandFor(u))])

\* viewer_shared_spending_by_category
SharedIn(u, kind, C) ==
    SumFunction([r \in Within(kind, C) \ OwnRows(u) |-> Shares(r, Linked(u) \ Self)])

\* get_income_expenses_report for a period, get_spending_by_category for a category:
\* what is his own is never less than nothing, before what is shared is added.
Shown(u, kind, C) ==
    LET paid == SumFunction([r \in {q \in Within(kind, C) \cap OwnRows(u) : row[q].payer \in open} |->
                                row[r].amount])
        own == paid - OffsetIn(u, kind, C)
    IN  (IF own > 0 THEN own ELSE 0) + SharedIn(u, kind, C)

-----------------------------------------------------------------------------
(* Who owes whom *)

\* _tag_member_self overwrites is_self for the user who asks, in the objects
\* compute_balances then reads again from the session.
SelfSeenBy(u) ==
    {m \in People : \/ member[m].user = u
                    \/ u = Owner /\ member[m].user = Nobody /\ member[m].self}

Repaid(from, to) ==
    SumFunction([s \in {t \in Recorded : settled[t].from = from /\ settled[t].to = to} |->
                    settled[s].amount])

\* The shares of m in all transactions
Owed(m) == SumFunction([r \in Booked |-> Shares(r, {m})])

\* compute_balances: what member m owes the self member, as shown to user u
Line(u, m) ==
    LET me == CHOOSE n \in SelfSeenBy(u) : TRUE
    IN  IF SelfSeenBy(u) = {} THEN Owed(m)
        ELSE IF m = me THEN 0
        ELSE Owed(m) + Repaid(me, m) - Repaid(m, me)

\* _compute_pending_shares_net: the owner's lines, or a linked member's own,
\* with its sign flipped
PendingNet(u) ==
    IF u = Owner THEN SumFunction([m \in People |-> Line(u, m)])
    ELSE LET mine == Linked(u) \ Self
         IN  IF mine = {} THEN 0 ELSE -Line(u, CHOOSE m \in mine : TRUE)

-----------------------------------------------------------------------------
(* Properties *)

\* Types; a member is in the group wherever a split or a settlement names him.
TypeOK ==
    /\ member \in [Members -> [in : BOOLEAN, user : Users \cup {Nobody}, self : BOOLEAN]]
    /\ row \in [Rows -> [payer : Users \cup {Nobody}, kind : {"debit", "credit"},
                         amount : Amounts \cup {0}, mark : {"plain", "off", "pair"}]]
    /\ \A r \in Rows : Parties(r) \subseteq People /\ (r \notin Booked => share[r] = NoShares)
    /\ \A r \in Rows : \A m \in Parties(r) : share[r][m] \in Int
    /\ \A s \in Recorded : {settled[s].from, settled[s].to} \subseteq People
    /\ cash \in [Users -> Nat]
    /\ open \subseteq Users
    /\ drifted \subseteq Booked
    /\ Cardinality(Self) <= 1

\* A split transaction is split to the last cent, whatever the number of
\* members and the rounding, unless its amount was changed alone
\* (split_service.py, module docstring).
SharesCover ==
    \A r \in Rows \ drifted : share[r] # NoShares => SumFunction(share[r]) = row[r].amount

\* Of what the owner of the group pays, each share is spent once: by the user
\* the member stands for, whether as his own rest of the row or as a share in
\* somebody else's, and by nobody when the member has no account.  (Of what
\* another member pays, the owner's share is lost: see the README.)
SpendingAddsUp ==
    (\A r \in Booked : row[r].payer = Owner /\ Owner \in open) =>
        LET outsiders == {m \in People : member[m].user = Nobody} \ Self
        IN  SumFunction([u \in Users |-> Spent(u)])
            = SumFunction([r \in Counted |-> Signed(r, row[r].amount - Shares(r, outsiders))])

\* The rows the debt view reads as it should: expenses of the owner that the
\* spending view counts too
Plain(r) == Counts(r) /\ row[r].payer = Owner /\ row[r].kind = "debit" /\ Owner \in open

\* The spending view and the debt view agree: what the owner paid, less what
\* he was paid back, is what he spent himself and what he is still owed.
PaidIsSpentOrOwed ==
    (/\ \A r \in Booked : Plain(r)
     /\ SelfSeenBy(Owner) = StandFor(Owner)) =>
        \A me \in People : StandFor(Owner) = {me} =>
            SumFunction([r \in Booked |-> row[r].amount])
            + SumFunction([m \in People |-> Repaid(me, m) - Repaid(m, me)])
            = Spent(Owner) + PendingNet(Owner)

\* The report's bars and the dashboard's categories, which each stop at nothing,
\* add up to the figures above however the rows are spread over them: while the
\* account is open, splits fit their rows and none has a negative share.
ShownAddsUp ==
    (/\ drifted = {}
     /\ \A r \in Booked : \A m \in Parties(r) : share[r][m] >= 0) =>
        \A u \in open :
            /\ Shown(u, "debit", Rows) - Shown(u, "credit", Rows) = Spent(u)
            /\ \A kind \in {"debit", "credit"}, C \in SUBSET Rows :
                  Shown(u, kind, C) + Shown(u, kind, Rows \ C) = Shown(u, kind, Rows)

\* The spending views count each share once and the debt view counts what they
\* leave (split_service.py, dashboard_service.py, report_service.py).
MoneyAddsUp == SpendingAddsUp /\ PaidIsSpentOrOwed /\ ShownAddsUp

\* A member who is linked to an account sees his own debt on his dashboard, as
\* the owner sees it on his (dashboard_service.py, _compute_pending_shares_net).
MemberSeesOwnDebt ==
    \A u \in Users \ {Owner} :
        (Cardinality(Linked(u)) = 1 /\ Linked(u) \cap Self = {}) =>
            \A m \in Linked(u) : PendingNet(u) = -Line(Owner, m)
=============================================================================
