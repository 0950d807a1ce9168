----------------------------- MODULE MoneyProofs -----------------------------
(***************************************************************************)
(* Sums of money, for any number of rows.  A connection to a bank, for any *)
(* accounts, charges, history of the accounts and number of processes that *)
(* sync it: the rows and the opening balance of an account add up to what  *)
(* the bank has reported, and nothing of a connection outlives it.  A      *)
(* group, for any users, members, rows and settlements: shares cover what  *)
(* they split, and the views computed from them agree to the cent.  And    *)
(* the pages of one ledger, for any accounts, rows and categories: what    *)
(* the dashboard, the budgets and the reports show of it fits together.    *)
(***************************************************************************)
EXTENDS BankSync, MCSharedLedger, MCBudgets, Lemmas

-----------------------------------------------------------------------------
(* ONE: the sums of rows a connection has *)

\* The rows of an account, by the sum they have.
RowsIn(R, a) == {r \in R : AccountOf[r[1]] = a}

LEMMA TotalIs ==
  ASSUME NEW R, NEW a
  PROVE  Total(R, a) = SumOver([r \in RowsIn(R, a) |-> Amount[r[1]]], RowsIn(R, a))
<1> DEFINE S == RowsIn(R, a)
           g == [r \in S |-> Amount[r[1]]]
           F(f) == [s \in SUBSET S |-> IF s = {} THEN 0
                                      ELSE Amount[Some(s)[1]] + f[s \ {Some(s)}]]
           G(f) == [s \in SUBSET S |-> IF s = {} THEN 0 ELSE g[Some(s)] + f[s \ {Some(s)}]]
<1>1. Total(R, a) = (CHOOSE f : f = F(f))[S]
  BY Zenon DEF Total, MapThenSumSet, MapThenFoldSet, Some, RowsIn
<1>2. \A f : F(f) = G(f)
  <2>1. \A s \in SUBSET S : s # {} => g[Some(s)] = Amount[Some(s)[1]]
    BY SomeIn
  <2> HIDE DEF g, S
  <2> QED
    BY <2>1
<1>3. \A f : AddsUpOn(g, S, f) <=> f = F(f)
  <2> HIDE DEF F
  <2> QED
    BY <1>2 DEF AddsUpOn
<1>4. (CHOOSE f : f = F(f)) = (CHOOSE f : AddsUpOn(g, S, f))
  <2> HIDE DEF F, g, S
  <2> QED
    BY <1>3, Zenon
<1> HIDE DEF F, g, S
<1> QED
  BY <1>1, <1>4 DEF SumOver, g, S

LEMMA TotalIsInt ==
  ASSUME ChargesAssumption, NEW R, IsFiniteSet(R), NEW a, \A r \in R : r[1] \in Charges
  PROVE  Total(R, a) \in Int
<1> DEFINE g == [r \in RowsIn(R, a) |-> Amount[r[1]]]
<1>1. IsFiniteSet(RowsIn(R, a))
  BY FS_Subset DEF RowsIn
<1>2. \A r \in RowsIn(R, a) : g[r] \in Int
  BY DEF RowsIn, ChargesAssumption
<1>3. Total(R, a) = SumOver(g, RowsIn(R, a))
  BY TotalIs
<1> HIDE DEF g
<1> QED
  BY <1>1, <1>2, <1>3, SumIsInt

\* The total of an account depends on its own rows only.
LEMMA TotalOfOwnRows ==
  ASSUME NEW R, NEW T, NEW a, RowsIn(R, a) = RowsIn(T, a)
  PROVE  Total(R, a) = Total(T, a)
  BY TotalIs

LEMMA TotalOfNothing == \A a : Total({}, a) = 0
<1>1. TAKE a
<1>2. RowsIn({}, a) = {}
  BY DEF RowsIn
<1> DEFINE g == [r \in RowsIn({}, a) |-> Amount[r[1]]]
<1>3. Total({}, a) = SumOver(g, {})
  BY <1>2, TotalIs
<1> HIDE DEF g
<1> QED
  BY <1>3, SumSteps, FS_EmptySet

-----------------------------------------------------------------------------
(* TWO: what a connection and its syncs hold *)

\* Every variable has its type, and rows come one at a time.
Typed == TypeOK /\ IsFiniteSet(row) /\ IsFiniteSet(bank.listed) /\ IsFiniteSet(bank.counted)
               /\ \A s \in Sessions : IsFiniteSet(sync[s].new)

\* Where a session is, and what of the accounts it has touched: the one it is
\* at, and those it is done with.
Open(x) == IF x.at = "charges" THEN {x.cur} ELSE {}
Touched(x) == x.done \cup Open(x)

Placed(x) ==
  /\ x.at \in {"account", "charges"} => x.cur \in Accounts
  /\ x.at \in {"idle", "fetch"} => x.new = {} /\ x.done = {} /\ x.wrote = {} /\ x.opened = {}
  /\ \A c \in x.new : AccountOf[c] \in Touched(x) /\ c \in bank.listed
  /\ x.wrote \subseteq Touched(x)
  /\ x.opened \subseteq x.done
  /\ x.at = "charges" => \A c \in x.left : AccountOf[c] = x.cur /\ c \in bank.listed

\* A connection that is gone has left nothing, and its syncs cannot write.
Deleted ==
  status = "none" => /\ row = {} /\ \A a \in Accounts : account[a].is = "none"
                     /\ \A s \in Sessions : sync[s].at # "idle" => sync[s].gone

AtMostOne(R, c) == \A q, r \in R : q[1] = c /\ r[1] = c => q = r

\* A charge with two rows belongs to an account that two syncs have written.
Twins == \A q, r \in row : q[1] = r[1] /\ q # r => AccountOf[q[1]] \in torn

RowsListed == \A r \in row : r[1] \in bank.listed

\* What a sync that has run alone so far knows of the accounts it is done with:
\* the offset it has taken is still the right one, in the table or among what
\* it will write.
Alone(s) == sync[s].at # "idle" /\ sync[s].alone /\ ~sync[s].gone
Settled(s, x, R) ==
  /\ \A t \in Sessions : t # s => sync[t].at = "idle"
  /\ \A a \in x.done \ Open(x) :
       /\ x.open[a] = x.reported[a] - Total(R, a)
       /\ a \in x.opened \/ opening[a] = x.open[a]
       /\ \A c \in Charges : AccountOf[c] = a => AtMostOne(R, c)
  /\ \A a \in Touched(x) : a \in x.wrote \/ account[a].balance = x.reported[a]
  /\ x.at = "charges" =>
       \A c \in Charges \ x.left : AccountOf[c] = x.cur => AtMostOne(R, c)

AllAddUp == \A a \in Accounts \ torn : ~Alike(a) => AddsUp(a)

BankInv ==
  /\ Typed
  /\ \A s \in Sessions : Placed(sync[s])
  /\ Deleted
  /\ Twins
  /\ RowsListed
  /\ \A s \in Sessions : Alone(s) => Settled(s, sync[s], Visible(s))
  /\ AllAddUp

-----------------------------------------------------------------------------
(* Facts of a state *)

LEMMA VisibleFinite ==
  ASSUME Typed, NEW s \in Sessions
  PROVE  IsFiniteSet(Visible(s)) /\ Visible(s) \subseteq RowIds
<1>1. IsFiniteSet({s})
  BY FS_Singleton
<1>2. IsFiniteSet(sync[s].new \X {s})
  BY <1>1, FS_Product DEF Typed
<1>3. sync[s].new \subseteq Charges /\ row \subseteq RowIds
  BY DEF Typed, TypeOK, Sync
<1> QED
  BY <1>2, <1>3, FS_Union DEF Typed, Visible, RowIds

\* The fields of a session, where it is one.
LEMMA FieldsOf ==
  ASSUME NEW x \in Sync
  PROVE  /\ x.at \in Phases /\ x.cur \in Accounts \cup {NoAccount}
         /\ x.status \in {"none", "active", "error", "expired"}
         /\ x.left \subseteq Charges /\ x.new \subseteq Charges /\ x.fresh \subseteq RowIds
         /\ x.reported \in [Accounts -> Int] /\ x.wrote \subseteq Accounts
         /\ x.open \in [Accounts -> Int] /\ x.opened \subseteq Accounts /\ x.done \subseteq Accounts
  BY DEF Sync

LEMMA FlagsOf ==
  ASSUME NEW x \in Sync
  PROVE  x.lapsed \in BOOLEAN /\ x.gone \in BOOLEAN /\ x.alone \in BOOLEAN
  BY DEF Sync

LEMMA IdleTyped == Idle \in Sync
  BY DEF Idle, Sync, Phases

LEMMA IdlePlaced == Placed(Idle) /\ IsFiniteSet(Idle.new) /\ Idle.at = "idle"
  BY FS_EmptySet DEF Idle, Placed, Open, Touched

\* A total of what can be seen is a number.
LEMMA TotalsAreInt ==
  ASSUME ChargesAssumption, Typed
  PROVE  /\ \A a : Total(row, a) \in Int
         /\ \A s \in Sessions : \A a : Total(Visible(s), a) \in Int
<1>1. \A r \in RowIds : r[1] \in Charges
  BY DEF RowIds
<1>2. row \subseteq RowIds /\ IsFiniteSet(row)
  BY DEF Typed, TypeOK
<1>3. \A a : Total(row, a) \in Int
  BY <1>1, <1>2, TotalIsInt
<1>4. \A s \in Sessions : \A a : Total(Visible(s), a) \in Int
  BY <1>1, VisibleFinite, TotalIsInt
<1> QED
  BY <1>3, <1>4

LEMMA BalanceIsInt ==
  ASSUME ChargesAssumption, Typed, NEW a \in Accounts
  PROVE  BankBalance(a) \in Int
<1> DEFINE R == (bank.counted \ Phantoms) \X {Callback}
<1>1. bank.counted \subseteq Charges /\ IsFiniteSet(bank.counted)
  BY DEF Typed, TypeOK
<1>2. IsFiniteSet(bank.counted \ Phantoms) /\ IsFiniteSet({Callback})
  BY <1>1, FS_Subset, FS_Singleton
<1>3. IsFiniteSet(R) /\ \A r \in R : r[1] \in Charges
  BY <1>1, <1>2, FS_Product
<1>4. Total(R, a) \in Int
  <2> HIDE DEF R
  <2> QED
    BY <1>3, TotalIsInt
<1> QED
  BY <1>4 DEF BankBalance, ChargesAssumption

-----------------------------------------------------------------------------
(* A step of one session that commits nothing *)

LEMMA SessionStep ==
  ASSUME BankInv, NEW s \in Sessions, NEW x \in Sync, sync' = [sync EXCEPT ![s] = x],
         sync[s].at # "idle",
         x.at # "idle" => x.gone = sync[s].gone,
         UNCHANGED <<bank, account, row, paired, opening, torn>>,
         status' \in {"none", "active", "error", "expired"},
         status' = "none" => status = "none",
         faults' \in 0 .. MaxFaults,
         IsFiniteSet(x.new), Placed(x),
         x.at # "idle" /\ x.alone /\ ~x.gone => Settled(s, x, row \cup (x.new \X {s}))
  PROVE  BankInv'
<1>1. sync \in [Sessions -> Sync]
  BY DEF BankInv, Typed, TypeOK
<1>2. sync' \in [Sessions -> Sync] /\ sync'[s] = x /\ \A t \in Sessions : t # s => sync'[t] = sync[t]
  BY <1>1
<1>3. Typed'
  BY <1>2 DEF BankInv, Typed, TypeOK
<1>4. \A t \in Sessions : Placed(sync[t])'
  BY <1>2 DEF BankInv, Placed, Touched, Open
<1>5. Deleted'
  BY <1>2 DEF BankInv, Deleted
<1>6. Twins' /\ RowsListed' /\ AllAddUp'
  BY DEF BankInv, Twins, RowsListed, AllAddUp, Alike, Listed, AddsUp
<1>7. ASSUME NEW t \in Sessions, Alone(t)' PROVE Settled(t, sync[t], Visible(t))'
  <2>1. CASE t = s
    <3> DEFINE R == row \cup (x.new \X {s})
    <3>1. Settled(s, x, R)
      BY <1>2, <1>7, <2>1 DEF Alone
    <3>2. sync'[t] = x /\ Visible(t)' = R
      BY <1>2, <2>1 DEF Visible
    <3> HIDE DEF R
    <3>3. /\ \A u \in Sessions : u # t => sync'[u].at = "idle"
          /\ \A a \in x.done \ Open(x) :
               /\ x.open[a] = x.reported[a] - Total(R, a)
               /\ a \in x.opened \/ opening'[a] = x.open[a]
               /\ \A c \in Charges : AccountOf[c] = a => AtMostOne(R, c)
          /\ \A a \in Touched(x) : a \in x.wrote \/ account'[a].balance = x.reported[a]
          /\ x.at = "charges" =>
               \A c \in Charges \ x.left : AccountOf[c] = x.cur => AtMostOne(R, c)
      BY <1>2, <2>1, <3>1 DEF Settled
    <3>4. Open(sync'[t]) = Open(x) /\ Touched(sync'[t]) = Touched(x)
      BY <3>2
    <3> QED
      BY <3>2, <3>3, <3>4 DEF Settled
  <2>2. CASE t # s
    <3>1. Alone(t)
      BY <1>2, <1>7, <2>2 DEF Alone
    <3>2. sync[s].at = "idle"
      BY <2>2, <3>1 DEF BankInv, Settled
    <3> QED
      BY <3>2
  <2> QED
    BY <2>1, <2>2
<1> QED
  BY <1>3, <1>4, <1>5, <1>6, <1>7 DEF BankInv

\* What the session has is rolled back.
LEMMA StopKeeps ==
  ASSUME BankInv, NEW s \in Sessions, sync[s].at # "idle", To(s, Idle),
         UNCHANGED <<bank, account, row, paired, opening, torn>>,
         status' \in {"none", "active", "error", "expired"},
         status' = "none" => status = "none",
         faults' \in 0 .. MaxFaults
  PROVE  BankInv'
  BY IdleTyped, IdlePlaced, SessionStep DEF To

-----------------------------------------------------------------------------
(* A sync, up to what it commits *)

\* The state of a session that is at work.
LEMMA SessionOf ==
  ASSUME BankInv, NEW s \in Sessions
  PROVE  /\ sync[s] \in Sync /\ IsFiniteSet(sync[s].new) /\ Placed(sync[s])
         /\ sync \in [Sessions -> Sync]
         /\ Alone(s) => Settled(s, sync[s], row \cup (sync[s].new \X {s}))
         /\ faults \in 0 .. MaxFaults /\ status \in {"none", "active", "error", "expired"}
         /\ row \subseteq RowIds /\ IsFiniteSet(row)
  BY DEF BankInv, Typed, TypeOK, Visible

LEMMA FetchKeeps ==
  ASSUME NamesAssumption, ChargesAssumption, BankInv, NEW s \in Sessions, Fetch(s)
  PROVE  BankInv'
<1> DEFINE f == [a \in Accounts |-> BankBalance(a)]
           x == [sync[s] EXCEPT !.at = "account", !.cur = First, !.reported = f]
<1>1. sync[s].at = "fetch" /\ sync' = [sync EXCEPT ![s] = x] /\ UNCHANGED <<bank, stored, faults>>
  BY DEF Fetch, To
<1>2. f \in [Accounts -> Int]
  BY BalanceIsInt DEF BankInv
<1>3. PICK y : y = x
  OBVIOUS
<1>4. /\ y \in Sync /\ y.at = "account" /\ y.cur = First /\ y.new = sync[s].new
      /\ y.done = sync[s].done /\ y.wrote = sync[s].wrote /\ y.opened = sync[s].opened
      /\ y.gone = sync[s].gone /\ y.alone = sync[s].alone
  <2> PICK z \in Sync : z = sync[s]
    BY SessionOf
  <2> PICK g \in [Accounts -> Int] : g = f
    BY <1>2
  <2>1. y = [z EXCEPT !.at = "account", !.cur = First, !.reported = g]
    BY <1>3
  <2> HIDE DEF f, x
  <2>2. y \in Sync
    BY <2>1 DEF Sync, Phases, NamesAssumption
  <2> QED
    BY <2>1, <2>2 DEF Sync, Phases
<1> HIDE DEF f, x
<1>5. Placed(y) /\ y.done = {} /\ Open(y) = {} /\ Touched(y) = {}
  BY <1>1, <1>4, SessionOf DEF Placed, Open, Touched, NamesAssumption
<1>6. y.alone /\ ~y.gone => Settled(s, y, row \cup (y.new \X {s}))
  BY <1>1, <1>4, <1>5, SessionOf DEF Settled, Alone
<1> QED
  BY <1>1, <1>3, <1>4, <1>5, <1>6, SessionOf, SessionStep DEF stored

\* On to the next account, or to the end.
LEMMA NextAccount ==
  ASSUME NamesAssumption, NEW x \in Sync, x.cur \in Accounts
  PROVE  /\ Next1(x) \in Sync /\ Next1(x).at \in {"account", "finish"}
         /\ Next1(x).at = "account" => Next1(x).cur \in Accounts
         /\ Next1(x).new = x.new /\ Next1(x).done = x.done /\ Next1(x).wrote = x.wrote
         /\ Next1(x).opened = x.opened /\ Next1(x).open = x.open
         /\ Next1(x).reported = x.reported /\ Next1(x).left = x.left
         /\ Next1(x).gone = x.gone /\ Next1(x).alone = x.alone
  BY DEF Next1, Sync, Phases, NamesAssumption

\* A closed account.
LEMMA PassKeeps ==
  ASSUME NamesAssumption, BankInv, NEW s \in Sessions, sync[s].at = "account",
         To(s, Next1(sync[s])), UNCHANGED <<bank, stored, faults>>
  PROVE  BankInv'
<1>1. PICK y : y = Next1(sync[s])
  OBVIOUS
<1>2. /\ y \in Sync /\ y.at \in {"account", "finish"}
      /\ y.at = "account" => y.cur \in Accounts
      /\ y.new = sync[s].new /\ y.done = sync[s].done /\ y.wrote = sync[s].wrote
      /\ y.opened = sync[s].opened /\ y.open = sync[s].open
      /\ y.reported = sync[s].reported
      /\ y.gone = sync[s].gone /\ y.alone = sync[s].alone
  BY <1>1, SessionOf, NextAccount DEF Placed
<1>3. Open(y) = {} /\ Open(sync[s]) = {} /\ Touched(y) = Touched(sync[s])
  BY <1>2 DEF Open, Touched
<1>4. Placed(y)
  BY <1>2, <1>3, SessionOf DEF Placed
<1>5. ASSUME y.alone, ~y.gone PROVE Settled(s, y, row \cup (y.new \X {s}))
  <2>1. PICK R : R = row \cup (y.new \X {s})
    OBVIOUS
  <2>2. Settled(s, sync[s], R)
    BY <1>2, <1>5, <2>1, SessionOf DEF Alone
  <2>3. Settled(s, y, R)
    BY <1>2, <1>3, <2>2 DEF Settled
  <2> QED
    BY <2>1, <2>3
<1> QED
  BY <1>1, <1>2, <1>4, <1>5, SessionOf, SessionStep DEF stored, To

LEMMA TakeAccountKeeps ==
  ASSUME NamesAssumption, BankInv, NEW s \in Sessions, TakeAccount(s)
  PROVE  BankInv'
<1> DEFINE a == sync[s].cur
           changes == account[a].balance # sync[s].reported[a]
           w == IF changes THEN sync[s].wrote \cup {a} ELSE sync[s].wrote
           x == [sync[s] EXCEPT !.at = "charges", !.left = Listed(a), !.wrote = w]
<1>1. CASE To(s, Next1(sync[s]))
  BY <1>1, PassKeeps DEF TakeAccount
<1>2. CASE To(s, x)
  <2>1. sync[s].at = "account" /\ UNCHANGED <<bank, stored, faults>> /\ sync' = [sync EXCEPT ![s] = x]
    BY <1>2 DEF TakeAccount, To
  <2>2. a \in Accounts /\ Listed(a) \subseteq Charges
        /\ \A c \in Listed(a) : AccountOf[c] = a /\ c \in bank.listed
    BY <2>1, SessionOf DEF Placed, Listed, BankInv, Typed, TypeOK
  <2>3. PICK y : y = x
    OBVIOUS
  <2>0. /\ w \subseteq sync[s].wrote \cup {a} /\ w \in SUBSET Accounts
        /\ a \in w \/ account[a].balance = sync[s].reported[a]
        /\ sync[s].wrote \subseteq w /\ a = sync[s].cur
    <3>1. sync[s] \in Sync
      BY SessionOf
    <3>2. sync[s].wrote \in SUBSET Accounts
      BY <3>1, FieldsOf
    <3> QED
      BY <2>2, <3>2
  <2> HIDE DEF w, a
  <2>4. /\ y \in Sync /\ y.at = "charges" /\ y.cur = a /\ y.left = Listed(a)
        /\ y.new = sync[s].new /\ y.done = sync[s].done
        /\ y.opened = sync[s].opened /\ y.open = sync[s].open /\ y.reported = sync[s].reported
        /\ y.wrote = w
        /\ y.gone = sync[s].gone /\ y.alone = sync[s].alone
    <3>1. sync[s] \in Sync /\ Listed(a) \in SUBSET Charges /\ w \in SUBSET Accounts
      BY <2>0, <2>2, SessionOf
    <3>2. PICK z \in Sync, l \in SUBSET Charges : z = sync[s] /\ l = Listed(a)
      BY <3>1
    <3>3. y = [z EXCEPT !.at = "charges", !.left = l, !.wrote = w]
      BY <2>3, <3>2
    <3> HIDE DEF x
    <3>4. /\ y \in Sync /\ y.at = "charges" /\ y.left = l /\ y.wrote = w
          /\ y.new = z.new /\ y.done = z.done /\ y.cur = z.cur
          /\ y.opened = z.opened /\ y.open = z.open /\ y.reported = z.reported
          /\ y.gone = z.gone /\ y.alone = z.alone
      BY <3>1, <3>3 DEF Sync, Phases
    <3> QED
      BY <2>0, <3>2, <3>4
  <2> HIDE DEF x
  <2>5. /\ Open(y) = {a} /\ Open(sync[s]) = {} /\ Touched(sync[s]) = sync[s].done
        /\ Touched(y) = sync[s].done \cup {a}
    BY <2>1, <2>4 DEF Open, Touched
  <2>6. Placed(y)
    <3>1. /\ \A c \in y.new : AccountOf[c] \in Touched(y) /\ c \in bank.listed
          /\ y.wrote \subseteq Touched(y) /\ y.opened \subseteq y.done
      <4>1. /\ \A c \in sync[s].new : AccountOf[c] \in sync[s].done /\ c \in bank.listed
            /\ sync[s].wrote \subseteq sync[s].done /\ sync[s].opened \subseteq sync[s].done
        <5>1. Placed(sync[s])
          BY SessionOf
        <5> QED
          BY <2>5, <5>1 DEF Placed
      <4>2. y.wrote \subseteq Touched(y)
        BY <2>0, <2>4, <2>5, <4>1
      <4>3. y.opened \subseteq y.done
        BY <2>4, <4>1
      <4>4. \A c \in y.new : AccountOf[c] \in Touched(y) /\ c \in bank.listed
        BY <2>4, <2>5, <4>1
      <4> QED
        BY <4>2, <4>3, <4>4
    <3>2. y.cur \in Accounts /\ \A c \in y.left : AccountOf[c] = y.cur /\ c \in bank.listed
      BY <2>2, <2>4
    <3> QED
      BY <2>4, <3>1, <3>2 DEF Placed
  <2>7. ASSUME y.alone, ~y.gone PROVE Settled(s, y, row \cup (y.new \X {s}))
    <3>1. Settled(s, sync[s], row \cup (y.new \X {s}))
      BY <2>1, <2>4, <2>7, SessionOf DEF Alone
    <3>2. ASSUME NEW c \in Charges \ y.left, AccountOf[c] = a
          PROVE  AtMostOne(row \cup (y.new \X {s}), c)
      <4>1. c \notin bank.listed
        BY <2>4, <3>2 DEF Listed
      <4>2. \A r \in row \cup (y.new \X {s}) : r[1] \in bank.listed
        BY <2>4, SessionOf DEF BankInv, RowsListed, Placed
      <4> QED
        BY <4>1, <4>2 DEF AtMostOne
    <3>3. \A b \in Touched(y) : b \in y.wrote \/ account[b].balance = y.reported[b]
      BY <2>0, <2>4, <2>5, <3>1 DEF Settled
    <3> QED
      BY <2>4, <2>5, <3>1, <3>2, <3>3 DEF Settled
  <2> QED
    BY <2>1, <2>3, <2>4, <2>6, <2>7, SessionOf, SessionStep DEF stored
<1> QED
  BY <1>1, <1>2 DEF TakeAccount

LEMMA SkipChargeKeeps ==
  ASSUME BankInv, NEW s \in Sessions, NEW c \in Charges, SkipCharge(s, c)
  PROVE  BankInv'
<1> DEFINE R == row \cup (sync[s].new \X {s})
<1>1. /\ sync[s].at = "charges" /\ c \in sync[s].left /\ Cardinality(RowsOf(R, c)) = 1
      /\ sync' = [sync EXCEPT ![s] = [sync[s] EXCEPT !.left = sync[s].left \ {c}]]
      /\ UNCHANGED <<bank, stored, faults>>
  BY DEF SkipCharge, To, Visible
<1>2. PICK y : y = [sync[s] EXCEPT !.left = sync[s].left \ {c}]
  OBVIOUS
<1>3. /\ y \in Sync /\ y.at = "charges" /\ y.cur = sync[s].cur /\ y.left = sync[s].left \ {c}
      /\ y.new = sync[s].new /\ y.done = sync[s].done
      /\ y.opened = sync[s].opened /\ y.open = sync[s].open /\ y.reported = sync[s].reported
      /\ y.wrote = sync[s].wrote /\ y.gone = sync[s].gone /\ y.alone = sync[s].alone
  BY <1>1, <1>2, SessionOf DEF Sync
<1>4. AtMostOne(R, c)
  <2>1. IsFiniteSet(R)
    BY VisibleFinite DEF Visible, BankInv
  <2>2. IsFiniteSet(RowsOf(R, c))
    BY <2>1, FS_Subset DEF RowsOf
  <2>3. PICK q : RowsOf(R, c) = {q}
    BY <1>1, <2>2, FS_Singleton
  <2> HIDE DEF R
  <2> QED
    BY <2>3 DEF RowsOf, AtMostOne
<1> HIDE DEF R
<1>5. Open(y) = Open(sync[s]) /\ Touched(y) = Touched(sync[s])
  BY <1>1, <1>3 DEF Open, Touched
<1>6. Placed(y)
  BY <1>1, <1>3, <1>5, SessionOf DEF Placed
<1>7. ASSUME y.alone, ~y.gone PROVE Settled(s, y, row \cup (y.new \X {s}))
  <2>1. Settled(s, sync[s], R) /\ R = row \cup (y.new \X {s})
    BY <1>1, <1>3, <1>7, SessionOf DEF Alone, R
  <2>2. Settled(s, y, R)
    BY <1>1, <1>3, <1>4, <1>5, <2>1 DEF Settled
  <2> QED
    BY <2>1, <2>2
<1> QED
  BY <1>1, <1>2, <1>3, <1>6, <1>7, SessionOf, SessionStep DEF stored

\* A charge that has no row gets one.
LEMMA Inserting ==
  ASSUME BankInv, NEW s \in Sessions, NEW c \in Charges, sync[s].at = "charges",
         c \in sync[s].left, ~Known(s, c)
  PROVE  \E y \in Sync :
         /\ y = Inserted(sync[s], c, s) /\ IsFiniteSet(y.new) /\ Placed(y)
         /\ y.at = "charges" /\ y.cur = sync[s].cur /\ y.left = sync[s].left \ {c}
         /\ y.new = sync[s].new \cup {c} /\ y.done = sync[s].done
         /\ y.opened = sync[s].opened /\ y.open = sync[s].open /\ y.reported = sync[s].reported
         /\ y.wrote = sync[s].wrote /\ y.gone = sync[s].gone /\ y.alone = sync[s].alone
         /\ AccountOf[c] = y.cur
         /\ Alone(s) => Settled(s, y, row \cup (y.new \X {s}))
<1>0. PICK y : y = Inserted(sync[s], c, s)
  OBVIOUS
<1>1. PICK x \in Sync : x = sync[s]
  BY SessionOf
<1>2. /\ y \in Sync /\ y.at = "charges" /\ y.cur = x.cur /\ y.left = x.left \ {c}
      /\ y.new = x.new \cup {c} /\ y.done = x.done
      /\ y.opened = x.opened /\ y.open = x.open /\ y.reported = x.reported
      /\ y.wrote = x.wrote /\ y.gone = x.gone /\ y.alone = x.alone
  <2>1. y = [x EXCEPT !.left = x.left \ {c}, !.new = x.new \cup {c},
                      !.fresh = x.fresh \cup {<<c, s>>}]
    BY <1>0, <1>1 DEF Inserted
  <2>2. <<c, s>> \in RowIds
    BY DEF RowIds
  <2>3. PICK l \in SUBSET Charges, n \in SUBSET Charges, f \in SUBSET RowIds :
           l = x.left \ {c} /\ n = x.new \cup {c} /\ f = x.fresh \cup {<<c, s>>}
    <3>1. x.left \ {c} \in SUBSET Charges /\ x.new \cup {c} \in SUBSET Charges
          /\ x.fresh \cup {<<c, s>>} \in SUBSET RowIds
      BY <2>2, FieldsOf
    <3> QED
      BY <3>1
  <2>4. y = [x EXCEPT !.left = l, !.new = n, !.fresh = f]
    BY <2>1, <2>3
  <2>5. /\ y \in Sync /\ y.at = x.at /\ y.cur = x.cur /\ y.left = l
        /\ y.new = n /\ y.done = x.done
        /\ y.opened = x.opened /\ y.open = x.open /\ y.reported = x.reported
        /\ y.wrote = x.wrote /\ y.gone = x.gone /\ y.alone = x.alone
    BY <2>4 DEF Sync
  <2> QED
    BY <1>1, <2>3, <2>5
<1>3. IsFiniteSet(y.new)
  <2>1. IsFiniteSet(x.new)
    BY <1>1, SessionOf
  <2>2. IsFiniteSet(x.new \cup {c})
    BY <2>1, FS_AddElement
  <2> QED
    BY <1>2, <2>2
<1>4. AccountOf[c] = x.cur /\ c \in bank.listed
  BY <1>1, SessionOf DEF Placed
<1>5. Open(y) = {x.cur} /\ Open(x) = {x.cur} /\ Touched(y) = Touched(x) /\ x.cur \in Touched(y)
  BY <1>1, <1>2 DEF Open, Touched
<1>6. Placed(y)
  <2>1. Placed(x)
    BY <1>1, SessionOf
  <2> QED
    BY <1>1, <1>2, <1>4, <1>5, <2>1 DEF Placed
<1>7. ASSUME Alone(s) PROVE Settled(s, y, row \cup (y.new \X {s}))
  <2> DEFINE R == row \cup (x.new \X {s})
             T == row \cup (y.new \X {s})
  <2>1. Settled(s, x, R)
    BY <1>1, <1>7, SessionOf
  <2>2. T = R \cup {<<c, s>>}
    BY <1>2
  <2>3. \A r \in R : r[1] # c
    BY <1>1 DEF Known, Visible, RowsOf
  <2> HIDE DEF R, T
  <2>4. \A a : a # x.cur => Total(T, a) = Total(R, a)
    <3>1. TAKE a
    <3>2. HAVE a # x.cur
    <3>3. RowsIn(T, a) = RowsIn(R, a)
      BY <1>4, <2>2, <3>2 DEF RowsIn
    <3> QED
      BY <3>3, TotalOfOwnRows
  <2>5. \A d : d # c /\ AtMostOne(R, d) => AtMostOne(T, d)
    BY <2>2 DEF AtMostOne
  <2>6. AtMostOne(T, c)
    BY <2>2, <2>3 DEF AtMostOne
  <2>7. \A a \in y.done \ Open(y) :
           /\ y.open[a] = y.reported[a] - Total(T, a)
           /\ a \in y.opened \/ opening[a] = y.open[a]
           /\ \A d \in Charges : AccountOf[d] = a => AtMostOne(T, d)
    <3>1. TAKE a \in y.done \ Open(y)
    <3>2. a \in x.done \ Open(x) /\ a # x.cur
      BY <1>2, <1>5
    <3>3. /\ x.open[a] = x.reported[a] - Total(R, a)
          /\ a \in x.opened \/ opening[a] = x.open[a]
          /\ \A d \in Charges : AccountOf[d] = a => AtMostOne(R, d)
      BY <2>1, <3>2 DEF Settled
    <3> QED
      BY <1>2, <1>4, <2>4, <2>5, <3>2, <3>3
  <2>8. \A d \in Charges \ y.left : AccountOf[d] = y.cur => AtMostOne(T, d)
    <3>1. \A d \in Charges \ x.left : AccountOf[d] = x.cur => AtMostOne(R, d)
      BY <1>1, <2>1 DEF Settled
    <3> QED
      BY <1>2, <2>5, <2>6, <3>1
  <2>9. Settled(s, y, T)
    BY <1>2, <1>5, <2>1, <2>7, <2>8 DEF Settled
  <2> QED
    BY <2>9 DEF T
<1>8. /\ y.at = "charges" /\ y.cur = sync[s].cur /\ y.left = sync[s].left \ {c}
      /\ y.new = sync[s].new \cup {c} /\ y.done = sync[s].done
      /\ y.opened = sync[s].opened /\ y.open = sync[s].open /\ y.reported = sync[s].reported
      /\ y.wrote = sync[s].wrote /\ y.gone = sync[s].gone /\ y.alone = sync[s].alone
      /\ AccountOf[c] = y.cur
  BY <1>1, <1>2, <1>4
<1> QED
  BY <1>0, <1>2, <1>3, <1>6, <1>7, <1>8

LEMMA InsertChargeKeeps ==
  ASSUME BankInv, NEW s \in Sessions, NEW c \in Charges, InsertCharge(s, c)
  PROVE  BankInv'
<1>1. /\ sync[s].at = "charges" /\ c \in sync[s].left /\ ~Known(s, c) /\ ~sync[s].gone
      /\ sync' = [sync EXCEPT ![s] = Inserted(sync[s], c, s)]
      /\ UNCHANGED <<bank, account, row, paired, opening, torn>> /\ status' = status
      /\ faults' = faults
  BY DEF InsertCharge, To, stored
<1>2. PICK y \in Sync :
        /\ y = Inserted(sync[s], c, s) /\ IsFiniteSet(y.new) /\ Placed(y) /\ y.at = "charges"
        /\ y.gone = sync[s].gone /\ y.alone = sync[s].alone
        /\ Alone(s) => Settled(s, y, row \cup (y.new \X {s}))
  BY <1>1, Inserting
<1>3. /\ y \in Sync /\ IsFiniteSet(y.new) /\ Placed(y) /\ y.at = "charges"
      /\ y.gone = sync[s].gone /\ y.alone = sync[s].alone
      /\ Alone(s) => Settled(s, y, row \cup (y.new \X {s}))
  BY <1>2
<1>4. y.alone /\ ~y.gone => Settled(s, y, row \cup (y.new \X {s}))
  BY <1>1, <1>3 DEF Alone
<1> QED
  BY <1>1, <1>2, <1>3, <1>4, SessionOf, SessionStep

LEMMA ReconcileKeeps ==
  ASSUME NamesAssumption, ChargesAssumption, BankInv, NEW s \in Sessions, Reconcile(s)
  PROVE  BankInv'
<1> DEFINE a == sync[s].cur
           offset == sync[s].reported[a] - Total(Visible(s), a)
           opened == IF offset # opening[a] THEN sync[s].opened \cup {a} ELSE sync[s].opened
           z == [sync[s] EXCEPT !.open[a] = offset, !.opened = opened,
                                !.done = sync[s].done \cup {a}]
<1>1. /\ sync[s].at = "charges" /\ sync[s].left = {}
      /\ sync' = [sync EXCEPT ![s] = Next1(z)]
      /\ UNCHANGED <<bank, account, row, paired, opening, torn>> /\ status' = status
      /\ faults' = faults
  BY DEF Reconcile, To, stored
<1>2. /\ sync[s] \in Sync /\ a \in Accounts /\ offset \in Int /\ opened \in SUBSET Accounts
      /\ Visible(s) = row \cup (sync[s].new \X {s})
      /\ Total(Visible(s), a) \in Int
  <2>1. sync[s] \in Sync /\ a \in Accounts
    BY <1>1, SessionOf DEF Placed
  <2>2. Total(Visible(s), a) \in Int /\ sync[s].reported[a] \in Int
    BY <2>1, TotalsAreInt, FieldsOf DEF BankInv
  <2>3. opened \in SUBSET Accounts
    BY <2>1, FieldsOf
  <2>4. Visible(s) = row \cup (sync[s].new \X {s})
    BY DEF Visible
  <2> QED
    BY <2>1, <2>2, <2>3, <2>4
<1>2_0. PICK x \in Sync : x = sync[s]
  BY <1>2
<1>2_1. PICK b \in Accounts : b = a
  BY <1>2
<1>2_2. PICK R : R = row \cup (x.new \X {s})
  OBVIOUS
<1>2_3. PICK n \in Int : n = offset
  BY <1>2
<1>2_4. PICK o \in SUBSET Accounts : o = opened
  BY <1>2
<1>2_5. R = Visible(s) /\ Total(R, b) \in Int
  BY <1>2, <1>2_0, <1>2_1, <1>2_2
<1>3. /\ n = x.reported[b] - Total(R, b)
      /\ x.opened \subseteq o /\ o \subseteq x.opened \cup {b}
      /\ b \in o \/ opening[b] = n
  BY <1>2_0, <1>2_1, <1>2_3, <1>2_4, <1>2_5
<1>4. PICK v : v = z
  OBVIOUS
<1>5. v = [x EXCEPT !.open[b] = n, !.opened = o, !.done = x.done \cup {b}]
  BY <1>4, <1>2_0, <1>2_1, <1>2_3, <1>2_4
<1> HIDE DEF a, offset, opened, z
<1>6. /\ v \in Sync /\ v.cur = b /\ v.at = "charges" /\ v.left = {}
      /\ v.new = x.new /\ v.done = x.done \cup {b} /\ v.opened = o
      /\ v.open = [x.open EXCEPT ![b] = n] /\ v.reported = x.reported
      /\ v.wrote = x.wrote /\ v.gone = x.gone /\ v.alone = x.alone
  <2>1. x.cur = b
    BY <1>2_0, <1>2_1 DEF a
  <2> QED
    BY <1>1, <1>5, <1>2_0, <2>1 DEF Sync
<1>7. PICK y : y = Next1(v)
  OBVIOUS
<1>8. /\ y \in Sync /\ y.at \in {"account", "finish"}
      /\ y.at = "account" => y.cur \in Accounts
      /\ y.new = x.new /\ y.done = x.done \cup {b} /\ y.opened = o
      /\ y.open = [x.open EXCEPT ![b] = n] /\ y.reported = x.reported
      /\ y.wrote = x.wrote /\ y.gone = x.gone /\ y.alone = x.alone
  BY <1>6, <1>7, NextAccount
<1>9. /\ Open(y) = {} /\ Open(x) = {b} /\ Touched(y) = x.done \cup {b} /\ Touched(x) = x.done \cup {b}
      /\ x.at = "charges" /\ x.cur = b /\ x.left = {}
  BY <1>1, <1>8, <1>2_0, <1>2_1 DEF Open, Touched, a
<1>10. Placed(y)
  <2>1. Placed(x)
    BY <1>2_0, SessionOf
  <2> QED
    BY <1>3, <1>8, <1>9, <2>1 DEF Placed
<1>11. ASSUME y.alone, ~y.gone PROVE Settled(s, y, row \cup (y.new \X {s}))
  <2>1. Settled(s, x, R) /\ R = row \cup (y.new \X {s})
    BY <1>1, <1>8, <1>11, <1>2_0, <1>2_2, SessionOf DEF Alone
  <2>2. x.open \in [Accounts -> Int] /\ x.done \subseteq Accounts /\ x.reported[b] \in Int
    BY FieldsOf
  <2>3. \A d \in y.done \ Open(y) :
           /\ y.open[d] = y.reported[d] - Total(R, d)
           /\ d \in y.opened \/ opening[d] = y.open[d]
           /\ \A c \in Charges : AccountOf[c] = d => AtMostOne(R, c)
    <3>1. TAKE d \in y.done \ Open(y)
    <3>2. CASE d = b
      <4>1. \A c \in Charges : AccountOf[c] = b => AtMostOne(R, c)
        BY <1>9, <2>1 DEF Settled
      <4> QED
        BY <1>3, <1>8, <1>2_5, <2>2, <3>2, <4>1
    <3>3. CASE d # b
      <4>1. d \in x.done \ Open(x)
        BY <1>8, <1>9, <3>3
      <4>2. /\ x.open[d] = x.reported[d] - Total(R, d)
            /\ d \in x.opened \/ opening[d] = x.open[d]
            /\ \A c \in Charges : AccountOf[c] = d => AtMostOne(R, c)
        BY <2>1, <4>1 DEF Settled
      <4> QED
        BY <1>3, <1>8, <2>2, <3>3, <4>1, <4>2
    <3> QED
      BY <3>2, <3>3
  <2>4. Settled(s, y, R)
    BY <1>8, <1>9, <2>1, <2>3 DEF Settled
  <2> QED
    BY <2>1, <2>4
<1>12. sync' = [sync EXCEPT ![s] = y] /\ y.gone = sync[s].gone
  BY <1>1, <1>4, <1>7, <1>8, <1>2_0
<1> QED
  BY <1>1, <1>8, <1>2_0, <1>10, <1>11, <1>12, SessionOf, SessionStep

-----------------------------------------------------------------------------
(* A sync that fails, or is killed *)

LEMMA FailKeeps ==
  ASSUME BankInv, NEW s \in Sessions, NEW outcome \in {"error", "expired", "limited"},
         Fail(s, outcome), faults' \in 0 .. MaxFaults
  PROVE  BankInv'
<1>1. /\ sync[s].at # "idle" /\ To(s, Idle)
      /\ UNCHANGED <<bank, account, row, paired, opening, torn>>
      /\ status' = IF sync[s].gone THEN status
                   ELSE IF outcome # "limited" THEN outcome
                   ELSE IF status # "expired" THEN "active"
                   ELSE status
  BY DEF Fail
<1>2. /\ status' \in {"none", "active", "error", "expired"}
      /\ status' = "none" => status = "none"
  BY <1>1, SessionOf
<1> QED
  BY <1>1, <1>2, StopKeeps

LEMMA FailsKeep ==
  ASSUME ChargesAssumption, BankInv, NEW s \in Sessions,
         FailExpired(s) \/ FailProvider(s) \/ FailAmbiguous(s) \/ FailGone(s) \/ Kill(s)
  PROVE  BankInv'
<1>1. faults \in 0 .. MaxFaults /\ status \in {"none", "active", "error", "expired"} /\ MaxFaults \in Nat
  BY SessionOf DEF ChargesAssumption
<1>2. CASE FailExpired(s)
  BY <1>1, <1>2, FailKeeps DEF FailExpired
<1>3. CASE FailProvider(s)
  BY <1>1, <1>3, FailKeeps DEF FailProvider
<1>4. CASE FailAmbiguous(s)
  BY <1>1, <1>4, FailKeeps DEF FailAmbiguous
<1>5. CASE FailGone(s)
  BY <1>1, <1>5, FailKeeps DEF FailGone
<1>6. CASE Kill(s)
  <2>1. /\ sync[s].at # "idle" /\ To(s, Idle) /\ faults' \in 0 .. MaxFaults
        /\ UNCHANGED <<bank, account, row, paired, opening, torn>> /\ status' = status
    BY <1>1, <1>6 DEF Kill, stored
  <2> QED
    BY <1>1, <2>1, StopKeeps
<1> QED
  BY <1>2, <1>3, <1>4, <1>5, <1>6

-----------------------------------------------------------------------------
(* Steps that leave the sessions at work where they are *)

\* What a session is, as far as the invariant looks at it.
Story(x) == <<x.at, x.cur, x.left, x.new, x.reported, x.wrote, x.open, x.opened, x.done>>

LEMMA SettledAfter ==
  ASSUME NEW s \in Sessions, NEW x, NEW R, Visible(s)' = R, Story(sync[s])' = Story(x),
         \A t \in Sessions : t # s => sync'[t].at = "idle",
         \A a \in x.done \ Open(x) :
           /\ x.open[a] = x.reported[a] - Total(R, a)
           /\ a \in x.opened \/ opening'[a] = x.open[a]
           /\ \A c \in Charges : AccountOf[c] = a => AtMostOne(R, c),
         \A a \in Touched(x) : a \in x.wrote \/ account'[a].balance = x.reported[a],
         x.at = "charges" => \A c \in Charges \ x.left : AccountOf[c] = x.cur => AtMostOne(R, c)
  PROVE  Settled(s, sync[s], Visible(s))'
<1>1. /\ sync'[s].at = x.at /\ sync'[s].cur = x.cur /\ sync'[s].left = x.left
      /\ sync'[s].reported = x.reported /\ sync'[s].wrote = x.wrote /\ sync'[s].open = x.open
      /\ sync'[s].opened = x.opened /\ sync'[s].done = x.done
  BY DEF Story
<1>2. Open(sync'[s]) = Open(x) /\ Touched(sync'[s]) = Touched(x)
  BY <1>1 DEF Open, Touched
<1> QED
  BY <1>1, <1>2 DEF Settled

\* A step that touches neither rows nor what the accounts hold: sessions keep
\* their story, may become one of several or lose their connection, and
\* whoever begins is not alone unless all the others are idle.
LEMMA OutsideStep ==
  ASSUME BankInv, bank' \in [consent : BOOLEAN, counted : SUBSET Charges, listed : SUBSET Charges],
         IsFiniteSet(bank'.counted), IsFiniteSet(bank'.listed), bank.listed \subseteq bank'.listed,
         status' \in {"none", "active", "error", "expired"},
         account' \in [Accounts -> [is : {"none", "open", "closed"}, balance : Int]],
         \A a \in Accounts : account'[a].balance = account[a].balance,
         status' = "none" => status = "none" /\ account' = account,
         UNCHANGED <<row, paired, opening, torn>>,
         sync' \in [Sessions -> Sync], faults' \in 0 .. MaxFaults,
         \A s \in Sessions : /\ Story(sync[s])' = Story(sync[s])
                             /\ sync[s].gone => sync'[s].gone
                             /\ sync'[s].alone => sync[s].alone
  PROVE  BankInv'
<1>1. \A s \in Sessions :
         /\ sync'[s].at = sync[s].at /\ sync'[s].cur = sync[s].cur /\ sync'[s].left = sync[s].left
         /\ sync'[s].new = sync[s].new
         /\ sync'[s].reported = sync[s].reported /\ sync'[s].wrote = sync[s].wrote
         /\ sync'[s].open = sync[s].open
         /\ sync'[s].opened = sync[s].opened /\ sync'[s].done = sync[s].done
  BY DEF Story
<1>2. Typed'
  BY <1>1 DEF BankInv, Typed, TypeOK
<1>3. \A s \in Sessions : Placed(sync[s])'
  <2>1. TAKE s \in Sessions
  <2>2. Open(sync'[s]) = Open(sync[s]) /\ Touched(sync'[s]) = Touched(sync[s])
    BY <1>1 DEF Open, Touched
  <2>3. Placed(sync[s])
    BY DEF BankInv
  <2> QED
    BY <1>1, <2>2, <2>3 DEF Placed
<1>4. Deleted'
  BY <1>1 DEF BankInv, Deleted
<1>5. Twins' /\ RowsListed'
  BY DEF BankInv, Twins, RowsListed
<1>6. AllAddUp'
  <2>1. \A a \in Accounts : Alike(a) => Alike(a)'
    BY DEF Alike, Listed
  <2> QED
    BY <2>1 DEF BankInv, AllAddUp, AddsUp, Typed, TypeOK
<1>7. ASSUME NEW s \in Sessions, Alone(s)' PROVE Settled(s, sync[s], Visible(s))'
  <2>1. Alone(s)
    BY <1>1, <1>7 DEF Alone
  <2>2. PICK x, R : x = sync[s] /\ R = Visible(s)
    OBVIOUS
  <2>3. Visible(s)' = R /\ Story(sync[s])' = Story(x)
    BY <1>1, <2>2 DEF Visible
  <2>4. Settled(s, x, R)
    BY <2>1, <2>2 DEF BankInv
  <2>5. Touched(x) \subseteq Accounts /\ \A a \in Touched(x) : account'[a].balance = account[a].balance
    <3>1. x \in Sync /\ Placed(x)
      BY <2>2, SessionOf
    <3>2. Touched(x) \subseteq Accounts
      BY <3>1, FieldsOf DEF Touched, Open, Placed
    <3> QED
      BY <3>2
  <2> QED
    BY <1>1, <2>3, <2>4, <2>5, SettledAfter DEF Settled
<1> QED
  BY <1>2, <1>3, <1>4, <1>5, <1>6, <1>7 DEF BankInv

LEMMA BankTyped ==
  ASSUME BankInv
  PROVE  /\ bank = [consent |-> bank.consent, counted |-> bank.counted, listed |-> bank.listed]
         /\ bank.consent \in BOOLEAN /\ bank.counted \subseteq Charges /\ bank.listed \subseteq Charges
         /\ IsFiniteSet(bank.counted) /\ IsFiniteSet(bank.listed)
         /\ account \in [Accounts -> [is : {"none", "open", "closed"}, balance : Int]]
         /\ faults \in 0 .. MaxFaults /\ status \in {"none", "active", "error", "expired"}
         /\ sync \in [Sessions -> Sync]
  BY DEF BankInv, Typed, TypeOK

\* The user authorises the connection again.
LEMMA ReconnectKeeps ==
  ASSUME BankInv, Reconnect
  PROVE  BankInv'
<1>1. /\ status' = "active" /\ bank' = [bank EXCEPT !.consent = TRUE]
      /\ UNCHANGED <<account, row, paired, opening, torn, sync, faults>>
  BY DEF Reconnect
<1>2. /\ bank' \in [consent : BOOLEAN, counted : SUBSET Charges, listed : SUBSET Charges]
      /\ bank'.counted = bank.counted /\ bank'.listed = bank.listed
  BY <1>1, BankTyped
<1> QED
  BY <1>1, <1>2, BankTyped, OutsideStep DEF Story

\* The bank counts a payment, or lists it.
LEMMA CountsKeep ==
  ASSUME BankInv, NEW c \in Charges, Count(c) \/ List(c)
  PROVE  BankInv'
<1>1. /\ \/ bank' = [bank EXCEPT !.counted = bank.counted \cup {c}]
         \/ bank' = [bank EXCEPT !.listed = bank.listed \cup {c}]
      /\ UNCHANGED <<account, row, paired, opening, torn, sync, faults>> /\ status' = status
  BY DEF Count, List, stored
<1>2. IsFiniteSet(bank.counted \cup {c}) /\ IsFiniteSet(bank.listed \cup {c})
  BY BankTyped, FS_AddElement
<1>3. /\ bank' \in [consent : BOOLEAN, counted : SUBSET Charges, listed : SUBSET Charges]
      /\ IsFiniteSet(bank'.counted) /\ IsFiniteSet(bank'.listed) /\ bank.listed \subseteq bank'.listed
  BY <1>1, <1>2, BankTyped
<1> QED
  BY <1>1, <1>3, BankTyped, OutsideStep DEF Story

\* The consent lapses.
LEMMA LapseKeeps ==
  ASSUME ChargesAssumption, BankInv, Lapse
  PROVE  BankInv'
<1>1. /\ faults' \in 0 .. MaxFaults /\ bank' = [bank EXCEPT !.consent = FALSE]
      /\ sync' = [s \in Sessions |-> [sync[s] EXCEPT !.lapsed = sync[s].at # "idle"]]
      /\ UNCHANGED <<account, row, paired, opening, torn>> /\ status' = status
  BY BankTyped DEF Lapse, stored, ChargesAssumption
<1>2. /\ bank' \in [consent : BOOLEAN, counted : SUBSET Charges, listed : SUBSET Charges]
      /\ bank'.counted = bank.counted /\ bank'.listed = bank.listed
  BY <1>1, BankTyped
<1>3. ASSUME NEW s \in Sessions
      PROVE  /\ sync'[s] \in Sync /\ Story(sync[s])' = Story(sync[s])
             /\ sync'[s].gone = sync[s].gone /\ sync'[s].alone = sync[s].alone
  <2>1. PICK b \in BOOLEAN : b = (sync[s].at # "idle")
    OBVIOUS
  <2>2. PICK x \in Sync : x = sync[s]
    BY BankTyped
  <2>3. sync'[s] = [x EXCEPT !.lapsed = b]
    BY <1>1, <2>1, <2>2
  <2> QED
    BY <2>2, <2>3 DEF Sync, Story
<1>4. sync' \in [Sessions -> Sync]
  BY <1>1, <1>3
<1> QED
  BY <1>1, <1>2, <1>3, <1>4, BankTyped, OutsideStep

LEMMA CloseAccountKeeps ==
  ASSUME ChargesAssumption, BankInv, NEW a \in Accounts, CloseAccount(a)
  PROVE  BankInv'
<1>1. PICK is : is = IF account[a].is = "open" THEN "closed" ELSE "open"
  OBVIOUS
<1>2. /\ account[a].is # "none"
      /\ account' = [account EXCEPT ![a] = [account[a] EXCEPT !.is = is]]
      /\ faults' \in 0 .. MaxFaults
      /\ UNCHANGED <<bank, status, row, paired, opening, torn, sync>>
  BY <1>1, BankTyped DEF CloseAccount, ChargesAssumption
<1>3. is \in {"none", "open", "closed"}
  BY <1>1
<1>4. /\ [account[a] EXCEPT !.is = is] \in [is : {"none", "open", "closed"}, balance : Int]
      /\ [account[a] EXCEPT !.is = is].balance = account[a].balance
  BY <1>3, BankTyped
<1>5. /\ account' \in [Accounts -> [is : {"none", "open", "closed"}, balance : Int]]
      /\ \A b \in Accounts : account'[b].balance = account[b].balance
  BY <1>2, <1>4, BankTyped
<1>6. status # "none"
  BY <1>2 DEF BankInv, Deleted
<1> QED
  BY <1>2, <1>5, <1>6, BankTyped, OutsideStep DEF Story

-----------------------------------------------------------------------------
(* A sync begins; a connection begins, and ends *)

LEMMA BeginKeeps ==
  ASSUME BankInv, NEW s \in Sessions, Begin(s), status # "none", faults' \in 0 .. MaxFaults
  PROVE  BankInv'
<1> DEFINE x == [Idle EXCEPT !.at = "fetch", !.status = status,
                             !.lapsed = ~bank.consent, !.alone = Busy = {}]
<1>1. /\ s \notin Busy
      /\ sync' = [t \in Sessions |-> IF t = s THEN x ELSE [sync[t] EXCEPT !.alone = FALSE]]
      /\ UNCHANGED <<bank, account, row, paired, opening, torn>> /\ status' = status
  BY DEF Begin, stored
<1>2. PICK lapsed \in BOOLEAN, alone \in BOOLEAN : lapsed = ~bank.consent /\ alone = (Busy = {})
  OBVIOUS
<1>3. PICK y : y = x
  OBVIOUS
<1>4. y = [Idle EXCEPT !.at = "fetch", !.status = status, !.lapsed = lapsed, !.alone = alone]
  BY <1>2, <1>3
<1> HIDE DEF x
<1>5. /\ y \in Sync /\ y.at = "fetch" /\ y.new = {} /\ y.done = {} /\ y.wrote = {} /\ y.opened = {}
      /\ y.alone = alone
  <2>1. PICK z \in Sync : z = Idle
    BY IdleTyped
  <2>2. PICK u \in {"none", "active", "error", "expired"} : u = status
    BY BankTyped
  <2>3. z.new = {} /\ z.done = {} /\ z.wrote = {} /\ z.opened = {}
    BY <2>1 DEF Idle
  <2>4. y = [z EXCEPT !.at = "fetch", !.status = u, !.lapsed = lapsed, !.alone = alone]
    BY <1>4, <2>1, <2>2
  <2>5. /\ y.at = "fetch" /\ y.new = z.new /\ y.done = z.done /\ y.wrote = z.wrote
        /\ y.opened = z.opened
    BY <2>4 DEF Sync, Phases
  <2>6. y.alone = alone
    BY <2>4, Zenon DEF Sync
  <2>7. y \in Sync
    BY <2>4 DEF Sync, Phases
  <2> QED
    BY <2>3, <2>5, <2>6, <2>7
<1>6. ASSUME NEW t \in Sessions, t # s
      PROVE  /\ sync'[t] \in Sync /\ Story(sync[t])' = Story(sync[t])
             /\ sync'[t].gone = sync[t].gone /\ ~sync'[t].alone
  <2>1. PICK z \in Sync : z = sync[t]
    BY BankTyped
  <2>2. sync'[t] = [z EXCEPT !.alone = FALSE]
    BY <1>1, <1>6, <2>1
  <2> QED
    BY <2>1, <2>2 DEF Sync, Story
<1>7. sync'[s] = y
  BY <1>1, <1>3
<1>8. sync' \in [Sessions -> Sync]
  BY <1>1, <1>5, <1>6, <1>7
<1>9. \A t \in Sessions : t # s =>
        /\ sync'[t].at = sync[t].at /\ sync'[t].cur = sync[t].cur /\ sync'[t].left = sync[t].left
        /\ sync'[t].new = sync[t].new /\ sync'[t].wrote = sync[t].wrote
        /\ sync'[t].opened = sync[t].opened /\ sync'[t].done = sync[t].done
  BY <1>6 DEF Story
<1>10. Typed'
  <2>1. \A t \in Sessions : IsFiniteSet(sync'[t].new)
    <3>1. TAKE t \in Sessions
    <3>2. CASE t = s
      BY <1>5, <1>7, <3>2, FS_EmptySet
    <3>3. CASE t # s
      BY <1>9, <3>3, SessionOf
    <3> QED
      BY <3>2, <3>3
  <2> QED
    BY <1>1, <1>8, <2>1 DEF BankInv, Typed, TypeOK
<1>11. ASSUME NEW t \in Sessions PROVE Placed(sync[t])'
  <2>1. CASE t = s
    BY <1>5, <1>7, <2>1 DEF Placed, Open, Touched
  <2>2. CASE t # s
    <3>1. Placed(sync[t]) /\ Open(sync'[t]) = Open(sync[t]) /\ Touched(sync'[t]) = Touched(sync[t])
      BY <1>9, <2>2 DEF BankInv, Open, Touched
    <3> QED
      BY <1>1, <1>9, <2>2, <3>1 DEF Placed
  <2> QED
    BY <2>1, <2>2
<1>12. Deleted' /\ Twins' /\ RowsListed' /\ AllAddUp'
  BY <1>1 DEF BankInv, Deleted, Twins, RowsListed, AllAddUp, Alike, Listed, AddsUp
<1>13. ASSUME NEW t \in Sessions, Alone(t)' PROVE Settled(t, sync[t], Visible(t))'
  <2>1. t = s /\ alone
    BY <1>5, <1>6, <1>7, <1>13 DEF Alone
  <2>2. \A u \in Sessions : u # s => sync'[u].at = "idle"
    BY <1>2, <1>9, <2>1 DEF Busy
  <2>3. Open(y) = {} /\ Touched(y) = {}
    BY <1>5 DEF Open, Touched
  <2>4. PICK R : R = Visible(s)'
    OBVIOUS
  <2>5. Settled(s, sync[s], Visible(s))'
    BY <1>5, <1>7, <2>2, <2>3, <2>4, SettledAfter
  <2> QED
    BY <2>1, <2>5
<1> QED
  BY <1>10, <1>11, <1>12, <1>13 DEF BankInv

LEMMA SyncsKeep ==
  ASSUME ChargesAssumption, BankInv, NEW s \in Sessions, SyncStale(s) \/ SyncNow(s)
  PROVE  BankInv'
<1>1. faults \in 0 .. MaxFaults /\ MaxFaults \in Nat
  BY BankTyped DEF ChargesAssumption
<1>2. Begin(s) /\ status # "none" /\ faults' \in 0 .. MaxFaults
  BY <1>1 DEF SyncStale, SyncNow
<1> QED
  BY <1>2, BeginKeeps

\* Nothing is left to a sync of a connection that is gone.
LEMMA DeleteConnectionKeeps ==
  ASSUME ChargesAssumption, BankInv, DeleteConnection
  PROVE  BankInv'
<1>1. /\ status' = "none" /\ account' = [a \in Accounts |-> [is |-> "none", balance |-> 0]]
      /\ row' = {} /\ paired' = {} /\ opening' = [a \in Accounts |-> 0] /\ torn' = {}
      /\ sync' = [s \in Sessions |-> [sync[s] EXCEPT !.gone = sync[s].at # "idle"]]
      /\ faults' \in 0 .. MaxFaults /\ bank' = bank
  BY BankTyped DEF DeleteConnection, ChargesAssumption
<1>2. ASSUME NEW s \in Sessions
      PROVE  /\ sync'[s] \in Sync /\ Story(sync[s])' = Story(sync[s])
             /\ sync'[s].at = sync[s].at
             /\ sync[s].at # "idle" => sync'[s].gone
  <2>1. PICK b \in BOOLEAN : b = (sync[s].at # "idle")
    OBVIOUS
  <2>2. PICK x \in Sync : x = sync[s]
    BY BankTyped
  <2>3. sync'[s] = [x EXCEPT !.gone = b]
    BY <1>1, <2>1, <2>2
  <2> QED
    BY <2>1, <2>2, <2>3 DEF Sync, Story
<1>3. sync' \in [Sessions -> Sync]
  BY <1>1, <1>2
<1>4. \A s \in Sessions :
        /\ sync'[s].at = sync[s].at /\ sync'[s].cur = sync[s].cur /\ sync'[s].left = sync[s].left
        /\ sync'[s].new = sync[s].new /\ sync'[s].wrote = sync[s].wrote
        /\ sync'[s].opened = sync[s].opened /\ sync'[s].done = sync[s].done
  BY <1>2 DEF Story
<1>5. Typed'
  <2>1. /\ account' \in [Accounts -> [is : {"none", "open", "closed"}, balance : Int]]
        /\ opening' \in [Accounts -> Int]
    BY <1>1
  <2>2. /\ \A s \in Sessions : IsFiniteSet(sync'[s].new)
        /\ IsFiniteSet({})
    BY <1>4, FS_EmptySet DEF BankInv, Typed
  <2>3. /\ bank' \in [consent : BOOLEAN, counted : SUBSET Charges, listed : SUBSET Charges]
        /\ IsFiniteSet(bank'.listed) /\ IsFiniteSet(bank'.counted)
    BY <1>1 DEF BankInv, Typed, TypeOK
  <2> QED
    BY <1>1, <1>3, <2>1, <2>2, <2>3 DEF Typed, TypeOK
<1>6. ASSUME NEW s \in Sessions PROVE Placed(sync[s])'
  <2>1. Placed(sync[s]) /\ Open(sync'[s]) = Open(sync[s]) /\ Touched(sync'[s]) = Touched(sync[s])
    BY <1>4 DEF BankInv, Open, Touched
  <2> QED
    BY <1>1, <1>4, <2>1 DEF Placed
<1>7. Deleted' /\ Twins' /\ RowsListed'
  BY <1>1, <1>2 DEF Deleted, Twins, RowsListed
<1>8. AllAddUp'
  <2>1. \A a : Total({}, a) = 0
    BY TotalOfNothing
  <2> QED
    BY <1>1, <2>1 DEF AllAddUp, AddsUp
<1>9. \A s \in Sessions : ~Alone(s)'
  BY <1>2 DEF Alone
<1> QED
  BY <1>5, <1>6, <1>7, <1>8, <1>9 DEF BankInv

\* A new connection reads what the bank has listed, and the rest of the balance
\* is its opening balance.
LEMMA ConnectKeeps ==
  ASSUME NamesAssumption, ChargesAssumption, BankInv, Connect
  PROVE  BankInv'
<1> DEFINE R == bank.listed \X {Callback}
<1>1. /\ status = "none" /\ status' = "active" /\ bank' = [bank EXCEPT !.consent = TRUE]
      /\ account' = [a \in Accounts |-> [is |-> "open", balance |-> BankBalance(a)]]
      /\ row' = R /\ opening' = [a \in Accounts |-> BankBalance(a) - Total(R, a)]
      /\ torn' = {} /\ sync' = sync /\ faults' = faults
      /\ \E M \in Matchings(R, R) : paired' = Legs(M)
  BY DEF Connect
<1>2. /\ bank' \in [consent : BOOLEAN, counted : SUBSET Charges, listed : SUBSET Charges]
      /\ bank'.counted = bank.counted /\ bank'.listed = bank.listed
  BY <1>1, BankTyped
<1>3. R \subseteq RowIds /\ IsFiniteSet(R) /\ \A r \in R : r[1] \in bank.listed /\ r[1] \in Charges
  <2>1. IsFiniteSet({Callback}) /\ IsFiniteSet(bank.listed) /\ bank.listed \subseteq Charges
    BY BankTyped, FS_Singleton
  <2>2. IsFiniteSet(R)
    BY <2>1, FS_Product
  <2> QED
    BY <2>1, <2>2 DEF RowIds
<1>4. \A q, r \in R : q[1] = r[1] => q = r
  OBVIOUS
<1>5. paired' \subseteq R
  <2>1. \A M \in Matchings(R, R) : Legs(M) \subseteq R
    BY DEF Matchings, Couples, Legs
  <2> HIDE DEF R
  <2> QED
    BY <1>1, <2>1
<1> HIDE DEF R
<1>6. \A a \in Accounts : BankBalance(a) \in Int /\ Total(R, a) \in Int
  BY <1>3, BalanceIsInt, TotalIsInt DEF BankInv
<1>7. Typed'
  <2>1. /\ account' \in [Accounts -> [is : {"none", "open", "closed"}, balance : Int]]
        /\ opening' \in [Accounts -> Int]
    BY <1>1, <1>6
  <2>2. \A s \in Sessions : IsFiniteSet(sync'[s].new)
    BY <1>1 DEF BankInv, Typed
  <2> QED
    BY <1>1, <1>2, <1>3, <1>5, <2>1, <2>2, BankTyped DEF Typed, TypeOK
<1>8. \A s \in Sessions : Placed(sync[s])'
  BY <1>1, <1>2 DEF BankInv, Placed, Touched, Open
<1>9. Deleted' /\ Twins' /\ RowsListed'
  BY <1>1, <1>2, <1>3, <1>4 DEF Deleted, Twins, RowsListed
<1>10. AllAddUp'
  BY <1>1, <1>6 DEF AllAddUp, AddsUp
<1>11. \A s \in Sessions : ~Alone(s)'
  BY <1>1 DEF Alone, BankInv, Deleted
<1> QED
  BY <1>7, <1>8, <1>9, <1>10, <1>11 DEF BankInv

-----------------------------------------------------------------------------
(* The two commits of a sync *)

\* What a commit writes, by account.
LEMMA Written ==
  ASSUME BankInv, NEW x \in Sync
  PROVE  /\ Balances(x) \in [Accounts -> [is : {"none", "open", "closed"}, balance : Int]]
         /\ Openings(x) \in [Accounts -> Int]
         /\ \A a \in Accounts :
              /\ a \in x.wrote => Balances(x)[a].balance = x.reported[a]
              /\ a \notin x.wrote => Balances(x)[a] = account[a]
              /\ a \in x.opened => Openings(x)[a] = x.open[a]
              /\ a \notin x.opened => Openings(x)[a] = opening[a]
<1>1. /\ account \in [Accounts -> [is : {"none", "open", "closed"}, balance : Int]]
      /\ opening \in [Accounts -> Int] /\ x.reported \in [Accounts -> Int] /\ x.open \in [Accounts -> Int]
  BY FieldsOf DEF BankInv, Typed, TypeOK
<1>2. ASSUME NEW a \in Accounts
      PROVE  /\ [account[a] EXCEPT !.balance = x.reported[a]] \in [is : {"none", "open", "closed"}, balance : Int]
             /\ [account[a] EXCEPT !.balance = x.reported[a]].balance = x.reported[a]
  <2>1. PICK n \in Int : n = x.reported[a]
    BY <1>1
  <2>2. PICK z \in [is : {"none", "open", "closed"}, balance : Int] : z = account[a]
    BY <1>1
  <2> QED
    BY <2>1, <2>2
<1> QED
  BY <1>1, <1>2 DEF Balances, Openings

\* Two rows of one charge among what a session sees.
LEMMA TwinsSeen ==
  ASSUME BankInv, NEW s \in Sessions, NEW q \in Visible(s), NEW r \in Visible(s), q[1] = r[1], q # r
  PROVE  AccountOf[q[1]] \in torn \cup Touched(sync[s])
<1>1. CASE q \in row /\ r \in row
  BY <1>1 DEF BankInv, Twins
<1>2. CASE q \notin row \/ r \notin row
  <2>1. q[1] \in sync[s].new
    BY <1>2 DEF Visible
  <2> QED
    BY <2>1, SessionOf DEF Placed
<1> QED
  BY <1>1, <1>2

\* Nobody else is at work beside a sync that has run alone.
LEMMA NoOther ==
  ASSUME BankInv, NEW s \in Sessions, NEW t \in Sessions, t # s, sync[s].at # "idle"
  PROVE  ~Alone(t)
  BY DEF BankInv, Settled

\* The rate of a foreign charge commits what the sync has so far.
LEMMA InsertForeignKeeps ==
  ASSUME ChargesAssumption, BankInv, NEW s \in Sessions, NEW c \in Charges, InsertForeign(s, c)
  PROVE  BankInv'
<1>0. sync[s].at = "charges" /\ c \in sync[s].left /\ ~Known(s, c)
  BY DEF InsertForeign
<1>1. PICK y \in Sync :
      /\ y = Inserted(sync[s], c, s) /\ IsFiniteSet(y.new) /\ Placed(y)
      /\ y.at = "charges" /\ y.cur = sync[s].cur /\ y.left = sync[s].left \ {c}
      /\ y.new = sync[s].new \cup {c} /\ y.done = sync[s].done
      /\ y.opened = sync[s].opened /\ y.open = sync[s].open /\ y.reported = sync[s].reported
      /\ y.wrote = sync[s].wrote /\ y.gone = sync[s].gone /\ y.alone = sync[s].alone
      /\ AccountOf[c] = y.cur
      /\ Alone(s) => Settled(s, y, row \cup (y.new \X {s}))
  BY <1>0, Inserting
<1>2. PICK R : R = row \cup (y.new \X {s})
  OBVIOUS
<1>3. PICK z : z = [y EXCEPT !.new = {}, !.wrote = {}, !.opened = {}]
  OBVIOUS
<1>4. /\ sync[s].at = "charges" /\ c \in sync[s].left /\ ~Known(s, c) /\ ~sync[s].gone
      /\ row' = R /\ account' = Balances(y) /\ opening' = Openings(y)
      /\ torn' = torn \cup {AccountOf[c]} \cup (IF y.alone THEN {} ELSE y.done)
      /\ sync' = [sync EXCEPT ![s] = z]
      /\ UNCHANGED <<bank, status, paired, faults>>
  BY <1>1, <1>2, <1>3 DEF InsertForeign, To
<1>5. /\ y \in Sync /\ IsFiniteSet(y.new) /\ Placed(y)
      /\ y.at = "charges" /\ y.cur = sync[s].cur /\ y.left = sync[s].left \ {c}
      /\ y.new = sync[s].new \cup {c} /\ y.done = sync[s].done
      /\ y.opened = sync[s].opened /\ y.open = sync[s].open /\ y.reported = sync[s].reported
      /\ y.wrote = sync[s].wrote /\ y.gone = sync[s].gone /\ y.alone = sync[s].alone
      /\ AccountOf[c] = y.cur
      /\ Alone(s) => Settled(s, y, R)
  BY <1>1, <1>2
<1>6. /\ z \in Sync /\ z.at = "charges" /\ z.cur = y.cur /\ z.left = y.left /\ z.new = {}
      /\ z.done = y.done /\ z.opened = {} /\ z.open = y.open /\ z.reported = y.reported
      /\ z.wrote = {} /\ z.gone = y.gone /\ z.alone = y.alone
  BY <1>3, <1>5 DEF Sync
<1>7. /\ sync \in [Sessions -> Sync] /\ sync' \in [Sessions -> Sync] /\ sync'[s] = z
      /\ \A t \in Sessions : t # s => sync'[t] = sync[t]
  BY <1>4, <1>6, SessionOf
<1>8. /\ Open(y) = {y.cur} /\ Touched(y) = y.done \cup {y.cur}
      /\ Open(z) = Open(y) /\ Touched(z) = Touched(y)
      /\ y.done \subseteq Accounts /\ y.cur \in Accounts
  BY <1>5, <1>6, FieldsOf DEF Open, Touched, Placed
<1>9. R \subseteq RowIds /\ IsFiniteSet(R) /\ row \subseteq R
  <2>1. IsFiniteSet({s})
    BY FS_Singleton
  <2>2. IsFiniteSet(y.new \X {s}) /\ y.new \subseteq Charges
    BY <1>5, <2>1, FS_Product, FieldsOf
  <2>3. IsFiniteSet(R)
    BY <1>2, <2>2, FS_Union, SessionOf
  <2> QED
    BY <1>2, <2>2, <2>3, SessionOf DEF RowIds
<1>10. \A r \in R : r \in row \/ r[1] \in y.new
  BY <1>2
<1>11. /\ Balances(y) \in [Accounts -> [is : {"none", "open", "closed"}, balance : Int]]
       /\ Openings(y) \in [Accounts -> Int]
       /\ \A a \in Accounts :
            /\ a \in y.wrote => Balances(y)[a].balance = y.reported[a]
            /\ a \notin y.wrote => Balances(y)[a] = account[a]
            /\ a \in y.opened => Openings(y)[a] = y.open[a]
            /\ a \notin y.opened => Openings(y)[a] = opening[a]
  BY <1>5, Written
<1>12. Typed'
  <2>1. torn' \subseteq Accounts
    BY <1>4, <1>5, <1>8 DEF BankInv, Typed, TypeOK
  <2>2. \A t \in Sessions : IsFiniteSet(sync'[t].new)
    BY <1>6, <1>7, FS_EmptySet, SessionOf
  <2>3. paired' \subseteq row'
    BY <1>4, <1>9 DEF BankInv, Typed, TypeOK
  <2> QED
    BY <1>4, <1>7, <1>9, <1>11, <2>1, <2>2, <2>3 DEF BankInv, Typed, TypeOK
<1>13. ASSUME NEW t \in Sessions PROVE Placed(sync[t])'
  <2>1. CASE t = s
    <3>1. Placed(z)
      BY <1>5, <1>6, <1>8 DEF Placed
    <3> QED
      BY <1>4, <1>7, <2>1, <3>1 DEF Placed, Touched, Open
  <2>2. CASE t # s
    BY <1>4, <1>7, <2>2, SessionOf DEF Placed, Touched, Open
  <2> QED
    BY <2>1, <2>2
<1>14. Deleted'
  <2>1. status # "none"
    BY <1>4 DEF BankInv, Deleted
  <2> QED
    BY <1>4, <2>1 DEF Deleted
<1>15. RowsListed'
  BY <1>4, <1>5, <1>10 DEF RowsListed, BankInv, Placed
<1>16. ASSUME NEW q \in R, NEW r \in R, q[1] = r[1], q # r PROVE AccountOf[q[1]] \in torn'
  <2>1. CASE q \in row /\ r \in row
    BY <1>4, <1>16, <2>1 DEF BankInv, Twins
  <2>2. CASE q \notin row \/ r \notin row
    <3>1. q[1] \in y.new /\ q[1] \in Charges
      BY <1>5, <1>10, <1>16, <2>2, FieldsOf
    <3>2. AccountOf[q[1]] \in y.done \cup {y.cur}
      BY <1>5, <1>8, <3>1 DEF Placed
    <3>3. ASSUME y.alone, AccountOf[q[1]] # y.cur PROVE FALSE
      <4>1. Settled(s, y, R)
        BY <1>4, <1>5, <3>3 DEF Alone
      <4>2. AtMostOne(R, q[1])
        BY <1>8, <3>1, <3>2, <3>3, <4>1 DEF Settled
      <4> QED
        BY <1>16, <4>2 DEF AtMostOne
    <3> QED
      BY <1>4, <1>5, <3>2, <3>3
  <2> QED
    BY <2>1, <2>2
<1>17. Twins'
  BY <1>4, <1>16 DEF Twins
<1>18. ASSUME NEW a \in Accounts, a \notin torn', ~Alike(a)' PROVE AddsUp(a)'
  <2>1. a \notin torn /\ a # y.cur /\ ~Alike(a)
    BY <1>4, <1>5, <1>18 DEF Alike, Listed
  <2>2. CASE a \in y.done
    <3>1. y.alone /\ Settled(s, y, R)
      BY <1>4, <1>5, <1>18, <2>2 DEF Alone
    <3>2. /\ y.open[a] = y.reported[a] - Total(R, a)
          /\ a \in y.opened \/ opening[a] = y.open[a]
          /\ a \in y.wrote \/ account[a].balance = y.reported[a]
      BY <1>8, <2>1, <2>2, <3>1 DEF Settled
    <3>3. opening'[a] = y.open[a] /\ account'[a].balance = y.reported[a]
      BY <1>4, <1>11, <3>2
    <3>4. Total(R, a) \in Int
      BY <1>9, TotalIsInt DEF RowIds
    <3>5. y.reported[a] \in Int
      BY <1>5, FieldsOf
    <3>6. Total(R, a) + opening'[a] = account'[a].balance
      BY <3>2, <3>3, <3>4, <3>5
    <3> QED
      BY <1>4, <3>6 DEF AddsUp
  <2>3. CASE a \notin y.done
    <3>1. \A r \in R : AccountOf[r[1]] = a => r \in row
      BY <1>5, <1>8, <1>10, <2>1, <2>3 DEF Placed
    <3>2. RowsIn(R, a) = RowsIn(row, a)
      BY <1>9, <3>1 DEF RowsIn
    <3>3. Total(R, a) = Total(row, a)
      BY <3>2, TotalOfOwnRows
    <3>4. a \notin y.wrote /\ a \notin y.opened
      BY <1>5, <1>8, <2>1, <2>3 DEF Placed
    <3>5. opening'[a] = opening[a] /\ account'[a] = account[a]
      BY <1>4, <1>11, <3>4
    <3>6. Total(row, a) + opening[a] = account[a].balance
      BY <2>1 DEF BankInv, AllAddUp, AddsUp
    <3> QED
      BY <1>4, <3>3, <3>5, <3>6 DEF AddsUp
  <2> QED
    BY <2>2, <2>3
<1>19. ASSUME NEW t \in Sessions, Alone(t)' PROVE Settled(t, sync[t], Visible(t))'
  <2>1. t = s
    BY <1>4, <1>7, <1>19, NoOther DEF Alone
  <2>2. y.alone /\ Settled(s, y, R)
    BY <1>4, <1>5, <1>6, <1>7, <1>19, <2>1 DEF Alone
  <2>3. Visible(s)' = R
    <3>1. z.new \X {s} = {}
      BY <1>6
    <3>2. Visible(s)' = R \cup (z.new \X {s})
      BY <1>4, <1>7 DEF Visible
    <3> QED
      BY <3>1, <3>2
  <2>4. \A a \in z.done \ Open(z) :
           /\ z.open[a] = z.reported[a] - Total(R, a)
           /\ a \in z.opened \/ opening'[a] = z.open[a]
           /\ \A d \in Charges : AccountOf[d] = a => AtMostOne(R, d)
    <3>1. TAKE a \in z.done \ Open(z)
    <3>2. a \in y.done \ Open(y) /\ a \in Accounts
      BY <1>6, <1>8
    <3>3. /\ y.open[a] = y.reported[a] - Total(R, a)
          /\ a \in y.opened \/ opening[a] = y.open[a]
          /\ \A d \in Charges : AccountOf[d] = a => AtMostOne(R, d)
      BY <2>2, <3>2 DEF Settled
    <3>4. opening'[a] = y.open[a]
      BY <1>4, <1>11, <3>2, <3>3
    <3> QED
      BY <1>6, <3>3, <3>4
  <2>5. \A a \in Touched(z) : a \in z.wrote \/ account'[a].balance = z.reported[a]
    <3>1. TAKE a \in Touched(z)
    <3>2. a \in Accounts /\ (a \in y.wrote \/ account[a].balance = y.reported[a])
      BY <1>8, <2>2 DEF Settled
    <3> QED
      BY <1>4, <1>6, <1>11, <3>2
  <2>6. \A d \in Charges \ z.left : AccountOf[d] = z.cur => AtMostOne(R, d)
    BY <1>5, <1>6, <2>2 DEF Settled
  <2>7. \A u \in Sessions : u # s => sync'[u].at = "idle"
    BY <1>7, <2>2 DEF Settled
  <2>8. Settled(s, sync[s], Visible(s))'
    BY <1>7, <2>3, <2>4, <2>5, <2>6, <2>7, SettledAfter
  <2> QED
    BY <2>1, <2>8
<1> QED
  BY <1>12, <1>13, <1>14, <1>15, <1>17, <1>18, <1>19 DEF BankInv, AllAddUp

\* A second report that the clean-up removes: another row of its account has its
\* amount, so the account is one of look-alike charges unless both rows are of
\* one charge.
LEMMA SecondsAlike ==
  ASSUME BankInv, NEW s \in Sessions, NEW P, P \subseteq Visible(s),
         NEW r \in SecondReports(Visible(s), P), ~Alike(AccountOf[r[1]])
  PROVE  \E q \in Visible(s) : q[1] = r[1] /\ q # r
<1>1. PICK q \in P : AccountOf[q[1]] = AccountOf[r[1]] /\ Amount[q[1]] = Amount[r[1]]
  BY DEF SecondReports
<1>2. r \in Visible(s) /\ r \notin P
  BY DEF SecondReports
<1>3. \A v \in Visible(s) : v[1] \in bank.listed
  BY SessionOf DEF Visible, BankInv, RowsListed, Placed
<1>4. q[1] = r[1]
  BY <1>1, <1>2, <1>3 DEF Alike, Listed
<1> QED
  BY <1>1, <1>2, <1>4

\* The end of a sync: pairs, second reports, commit.
LEMMA FinishKeeps ==
  ASSUME ChargesAssumption, BankInv, NEW s \in Sessions, Finish(s)
  PROVE  BankInv'
<1>1. PICK x \in Sync : x = sync[s]
  BY SessionOf
<1>2. PICK R : R = Visible(s)
  OBVIOUS
<1>3. PICK M \in IF x.fresh = {} THEN {{}} ELSE Matchings(R, x.fresh \cap R) :
         row' = R \ SecondReports(R, paired \cup Legs(M)) /\ paired' = paired \cup Legs(M)
  BY <1>1, <1>2 DEF Finish
<1>4. /\ x.at = "finish" /\ ~x.gone
      /\ account' = Balances(x) /\ opening' = Openings(x)
      /\ torn' = IF x.alone THEN torn \ x.done ELSE torn \cup x.done
      /\ status' = IF x.status # "active" THEN "active" ELSE status
      /\ sync' = [sync EXCEPT ![s] = Idle]
      /\ UNCHANGED <<bank, faults>>
  BY <1>1 DEF Finish, To
<1>5. /\ Open(x) = {} /\ Touched(x) = x.done /\ x.done \subseteq Accounts
      /\ x.wrote \subseteq x.done /\ x.opened \subseteq x.done
      /\ \A c \in x.new : AccountOf[c] \in x.done /\ c \in bank.listed
      /\ x.new \subseteq Charges
  <2>1. Open(x) = {} /\ Touched(x) = x.done /\ x.done \subseteq Accounts /\ x.new \subseteq Charges
    BY <1>4, FieldsOf DEF Open, Touched
  <2> QED
    <3>1. Placed(x)
      BY <1>1, SessionOf
    <3> QED
      BY <2>1, <3>1 DEF Placed
<1>6. /\ sync \in [Sessions -> Sync] /\ sync' \in [Sessions -> Sync] /\ sync'[s] = Idle
      /\ \A t \in Sessions : t # s => sync'[t] = sync[t]
  BY <1>4, SessionOf, IdleTyped
<1>7. R \subseteq RowIds /\ IsFiniteSet(R) /\ R = row \cup (x.new \X {s})
  BY <1>1, <1>2, VisibleFinite DEF BankInv, Visible
<1>8. paired' \subseteq R
  <2>1. Legs(M) \subseteq R
    <3>1. M \subseteq R \X R
      BY <1>3 DEF Matchings, Couples
    <3> QED
      BY <3>1 DEF Legs
  <2>2. paired \subseteq R
    BY <1>7 DEF BankInv, Typed, TypeOK
  <2> QED
    BY <1>3, <2>1, <2>2
<1>9. row' = R \ SecondReports(R, paired') /\ row' \subseteq R /\ paired' \subseteq row'
  BY <1>3, <1>8 DEF SecondReports
<1>10. /\ Balances(x) \in [Accounts -> [is : {"none", "open", "closed"}, balance : Int]]
       /\ Openings(x) \in [Accounts -> Int]
       /\ \A a \in Accounts :
            /\ a \in x.wrote => Balances(x)[a].balance = x.reported[a]
            /\ a \notin x.wrote => Balances(x)[a] = account[a]
            /\ a \in x.opened => Openings(x)[a] = x.open[a]
            /\ a \notin x.opened => Openings(x)[a] = opening[a]
  BY Written
<1>11. status # "none" /\ status' \in {"none", "active", "error", "expired"} /\ status' # "none"
  <2>1. status # "none"
    BY <1>1, <1>4 DEF BankInv, Deleted
  <2> QED
    BY <1>4, <2>1, SessionOf
<1>12. Typed'
  <2>1. torn' \subseteq Accounts
    BY <1>4, <1>5 DEF BankInv, Typed, TypeOK
  <2>2. \A t \in Sessions : IsFiniteSet(sync'[t].new)
    BY <1>6, IdlePlaced, SessionOf
  <2>3. IsFiniteSet(row') /\ row' \subseteq RowIds
    BY <1>7, <1>9, FS_Subset
  <2>4. /\ bank' \in [consent : BOOLEAN, counted : SUBSET Charges, listed : SUBSET Charges]
        /\ IsFiniteSet(bank'.listed) /\ IsFiniteSet(bank'.counted) /\ faults' \in 0 .. MaxFaults
    BY <1>4 DEF BankInv, Typed, TypeOK
  <2> QED
    BY <1>4, <1>6, <1>9, <1>10, <1>11, <2>1, <2>2, <2>3, <2>4 DEF Typed, TypeOK
<1>13. ASSUME NEW t \in Sessions PROVE Placed(sync[t])'
  <2>1. CASE t = s
    BY <1>6, <2>1 DEF Placed, Idle, Open, Touched
  <2>2. CASE t # s
    BY <1>4, <1>6, <2>2, SessionOf DEF Placed, Touched, Open
  <2> QED
    BY <2>1, <2>2
<1>14. Deleted'
  BY <1>11 DEF Deleted
<1>15. RowsListed'
  BY <1>4, <1>5, <1>7, <1>9 DEF RowsListed, BankInv
<1>16. ASSUME x.alone PROVE Settled(s, x, R)
  BY <1>1, <1>4, <1>7, <1>16, SessionOf DEF Alone
<1>17. ASSUME NEW q \in R, NEW r \in R, q[1] = r[1], q # r
       PROVE  /\ AccountOf[q[1]] \in torn'
              /\ AccountOf[q[1]] \in torn \cup x.done
  <2>1. q[1] \in Charges /\ AccountOf[q[1]] \in torn \cup x.done
    BY <1>1, <1>2, <1>5, <1>7, <1>17, TwinsSeen DEF RowIds
  <2>2. ~(x.alone /\ AccountOf[q[1]] \in x.done)
    <3>1. SUFFICES ASSUME x.alone, AccountOf[q[1]] \in x.done PROVE FALSE
      OBVIOUS
    <3>2. AtMostOne(R, q[1])
      BY <1>5, <1>16, <2>1, <3>1 DEF Settled
    <3> QED
      BY <1>17, <3>2 DEF AtMostOne
  <2> QED
    BY <1>4, <2>1, <2>2
<1>18. Twins'
  BY <1>9, <1>17 DEF Twins
<1>19. ASSUME NEW a \in Accounts, a \notin torn', ~Alike(a)' PROVE AddsUp(a)'
  <2>1. ~Alike(a)
    BY <1>4, <1>19 DEF Alike, Listed
  <2>2. \A r \in R : AccountOf[r[1]] = a => r \in row'
    <3>1. SUFFICES ASSUME NEW r \in R, AccountOf[r[1]] = a, r \in SecondReports(R, paired')
                   PROVE  FALSE
      BY <1>9
    <3>2. PICK q \in R : q[1] = r[1] /\ q # r
      BY <1>2, <1>8, <2>1, <3>1, SecondsAlike
    <3> QED
      BY <1>17, <1>19, <3>1, <3>2
  <2>3. RowsIn(row', a) = RowsIn(R, a)
    BY <1>9, <2>2 DEF RowsIn
  <2>4. Total(row', a) = Total(R, a)
    BY <2>3, TotalOfOwnRows
  <2>5. CASE a \in x.done
    <3>1. x.alone /\ Settled(s, x, R)
      BY <1>4, <1>16, <1>19, <2>5
    <3>2. /\ x.open[a] = x.reported[a] - Total(R, a)
          /\ a \in x.opened \/ opening[a] = x.open[a]
          /\ a \in x.wrote \/ account[a].balance = x.reported[a]
      BY <1>5, <2>5, <3>1 DEF Settled
    <3>3. opening'[a] = x.open[a] /\ account'[a].balance = x.reported[a]
      BY <1>4, <1>10, <3>2
    <3>4. Total(R, a) \in Int
      BY <1>7, TotalIsInt DEF RowIds
    <3>5. x.reported[a] \in Int
      BY FieldsOf
    <3>6. Total(R, a) + opening'[a] = account'[a].balance
      BY <3>2, <3>3, <3>4, <3>5
    <3> QED
      BY <2>4, <3>6 DEF AddsUp
  <2>6. CASE a \notin x.done
    <3>1. RowsIn(R, a) = RowsIn(row, a)
      BY <1>5, <1>7, <2>6 DEF RowsIn
    <3>2. Total(R, a) = Total(row, a)
      BY <3>1, TotalOfOwnRows
    <3>3. a \notin x.wrote /\ a \notin x.opened /\ a \notin torn
      BY <1>4, <1>5, <1>19, <2>6
    <3>4. opening'[a] = opening[a] /\ account'[a] = account[a]
      BY <1>4, <1>10, <3>3
    <3>5. Total(row, a) + opening[a] = account[a].balance
      BY <2>1, <3>3 DEF BankInv, AllAddUp, AddsUp
    <3> QED
      BY <2>4, <3>2, <3>4, <3>5 DEF AddsUp
  <2> QED
    BY <2>5, <2>6
<1>20. \A t \in Sessions : ~Alone(t)'
  <2>1. ~Alone(s)'
    BY <1>6, IdlePlaced DEF Alone
  <2>2. \A t \in Sessions : t # s => ~Alone(t)'
    BY <1>1, <1>4, <1>6, NoOther DEF Alone
  <2> QED
    BY <2>1, <2>2
<1> QED
  BY <1>12, <1>13, <1>14, <1>15, <1>18, <1>19, <1>20 DEF BankInv, AllAddUp

-----------------------------------------------------------------------------
(* The invariant, from the first state on *)

LEMMA InitHolds ==
  ASSUME NamesAssumption, ChargesAssumption, Init
  PROVE  BankInv
<1>1. /\ bank = [consent |-> FALSE, counted |-> {}, listed |-> {}] /\ status = "none"
      /\ account = [a \in Accounts |-> [is |-> "none", balance |-> 0]]
      /\ row = {} /\ paired = {} /\ opening = [a \in Accounts |-> 0] /\ torn = {}
      /\ sync = [s \in Sessions |-> Idle] /\ faults = 0
  BY DEF Init
<1>2. Typed
  <2>1. sync \in [Sessions -> Sync] /\ \A s \in Sessions : IsFiniteSet(sync[s].new)
    BY <1>1, IdleTyped, IdlePlaced
  <2>2. /\ account \in [Accounts -> [is : {"none", "open", "closed"}, balance : Int]]
        /\ opening \in [Accounts -> Int] /\ faults \in 0 .. MaxFaults
    BY <1>1 DEF ChargesAssumption
  <2> QED
    BY <1>1, <2>1, <2>2, FS_EmptySet DEF Typed, TypeOK
<1>3. \A s \in Sessions : Placed(sync[s]) /\ sync[s].at = "idle"
  BY <1>1, IdlePlaced
<1>4. Deleted /\ Twins /\ RowsListed
  BY <1>1, <1>3 DEF Deleted, Twins, RowsListed
<1>5. \A a : Total({}, a) = 0
  BY TotalOfNothing
<1>6. AllAddUp
  BY <1>1, <1>5 DEF AllAddUp, AddsUp
<1> QED
  BY <1>2, <1>3, <1>4, <1>6 DEF BankInv, Alone

LEMMA Moves ==
  ASSUME Next
  PROVE  \/ \E s \in Sessions : SyncStale(s) \/ SyncNow(s)
         \/ \E s \in Sessions : Fetch(s) \/ TakeAccount(s) \/ Reconcile(s) \/ Finish(s)
         \/ \E s \in Sessions, c \in Charges : SkipCharge(s, c) \/ InsertCharge(s, c) \/ InsertForeign(s, c)
         \/ \E s \in Sessions : FailExpired(s) \/ FailProvider(s) \/ FailAmbiguous(s) \/ FailGone(s) \/ Kill(s)
         \/ Connect \/ Reconnect \/ DeleteConnection
         \/ \E a \in Accounts : CloseAccount(a)
         \/ Lapse
         \/ \E c \in Charges : Count(c) \/ List(c)
  BY NamesAssumption DEF Next, Run, User, Bank

LEMMA StutterKeeps ==
  ASSUME BankInv, UNCHANGED vars
  PROVE  BankInv'
<1>1. /\ UNCHANGED <<row, paired, opening, torn>> /\ bank' = bank /\ account' = account
      /\ sync' = sync /\ status' = status /\ faults' = faults
  BY DEF vars
<1>2. bank \in [consent : BOOLEAN, counted : SUBSET Charges, listed : SUBSET Charges]
  BY DEF BankInv, Typed, TypeOK
<1> QED
  BY <1>1, <1>2, BankTyped, OutsideStep DEF Story

\* The invariant: between syncs, and while one runs alone, every account adds up
\* or is known to be torn.
THEOREM BankHolds == Spec => []BankInv
<1>1. Init => BankInv
  BY InitHolds, NamesAssumption, ChargesAssumption
<1>2. BankInv /\ [Next]_vars => BankInv'
  <2> SUFFICES ASSUME BankInv, [Next]_vars PROVE BankInv'
    OBVIOUS
  <2>1. CASE UNCHANGED vars
    BY <2>1, StutterKeeps
  <2>2. CASE Next
    <3>1. ASSUME NEW s \in Sessions, Fetch(s) \/ TakeAccount(s) \/ Reconcile(s) \/ Finish(s)
          PROVE  BankInv'
      BY <3>1, FetchKeeps, TakeAccountKeeps, ReconcileKeeps, FinishKeeps,
         NamesAssumption, ChargesAssumption
    <3>2. ASSUME NEW s \in Sessions, NEW c \in Charges,
                 SkipCharge(s, c) \/ InsertCharge(s, c) \/ InsertForeign(s, c)
          PROVE  BankInv'
      BY <3>2, SkipChargeKeeps, InsertChargeKeeps, InsertForeignKeeps, ChargesAssumption
    <3>3. ASSUME NEW s \in Sessions,
                 \/ SyncStale(s) \/ SyncNow(s)
                 \/ FailExpired(s) \/ FailProvider(s) \/ FailAmbiguous(s) \/ FailGone(s) \/ Kill(s)
          PROVE  BankInv'
      BY <3>3, SyncsKeep, FailsKeep, ChargesAssumption
    <3>4. ASSUME Connect \/ Reconnect \/ DeleteConnection \/ Lapse PROVE BankInv'
      BY <3>4, ConnectKeeps, ReconnectKeeps, DeleteConnectionKeeps, LapseKeeps,
         NamesAssumption, ChargesAssumption
    <3>5. ASSUME NEW a \in Accounts, CloseAccount(a) PROVE BankInv'
      BY <3>5, CloseAccountKeeps, ChargesAssumption
    <3>6. ASSUME NEW c \in Charges, Count(c) \/ List(c) PROVE BankInv'
      BY <3>6, CountsKeep
    <3> QED
      BY <2>2, Moves, <3>1, <3>2, <3>3, <3>4, <3>5, <3>6
  <2> QED
    BY <2>1, <2>2
<1> QED
  BY <1>1, <1>2, PTL DEF Spec

\* Every variable keeps its type, whatever fails or is deleted on the way.
THEOREM BankTypeCorrect == Spec => []TypeOK
<1>1. BankInv => TypeOK
  BY DEF BankInv, Typed
<1> QED
  BY <1>1, BankHolds, PTL

\* The rows of an account and its opening balance add up to the balance the bank
\* has reported, after every commit and every failure, but where a commit on the
\* way or two syncs at once have torn the account, or two of its charges are
\* alike (_sync_connection_internal, sync_opening_balance_for_connected_account).
THEOREM AddsUpStands == Spec => []AddsUpBetweenSyncs
<1>1. BankInv => AddsUpBetweenSyncs
  BY DEF BankInv, AllAddUp, AddsUpBetweenSyncs
<1> QED
  BY <1>1, BankHolds, PTL

\* Nothing of a connection outlives it, although a sync of it may be running
\* when it is deleted (delete_connection).
THEOREM DeletedStands == Spec => []DeletedStaysDeleted
<1>1. BankInv => DeletedStaysDeleted
  BY DEF BankInv, Deleted, DeletedStaysDeleted
<1> QED
  BY <1>1, BankHolds, PTL

-----------------------------------------------------------------------------
(* THREE: what members share.                                             *)

\* The ledger's own copies of what the libraries define.
LEMMA LedgerSets == \A S : (L!IsFiniteSet(S) <=> IsFiniteSet(S)) /\ L!Cardinality(S) = Cardinality(S)
  BY DEF L!IsFiniteSet, IsFiniteSet, L!Cardinality, Cardinality

LEMMA LedgerSums ==
  /\ \A f, S : L!SumFunctionOnSet(f, S) = SumOver(f, S)
  /\ \A f : L!SumFunction(f) = SumOver(f, DOMAIN f)
<1>1. ASSUME NEW f, NEW S PROVE L!SumFunctionOnSet(f, S) = SumOver(f, S)
  <2> DEFINE F(h) == [s \in SUBSET S |-> IF s = {} THEN 0 ELSE f[Some(s)] + h[s \ {Some(s)}]]
  <2>1. L!SumFunctionOnSet(f, S) = (CHOOSE h : h = F(h))[S]
    BY Zenon DEF L!SumFunctionOnSet, L!FoldFunctionOnSet, L!MapThenFoldSet, Some
  <2>2. \A h : AddsUpOn(f, S, h) <=> h = F(h)
    BY DEF AddsUpOn
  <2>3. (CHOOSE h : h = F(h)) = (CHOOSE h : AddsUpOn(f, S, h))
    <3> HIDE DEF F
    <3> QED
      BY <2>2, Zenon
  <2> HIDE DEF F
  <2> QED
    BY <2>1, <2>3 DEF SumOver
<1> QED
  BY <1>1 DEF L!SumFunction

-----------------------------------------------------------------------------
\* The group: its members are finitely many and at most one is the owner himself.
Grouped ==
  /\ member \in [Members -> [in : BOOLEAN, user : Users \cup {Nobody}, self : BOOLEAN]]
  /\ IsFiniteSet(L!People)
  /\ \A m, n \in L!Self : m = n

Booking ==
  /\ entry \in [Entries -> [payer : Users \cup {Nobody}, kind : {"debit", "credit"},
                            amount : Amounts \cup {0}, mark : {"plain", "off", "pair"}]]
  /\ \A r \in L!Booked : entry[r].amount \in Amounts
  /\ IsFiniteSet(L!Booked)
  /\ drifted \subseteq L!Booked

\* What f may be as the shares of a total: nothing, or the total among members.
Fits(f, total) ==
  /\ f \in [DOMAIN f -> Int] /\ DOMAIN f \subseteq L!People
  /\ f # L!NoShares => SumOver(f, DOMAIN f) = total

\* A row whose amount changed alone keeps shares of another total.
Splitting ==
  /\ share = [r \in Entries |-> share[r]]
  /\ \A r \in Entries : /\ \E total \in Int : Fits(share[r], total)
                        /\ r \notin drifted => Fits(share[r], entry[r].amount)
                        /\ r \notin L!Booked => share[r] = L!NoShares

Settling ==
  /\ settled \in [Settlements -> [from : Members \cup {Nobody}, to : Members \cup {Nobody},
                                  amount : Nat]]
  /\ IsFiniteSet(L!Recorded)
  /\ \A s \in L!Recorded : {settled[s].from, settled[s].to} \subseteq L!People

LedgerInv ==
  /\ Grouped /\ Booking /\ Splitting /\ Settling
  /\ cash \in [Users -> Nat] /\ open \subseteq Users

LEMMA NothingFits == \A total \in Int : Fits(L!NoShares, total)
  BY DEF Fits, L!NoShares

LEMMA AtMostOneIsOne ==
  ASSUME NEW S, \A m, n \in S : m = n
  PROVE  L!Cardinality(S) <= 1
<1>1. CASE S = {}
  BY <1>1, LedgerSets, FS_EmptySet
<1>2. CASE S # {}
  <2>1. PICK m \in S : TRUE
    BY <1>2
  <2>2. S = {m}
    BY <2>1
  <2>3. Cardinality({m}) = 1
    BY FS_Singleton
  <2> QED
    BY <2>2, <2>3, LedgerSets
<1> QED
  BY <1>1, <1>2

LEMMA LedgerIsTyped ==
  ASSUME LedgerInv
  PROVE  L!TypeOK /\ L!SharesCover
<1>1. L!Cardinality(L!Self) <= 1
  BY AtMostOneIsOne DEF LedgerInv, Grouped
<1>2. ASSUME NEW r \in Entries PROVE L!Parties(r) \subseteq L!People /\ \A m \in L!Parties(r) : share[r][m] \in Int
  BY DEF LedgerInv, Splitting, Fits, L!Parties
<1>3. L!TypeOK
  BY <1>1, <1>2 DEF L!TypeOK, LedgerInv, Grouped, Booking, Splitting, Settling
<1>4. ASSUME NEW r \in Entries \ drifted, share[r] # L!NoShares
      PROVE  L!SumFunction(share[r]) = entry[r].amount
  BY <1>4, LedgerSums DEF LedgerInv, Splitting, Fits
<1> QED
  BY <1>3, <1>4 DEF L!SharesCover

-----------------------------------------------------------------------------
\* However the others were rounded, the last share makes up the total.
LEMMA ResidualCovers ==
  ASSUME NEW S, IsFiniteSet(S), NEW f \in [S -> Int], NEW total \in Int, NEW last \in S
  PROVE  /\ L!Residual(f, total, last) \in [S -> Int]
         /\ SumOver(L!Residual(f, total, last), S) = total
<1> DEFINE T == S \ {last}
           rest == SumOver(f, T)
           g == [f EXCEPT ![last] = total - rest]
<1>1. L!Residual(f, total, last) = g
  BY LedgerSums DEF L!Residual
<1>2. IsFiniteSet(T) /\ T \subseteq S
  BY FS_Subset
<1>3. rest \in Int
  <2>1. \A x \in T : f[x] \in Int
    OBVIOUS
  <2> HIDE DEF T
  <2> QED
    BY <1>2, <2>1, SumIsInt
<1> HIDE DEF rest
<1>4. g \in [S -> Int] /\ g[last] = total - rest /\ \A x \in T : g[x] = f[x]
  BY <1>3
<1>5. SumOver(g, S) = g[last] + SumOver(g, T)
  <2> HIDE DEF g
  <2> QED
    BY <1>4, SumTakesOut
<1>6. SumOver(g, T) = rest
  <2> HIDE DEF g, T
  <2> QED
    BY <1>2, <1>4, SumSame DEF rest
<1> HIDE DEF g, T
<1> QED
  BY <1>1, <1>3, <1>4, <1>5, <1>6

LEMMA HalfUpIsInt == \A n \in Int, d \in Nat \ {0} : L!HalfUp(n, d) \in Int
  BY DEF L!HalfUp

LEMMA EqualFits ==
  ASSUME NEW S, IsFiniteSet(S), S \subseteq L!People, NEW total \in Int, NEW last \in S
  PROVE  Fits(L!Equal(total, S, last), total) /\ DOMAIN L!Equal(total, S, last) = S
<1> DEFINE f == [m \in S |-> L!HalfUp(total, L!Cardinality(S))]
<1>1. L!Cardinality(S) \in Nat \ {0}
  BY LedgerSets, FS_CardinalityType, FS_EmptySet
<1>2. f \in [S -> Int]
  BY <1>1, HalfUpIsInt
<1> HIDE DEF f
<1>3. /\ L!Residual(f, total, last) \in [S -> Int]
      /\ SumOver(L!Residual(f, total, last), S) = total
  BY <1>2, ResidualCovers
<1>4. L!Equal(total, S, last) = L!Residual(f, total, last)
  BY DEF L!Equal, f
<1>5. DOMAIN L!Residual(f, total, last) = S
  BY <1>3
<1> QED
  BY <1>3, <1>4, <1>5 DEF Fits

LEMMA PercentFits ==
  ASSUME NEW S, IsFiniteSet(S), S \subseteq L!People, NEW total \in Int, NEW last \in S,
         L!AmountsAssumption, NEW p \in L!Divisions(S)
  PROVE  Fits(L!Percent(total, p, last), total) /\ DOMAIN L!Percent(total, p, last) = S
<1> DEFINE f == [m \in S |-> L!HalfUp(total * p[m], 100)]
<1>1. p \in [S -> Percents] /\ Percents \subseteq Int
  BY DEF L!Divisions, L!AmountsAssumption
<1>2. ASSUME NEW m \in S PROVE total * p[m] \in Int
  <2>1. PICK k \in Int : k = p[m]
    BY <1>1
  <2> QED
    BY <2>1
<1>3. f \in [S -> Int]
  BY <1>2, HalfUpIsInt
<1>4. L!Percent(total, p, last) = L!Residual(f, total, last)
  BY <1>1 DEF L!Percent
<1> HIDE DEF f
<1>5. /\ L!Residual(f, total, last) \in [S -> Int]
      /\ SumOver(L!Residual(f, total, last), S) = total
  BY <1>3, ResidualCovers
<1>6. DOMAIN L!Residual(f, total, last) = S
  BY <1>5
<1> QED
  BY <1>4, <1>5, <1>6 DEF Fits

LEMMA MaterializedFits ==
  ASSUME L!AmountsAssumption, IsFiniteSet(L!People), NEW u, NEW total \in Nat, NEW S,
         NEW f \in L!Materialized(u, total, S)
  PROVE  Fits(f, total)
<1>1. CASE S = {}
  BY <1>1, NothingFits DEF L!Materialized
<1>2. CASE S # {}
  <2>1. L!MaySplit(u, S)
    BY <1>2 DEF L!Materialized
  <2>2. S \subseteq L!People /\ IsFiniteSet(S)
    BY <2>1, FS_Subset DEF L!MaySplit
  <2>3. CASE \E last \in S : f = L!Equal(total, S, last)
    BY <2>2, <2>3, EqualFits
  <2>4. CASE \E p \in L!Divisions(S), last \in S : f = L!Percent(total, p, last)
    BY <2>2, <2>4, PercentFits
  <2>5. CASE f \in L!Exact(total, S)
    <3>1. f \in [S -> 0 .. total] /\ L!SumFunction(f) = total
      BY <2>5 DEF L!Exact
    <3>2. DOMAIN f = S /\ f \in [S -> Int]
      BY <3>1
    <3> QED
      BY <2>2, <3>1, <3>2, LedgerSums DEF Fits
  <2> QED
    BY <1>2, <2>1, <2>3, <2>4, <2>5 DEF L!Materialized
<1> QED
  BY <1>1, <1>2

-----------------------------------------------------------------------------
LEMMA LedgerStarts == L!Init => LedgerInv
<1> SUFFICES ASSUME L!Init PROVE LedgerInv
  OBVIOUS
<1>1. L!People = {} /\ L!Booked = {} /\ L!Recorded = {} /\ L!Self = {}
  BY DEF L!Init, L!People, L!Booked, L!Recorded, L!Self, L!NoMember
<1>2. Grouped
  BY <1>1, FS_EmptySet DEF Grouped, L!Init, L!NoMember
<1>3. Booking
  BY <1>1, FS_EmptySet DEF Booking, L!Init, L!NoRow
<1>4. Splitting
  <2>1. \A r \in Entries : entry[r].amount = 0 /\ share[r] = L!NoShares
    BY DEF L!Init, L!NoRow
  <2>2. share = [r \in Entries |-> share[r]]
    BY DEF L!Init
  <2> QED
    BY <2>1, <2>2, NothingFits DEF Splitting
<1>5. Settling
  BY <1>1, FS_EmptySet DEF Settling, L!Init, L!NoSettlement
<1>6. cash \in [Users -> Nat] /\ open \subseteq Users
  BY DEF L!Init
<1> QED
  BY <1>2, <1>3, <1>4, <1>5, <1>6 DEF LedgerInv

\* What a request leaves alone stays right, as long as nobody leaves the group.
LEMMA SplittingStays ==
  ASSUME Splitting, L!People \subseteq L!People',
         UNCHANGED <<entry, share, drifted>>
  PROVE  Splitting'
<1>1. ASSUME NEW f, NEW total, Fits(f, total) PROVE Fits(f, total)'
  BY <1>1 DEF Fits
<1> QED
  BY <1>1 DEF Splitting, L!Booked, Fits

LEMMA SettlingStays ==
  ASSUME Settling, L!People \subseteq L!People', UNCHANGED settled
  PROVE  Settling'
  BY DEF Settling, L!Recorded

LEMMA GroupedStays ==
  ASSUME UNCHANGED member
  PROVE  /\ L!People' = L!People
         /\ Grouped => Grouped'
  BY DEF Grouped, L!People, L!Self

\* A member comes or is changed.
LEMMA PuttingKeeps ==
  ASSUME LedgerInv, NEW m \in Members, NEW u \in Users \cup {Nobody}, NEW self \in BOOLEAN,
         member' = [L!Demoted(m, self) EXCEPT ![m] = [in |-> TRUE, user |-> u, self |-> self]],
         UNCHANGED <<entry, share, settled, cash, open, drifted>>
  PROVE  LedgerInv'
<1>1. \A n \in Members : member'[n] = IF n = m THEN [in |-> TRUE, user |-> u, self |-> self]
                                      ELSE IF self THEN [member[n] EXCEPT !.self = FALSE]
                                      ELSE member[n]
  BY DEF L!Demoted
<1>2. member' \in [Members -> [in : BOOLEAN, user : Users \cup {Nobody}, self : BOOLEAN]]
  <2>1. \A n \in Members : member[n] \in [in : BOOLEAN, user : Users \cup {Nobody}, self : BOOLEAN]
    BY DEF LedgerInv, Grouped
  <2>2. \A n \in Members : [member[n] EXCEPT !.self = FALSE]
                             \in [in : BOOLEAN, user : Users \cup {Nobody}, self : BOOLEAN]
    BY <2>1
  <2>3. [in |-> TRUE, user |-> u, self |-> self]
          \in [in : BOOLEAN, user : Users \cup {Nobody}, self : BOOLEAN]
    OBVIOUS
  <2>4. member' = [n \in Members |-> member'[n]]
    BY DEF L!Demoted
  <2>5. \A n \in Members : member'[n] \in [in : BOOLEAN, user : Users \cup {Nobody}, self : BOOLEAN]
    BY <1>1, <2>1, <2>2, <2>3
  <2> QED
    BY <2>4, <2>5
<1>3. /\ \A n \in Members : n # m => (member'[n].in <=> member[n].in)
      /\ \A n \in Members : n # m /\ member'[n].self => member[n].self /\ ~self
      /\ member'[m].in /\ (member'[m].self <=> self)
  <2>1. member'[m].in = TRUE /\ member'[m].self = self
    <3>1. PICK x : x = [in |-> TRUE, user |-> u, self |-> self]
      OBVIOUS
    <3>2. x.in = TRUE /\ (x.self = self)
      BY <3>1
    <3>3. member'[m] = x
      BY <1>1, <3>1
    <3> QED
      BY <3>2, <3>3
  <2>2. ASSUME NEW n \in Members, n # m
        PROVE  member'[n].in = member[n].in /\ (self => member'[n].self = FALSE)
               /\ (~self => member'[n].self = member[n].self)
    <3>1. PICK x \in [in : BOOLEAN, user : Users \cup {Nobody}, self : BOOLEAN] : x = member[n]
      BY DEF LedgerInv, Grouped
    <3>2. [x EXCEPT !.self = FALSE].in = x.in /\ [x EXCEPT !.self = FALSE].self = FALSE
      OBVIOUS
    <3> QED
      BY <1>1, <2>2, <3>1, <3>2
  <2> QED
    BY <2>1, <2>2, Zenon
<1>4. L!People' = L!People \cup {m}
  BY <1>3 DEF L!People
<1>5. IsFiniteSet(L!People)'
  <2>1. IsFiniteSet(L!People \cup {m})
    BY FS_AddElement DEF LedgerInv, Grouped
  <2> QED
    BY <1>4, <2>1
<1>6. \A n \in L!Self' : n = m \/ n \in L!Self
  BY <1>3, <1>4 DEF L!Self, L!People
<1>7. \A n, o \in L!Self' : n = o
  <2>1. m \in L!Self' => self
    BY <1>3 DEF L!Self
  <2>2. \A n \in L!Self' : n # m => ~self
    BY <1>3 DEF L!Self, L!People
  <2> QED
    BY <1>6, <2>1, <2>2 DEF LedgerInv, Grouped
<1>8. Grouped'
  BY <1>2, <1>5, <1>7 DEF Grouped
<1>9. Splitting' /\ Settling'
  BY <1>4, SplittingStays, SettlingStays DEF LedgerInv
<1>10. Booking'
  BY DEF LedgerInv, Booking, L!Booked
<1> QED
  BY <1>8, <1>9, <1>10 DEF LedgerInv

LEMMA DeleteMemberKeeps ==
  ASSUME LedgerInv, NEW m \in Members, L!DeleteMember(m)
  PROVE  LedgerInv'
<1>1. /\ member' = [member EXCEPT ![m] = L!NoMember] /\ m \in L!People
      /\ UNCHANGED <<entry, share, settled, cash, open, drifted>>
      /\ \A r \in Entries : m \notin L!Parties(r)
      /\ \A s \in Settlements : m \notin {settled[s].from, settled[s].to}
  BY DEF L!DeleteMember
<1>2. L!People' = L!People \ {m} /\ L!Self' \subseteq L!Self
  BY <1>1 DEF L!People, L!Self, L!NoMember, LedgerInv, Grouped
<1>3. IsFiniteSet(L!People)'
  <2>1. IsFiniteSet(L!People \ {m})
    BY FS_Subset DEF LedgerInv, Grouped
  <2> QED
    BY <1>2, <2>1
<1>4. member' \in [Members -> [in : BOOLEAN, user : Users \cup {Nobody}, self : BOOLEAN]]
  BY <1>1 DEF L!NoMember, LedgerInv, Grouped
<1>5. Grouped'
  BY <1>2, <1>3, <1>4 DEF Grouped, LedgerInv
<1>6. ASSUME NEW r \in Entries, NEW total, Fits(share[r], total) PROVE Fits(share[r], total)'
  BY <1>1, <1>2, <1>6 DEF Fits, L!Parties
<1>7. Splitting'
  BY <1>1, <1>6 DEF LedgerInv, Splitting, L!Booked
<1>8. Settling'
  BY <1>1, <1>2 DEF LedgerInv, Settling, L!Recorded
<1>9. Booking'
  BY <1>1 DEF LedgerInv, Booking, L!Booked
<1> QED
  BY <1>1, <1>5, <1>7, <1>8, <1>9 DEF LedgerInv

LEMMA DeleteGroupKeeps ==
  ASSUME LedgerInv, L!DeleteGroup
  PROVE  LedgerInv'
<1>1. /\ member' = [n \in Members |-> L!NoMember] /\ settled' = [s \in Settlements |-> L!NoSettlement]
      /\ UNCHANGED <<entry, share, cash, open, drifted>>
      /\ \A r \in Entries : share[r] = L!NoShares
  BY DEF L!DeleteGroup
<1>2. L!People' = {} /\ L!Self' = {} /\ L!Recorded' = {}
  BY <1>1 DEF L!People, L!Self, L!NoMember, L!Recorded
<1>3. Grouped'
  BY <1>1, <1>2, FS_EmptySet DEF Grouped, L!NoMember
<1>4. Settling'
  BY <1>1, <1>2, FS_EmptySet DEF Settling, L!NoSettlement
<1>6. Splitting'
  <2>1. ASSUME NEW total PROVE Fits(L!NoShares, total)'
    BY DEF Fits, L!NoShares
  <2> QED
    BY <1>1, <2>1 DEF LedgerInv, Splitting, L!Booked
<1>7. Booking'
  BY <1>1 DEF LedgerInv, Booking, L!Booked
<1> QED
  BY <1>1, <1>3, <1>4, <1>6, <1>7 DEF LedgerInv

-----------------------------------------------------------------------------
\* A row is written, with what it is split to.
LEMMA WritingKeeps ==
  ASSUME LedgerInv, L!AmountsAssumption, NEW r \in Entries, NEW a \in Amounts, NEW f, Fits(f, a),
         NEW e \in [payer : Users \cup {Nobody}, kind : {"debit", "credit"},
                    amount : Amounts \cup {0}, mark : {"plain", "off", "pair"}],
         e.amount = a, entry' = [entry EXCEPT ![r] = e], share' = [share EXCEPT ![r] = f],
         drifted' = drifted \/ drifted' = drifted \ {r},
         UNCHANGED <<member, settled, cash, open>>
  PROVE  LedgerInv'
<1>1. e # L!NoRow
  BY DEF L!NoRow, L!AmountsAssumption
<1>2. L!Booked' = L!Booked \cup {r}
  BY <1>1 DEF L!Booked, LedgerInv, Booking
<1>3. IsFiniteSet(L!Booked)'
  <2>1. IsFiniteSet(L!Booked \cup {r})
    BY FS_AddElement DEF LedgerInv, Booking
  <2> QED
    BY <1>2, <2>1
<1>4. Booking'
  <2>1. drifted' \subseteq L!Booked'
    BY <1>2 DEF LedgerInv, Booking
  <2>2. \A q \in L!Booked' : entry'[q].amount \in Amounts
    BY <1>2 DEF LedgerInv, Booking, L!Booked
  <2> QED
    BY <1>3, <2>1, <2>2 DEF LedgerInv, Booking
<1>5. L!People' = L!People /\ Grouped'
  BY GroupedStays DEF LedgerInv
<1>6. ASSUME NEW g, NEW total, Fits(g, total) PROVE Fits(g, total)'
  BY <1>5, <1>6 DEF Fits
<1>7. share' = [q \in Entries |-> share'[q]] /\ share'[r] = f /\ entry'[r] = e
      /\ \A q \in Entries \ {r} : share'[q] = share[q] /\ entry'[q] = entry[q]
  BY DEF LedgerInv, Splitting, Booking
<1>8. a \in Int
  BY DEF L!AmountsAssumption
<1>9. Splitting'
  <2>1. ASSUME NEW q \in Entries
        PROVE  /\ (\E total \in Int : Fits(share[q], total))'
               /\ (q \notin drifted => Fits(share[q], entry[q].amount))'
               /\ (q \notin L!Booked => share[q] = L!NoShares)'
    <3>1. CASE q = r
      <4>1. Fits(f, a)' /\ share'[q] = f /\ entry'[q].amount = a /\ q \in L!Booked'
        BY <1>2, <1>6, <1>7, <3>1
      <4> QED
        BY <1>8, <4>1
    <3>2. CASE q # r
      <4>1. /\ \E total \in Int : Fits(share[q], total)
            /\ q \notin drifted => Fits(share[q], entry[q].amount)
            /\ q \notin L!Booked => share[q] = L!NoShares
        BY DEF LedgerInv, Splitting
      <4>2. share'[q] = share[q] /\ entry'[q] = entry[q] /\ (q \in drifted' <=> q \in drifted)
            /\ (q \in L!Booked' <=> q \in L!Booked)
        BY <1>2, <1>7, <3>2
      <4>3. PICK total \in Int : Fits(share[q], total)
        BY <4>1
      <4>4. Fits(share[q], total)'
        BY <1>6, <4>2, <4>3 DEF Fits
      <4>5. (q \notin drifted => Fits(share[q], entry[q].amount))'
        BY <1>5, <4>1, <4>2 DEF Fits
      <4> QED
        BY <4>1, <4>2, <4>4, <4>5 DEF L!NoShares
    <3> QED
      BY <3>1, <3>2
  <2> QED
    BY <1>7, <2>1 DEF Splitting
<1>10. Settling'
  BY <1>5, SettlingStays DEF LedgerInv
<1> QED
  BY <1>4, <1>5, <1>9, <1>10 DEF LedgerInv

LEMMA CreateRowKeeps ==
  ASSUME L!AmountsAssumption, LedgerInv, NEW r \in Entries, NEW u \in Users,
         NEW kind \in {"debit", "credit"}, NEW a \in Amounts, NEW S \in SUBSET Members,
         L!CreateRow(r, u, kind, a, S)
  PROVE  LedgerInv'
<1>1. PICK f \in L!Materialized(u, a, S) : share' = [share EXCEPT ![r] = f]
  BY DEF L!CreateRow
<1>2. a \in Nat /\ IsFiniteSet(L!People)
  BY DEF L!AmountsAssumption, LedgerInv, Grouped
<1>3. Fits(f, a)
  BY <1>2, MaterializedFits
<1> DEFINE e == [payer |-> u, kind |-> kind, amount |-> a, mark |-> "plain"]
<1>4. /\ e \in [payer : Users \cup {Nobody}, kind : {"debit", "credit"},
                amount : Amounts \cup {0}, mark : {"plain", "off", "pair"}]
      /\ e.amount = a
  OBVIOUS
<1>5. entry' = [entry EXCEPT ![r] = e] /\ UNCHANGED <<member, settled, cash, open, drifted>>
  BY DEF L!CreateRow
<1> HIDE DEF e
<1> QED
  BY <1>1, <1>3, <1>4, <1>5, WritingKeeps

LEMMA EditRowKeeps ==
  ASSUME L!AmountsAssumption, LedgerInv, NEW r \in Entries, NEW a \in Amounts,
         NEW S \in SUBSET Members, L!EditRow(r, a, S)
  PROVE  LedgerInv'
<1>1. PICK f \in L!Materialized(entry[r].payer, a, S) : share' = [share EXCEPT ![r] = f]
  BY DEF L!EditRow
<1>2. a \in Nat /\ IsFiniteSet(L!People)
  BY DEF L!AmountsAssumption, LedgerInv, Grouped
<1>3. Fits(f, a)
  BY <1>2, MaterializedFits
<1> DEFINE e == [entry[r] EXCEPT !.amount = a]
<1>4. /\ e \in [payer : Users \cup {Nobody}, kind : {"debit", "credit"},
                amount : Amounts \cup {0}, mark : {"plain", "off", "pair"}]
      /\ e.amount = a
  BY DEF LedgerInv, Booking
<1>5. entry' = [entry EXCEPT ![r] = e] /\ UNCHANGED <<member, settled, cash, open>>
      /\ drifted' = drifted \ {r}
  BY DEF L!EditRow
<1> HIDE DEF e
<1> QED
  BY <1>1, <1>3, <1>4, <1>5, WritingKeeps

\* The splits stay while their row changes; one whose amount changes is remembered.
LEMMA ChangingKeeps ==
  ASSUME LedgerInv, L!AmountsAssumption, NEW r \in L!Booked,
         NEW e \in [payer : Users \cup {Nobody}, kind : {"debit", "credit"},
                    amount : Amounts \cup {0}, mark : {"plain", "off", "pair"}],
         e.amount \in Amounts, entry' = [entry EXCEPT ![r] = e],
         \/ drifted' = drifted /\ (e.amount = entry[r].amount \/ share[r] = L!NoShares)
         \/ drifted' = drifted \cup {r},
         UNCHANGED <<member, share, settled, cash, open>>
  PROVE  LedgerInv'
<1>1. e # L!NoRow /\ r \in Entries
  BY DEF L!NoRow, L!Booked, L!AmountsAssumption
<1>2. L!Booked' = L!Booked
  BY <1>1 DEF L!Booked, LedgerInv, Booking
<1>3. Booking'
  <2>1. \A q \in L!Booked' : entry'[q].amount \in Amounts
    BY <1>1, <1>2 DEF LedgerInv, Booking
  <2> QED
    BY <1>1, <1>2, <2>1 DEF LedgerInv, Booking
<1>4. L!People' = L!People /\ Grouped'
  BY GroupedStays DEF LedgerInv
<1>5. ASSUME NEW g, NEW total, Fits(g, total) PROVE Fits(g, total)'
  BY <1>4, <1>5 DEF Fits
<1>6. entry'[r] = e /\ \A q \in Entries \ {r} : entry'[q] = entry[q]
  BY <1>1 DEF LedgerInv, Booking
<1>7. Splitting'
  <2>1. ASSUME NEW q \in Entries
        PROVE  /\ (\E total \in Int : Fits(share[q], total))'
               /\ (q \notin drifted => Fits(share[q], entry[q].amount))'
               /\ (q \notin L!Booked => share[q] = L!NoShares)'
    <3>1. /\ \E total \in Int : Fits(share[q], total)
          /\ q \notin drifted => Fits(share[q], entry[q].amount)
          /\ q \notin L!Booked => share[q] = L!NoShares
      BY DEF LedgerInv, Splitting
    <3>2. PICK total \in Int : Fits(share[q], total)
      BY <3>1
    <3>3. Fits(share[q], total)'
      BY <1>4, <3>2 DEF Fits
    <3>4. (q \notin drifted => Fits(share[q], entry[q].amount))'
      <4>1. CASE q # r
        BY <1>4, <1>6, <3>1, <4>1 DEF Fits
      <4>2. CASE q = r /\ share[r] = L!NoShares
        BY <1>4, <4>2, NothingFits DEF Fits, L!NoShares
      <4>3. CASE q = r /\ e.amount = entry[r].amount
        BY <1>4, <1>6, <3>1, <4>3 DEF Fits
      <4>4. CASE q \in drifted'
        BY <4>4
      <4> QED
        BY <4>1, <4>2, <4>3, <4>4
    <3> QED
      BY <1>2, <3>1, <3>3, <3>4 DEF L!NoShares
  <2>2. share' = [q \in Entries |-> share'[q]]
    BY DEF LedgerInv, Splitting
  <2> QED
    BY <2>1, <2>2 DEF Splitting
<1>8. Settling'
  BY <1>4, SettlingStays DEF LedgerInv
<1> QED
  BY <1>3, <1>4, <1>7, <1>8 DEF LedgerInv

LEMMA EditAmountKeeps ==
  ASSUME L!AmountsAssumption, LedgerInv, NEW r \in Entries, NEW a \in Amounts, L!EditAmount(r, a)
  PROVE  LedgerInv'
<1> DEFINE e == [entry[r] EXCEPT !.amount = a]
<1>1. /\ e \in [payer : Users \cup {Nobody}, kind : {"debit", "credit"},
                amount : Amounts \cup {0}, mark : {"plain", "off", "pair"}]
      /\ e.amount \in Amounts
  BY DEF LedgerInv, Booking, L!AmountsAssumption
<1>2. /\ entry' = [entry EXCEPT ![r] = e] /\ UNCHANGED <<member, share, settled, cash, open>>
      /\ r \in L!Booked
      /\ \/ drifted' = drifted /\ share[r] = L!NoShares
         \/ drifted' = drifted \cup {r}
  BY DEF L!EditAmount
<1> HIDE DEF e
<1> QED
  BY <1>1, <1>2, ChangingKeeps

LEMMA MarkRowKeeps ==
  ASSUME L!AmountsAssumption, LedgerInv, NEW r \in Entries, NEW mark \in {"plain", "off", "pair"},
         L!MarkRow(r, mark)
  PROVE  LedgerInv'
<1> DEFINE e == [entry[r] EXCEPT !.mark = mark]
<1>1. /\ e \in [payer : Users \cup {Nobody}, kind : {"debit", "credit"},
                amount : Amounts \cup {0}, mark : {"plain", "off", "pair"}]
      /\ e.amount = entry[r].amount /\ e.amount \in Amounts
  BY DEF LedgerInv, Booking, L!MarkRow
<1>2. /\ entry' = [entry EXCEPT ![r] = e] /\ r \in L!Booked
      /\ UNCHANGED <<member, share, settled, cash, open, drifted>>
  BY DEF L!MarkRow
<1> HIDE DEF e
<1> QED
  BY <1>1, <1>2, ChangingKeeps

LEMMA BulkAddKeeps ==
  ASSUME L!AmountsAssumption, LedgerInv, NEW u \in Users, NEW S \in SUBSET Members,
         NEW T \in SUBSET Entries, L!BulkAddToGroup(u, S, T)
  PROVE  LedgerInv'
<1>1. UNCHANGED <<member, entry, settled, cash, open, drifted>> /\ L!MaySplit(u, S)
  BY DEF L!BulkAddToGroup
<1>2. PICK last \in S, p \in L!Divisions(S) \cup {L!NoShares} :
        share' = [r \in Entries |-> IF r \notin T \cap L!Splittable(u) THEN share[r]
                                    ELSE IF p = L!NoShares THEN L!Equal(entry[r].amount, S, last)
                                    ELSE L!Percent(entry[r].amount, p, last)]
  BY DEF L!BulkAddToGroup
<1>3. S \subseteq L!People /\ IsFiniteSet(S)
  BY <1>1, FS_Subset DEF L!MaySplit, LedgerInv, Grouped
<1>4. L!People' = L!People /\ L!Booked' = L!Booked /\ Grouped'
  BY <1>1, GroupedStays DEF LedgerInv, L!Booked
<1>5. ASSUME NEW r \in Entries
      PROVE  /\ (\E total \in Int : Fits(share[r], total))'
             /\ (r \notin drifted => Fits(share[r], entry[r].amount))'
             /\ (r \notin L!Booked => share[r] = L!NoShares)'
  <2>1. CASE r \in T \cap L!Splittable(u)
    <3> DEFINE a == entry[r].amount
    <3>1. r \in L!Booked /\ a \in Int
      BY <2>1 DEF L!Splittable, LedgerInv, Booking, L!AmountsAssumption
    <3>2. CASE p = L!NoShares
      <4>1. share'[r] = L!Equal(a, S, last)
        BY <1>2, <2>1, <3>2
      <4> HIDE DEF a
      <4>2. Fits(L!Equal(a, S, last), a)
        BY <1>3, <3>1, EqualFits
      <4> QED
        BY <1>1, <1>4, <3>1, <4>1, <4>2 DEF Fits, a
    <3>3. CASE p # L!NoShares
      <4>1. share'[r] = L!Percent(a, p, last) /\ p \in L!Divisions(S)
        BY <1>2, <2>1, <3>3
      <4> HIDE DEF a
      <4>2. Fits(L!Percent(a, p, last), a)
        BY <1>3, <3>1, <4>1, PercentFits
      <4> QED
        BY <1>1, <1>4, <3>1, <4>1, <4>2 DEF Fits, a
    <3> QED
      BY <3>2, <3>3
  <2>2. CASE r \notin T \cap L!Splittable(u)
    <3>1. share'[r] = share[r]
      BY <1>2, <2>2
    <3>2. /\ \E total \in Int : Fits(share[r], total)
          /\ r \notin drifted => Fits(share[r], entry[r].amount)
          /\ r \notin L!Booked => share[r] = L!NoShares
      BY DEF LedgerInv, Splitting
    <3> QED
      BY <1>1, <1>4, <3>1, <3>2 DEF Fits, L!NoShares
  <2> QED
    BY <2>1, <2>2
<1>6. Splitting'
  <2>1. share' = [r \in Entries |-> share'[r]]
    BY <1>2
  <2> QED
    BY <1>5, <2>1 DEF Splitting
<1>7. Settling' /\ Booking'
  BY <1>1, <1>4, SettlingStays DEF LedgerInv, Booking
<1> QED
  BY <1>1, <1>4, <1>6, <1>7 DEF LedgerInv

LEMMA DeleteRowKeeps ==
  ASSUME L!AmountsAssumption, LedgerInv, NEW r \in Entries, L!DeleteRow(r)
  PROVE  LedgerInv'
<1>1. /\ entry' = [entry EXCEPT ![r] = L!NoRow] /\ share' = [share EXCEPT ![r] = L!NoShares]
      /\ drifted' = drifted \ {r} /\ UNCHANGED <<member, settled, cash, open>>
  BY DEF L!DeleteRow
<1>2. L!Booked' = L!Booked \ {r}
  BY <1>1 DEF L!Booked, LedgerInv, Booking
<1>3. IsFiniteSet(L!Booked)'
  <2>1. IsFiniteSet(L!Booked \ {r})
    BY FS_Subset DEF LedgerInv, Booking
  <2> QED
    BY <1>2, <2>1
<1>4. Booking'
  <2>1. L!NoRow \in [payer : Users \cup {Nobody}, kind : {"debit", "credit"},
                     amount : Amounts \cup {0}, mark : {"plain", "off", "pair"}]
    BY DEF L!NoRow
  <2>2. \A q \in L!Booked' : entry'[q].amount \in Amounts
    BY <1>1, <1>2 DEF LedgerInv, Booking, L!Booked
  <2> QED
    BY <1>1, <1>2, <1>3, <2>1, <2>2 DEF LedgerInv, Booking
<1>5. L!People' = L!People /\ Grouped'
  BY <1>1, GroupedStays DEF LedgerInv
<1>6. ASSUME NEW q \in Entries
      PROVE  /\ (\E total \in Int : Fits(share[q], total))'
             /\ (q \notin drifted => Fits(share[q], entry[q].amount))'
             /\ (q \notin L!Booked => share[q] = L!NoShares)'
  <2>1. CASE q = r
    <3>1. share'[q] = L!NoShares
      BY <1>1, <2>1 DEF LedgerInv, Splitting
    <3>2. ASSUME NEW total PROVE Fits(share[q], total)'
      BY <3>1 DEF Fits, L!NoShares
    <3> QED
      BY <3>1, <3>2 DEF L!NoShares, Fits
  <2>2. CASE q # r
    <3>1. share'[q] = share[q] /\ entry'[q] = entry[q]
      BY <1>1, <2>2 DEF LedgerInv, Splitting, Booking
    <3>2. /\ \E total \in Int : Fits(share[q], total)
          /\ q \notin drifted => Fits(share[q], entry[q].amount)
          /\ q \notin L!Booked => share[q] = L!NoShares
      BY DEF LedgerInv, Splitting
    <3> QED
      BY <1>1, <1>2, <1>5, <2>2, <3>1, <3>2 DEF Fits, L!NoShares
  <2> QED
    BY <2>1, <2>2
<1>7. Splitting'
  <2>1. share' = [q \in Entries |-> share'[q]]
    BY <1>1 DEF LedgerInv, Splitting
  <2> QED
    BY <1>6, <2>1 DEF Splitting
<1>8. Settling'
  BY <1>1, <1>5, SettlingStays DEF LedgerInv
<1> QED
  BY <1>1, <1>4, <1>5, <1>7, <1>8 DEF LedgerInv

-----------------------------------------------------------------------------
LEMMA AccountKeeps ==
  ASSUME LedgerInv, NEW u \in Users, L!CloseAccount(u) \/ L!ReopenAccount(u)
  PROVE  LedgerInv'
<1>1. UNCHANGED <<member, entry, share, settled, cash, drifted>> /\ open' \subseteq Users
  BY DEF L!CloseAccount, L!ReopenAccount, LedgerInv
<1>2. L!People' = L!People /\ Grouped' /\ Booking'
  BY <1>1, GroupedStays DEF LedgerInv, Booking, L!Booked
<1>3. Splitting' /\ Settling'
  BY <1>1, <1>2, SplittingStays, SettlingStays DEF LedgerInv
<1> QED
  BY <1>1, <1>2, <1>3 DEF LedgerInv

\* A settlement between two members comes, changes or goes.
LEMMA SettlementKeeps ==
  ASSUME L!AmountsAssumption, LedgerInv, NEW s \in Settlements, NEW x,
         settled' = [settled EXCEPT ![s] = x],
         x = L!NoSettlement \/ \E from, to \in L!People, a \in Payments :
                                   x = [from |-> from, to |-> to, amount |-> a],
         cash' \in [Users -> Nat], UNCHANGED <<member, entry, share, open, drifted>>
  PROVE  LedgerInv'
<1>1. L!People' = L!People /\ Grouped' /\ Booking'
  BY GroupedStays DEF LedgerInv, Booking, L!Booked
<1>2. Splitting'
  BY <1>1, SplittingStays DEF LedgerInv
<1>3. x \in [from : Members \cup {Nobody}, to : Members \cup {Nobody}, amount : Nat]
  BY DEF L!NoSettlement, L!People, L!AmountsAssumption
<1>4. settled' \in [Settlements -> [from : Members \cup {Nobody}, to : Members \cup {Nobody},
                                    amount : Nat]]
  BY <1>3 DEF LedgerInv, Settling
<1>5. /\ settled'[s] = x /\ \A t \in Settlements \ {s} : settled'[t] = settled[t]
      /\ L!Recorded' \subseteq L!Recorded \cup {s}
  BY DEF LedgerInv, Settling, L!Recorded
<1>6. IsFiniteSet(L!Recorded)'
  <2>1. IsFiniteSet(L!Recorded \cup {s})
    BY FS_AddElement DEF LedgerInv, Settling
  <2>2. IsFiniteSet(L!Recorded')
    BY <1>5, <2>1, FS_Subset
  <2> QED
    BY <2>2
<1>7. \A t \in L!Recorded' : {settled'[t].from, settled'[t].to} \subseteq L!People'
  <2>1. TAKE t \in L!Recorded'
  <2>2. CASE t = s
    <3>1. x # L!NoSettlement
      BY <1>5, <2>2 DEF L!Recorded
    <3> QED
      BY <1>1, <1>5, <2>2, <3>1
  <2>3. CASE t # s
    <3>1. t \in L!Recorded
      BY <1>5, <2>3
    <3> QED
      BY <1>1, <1>5, <2>3, <3>1 DEF LedgerInv, Settling, L!Recorded
  <2> QED
    BY <2>2, <2>3
<1>8. Settling'
  BY <1>4, <1>6, <1>7 DEF Settling
<1> QED
  BY <1>1, <1>2, <1>8 DEF LedgerInv

LEMMA CreateSettlementKeeps ==
  ASSUME L!AmountsAssumption, LedgerInv, NEW s \in Settlements, NEW u \in Users,
         NEW from \in Members, NEW to \in Members, NEW a \in Payments,
         L!CreateSettlement(s, u, from, to, a)
  PROVE  LedgerInv'
<1> DEFINE x == [from |-> from, to |-> to, amount |-> a]
<1>1. /\ settled' = [settled EXCEPT ![s] = x] /\ {from, to} \subseteq L!People
      /\ cash' = L!Credited(to, a) /\ UNCHANGED <<member, entry, share, open, drifted>>
  BY DEF L!CreateSettlement
<1>2. cash' \in [Users -> Nat]
  <2>1. a \in Nat /\ cash \in [Users -> Nat]
    BY DEF L!AmountsAssumption, LedgerInv
  <2>2. \A v \in Users : cash[v] + a \in Nat
    BY <2>1
  <2> QED
    BY <1>1, <2>1, <2>2 DEF L!Credited
<1>3. \E f, t \in L!People, b \in Payments : x = [from |-> f, to |-> t, amount |-> b]
  BY <1>1
<1> HIDE DEF x
<1> QED
  BY <1>1, <1>2, <1>3, SettlementKeeps

LEMMA UpdateSettlementKeeps ==
  ASSUME L!AmountsAssumption, LedgerInv, NEW s \in Settlements, NEW u \in Users,
         NEW from \in Members, NEW to \in Members, NEW a \in Payments,
         L!UpdateSettlement(s, u, from, to, a)
  PROVE  LedgerInv'
<1> DEFINE x == [settled[s] EXCEPT !.from = from, !.to = to, !.amount = a]
<1>1. /\ settled' = [settled EXCEPT ![s] = x] /\ {from, to} \subseteq L!People
      /\ UNCHANGED <<member, entry, share, cash, open, drifted>>
  BY DEF L!UpdateSettlement
<1>2. cash' \in [Users -> Nat]
  BY <1>1 DEF LedgerInv
<1>3. x = [from |-> from, to |-> to, amount |-> a]
  <2>1. PICK y \in [from : Members \cup {Nobody}, to : Members \cup {Nobody}, amount : Nat] :
          y = settled[s]
    BY DEF LedgerInv, Settling
  <2>2. PICK n \in Nat : n = a
    BY DEF L!AmountsAssumption
  <2> DEFINE z == [y EXCEPT !.from = from, !.to = to, !.amount = n]
  <2>3. z \in [from : Members \cup {Nobody}, to : Members \cup {Nobody}, amount : Nat]
    OBVIOUS
  <2>4. z.from = from /\ z.to = to /\ z.amount = n
    OBVIOUS
  <2>5. z = x
    BY <2>1, <2>2
  <2> HIDE DEF z, x
  <2>6. z = [from |-> from, to |-> to, amount |-> n]
    BY <2>3, <2>4
  <2> QED
    BY <2>2, <2>5, <2>6
<1>4. \E f, t \in L!People, b \in Payments : x = [from |-> f, to |-> t, amount |-> b]
  BY <1>1, <1>3
<1> HIDE DEF x
<1> QED
  BY <1>1, <1>2, <1>4, SettlementKeeps

LEMMA DeleteSettlementKeeps ==
  ASSUME L!AmountsAssumption, LedgerInv, NEW s \in Settlements, NEW u \in Users,
         L!DeleteSettlement(s, u)
  PROVE  LedgerInv'
<1>1. /\ settled' = [settled EXCEPT ![s] = L!NoSettlement] /\ cash' \in [Users -> Nat]
      /\ UNCHANGED <<member, entry, share, open, drifted>>
  BY DEF L!DeleteSettlement, LedgerInv
<1> QED
  BY <1>1, SettlementKeeps

-----------------------------------------------------------------------------
LEMMA LedgerMoves ==
  ASSUME L!Next
  PROVE  \/ \E m \in Members, u \in Users \cup {Nobody}, self \in BOOLEAN :
              L!CreateMember(m, u, self) \/ L!UpdateMember(m, u, self)
         \/ \E m \in Members : L!DeleteMember(m)
         \/ L!DeleteGroup
         \/ \E r \in Entries, u \in Users, kind \in {"debit", "credit"}, a \in Amounts,
               S \in SUBSET Members : L!CreateRow(r, u, kind, a, S)
         \/ \E r \in Entries, a \in Amounts, S \in SUBSET Members : L!EditRow(r, a, S)
         \/ \E r \in Entries, a \in Amounts : L!EditAmount(r, a)
         \/ \E r \in Entries, mark \in {"plain", "off", "pair"} : L!MarkRow(r, mark)
         \/ \E u \in Users, S \in SUBSET Members, T \in SUBSET Entries : L!BulkAddToGroup(u, S, T)
         \/ \E r \in Entries : L!DeleteRow(r)
         \/ \E u \in Users : L!CloseAccount(u) \/ L!ReopenAccount(u)
         \/ \E s \in Settlements, u \in Users, from, to \in Members, a \in Payments :
              L!CreateSettlement(s, u, from, to, a) \/ L!UpdateSettlement(s, u, from, to, a)
         \/ \E s \in Settlements, u \in Users : L!DeleteSettlement(s, u)
  BY DEF L!Next

LEMMA LedgerStep ==
  ASSUME L!AmountsAssumption, LedgerInv, [L!Next]_(L!vars)
  PROVE  LedgerInv'
<1>1. ASSUME NEW m \in Members, NEW u \in Users \cup {Nobody}, NEW self \in BOOLEAN,
             L!CreateMember(m, u, self) \/ L!UpdateMember(m, u, self)
      PROVE  LedgerInv'
  <2>1. /\ member' = [L!Demoted(m, self) EXCEPT ![m] = [in |-> TRUE, user |-> u, self |-> self]]
        /\ UNCHANGED <<entry, share, settled, cash, open, drifted>>
    BY <1>1 DEF L!CreateMember, L!UpdateMember
  <2> QED
    BY <2>1, PuttingKeeps
<1>2. CASE UNCHANGED L!vars
  <2>1. UNCHANGED <<member, entry, share, settled, cash, open, drifted>>
    BY <1>2 DEF L!vars
  <2>2. L!People' = L!People /\ Grouped' /\ Booking'
    BY <2>1, GroupedStays DEF LedgerInv, Booking, L!Booked
  <2>3. Splitting' /\ Settling'
    BY <2>1, <2>2, SplittingStays, SettlingStays DEF LedgerInv
  <2> QED
    BY <2>1, <2>2, <2>3 DEF LedgerInv
<1>3. CASE L!Next
  BY <1>1, <1>3, LedgerMoves, DeleteMemberKeeps, DeleteGroupKeeps, CreateRowKeeps, EditRowKeeps,
     EditAmountKeeps, MarkRowKeeps, BulkAddKeeps, DeleteRowKeeps, AccountKeeps,
     CreateSettlementKeeps, UpdateSettlementKeeps, DeleteSettlementKeeps
<1> QED
  BY <1>2, <1>3

\* Members, rows, shares and settlements of a group keep what LedgerInv says of them.
THEOREM LedgerHolds == ASSUME L!AmountsAssumption PROVE L!Spec => []LedgerInv
<1>1. L!Init => LedgerInv
  BY LedgerStarts
<1>2. LedgerInv /\ [L!Next]_(L!vars) => LedgerInv'
  BY LedgerStep
<1> QED
  BY <1>1, <1>2, PTL DEF L!Spec

-----------------------------------------------------------------------------
\* What a row's shares for some members come to.
LEMMA SharesAre ==
  ASSUME LedgerInv, NEW r \in Entries, NEW S
  PROVE  /\ L!Shares(r, S) = SumOver(share[r], L!Parties(r) \cap S)
         /\ L!Shares(r, S) \in Int
         /\ IsFiniteSet(L!Parties(r)) /\ L!Parties(r) \subseteq L!People
         /\ \A m \in L!Parties(r) : share[r][m] \in Int
<1>1. L!Parties(r) \subseteq L!People /\ \A m \in L!Parties(r) : share[r][m] \in Int
  BY DEF LedgerInv, Splitting, Fits, L!Parties
<1>2. IsFiniteSet(L!Parties(r)) /\ IsFiniteSet(L!Parties(r) \cap S)
  BY <1>1, FS_Subset DEF LedgerInv, Grouped
<1>3. SumOver(share[r], L!Parties(r) \cap S) \in Int
  BY <1>1, <1>2, SumIsInt
<1> QED
  BY <1>1, <1>2, <1>3, LedgerSums DEF L!Shares

LEMMA SharesOfTwo ==
  ASSUME LedgerInv, NEW r \in Entries, NEW S, NEW T, S \cap T = {}
  PROVE  L!Shares(r, S \cup T) = L!Shares(r, S) + L!Shares(r, T)
<1> DEFINE U == L!Parties(r) \cap S
           V == L!Parties(r) \cap T
<1>1. IsFiniteSet(U) /\ IsFiniteSet(V)
  BY SharesAre, FS_Subset
<1>2. \A m \in U \cup V : share[r][m] \in Int
  BY SharesAre
<1>3. U \cap V = {} /\ L!Parties(r) \cap (S \cup T) = U \cup V
  OBVIOUS
<1>4. L!Shares(r, S) = SumOver(share[r], U) /\ L!Shares(r, T) = SumOver(share[r], V)
  BY SharesAre
<1> HIDE DEF U, V
<1>5. L!Shares(r, S \cup T) = SumOver(share[r], U \cup V)
  BY <1>3, SharesAre
<1>6. SumOver(share[r], U \cup V) = SumOver(share[r], U) + SumOver(share[r], V)
  BY <1>1, <1>2, <1>3, SumOfUnion
<1> QED
  BY <1>4, <1>5, <1>6

LEMMA SignedIsInt == \A r \in Entries, a \in Int : L!Signed(r, a) \in Int
  BY DEF L!Signed

LEMMA SignedSum ==
  ASSUME NEW r \in Entries, NEW S, IsFiniteSet(S), NEW g, \A x \in S : g[x] \in Int
  PROVE  SumOver([x \in S |-> L!Signed(r, g[x])], S) = L!Signed(r, SumOver(g, S))
<1> DEFINE h == [x \in S |-> L!Signed(r, g[x])]
           o == [x \in S |-> 0]
<1>1. CASE entry[r].kind = "debit"
  <2>1. \A x \in S : h[x] = g[x]
    BY <1>1 DEF L!Signed
  <2> HIDE DEF h
  <2>2. SumOver(h, S) = SumOver(g, S)
    BY <2>1, SumSame
  <2> QED
    BY <1>1, <2>2 DEF L!Signed, h
<1>2. CASE entry[r].kind # "debit"
  <2>1. \A x \in S : o[x] \in Int /\ g[x] \in Int /\ h[x] = o[x] - g[x]
    BY <1>2 DEF L!Signed
  <2>2. \A x \in S : o[x] = 0
    OBVIOUS
  <2> HIDE DEF h, o
  <2>3. SumOver(h, S) = SumOver(o, S) - SumOver(g, S)
    BY <2>1, SumOfDifference
  <2>4. SumOver(o, S) = 0 /\ SumOver(g, S) \in Int
    BY <2>2, SumOfZeros, SumIsInt
  <2> QED
    BY <1>2, <2>3, <2>4 DEF L!Signed, h
<1> QED
  BY <1>1, <1>2

\* The rows that count are finitely many and have amounts.
LEMMA CountedRows ==
  ASSUME LedgerInv, L!AmountsAssumption
  PROVE  /\ IsFiniteSet(L!Counted) /\ L!Counted \subseteq L!Booked /\ L!Booked \subseteq Entries
         /\ \A r \in L!Booked : entry[r].amount \in Int
<1>1. L!Counted \subseteq L!Booked /\ L!Booked \subseteq Entries
  BY DEF L!Counted, L!Counts, L!Booked
<1>2. IsFiniteSet(L!Counted)
  BY <1>1, FS_Subset DEF LedgerInv, Booking
<1>3. \A r \in L!Booked : entry[r].amount \in Int
  BY DEF LedgerInv, Booking, L!AmountsAssumption
<1> QED
  BY <1>1, <1>2, <1>3

Billed == [r \in L!Counted |-> L!Signed(r, entry[r].amount)]
SharedOut(S) == [r \in L!Counted |-> L!Signed(r, L!Shares(r, S))]

\* When the owner pays for everything, the others spend their shares, ...
LEMMA OthersSpend ==
  ASSUME LedgerInv, \A r \in L!Booked : entry[r].payer = Owner, NEW u \in Users \ {Owner}
  PROVE  L!Spent(u) = SumOver(SharedOut(L!Linked(u) \ L!Self), L!Counted)
<1>1. L!OwnRows(u) = {}
  BY DEF L!OwnRows, L!Counted, L!Counts
<1>2. L!Offset(u) = 0
  <2> DEFINE g == [r \in L!OwnRows(u) |-> L!Signed(r, L!Shares(r, Members \ L!StandFor(u)))]
  <2>1. DOMAIN g = {}
    BY <1>1
  <2>2. L!Offset(u) = L!SumFunction(g)
    BY DEF L!Offset
  <2> HIDE DEF g
  <2> QED
    BY <2>1, <2>2, LedgerSums, SumOfNone
<1>3. L!SharedWith(u) = SumOver(SharedOut(L!Linked(u) \ L!Self), L!Counted)
  <2> DEFINE g == [r \in L!Counted \ L!OwnRows(u) |-> L!Signed(r, L!Shares(r, L!Linked(u) \ L!Self))]
  <2>1. g = SharedOut(L!Linked(u) \ L!Self) /\ DOMAIN g = L!Counted
    BY <1>1 DEF SharedOut
  <2>2. L!SharedWith(u) = L!SumFunction(g)
    BY DEF L!SharedWith
  <2> HIDE DEF g
  <2> QED
    BY <2>1, <2>2, LedgerSums
<1> DEFINE T == {q \in L!OwnRows(u) : entry[q].payer \in open}
           b == [r \in T |-> L!Signed(r, entry[r].amount)]
<1>4. L!Spent(u) = L!SumFunction(b) - 0 - L!Offset(u) + L!SharedWith(u)
  BY DEF L!Spent, L!CountedSettlements
<1>5. DOMAIN b = {}
  BY <1>1
<1> HIDE DEF b
<1>6. L!SumFunction(b) = 0
  BY <1>5, LedgerSums, SumOfNone
<1>7. SumOver(SharedOut(L!Linked(u) \ L!Self), L!Counted) \in Int
  <2> DEFINE g == SharedOut(L!Linked(u) \ L!Self)
  <2>1. IsFiniteSet(L!Counted) /\ L!Counted \subseteq Entries
    BY FS_Subset DEF L!Counted, L!Counts, LedgerInv, Booking
  <2>2. \A r \in L!Counted : g[r] \in Int
    BY <2>1, SharesAre, SignedIsInt DEF SharedOut
  <2> HIDE DEF g
  <2>3. SumOver(g, L!Counted) \in Int
    BY <2>1, <2>2, SumIsInt
  <2> QED
    BY <2>3 DEF g
<1> QED
  BY <1>2, <1>3, <1>4, <1>6, <1>7

\* ... and he what he paid less the shares of all whom he does not stand for.
LEMMA OwnerSpends ==
  ASSUME LedgerInv, L!AmountsAssumption, \A r \in L!Booked : entry[r].payer = Owner /\ Owner \in open
  PROVE  /\ L!Spent(Owner) = SumOver(Billed, L!Counted)
                             - SumOver(SharedOut(Members \ L!StandFor(Owner)), L!Counted)
         /\ SumOver(Billed, L!Counted) \in Int
         /\ SumOver(SharedOut(Members \ L!StandFor(Owner)), L!Counted) \in Int
<1>1. L!OwnRows(Owner) = L!Counted /\ {q \in L!OwnRows(Owner) : entry[q].payer \in open} = L!Counted
  BY DEF L!OwnRows, L!Counted, L!Counts
<1> DEFINE E == SharedOut(Members \ L!StandFor(Owner))
<1>2. L!Offset(Owner) = SumOver(E, L!Counted)
  <2> DEFINE g == [r \in L!OwnRows(Owner) |-> L!Signed(r, L!Shares(r, Members \ L!StandFor(Owner)))]
  <2>1. g = E /\ DOMAIN g = L!Counted
    BY <1>1 DEF SharedOut
  <2>2. L!Offset(Owner) = L!SumFunction(g)
    BY DEF L!Offset
  <2> HIDE DEF g, E
  <2> QED
    BY <2>1, <2>2, LedgerSums
<1>3. L!SharedWith(Owner) = 0
  <2> DEFINE g == [r \in L!Counted \ L!OwnRows(Owner) |->
                     L!Signed(r, L!Shares(r, L!Linked(Owner) \ L!Self))]
  <2>1. DOMAIN g = {}
    BY <1>1
  <2>2. L!SharedWith(Owner) = L!SumFunction(g)
    BY DEF L!SharedWith
  <2> HIDE DEF g
  <2> QED
    BY <2>1, <2>2, LedgerSums, SumOfNone
<1> DEFINE T == {q \in L!OwnRows(Owner) : entry[q].payer \in open}
           b == [r \in T |-> L!Signed(r, entry[r].amount)]
<1>4. L!Spent(Owner) = L!SumFunction(b) - 0 - L!Offset(Owner) + L!SharedWith(Owner)
  BY DEF L!Spent, L!CountedSettlements
<1>5. b = Billed /\ DOMAIN b = L!Counted
  BY <1>1 DEF Billed
<1> HIDE DEF b
<1>6. L!SumFunction(b) = SumOver(Billed, L!Counted)
  BY <1>5, LedgerSums
<1>7. SumOver(Billed, L!Counted) \in Int
  <2>1. \A r \in L!Counted : Billed[r] \in Int
    BY CountedRows, SignedIsInt DEF Billed
  <2> QED
    BY <2>1, CountedRows, SumIsInt
<1>8. SumOver(E, L!Counted) \in Int
  <2>1. \A r \in L!Counted : E[r] \in Int
    BY CountedRows, SharesAre, SignedIsInt DEF SharedOut
  <2> HIDE DEF E
  <2> QED
    BY <2>1, CountedRows, SumIsInt
<1> HIDE DEF E
<1>9. L!Spent(Owner) = SumOver(Billed, L!Counted) - SumOver(E, L!Counted)
  BY <1>2, <1>3, <1>4, <1>6, <1>7, <1>8
<1> QED
  BY <1>7, <1>8, <1>9 DEF E

Outsiders == {m \in L!People : member[m].user = Nobody} \ L!Self

\* Who spends what of a row.
Part(u, r) ==
  IF u = Owner THEN L!Signed(r, entry[r].amount) - L!Signed(r, L!Shares(r, Members \ L!StandFor(Owner)))
  ELSE L!Signed(r, L!Shares(r, L!Linked(u) \ L!Self))

\* All members but the owner and those without an account have a user.
LEMMA SharesByUser ==
  ASSUME LedgerInv, L!UsersAssumption, NEW r \in Entries
  PROVE  L!Shares(r, Members \ L!StandFor(Owner))
         = L!Shares(r, Outsiders)
           + SumOver([u \in Users \ {Owner} |-> L!Shares(r, L!Linked(u) \ L!Self)], Users \ {Owner})
<1> DEFINE K == Users \ {Owner}
           Q == {m \in L!Parties(r) : member[m].user \in K /\ m \notin L!Self}
           kind == [m \in Q |-> member[m].user]
           f == [u \in K |-> L!Shares(r, L!Linked(u) \ L!Self)]
           part == [u \in K |-> L!Parties(r) \cap (L!Linked(u) \ L!Self)]
<1>1. /\ IsFiniteSet(L!Parties(r)) /\ L!Parties(r) \subseteq L!People
      /\ \A m \in L!Parties(r) : share[r][m] \in Int
  BY SharesAre
<1>2. IsFiniteSet(Q) /\ IsFiniteSet(K)
  BY <1>1, FS_Subset, LedgerSets DEF L!UsersAssumption
<1>3. \A m \in Q : kind[m] \in K /\ share[r][m] \in Int
  BY <1>1
<1>4. \A u \in K : part[u] = {m \in Q : kind[m] = u} /\ f[u] = SumOver(share[r], part[u])
  <2>1. TAKE u \in K
  <2>2. L!Parties(r) \cap (L!Linked(u) \ L!Self) = {m \in Q : kind[m] = u}
    BY <1>1 DEF L!Linked
  <2>3. f[u] = SumOver(share[r], part[u])
    BY SharesAre
  <2> QED
    BY <2>2, <2>3
<1>5. SumOver(f, K) = SumOver(share[r], Q)
  <2> HIDE DEF f, Q, K, kind, part
  <2> QED
    BY <1>2, <1>3, <1>4, SumByKind
<1>6. L!Parties(r) \cap (Members \ L!StandFor(Owner)) = L!Parties(r) \cap (Outsiders \cup Q)
      /\ Outsiders \cap Q = {} /\ L!Parties(r) \cap Q = Q
  <2>1. \A m \in L!People : m \in Members /\ member[m].user \in Users \cup {Nobody}
    BY DEF LedgerInv, Grouped, L!People
  <2>2. \A m \in L!People : m \in L!StandFor(Owner) <=> member[m].user = Owner \/ m \in L!Self
    BY DEF L!StandFor, L!Linked
  <2> QED
    BY <1>1, <2>1, <2>2 DEF Outsiders, L!UsersAssumption
<1> HIDE DEF f, Q, K, kind, part
<1>7. L!Shares(r, Members \ L!StandFor(Owner)) = L!Shares(r, Outsiders \cup Q)
  BY <1>6, SharesAre
<1>8. L!Shares(r, Outsiders \cup Q) = L!Shares(r, Outsiders) + L!Shares(r, Q)
  BY <1>6, SharesOfTwo
<1>9. L!Shares(r, Q) = SumOver(share[r], Q)
  BY <1>6, SharesAre
<1> QED
  BY <1>5, <1>7, <1>8, <1>9 DEF f, K

LEMMA RowIsSpent ==
  ASSUME LedgerInv, L!AmountsAssumption, L!UsersAssumption, NEW r \in L!Booked
  PROVE  /\ \A u \in Users : Part(u, r) \in Int
         /\ SumOver([u \in Users |-> Part(u, r)], Users)
            = L!Signed(r, entry[r].amount - L!Shares(r, Outsiders))
<1> DEFINE K == Users \ {Owner}
           f == [u \in K |-> L!Shares(r, L!Linked(u) \ L!Self)]
           p == [u \in Users |-> Part(u, r)]
           s == [u \in K |-> L!Signed(r, f[u])]
           a == entry[r].amount
           x == L!Shares(r, Members \ L!StandFor(Owner))
           y == L!Shares(r, Outsiders)
<1>1. r \in Entries /\ a \in Int
  BY CountedRows
<1>2. x \in Int /\ y \in Int /\ \A u \in K : f[u] \in Int
  BY <1>1, SharesAre
<1>3. IsFiniteSet(Users) /\ IsFiniteSet(K) /\ Owner \in Users
  BY LedgerSets, FS_Subset DEF L!UsersAssumption
<1>4. x = y + SumOver(f, K)
  BY <1>1, SharesByUser
<1>5. p[Owner] = L!Signed(r, a) - L!Signed(r, x) /\ \A u \in K : p[u] = s[u]
  BY <1>3 DEF Part
<1>6. \A u \in K : s[u] \in Int
  BY <1>1, <1>2, SignedIsInt
<1>7. L!Signed(r, a) \in Int /\ L!Signed(r, x) \in Int
  BY <1>1, <1>2, SignedIsInt
<1>8. \A u \in Users : p[u] = Part(u, r)
  OBVIOUS
<1>9. SumOver(s, K) = L!Signed(r, SumOver(f, K))
  <2> HIDE DEF K, f
  <2> QED
    BY <1>1, <1>2, <1>3, SignedSum
<1> HIDE DEF f, p, s, a, x, y
<1>10. \A u \in Users : p[u] \in Int
  BY <1>5, <1>6, <1>7
<1>11. SumOver(p, Users) = p[Owner] + SumOver(p, K)
  BY <1>3, <1>10, SumTakesOut
<1> HIDE DEF K
<1>12. SumOver(p, K) = SumOver(s, K)
  BY <1>3, <1>5, SumSame
<1>13. SumOver(f, K) \in Int
  BY <1>2, <1>3, SumIsInt
<1>14. SumOver(p, Users) = L!Signed(r, a - y)
  BY <1>1, <1>2, <1>4, <1>5, <1>9, <1>11, <1>12, <1>13 DEF L!Signed
<1> QED
  BY <1>8, <1>10, <1>14 DEF p, a, y

\* What the users spend is what was paid, less the shares of members without account.
LEMMA LedgerSpends ==
  ASSUME LedgerInv, L!AmountsAssumption, L!UsersAssumption
  PROVE  L!SpendingAddsUp
<1> DEFINE spent == [u \in Users |-> L!Spent(u)]
           grid == [u \in Users |-> [r \in L!Counted |-> Part(u, r)]]
           back == [r \in L!Counted |-> [u \in Users |-> Part(u, r)]]
           h == [r \in L!Counted |-> L!Signed(r, entry[r].amount - L!Shares(r, Outsiders))]
<1> SUFFICES ASSUME \A r \in L!Booked : entry[r].payer = Owner /\ Owner \in open
             PROVE  L!SumFunction(spent) = L!SumFunction(h)
  BY DEF L!SpendingAddsUp, Outsiders
<1>1. IsFiniteSet(Users) /\ IsFiniteSet(L!Counted) /\ L!Counted \subseteq L!Booked
      /\ L!Booked \subseteq Entries
  BY CountedRows, LedgerSets DEF L!UsersAssumption
<1>2. \A u \in Users : \A r \in L!Counted : /\ grid[u][r] = Part(u, r) /\ grid[u][r] \in Int
                                             /\ back[r][u] = grid[u][r]
  BY <1>1, RowIsSpent
<1>3. ASSUME NEW u \in Users PROVE spent[u] = SumOver(grid[u], L!Counted)
  <2>1. CASE u = Owner
    <3> DEFINE E == SharedOut(Members \ L!StandFor(Owner))
    <3>1. \A r \in L!Counted : /\ Billed[r] \in Int /\ E[r] \in Int
                               /\ grid[u][r] = Billed[r] - E[r]
      <4> TAKE r \in L!Counted
      <4>1. entry[r].amount \in Int /\ L!Shares(r, Members \ L!StandFor(Owner)) \in Int
        BY <1>1, CountedRows, SharesAre
      <4>2. Billed[r] = L!Signed(r, entry[r].amount)
            /\ E[r] = L!Signed(r, L!Shares(r, Members \ L!StandFor(Owner)))
        BY DEF Billed, SharedOut
      <4> HIDE DEF E
      <4> QED
        BY <1>1, <1>2, <2>1, <4>1, <4>2, SignedIsInt DEF Part
    <3> HIDE DEF E, grid
    <3>2. SumOver(grid[u], L!Counted) = SumOver(Billed, L!Counted) - SumOver(E, L!Counted)
      BY <1>1, <3>1, SumOfDifference
    <3>3. L!Spent(Owner) = SumOver(Billed, L!Counted) - SumOver(E, L!Counted)
      BY OwnerSpends DEF E
    <3> QED
      BY <2>1, <3>2, <3>3
  <2>2. CASE u # Owner
    <3>1. grid[u] = SharedOut(L!Linked(u) \ L!Self)
      BY <2>2 DEF Part, SharedOut
    <3>2. L!Spent(u) = SumOver(SharedOut(L!Linked(u) \ L!Self), L!Counted)
      BY <2>2, OthersSpend
    <3> HIDE DEF grid
    <3> QED
      BY <3>1, <3>2
  <2> QED
    BY <2>1, <2>2
<1>4. \A r \in L!Counted : h[r] = SumOver(back[r], Users)
  BY <1>1, RowIsSpent
<1>5. DOMAIN spent = Users /\ DOMAIN h = L!Counted
  OBVIOUS
<1> HIDE DEF spent, grid, back, h
<1>6. SumOver(spent, Users) = SumOver(h, L!Counted)
  <2>1. Table(Users, L!Counted, grid, back, spent, h)
    BY <1>2, <1>3, <1>4 DEF Table
  <2> QED
    BY <1>1, <2>1, SumOfSums
<1> QED
  BY <1>5, <1>6, LedgerSums

\* What the owner paid, less what he was paid back, is his own spending and what
\* he is owed.
LEMMA LedgerOwes ==
  ASSUME LedgerInv, L!AmountsAssumption
  PROVE  L!PaidIsSpentOrOwed
<1> SUFFICES ASSUME \A r \in L!Booked : L!Plain(r), L!SelfSeenBy(Owner) = L!StandFor(Owner),
                    NEW me \in L!People, L!StandFor(Owner) = {me}
             PROVE  L!SumFunction([r \in L!Booked |-> entry[r].amount])
                    + L!SumFunction([m \in L!People |-> L!Repaid(me, m) - L!Repaid(m, me)])
                    = L!Spent(Owner) + L!PendingNet(Owner)
  BY DEF L!PaidIsSpentOrOwed
<1> DEFINE P == L!People
           B == L!Booked
           Q == P \ {me}
           back == [m \in P |-> L!Repaid(me, m) - L!Repaid(m, me)]
           line == [m \in P |-> L!Line(Owner, m)]
           owed == [m \in P |-> L!Owed(m)]
           rest == [m \in P |-> IF m = me THEN 0 ELSE L!Owed(m)]
           paid == [r \in B |-> entry[r].amount]
           out == [r \in B |-> L!Shares(r, Members \ {me})]
           grid == [m \in Q |-> [r \in B |-> L!Shares(r, {m})]]
           turned == [r \in B |-> [m \in Q |-> L!Shares(r, {m})]]
<1>1. IsFiniteSet(P) /\ IsFiniteSet(B) /\ IsFiniteSet(Q) /\ B \subseteq Entries /\ P \subseteq Members
  BY FS_Subset, CountedRows DEF LedgerInv, Grouped, Booking, L!People
<1>2. L!Counted = B
  BY DEF L!Counted, L!Plain, L!Counts, L!Booked
<1>3. Billed = paid /\ SharedOut(Members \ L!StandFor(Owner)) = out
  BY <1>2 DEF Billed, SharedOut, L!Plain, L!Signed
<1>4. L!Spent(Owner) = SumOver(paid, B) - SumOver(out, B)
      /\ SumOver(paid, B) \in Int /\ SumOver(out, B) \in Int
  <2>1. \A r \in B : entry[r].payer = Owner /\ Owner \in open
    BY DEF L!Plain
  <2> HIDE DEF paid, out, B
  <2> QED
    BY <1>2, <1>3, <2>1, OwnerSpends DEF B
<1>5. \A m, n \in P : L!Repaid(m, n) \in Int
  <2>1. TAKE m, n \in P
  <2> DEFINE S == {t \in L!Recorded : settled[t].from = m /\ settled[t].to = n}
             g == [s \in S |-> settled[s].amount]
  <2>2. IsFiniteSet(S)
    BY FS_Subset DEF LedgerInv, Settling
  <2>3. \A s \in S : g[s] \in Int
    BY DEF LedgerInv, Settling, L!Recorded
  <2>4. L!Repaid(m, n) = L!SumFunction(g) /\ DOMAIN g = S
    BY DEF L!Repaid
  <2> HIDE DEF S, g
  <2>5. SumOver(g, S) \in Int
    BY <2>2, <2>3, SumIsInt
  <2> QED
    BY <2>4, <2>5, LedgerSums
<1>6. \A m \in P : L!Owed(m) = SumOver([r \in B |-> L!Shares(r, {m})], B) /\ L!Owed(m) \in Int
  <2>1. TAKE m \in P
  <2> DEFINE g == [r \in B |-> L!Shares(r, {m})]
  <2>2. L!Owed(m) = L!SumFunction(g) /\ DOMAIN g = B
    BY DEF L!Owed
  <2>3. \A r \in B : g[r] \in Int
    BY <1>1, SharesAre
  <2> HIDE DEF B
  <2>4. SumOver(g, B) \in Int
    <3> HIDE DEF g
    <3> QED
      BY <1>1, <2>3, SumIsInt
  <2>5. L!Owed(m) = SumOver(g, B)
    <3> HIDE DEF g
    <3> QED
      BY <2>2, LedgerSums
  <2> QED
    BY <2>4, <2>5
<1>7. \A m \in P : line[m] = (IF m = me THEN 0 ELSE L!Owed(m) + L!Repaid(me, m) - L!Repaid(m, me))
  <2>1. L!SelfSeenBy(Owner) = {me} /\ (CHOOSE n \in {me} : TRUE) = me
    OBVIOUS
  <2>2. TAKE m \in P
  <2> QED
    BY <2>1 DEF L!Line
<1>8. \A m \in P : back[m] \in Int /\ rest[m] \in Int /\ line[m] \in Int /\ rest[m] = line[m] - back[m]
  <2>1. TAKE m \in P
  <2>2. L!Repaid(me, m) \in Int /\ L!Repaid(m, me) \in Int /\ L!Owed(m) \in Int
    BY <1>5, <1>6
  <2>3. /\ back[m] = L!Repaid(me, m) - L!Repaid(m, me)
        /\ rest[m] = IF m = me THEN 0 ELSE L!Owed(m)
        /\ line[m] = IF m = me THEN 0 ELSE L!Owed(m) + L!Repaid(me, m) - L!Repaid(m, me)
    BY <1>7
  <2> HIDE DEF back, rest, line
  <2> QED
    BY <2>2, <2>3
<1>9. SumOver(rest, P) = SumOver(rest, Q)
  <2>1. \A m \in P \ Q : rest[m] = 0
    OBVIOUS
  <2> HIDE DEF rest
  <2> QED
    BY <1>1, <1>8, <2>1, SumOnPart
<1>10. SumOver(rest, Q) = SumOver(out, B)
  <2>1. \A m \in Q : \A r \in B : grid[m][r] \in Int /\ turned[r][m] = grid[m][r]
    BY <1>1, SharesAre
  <2>2. \A m \in Q : rest[m] = SumOver(grid[m], B)
    BY <1>6
  <2>3. ASSUME NEW r \in B PROVE out[r] = SumOver(turned[r], Q)
    <3> DEFINE T == L!Parties(r) \cap Q
               g == [m \in Q |-> L!Shares(r, {m})]
    <3>1. turned[r] = g
      OBVIOUS
    <3>2. /\ L!Parties(r) \subseteq P /\ \A m \in L!Parties(r) : share[r][m] \in Int
      BY <1>1, SharesAre
    <3>3. \A m \in Q : g[m] = IF m \in T THEN share[r][m] ELSE 0
      <4>1. TAKE m \in Q
      <4>2. CASE m \in T
        <5>1. L!Parties(r) \cap {m} = {m} /\ share[r][m] \in Int
          BY <3>2, <4>2
        <5>2. SumOver(share[r], {m}) = share[r][m]
          BY <5>1, SumOfOne
        <5>3. g[m] = SumOver(share[r], L!Parties(r) \cap {m})
          BY <1>1, SharesAre
        <5> HIDE DEF g
        <5> QED
          BY <4>2, <5>1, <5>2, <5>3
      <4>3. CASE m \notin T
        <5>1. L!Parties(r) \cap {m} = {}
          BY <4>3
        <5>2. g[m] = SumOver(share[r], L!Parties(r) \cap {m})
          BY <1>1, SharesAre
        <5> HIDE DEF g
        <5> QED
          BY <4>3, <5>1, <5>2, SumOfNone
      <4> QED
        BY <4>2, <4>3
    <3>4. L!Parties(r) \cap (Members \ {me}) = T
      BY <1>1, <3>2
    <3>5. out[r] = SumOver(share[r], T)
      BY <1>1, <3>4, SharesAre
    <3>6. IsFiniteSet(T) /\ T \subseteq Q /\ \A m \in T : share[r][m] \in Int
      BY <1>1, <3>2, FS_Subset
    <3>7. (\A m \in Q : g[m] \in Int) /\ (\A m \in T : g[m] = share[r][m])
          /\ (\A m \in Q \ T : g[m] = 0)
      BY <3>3, <3>6
    <3> HIDE DEF g, T, out, Q, grid, turned
    <3>8. SumOver(g, Q) = SumOver(g, T)
      BY <1>1, <3>6, <3>7, SumOnPart
    <3>9. SumOver(g, T) = SumOver(share[r], T)
      BY <3>6, <3>7, SumSame
    <3> QED
      BY <3>1, <3>5, <3>8, <3>9
  <2> HIDE DEF rest, out, grid, turned, Q, B
  <2>4. Table(Q, B, grid, turned, rest, out)
    BY <2>1, <2>2, <2>3 DEF Table
  <2> QED
    BY <1>1, <2>4, SumOfSums
<1>11. L!PendingNet(Owner) = L!SumFunction(line)
  BY DEF L!PendingNet
<1>12. DOMAIN line = P /\ DOMAIN back = P /\ DOMAIN paid = B
  OBVIOUS
<1> HIDE DEF P, B, Q, back, line, rest, paid, out
<1>13. SumOver(rest, P) = SumOver(line, P) - SumOver(back, P)
  BY <1>1, <1>8, SumOfDifference
<1>14. SumOver(line, P) \in Int /\ SumOver(back, P) \in Int
  BY <1>1, <1>8, SumIsInt
<1>15. L!SumFunction(paid) + L!SumFunction(back) = L!Spent(Owner) + L!PendingNet(Owner)
  BY <1>4, <1>9, <1>10, <1>11, <1>12, <1>13, <1>14, LedgerSums
<1> QED
  BY <1>15 DEF paid, back, B, P

-----------------------------------------------------------------------------
\* What row r adds to the spending user u is shown.
Value(u, r) ==
  IF entry[r].payer = u THEN entry[r].amount - L!Shares(r, Members \ L!StandFor(u))
  ELSE L!Shares(r, L!Linked(u) \ L!Self)
Values(u) == [r \in L!Counted |-> Value(u, r)]

\* Splits that fit their rows and have no negative share
Sound == drifted = {} /\ \A r \in L!Booked : \A m \in L!Parties(r) : share[r][m] >= 0

LEMMA OthersFit ==
  ASSUME LedgerInv, L!AmountsAssumption, Sound, NEW r \in L!Booked, NEW u
  PROVE  L!Shares(r, Members \ L!StandFor(u)) <= entry[r].amount
<1> DEFINE own == L!StandFor(u)
           others == Members \ L!StandFor(u)
<1>1. r \in Entries /\ entry[r].amount \in Nat
  BY CountedRows DEF LedgerInv, Booking, L!AmountsAssumption
<1>2. /\ IsFiniteSet(L!Parties(r)) /\ L!Parties(r) \subseteq Members
      /\ \A m \in L!Parties(r) : share[r][m] \in Nat
  <2>1. /\ IsFiniteSet(L!Parties(r)) /\ L!Parties(r) \subseteq L!People
        /\ \A m \in L!Parties(r) : share[r][m] \in Int
    BY <1>1, SharesAre
  <2>2. \A m \in L!Parties(r) : share[r][m] >= 0
    BY DEF Sound
  <2>3. L!People \subseteq Members
    BY DEF L!People
  <2> QED
    BY <2>1, <2>2, <2>3
<1>3. L!Shares(r, own) = SumOver(share[r], L!Parties(r) \cap own) /\ L!Shares(r, others) \in Int
  BY <1>1, SharesAre
<1>4. L!Shares(r, own) \in Nat
  <2>1. IsFiniteSet(L!Parties(r) \cap own) /\ \A m \in L!Parties(r) \cap own : share[r][m] \in Nat
    BY <1>2, FS_Subset
  <2> HIDE DEF own
  <2> QED
    BY <1>3, <2>1, SumIsNat
<1>5. L!Shares(r, own \cup others) = L!Shares(r, own) + L!Shares(r, others)
  <2>1. own \cap others = {}
    OBVIOUS
  <2> HIDE DEF own, others
  <2> QED
    BY <1>1, <2>1, SharesOfTwo
<1>6. L!Shares(r, own \cup others) = SumOver(share[r], L!Parties(r))
  <2>1. L!Parties(r) \cap (own \cup others) = L!Parties(r)
    BY <1>2
  <2> HIDE DEF own, others
  <2> QED
    BY <1>1, <2>1, SharesAre
<1>7. SumOver(share[r], L!Parties(r)) <= entry[r].amount
  <2>1. CASE share[r] = L!NoShares
    <3>1. L!Parties(r) = {}
      BY <2>1 DEF L!Parties, L!NoShares
    <3> QED
      BY <1>1, <3>1, SumOfNone
  <2>2. CASE share[r] # L!NoShares
    <3>1. Fits(share[r], entry[r].amount)
      BY <1>1 DEF LedgerInv, Splitting, Sound
    <3> QED
      BY <1>1, <2>2, <3>1 DEF Fits, L!Parties
  <2> QED
    BY <2>1, <2>2
<1> HIDE DEF own
<1> QED
  BY <1>1, <1>3, <1>4, <1>5, <1>6, <1>7

LEMMA ValuesAre ==
  ASSUME LedgerInv, L!AmountsAssumption, NEW u
  PROVE  /\ \A r \in L!Counted : Values(u)[r] = Value(u, r) /\ Value(u, r) \in Int
         /\ Sound => \A r \in L!OwnRows(u) : Value(u, r) \in Nat
<1>1. ASSUME NEW r \in L!Counted PROVE Value(u, r) \in Int
  <2>1. r \in Entries /\ entry[r].amount \in Int
    BY CountedRows
  <2>2. \A S : L!Shares(r, S) \in Int
    BY <2>1, SharesAre
  <2> QED
    BY <2>1, <2>2 DEF Value
<1>2. ASSUME Sound, NEW r \in L!OwnRows(u) PROVE Value(u, r) \in Nat
  <2>1. r \in L!Counted /\ entry[r].payer = u
    BY DEF L!OwnRows
  <2>2. L!Shares(r, Members \ L!StandFor(u)) <= entry[r].amount
    BY <1>2, <2>1, CountedRows, OthersFit
  <2>3. L!Shares(r, Members \ L!StandFor(u)) \in Int /\ entry[r].amount \in Int
    BY <2>1, CountedRows, SharesAre
  <2> QED
    BY <2>1, <2>2, <2>3 DEF Value
<1> QED
  BY <1>1, <1>2 DEF Values

\* What stops at nothing never has to.
LEMMA ShownIs ==
  ASSUME LedgerInv, L!AmountsAssumption, Sound, NEW u \in open, NEW kind, NEW C
  PROVE  L!Shown(u, kind, C) = SumOver(Values(u), L!Within(kind, C))
<1> DEFINE W == L!Within(kind, C)
           D == W \cap L!OwnRows(u)
           E == W \ L!OwnRows(u)
           paid == [r \in {q \in D : entry[q].payer \in open} |-> entry[r].amount]
           off == [r \in D |-> L!Shares(r, Members \ L!StandFor(u))]
           in == [r \in E |-> L!Shares(r, L!Linked(u) \ L!Self)]
           v == Values(u)
           own == L!SumFunction(paid) - L!OffsetIn(u, kind, C)
<1>1. W \subseteq L!Counted /\ D \subseteq L!OwnRows(u) /\ D \subseteq L!Counted /\ E \subseteq L!Counted
      /\ W = D \cup E /\ D \cap E = {} /\ {q \in D : entry[q].payer \in open} = D
  BY DEF L!Within, L!OwnRows
<1>2. IsFiniteSet(D) /\ IsFiniteSet(E)
  BY <1>1, CountedRows, FS_Subset
<1>3. \A r \in D : /\ paid[r] \in Int /\ off[r] \in Int /\ v[r] = paid[r] - off[r]
                    /\ v[r] \in Nat
  <2> TAKE r \in D
  <2>1. r \in L!Counted /\ r \in L!OwnRows(u) /\ entry[r].payer = u
    BY <1>1 DEF L!OwnRows
  <2>2. paid[r] = entry[r].amount /\ off[r] = L!Shares(r, Members \ L!StandFor(u))
    BY <1>1
  <2>3. entry[r].amount \in Int /\ L!Shares(r, Members \ L!StandFor(u)) \in Int
    BY <2>1, CountedRows, SharesAre
  <2>4. v[r] = Value(u, r) /\ Value(u, r) \in Nat
    BY <2>1, ValuesAre
  <2> HIDE DEF paid, off, v
  <2> QED
    BY <2>1, <2>2, <2>3, <2>4 DEF Value
<1>4. \A r \in E : v[r] \in Int /\ in[r] = v[r]
  <2> TAKE r \in E
  <2>1. r \in L!Counted /\ entry[r].payer # u
    BY <1>1 DEF L!OwnRows
  <2>2. in[r] = L!Shares(r, L!Linked(u) \ L!Self)
    OBVIOUS
  <2>3. v[r] = Value(u, r) /\ v[r] \in Int
    BY <2>1, ValuesAre
  <2> HIDE DEF in, v
  <2> QED
    BY <2>1, <2>2, <2>3 DEF Value
<1>5. L!OffsetIn(u, kind, C) = L!SumFunction(off) /\ L!SharedIn(u, kind, C) = L!SumFunction(in)
  BY DEF L!OffsetIn, L!SharedIn
<1>6. L!Shown(u, kind, C) = (IF own > 0 THEN own ELSE 0) + L!SharedIn(u, kind, C)
  BY DEF L!Shown
<1>7. DOMAIN paid = D /\ DOMAIN off = D /\ DOMAIN in = E
  BY <1>1
<1> HIDE DEF D, E, paid, off, in, v
<1>8. own = SumOver(paid, D) - SumOver(off, D) /\ L!SharedIn(u, kind, C) = SumOver(in, E)
  BY <1>5, <1>7, LedgerSums
<1>9. SumOver(v, D) = SumOver(paid, D) - SumOver(off, D)
  BY <1>2, <1>3, SumOfDifference
<1>10. SumOver(v, D) \in Nat
  BY <1>2, <1>3, SumIsNat
<1>11. SumOver(in, E) = SumOver(v, E)
  BY <1>2, <1>4, SumSame
<1>12. SumOver(v, W) = SumOver(v, D) + SumOver(v, E) /\ SumOver(v, E) \in Int
  <2>1. \A r \in D \cup E : v[r] \in Int
    BY <1>3, <1>4
  <2> HIDE DEF W
  <2>2. SumOver(v, D \cup E) = SumOver(v, D) + SumOver(v, E)
    BY <1>1, <1>2, <2>1, SumOfUnion
  <2>3. SumOver(v, E) \in Int
    BY <1>2, <1>4, SumIsInt
  <2> QED
    BY <1>1, <2>2, <2>3
<1> HIDE DEF own
<1>13. own = SumOver(v, D)
  BY <1>8, <1>9
<1>14. L!Shown(u, kind, C) = SumOver(v, W)
  BY <1>6, <1>8, <1>10, <1>11, <1>12, <1>13
<1> QED
  BY <1>14 DEF v

\* Rows spread over two periods or categories are shown in one of them.
LEMMA ShownSpreads ==
  ASSUME LedgerInv, L!AmountsAssumption, Sound, NEW u \in open, NEW kind, NEW C
  PROVE  L!Shown(u, kind, C) + L!Shown(u, kind, Entries \ C) = L!Shown(u, kind, Entries)
<1> DEFINE S == L!Within(kind, C)
           T == L!Within(kind, Entries \ C)
           v == Values(u)
<1>1. S \subseteq L!Counted /\ T \subseteq L!Counted /\ S \cap T = {} /\ L!Within(kind, Entries) = S \cup T
  BY CountedRows DEF L!Within
<1>2. IsFiniteSet(S) /\ IsFiniteSet(T)
  BY <1>1, CountedRows, FS_Subset
<1>3. \A r \in S \cup T : v[r] \in Int
  BY <1>1, ValuesAre
<1>4. /\ L!Shown(u, kind, C) = SumOver(v, S)
      /\ L!Shown(u, kind, Entries \ C) = SumOver(v, T)
      /\ L!Shown(u, kind, Entries) = SumOver(v, L!Within(kind, Entries))
  BY ShownIs
<1> HIDE DEF S, T, v
<1> QED
  BY <1>1, <1>2, <1>3, <1>4, SumOfUnion

LEMMA ShownIsSpent ==
  ASSUME LedgerInv, L!AmountsAssumption, Sound, NEW u \in open
  PROVE  L!Shown(u, "debit", Entries) - L!Shown(u, "credit", Entries) = L!Spent(u)
<1> DEFINE O == L!OwnRows(u)
           N == L!Counted \ O
           S == L!Within("debit", Entries)
           T == L!Within("credit", Entries)
           v == Values(u)
           s == [r \in L!Counted |-> L!Signed(r, v[r])]
           o == [r \in T |-> 0]
           b == [r \in {q \in O : entry[q].payer \in open} |-> L!Signed(r, entry[r].amount)]
           e == [r \in O |-> L!Signed(r, L!Shares(r, Members \ L!StandFor(u)))]
           y == [r \in N |-> L!Signed(r, L!Shares(r, L!Linked(u) \ L!Self))]
<1>1. /\ O \subseteq L!Counted /\ O \cap N = {} /\ L!Counted = O \cup N
      /\ {q \in O : entry[q].payer \in open} = O
  BY DEF L!OwnRows
<1>2. /\ S \subseteq L!Counted /\ T \subseteq L!Counted /\ S \cap T = {} /\ L!Counted = S \cup T
      /\ (\A r \in S : entry[r].kind = "debit") /\ \A r \in T : entry[r].kind = "credit"
  <2>1. \A r \in L!Counted : entry[r].kind \in {"debit", "credit"} /\ r \in Entries
    BY CountedRows DEF LedgerInv, Booking
  <2> QED
    BY <2>1 DEF L!Within
<1>3. IsFiniteSet(O) /\ IsFiniteSet(N) /\ IsFiniteSet(S) /\ IsFiniteSet(T)
  BY <1>1, <1>2, CountedRows, FS_Subset
<1>4. \A r \in L!Counted : v[r] \in Int /\ v[r] = Value(u, r) /\ r \in Entries
  BY ValuesAre, CountedRows
<1>5. \A r \in L!Counted : s[r] \in Int
  BY <1>4, SignedIsInt
<1>6. \A r \in O : b[r] \in Int /\ e[r] \in Int /\ s[r] = b[r] - e[r]
  <2> TAKE r \in O
  <2>1. r \in L!Counted /\ r \in Entries /\ entry[r].payer = u
    BY <1>1, CountedRows DEF L!OwnRows
  <2> DEFINE x == L!Shares(r, Members \ L!StandFor(u))
  <2>2. entry[r].amount \in Int /\ x \in Int
    BY <2>1, CountedRows, SharesAre
  <2>3. v[r] = entry[r].amount - x
    BY <1>4, <2>1 DEF Value
  <2>4. b[r] = L!Signed(r, entry[r].amount) /\ e[r] = L!Signed(r, x) /\ s[r] = L!Signed(r, v[r])
    BY <1>1, <2>1
  <2> HIDE DEF b, e, s, v, x
  <2> QED
    BY <2>1, <2>2, <2>3, <2>4 DEF L!Signed
<1>7. \A r \in N : s[r] = y[r]
  <2> TAKE r \in N
  <2>1. r \in L!Counted /\ entry[r].payer # u
    BY DEF L!OwnRows
  <2>2. y[r] = L!Signed(r, L!Shares(r, L!Linked(u) \ L!Self)) /\ s[r] = L!Signed(r, v[r])
    BY <2>1
  <2> HIDE DEF s, v, y
  <2> QED
    BY <1>4, <2>1, <2>2 DEF Value
<1>8. /\ L!Spent(u) = L!SumFunction(b) - 0 - L!Offset(u) + L!SharedWith(u)
      /\ L!Offset(u) = L!SumFunction(e) /\ L!SharedWith(u) = L!SumFunction(y)
  BY DEF L!Spent, L!CountedSettlements, L!Offset, L!SharedWith
<1>9. DOMAIN b = O /\ DOMAIN e = O /\ DOMAIN y = N
  BY <1>1
<1>10. /\ \A r \in S : s[r] = v[r]
       /\ \A r \in T : o[r] \in Int /\ v[r] \in Int /\ s[r] = o[r] - v[r] /\ o[r] = 0
  BY <1>2, <1>4 DEF L!Signed
<1>11. L!Shown(u, "debit", Entries) = SumOver(v, S) /\ L!Shown(u, "credit", Entries) = SumOver(v, T)
  BY ShownIs
<1> HIDE DEF O, N, S, T, v, s, o, b, e, y
<1>12. L!Spent(u) = SumOver(b, O) - SumOver(e, O) + SumOver(y, N)
       /\ SumOver(b, O) \in Int /\ SumOver(e, O) \in Int
  <2>1. SumOver(b, O) \in Int /\ SumOver(e, O) \in Int
    BY <1>3, <1>6, SumIsInt
  <2> QED
    BY <1>8, <1>9, <2>1, LedgerSums
<1>13. SumOver(s, O) = SumOver(b, O) - SumOver(e, O) /\ SumOver(s, N) = SumOver(y, N)
  BY <1>3, <1>6, <1>7, SumOfDifference, SumSame
<1>14. SumOver(s, L!Counted) = SumOver(s, O) + SumOver(s, N)
  <2>1. \A r \in O \cup N : s[r] \in Int
    BY <1>1, <1>5
  <2> QED
    BY <1>1, <1>3, <2>1, SumOfUnion
<1>15. SumOver(s, L!Counted) = SumOver(s, S) + SumOver(s, T)
  <2>1. \A r \in S \cup T : s[r] \in Int
    BY <1>2, <1>5
  <2> QED
    BY <1>2, <1>3, <2>1, SumOfUnion
<1>16. SumOver(s, S) = SumOver(v, S)
  BY <1>3, <1>10, SumSame
<1>17. SumOver(s, T) = 0 - SumOver(v, T)
  <2>1. SumOver(s, T) = SumOver(o, T) - SumOver(v, T)
    BY <1>3, <1>10, SumOfDifference
  <2>2. SumOver(o, T) = 0
    BY <1>3, <1>10, SumOfZeros
  <2> QED
    BY <2>1, <2>2
<1>18. SumOver(v, S) \in Int /\ SumOver(v, T) \in Int
  <2>1. \A r \in S : v[r] \in Int
    BY <1>2, <1>4
  <2>2. \A r \in T : v[r] \in Int
    BY <1>10
  <2> QED
    BY <1>3, <2>1, <2>2, SumIsInt
<1> QED
  BY <1>11, <1>12, <1>13, <1>14, <1>15, <1>16, <1>17, <1>18

LEMMA LedgerShows ==
  ASSUME LedgerInv, L!AmountsAssumption
  PROVE  L!ShownAddsUp
<1> SUFFICES ASSUME Sound, NEW u \in open
             PROVE  /\ L!Shown(u, "debit", Entries) - L!Shown(u, "credit", Entries) = L!Spent(u)
                    /\ \A kind \in {"debit", "credit"}, C \in SUBSET Entries :
                          L!Shown(u, kind, C) + L!Shown(u, kind, Entries \ C)
                          = L!Shown(u, kind, Entries)
  BY DEF L!ShownAddsUp, Sound
<1> QED
  BY ShownIsSpent, ShownSpreads

-----------------------------------------------------------------------------
\* Types of members, rows, shares, settlements and accounts; who is named by a
\* split or a settlement is in the group.
THEOREM LedgerTyped == ASSUME L!AmountsAssumption PROVE GroupSpec => []GroupTypeOK
<1>1. LedgerInv => GroupTypeOK
  BY LedgerIsTyped DEF GroupTypeOK
<1> QED
  BY <1>1, LedgerHolds, PTL DEF GroupSpec

\* A split covers its row to the last cent, whatever was rounded and whoever came or
\* went, unless the amount was changed alone (split_service.py).
THEOREM SharesStand == ASSUME L!AmountsAssumption PROVE GroupSpec => []SharesCover
<1>1. LedgerInv => SharesCover
  BY LedgerIsTyped DEF SharesCover
<1> QED
  BY <1>1, LedgerHolds, PTL DEF GroupSpec

\* For any users, members, rows and settlements, the views of spending and of
\* debts agree about every cent (split_service.py, dashboard_service.py).
THEOREM MoneyStands ==
  ASSUME L!AmountsAssumption, L!UsersAssumption PROVE GroupSpec => []MoneyAddsUp
<1>1. LedgerInv => MoneyAddsUp
  BY LedgerSpends, LedgerOwes, LedgerShows DEF MoneyAddsUp, L!MoneyAddsUp
<1> QED
  BY <1>1, LedgerHolds, PTL DEF GroupSpec

-----------------------------------------------------------------------------
(* FOUR: what the pages show.  Every figure is a sum over a set of rows of *)
(* its own; the proofs split those sets by account, category, month and    *)
(* day.  All of it holds of any ledger with the right types.               *)

LEMMA ViewSets == \A S : (Views!IsFiniteSet(S) <=> IsFiniteSet(S))
  BY DEF Views!IsFiniteSet, IsFiniteSet

LEMMA ViewSums == \A f : Views!SumFunction(f) = SumOver(f, DOMAIN f)
<1>1. ASSUME NEW f, NEW S PROVE Views!SumFunctionOnSet(f, S) = SumOver(f, S)
  <2> DEFINE F(h) == [s \in SUBSET S |-> IF s = {} THEN 0 ELSE f[Some(s)] + h[s \ {Some(s)}]]
  <2>1. Views!SumFunctionOnSet(f, S) = (CHOOSE h : h = F(h))[S]
    BY Zenon DEF Views!SumFunctionOnSet, Views!FoldFunctionOnSet, Views!MapThenFoldSet, Some
  <2>2. \A h : AddsUpOn(f, S, h) <=> h = F(h)
    BY DEF AddsUpOn
  <2>3. (CHOOSE h : h = F(h)) = (CHOOSE h : AddsUpOn(f, S, h))
    <3> HIDE DEF F
    <3> QED
      BY <2>2, Zenon
  <2> HIDE DEF F
  <2> QED
    BY <2>1, <2>3 DEF SumOver
<1> QED
  BY <1>1 DEF Views!SumFunction

\* A row that is live has what a row has.
LEMMA LiveRows ==
  ASSUME Views!LedgerAssumption, Views!LedgerTypeOK
  PROVE  /\ IsFiniteSet(Views!Live) /\ Views!Live \subseteq Rows
         /\ \A r \in Views!Live :
              /\ booked[r].account \in Books /\ booked[r].day \in Nat
              /\ booked[r].type \in {"credit", "debit"}
              /\ booked[r].status \in {"scheduled", "pending", "posted"}
              /\ booked[r].category \in Categories \cup {NoCategory}
              /\ booked[r].ignored \in BOOLEAN /\ booked[r].paired \in BOOLEAN
              /\ booked[r].moved \in Moved \cup {Undated}
              /\ Costs[r] \in Nat /\ Views!Signed(r) \in Int
<1>1. IsFiniteSet(Views!Live) /\ Views!Live \subseteq Rows
  BY ViewSets, FS_Subset DEF Views!LedgerAssumption, Views!Live
<1>2. \A r \in Views!Live : booked[r] \in Views!Row /\ Costs[r] \in Nat
  BY <1>1 DEF Views!LedgerAssumption, Views!LedgerTypeOK, Views!Live
<1>3. \A r \in Views!Live : Views!Signed(r) \in Int
  BY <1>2 DEF Views!Signed
<1> QED
  BY <1>1, <1>2, <1>3 DEF Views!Row, Views!LedgerAssumption

\* Sums of rows, as sums of one function each.
Signs == [r \in Views!Live |-> Views!Signed(r)]

LEMMA RowSums ==
  ASSUME Views!LedgerAssumption, Views!LedgerTypeOK, NEW S, S \subseteq Views!Live
  PROVE  /\ IsFiniteSet(S)
         /\ \A r \in S : Signs[r] \in Int /\ Costs[r] \in Int
         /\ Views!SignedSum(S) = SumOver(Signs, S) /\ Views!SignedSum(S) \in Int
         /\ Views!AmountSum(S) = SumOver(Costs, S) /\ Views!AmountSum(S) \in Int
<1> DEFINE g == [r \in S |-> Views!Signed(r)]
           h == [r \in S |-> Costs[r]]
<1>1. IsFiniteSet(S) /\ \A r \in S : Signs[r] \in Int /\ Costs[r] \in Int
  BY LiveRows, FS_Subset DEF Signs
<1>2. \A r \in S : g[r] = Signs[r] /\ h[r] = Costs[r]
  BY DEF Signs
<1>3. DOMAIN g = S /\ DOMAIN h = S
  OBVIOUS
<1>4. Views!SignedSum(S) = Views!SumFunction(g) /\ Views!AmountSum(S) = Views!SumFunction(h)
  BY DEF Views!SignedSum, Views!AmountSum
<1> HIDE DEF g, h
<1>5. Views!SignedSum(S) = SumOver(g, S) /\ Views!AmountSum(S) = SumOver(h, S)
  BY <1>3, <1>4, ViewSums
<1>6. SumOver(g, S) = SumOver(Signs, S) /\ SumOver(h, S) = SumOver(Costs, S)
  BY <1>1, <1>2, SumSame
<1>7. SumOver(Signs, S) \in Int /\ SumOver(Costs, S) \in Int
  BY <1>1, SumIsInt
<1> QED
  BY <1>1, <1>5, <1>6, <1>7

\* Rows of two sorts.
LEMMA RowParts ==
  ASSUME Views!LedgerAssumption, Views!LedgerTypeOK,
         NEW S, NEW T, S \subseteq Views!Live, T \subseteq Views!Live, S \cap T = {}
  PROVE  /\ Views!SignedSum(S \cup T) = Views!SignedSum(S) + Views!SignedSum(T)
         /\ Views!AmountSum(S \cup T) = Views!AmountSum(S) + Views!AmountSum(T)
         /\ Views!SignedSum(S) \in Int /\ Views!SignedSum(T) \in Int
         /\ Views!AmountSum(S) \in Int /\ Views!AmountSum(T) \in Int
<1>1. S \cup T \subseteq Views!Live
  OBVIOUS
<1>2. IsFiniteSet(S) /\ IsFiniteSet(T) /\ \A r \in S \cup T : Signs[r] \in Int /\ Costs[r] \in Int
  BY <1>1, RowSums
<1>3. /\ SumOver(Signs, S \cup T) = SumOver(Signs, S) + SumOver(Signs, T)
      /\ SumOver(Costs, S \cup T) = SumOver(Costs, S) + SumOver(Costs, T)
  BY <1>2, SumOfUnion
<1> QED
  BY <1>1, <1>3, RowSums

\* Rows of many sorts.
LEMMA RowKinds ==
  ASSUME Views!LedgerAssumption, Views!LedgerTypeOK, NEW S, S \subseteq Views!Live,
         NEW K, IsFiniteSet(K), NEW kind, \A r \in S : kind[r] \in K,
         NEW f, DOMAIN f = K
  PROVE  /\ (\A k \in K : f[k] = Views!SignedSum({r \in S : kind[r] = k}))
              => Views!SumFunction(f) = Views!SignedSum(S)
         /\ (\A k \in K : f[k] = Views!AmountSum({r \in S : kind[r] = k}))
              => Views!SumFunction(f) = Views!AmountSum(S)
<1> DEFINE part == [k \in K |-> {r \in S : kind[r] = k}]
<1>1. /\ IsFiniteSet(S) /\ \A r \in S : Signs[r] \in Int /\ Costs[r] \in Int
      /\ Views!SignedSum(S) = SumOver(Signs, S) /\ Views!AmountSum(S) = SumOver(Costs, S)
  BY RowSums
<1>2. \A k \in K : part[k] = {r \in S : kind[r] = k} /\ part[k] \subseteq Views!Live
  OBVIOUS
<1>3. Views!SumFunction(f) = SumOver(f, K)
  BY ViewSums
<1> HIDE DEF part
<1>4. \A k \in K : /\ Views!SignedSum(part[k]) = SumOver(Signs, part[k])
                   /\ Views!AmountSum(part[k]) = SumOver(Costs, part[k])
  BY <1>2, RowSums
<1>5. ASSUME \A k \in K : f[k] = Views!SignedSum({r \in S : kind[r] = k})
      PROVE  SumOver(f, K) = SumOver(Signs, S)
  <2>1. \A k \in K : f[k] = SumOver(Signs, part[k])
    BY <1>2, <1>4, <1>5
  <2> QED
    BY <1>1, <1>2, <2>1, SumByKind
<1>6. ASSUME \A k \in K : f[k] = Views!AmountSum({r \in S : kind[r] = k})
      PROVE  SumOver(f, K) = SumOver(Costs, S)
  <2>1. \A k \in K : f[k] = SumOver(Costs, part[k])
    BY <1>2, <1>4, <1>6
  <2> QED
    BY <1>1, <1>2, <2>1, SumByKind
<1> QED
  BY <1>1, <1>3, <1>5, <1>6

\* What is signed is what comes in less what goes out.
LEMMA SignsAre ==
  ASSUME Views!LedgerAssumption, Views!LedgerTypeOK, NEW S, S \subseteq Views!Live
  PROVE  /\ Views!SignedSum({r \in S : booked[r].type = "credit"})
              = Views!AmountSum({r \in S : booked[r].type = "credit"})
         /\ Views!SignedSum({r \in S : booked[r].type = "debit"})
              = -Views!AmountSum({r \in S : booked[r].type = "debit"})
         /\ Views!SignedSum(S) = Views!AmountSum({r \in S : booked[r].type = "credit"})
                                 - Views!AmountSum({r \in S : booked[r].type = "debit"})
         /\ Views!AmountSum({r \in S : booked[r].type = "credit"}) \in Int
         /\ Views!AmountSum({r \in S : booked[r].type = "debit"}) \in Int
<1> DEFINE C == {r \in S : booked[r].type = "credit"}
           D == {r \in S : booked[r].type = "debit"}
           z == [r \in D |-> 0]
<1>1. C \subseteq Views!Live /\ D \subseteq Views!Live /\ S = C \cup D /\ C \cap D = {}
  BY LiveRows
<1>2. /\ \A r \in C : Signs[r] = Costs[r]
      /\ \A r \in D : z[r] \in Int /\ Signs[r] = z[r] - Costs[r]
  BY <1>1, LiveRows DEF Signs, Views!Signed
<1>3. \A r \in D : z[r] = 0
  OBVIOUS
<1> HIDE DEF C, D, z
<1>4. IsFiniteSet(C) /\ IsFiniteSet(D) /\ \A r \in D : Costs[r] \in Int
  BY <1>1, RowSums
<1>5. SumOver(Signs, C) = SumOver(Costs, C)
  BY <1>2, <1>4, SumSame
<1>6. SumOver(Signs, D) = SumOver(z, D) - SumOver(Costs, D)
  BY <1>2, <1>4, SumOfDifference
<1>7. SumOver(z, D) = 0
  BY <1>3, <1>4, SumOfZeros
<1>8. Views!SignedSum(S) = Views!SignedSum(C) + Views!SignedSum(D)
  <2>1. Views!SignedSum(C \cup D) = Views!SignedSum(C) + Views!SignedSum(D)
    BY <1>1, RowParts
  <2> QED
    BY <1>1, <2>1
<1>9. /\ Views!SignedSum(C) = SumOver(Signs, C) /\ Views!AmountSum(C) = SumOver(Costs, C)
      /\ Views!SignedSum(D) = SumOver(Signs, D) /\ Views!AmountSum(D) = SumOver(Costs, D)
      /\ Views!AmountSum(C) \in Int /\ Views!AmountSum(D) \in Int
  BY <1>1, RowSums
<1>10. /\ Views!SignedSum(C) = Views!AmountSum(C)
       /\ Views!SignedSum(D) = -Views!AmountSum(D)
       /\ Views!SignedSum(S) = Views!AmountSum(C) - Views!AmountSum(D)
       /\ Views!AmountSum(C) \in Int /\ Views!AmountSum(D) \in Int
  BY <1>5, <1>6, <1>7, <1>8, <1>9
<1> QED
  BY <1>10 DEF C, D

-----------------------------------------------------------------------------
\* Types.
LEMMA LedgerStartsTyped == Views!LedgerAssumption /\ Views!Init => Views!LedgerTypeOK
<1> SUFFICES ASSUME Views!LedgerAssumption, Views!Init PROVE Views!LedgerTypeOK
  OBVIOUS
<1> QED
  BY DEF Views!LedgerAssumption, Views!Init, Views!LedgerInit, Views!LedgerTypeOK

LEMMA LedgerStaysTyped ==
  Views!LedgerAssumption /\ Views!LedgerTypeOK /\ [Views!Next]_(Views!vars) => Views!LedgerTypeOK'
<1> SUFFICES ASSUME Views!LedgerAssumption, Views!LedgerTypeOK, [Views!Next]_(Views!vars)
             PROVE  Views!LedgerTypeOK'
  OBVIOUS
<1> USE DEF Views!ledger
<1>a. /\ booked \in [Rows -> Views!Row \cup {Views!NoRow}] /\ held \in [Connected -> Int]
      /\ closed \subseteq Books /\ transfer \subseteq Categories /\ hidden \subseteq Categories
      /\ accrual \in BOOLEAN /\ today \in Nat /\ steps \in Nat
  BY DEF Views!LedgerTypeOK
<1>1. ASSUME NEW r \in Rows, NEW a \in Books, NEW d \in Days, NEW t \in {"credit", "debit"},
             NEW c \in Categories \cup {NoCategory}, NEW m \in Moved \cup {Undated},
             Views!AddRow(r, a, d, t, c, m)
      PROVE  Views!LedgerTypeOK'
  <2> DEFINE new == [account |-> a, day |-> d, type |-> t, category |-> c,
                     status |-> IF t = "debit" /\ Views!DueOn(a, d) > today /\ r \notin Opening
                                THEN "scheduled" ELSE "posted",
                     ignored |-> FALSE, paired |-> FALSE, moved |-> m]
  <2>1. new \in Views!Row
    BY DEF Views!Row
  <2>2. booked' = [booked EXCEPT ![r] = new]
    BY <1>1 DEF Views!AddRow
  <2> HIDE DEF new
  <2>3. booked' \in [Rows -> Views!Row \cup {Views!NoRow}]
    BY <1>a, <2>1, <2>2
  <2> QED
    BY <1>1, <1>a, <2>3 DEF Views!AddRow, Views!Bounded, Views!LedgerTypeOK
<1>2. ASSUME NEW r \in Rows, NEW a \in Connected, NEW t \in {"credit", "debit"},
             NEW s \in {"pending", "posted"}, Views!SyncRow(r, a, t, s)
      PROVE  Views!LedgerTypeOK'
  <2> DEFINE new == [account |-> a, day |-> today, type |-> t, category |-> NoCategory,
                     status |-> s, ignored |-> FALSE, paired |-> FALSE, moved |-> Undated]
  <2>1. new \in Views!Row
    BY <1>2 DEF Views!SyncRow, Views!Row, Views!LedgerAssumption
  <2>2. booked' = [booked EXCEPT ![r] = new]
    BY <1>2 DEF Views!SyncRow
  <2> HIDE DEF new
  <2>3. booked' \in [Rows -> Views!Row \cup {Views!NoRow}]
    BY <1>a, <2>1, <2>2
  <2>4. PICK part \in IF s = "pending" THEN {0, Costs[r]} ELSE {Costs[r]} :
          held' = [held EXCEPT ![a] = IF (t = "credit") = (a \notin Cards) THEN @ + part ELSE @ - part]
    BY <1>2 DEF Views!SyncRow
  <2>5. part \in Nat
    BY <2>4 DEF Views!LedgerAssumption
  <2>6. held' \in [Connected -> Int]
    BY <1>a, <2>4, <2>5
  <2> QED
    BY <1>2, <1>a, <2>3, <2>6 DEF Views!SyncRow, Views!Bounded, Views!LedgerTypeOK
<1>3. ASSUME NEW r \in Rows, NEW s \in {"scheduled", "posted"},
             NEW c \in Categories \cup {NoCategory}, NEW i \in BOOLEAN, Views!EditRow(r, s, c, i)
      PROVE  Views!LedgerTypeOK'
  <2>1. booked[r] \in Views!Row
    BY <1>3, <1>a DEF Views!EditRow, Views!Live
  <2>2. [booked[r] EXCEPT !.status = s, !.category = c, !.ignored = i] \in Views!Row
    BY <2>1 DEF Views!Row
  <2>3. booked' \in [Rows -> Views!Row \cup {Views!NoRow}]
    BY <1>3, <1>a, <2>2 DEF Views!EditRow
  <2> QED
    BY <1>3, <1>a, <2>3 DEF Views!EditRow, Views!Bounded, Views!LedgerTypeOK
<1>4. ASSUME NEW a \in Rows, NEW b \in Rows, Views!Pair(a, b) PROVE Views!LedgerTypeOK'
  <2>1. \A r \in {a, b} : booked[r] \in Views!Row
    BY <1>4, <1>a DEF Views!Pair, Views!Live
  <2>2. \A r \in {a, b} : [booked[r] EXCEPT !.paired = ~@] \in Views!Row
    BY <2>1 DEF Views!Row
  <2>3. booked' = [r \in Rows |-> IF r \in {a, b} THEN [booked[r] EXCEPT !.paired = ~@]
                                                  ELSE booked[r]]
    BY <1>4 DEF Views!Pair
  <2>4. booked' \in [Rows -> Views!Row \cup {Views!NoRow}]
    BY <1>a, <2>2, <2>3
  <2> QED
    BY <1>4, <1>a, <2>4 DEF Views!Pair, Views!Bounded, Views!LedgerTypeOK
<1>5. ASSUME NEW a \in Books, Views!Close(a) PROVE Views!LedgerTypeOK'
  BY <1>5, <1>a DEF Views!Close, Views!Bounded, Views!LedgerTypeOK
<1>6. ASSUME NEW c \in Categories, NEW t \in BOOLEAN, NEW i \in BOOLEAN, Views!Flag(c, t, i)
      PROVE  Views!LedgerTypeOK'
  BY <1>6, <1>a DEF Views!Flag, Views!Bounded, Views!LedgerTypeOK
<1>7. CASE Views!SetMode
  BY <1>7, <1>a DEF Views!SetMode, Views!Bounded, Views!LedgerTypeOK
<1>8. CASE Views!PassDay
  BY <1>8, <1>a DEF Views!PassDay, Views!LedgerTypeOK
<1>9. CASE Views!BudgetNext
  <2>1. UNCHANGED Views!ledger /\ steps' = steps + 1
    BY <1>9 DEF Views!BudgetNext, Views!CreateBudget, Views!UpdateBudget, Views!DeleteBudget,
                Views!Bounded
  <2> QED
    BY <1>a, <2>1 DEF Views!LedgerTypeOK
<1>10. CASE UNCHANGED Views!vars
  BY <1>a, <1>10 DEF Views!vars, Views!LedgerTypeOK
<1> QED
  BY <1>1, <1>2, <1>3, <1>4, <1>5, <1>6, <1>7, <1>8, <1>9, <1>10
     DEF Views!Next, Views!LedgerNext

LEMMA LedgerTypedAlways == ASSUME Views!LedgerAssumption PROVE ViewsSpec => []Views!LedgerTypeOK
<1>1. Views!Init => Views!LedgerTypeOK
  BY LedgerStartsTyped
<1>2. Views!LedgerTypeOK /\ [Views!Next]_(Views!vars) => Views!LedgerTypeOK'
  BY LedgerStaysTyped
<1> QED
  BY <1>1, <1>2, PTL DEF ViewsSpec, Views!Spec

-----------------------------------------------------------------------------
\* Months: what comes before a month and what after it.
LEMMA WholeMonths ==
  ASSUME NEW k \in Nat \ {0}, NEW m \in Int, NEW n \in Int, m * k < n * k + k
  PROVE  m <= n
<1>1. m * k < (n + 1) * k
  OBVIOUS
<1>2. CASE m >= n + 1
  <2>1. m - (n + 1) \in Nat
    BY <1>2
  <2>2. (m - (n + 1)) * k \in Nat
    BY <2>1
  <2> QED
    BY <1>1, <2>2
<1> QED
  BY <1>2

LEMMA MonthsCut ==
  ASSUME Views!LedgerAssumption, NEW d \in Int, NEW m \in Int
  PROVE  /\ Views!Month(d) \in Int /\ Views!FirstOf(m) \in Int /\ Views!LastOf(m) \in Int
         /\ Views!FirstOf(m) <= Views!LastOf(m)
         /\ Views!FirstOf(m + 1) = Views!LastOf(m) + 1
         /\ Views!FirstOf(m) <= d <=> m <= Views!Month(d)
         /\ d <= Views!LastOf(m) <=> Views!Month(d) <= m
<1> DEFINE k == DaysInMonth
           q == d \div k
<1>1. k \in Nat \ {0}
  BY DEF Views!LedgerAssumption
<1>2. q \in Int /\ q * k <= d /\ d < q * k + k
  BY <1>1
<1> HIDE DEF q
<1>3. ASSUME m * k <= d PROVE m <= q
  BY <1>1, <1>2, <1>3, WholeMonths
<1>4. ASSUME m <= q PROVE m * k <= d
  <2>1. (q - m) \in Nat
    BY <1>2, <1>4
  <2>2. (q - m) * k \in Nat
    BY <1>1, <2>1
  <2> QED
    BY <1>1, <1>2, <2>2
<1>5. ASSUME d < m * k + k PROVE q <= m
  BY <1>1, <1>2, <1>5, WholeMonths
<1>6. ASSUME q <= m PROVE d < m * k + k
  <2>1. (m - q) \in Nat
    BY <1>2, <1>6
  <2>2. (m - q) * k \in Nat
    BY <1>1, <2>1
  <2> QED
    BY <1>1, <1>2, <2>2
<1>7. m * k \in Int /\ (m + 1) * k = m * k + k
  BY <1>1
<1>8. Views!Month(d) = q /\ Views!FirstOf(m) = m * k /\ Views!LastOf(m) = (m + 1) * k - 1
      /\ Views!FirstOf(m + 1) = (m + 1) * k
  BY DEF Views!Month, Views!FirstOf, Views!LastOf, q
<1> QED
  BY <1>1, <1>2, <1>3, <1>4, <1>5, <1>6, <1>7, <1>8

-----------------------------------------------------------------------------
\* Balances move by what is booked.
BookedOn(a, from, to) ==
  {r \in Views!Live : /\ booked[r].account = a /\ Views!Realized(r)
                      /\ booked[r].day > from /\ booked[r].day <= to}

LEMMA BalanceOfOneMoves ==
  ASSUME Views!LedgerAssumption, Views!LedgerTypeOK, NEW a \in Books, NEW d \in Int, NEW e \in Int,
         d <= e
  PROVE  /\ Views!BalanceAt(a, d) \in Int /\ Views!BalanceAt(a, e) \in Int
         /\ Views!BalanceAt(a, e) = Views!BalanceAt(a, d) + Views!SignedSum(BookedOn(a, d, e))
<1> DEFINE mine == {r \in Views!Live : booked[r].account = a /\ Views!Realized(r)}
           now == IF a \in Cards THEN -held[a] ELSE held[a]
           after(x) == {r \in mine : booked[r].day > x}
           upto(x) == {r \in mine : booked[r].day <= x}
           D == BookedOn(a, d, e)
<1>1. /\ Views!BalanceAt(a, d) = IF a \in Connected THEN now - Views!SignedSum(after(d))
                                                    ELSE Views!SignedSum(upto(d))
      /\ Views!BalanceAt(a, e) = IF a \in Connected THEN now - Views!SignedSum(after(e))
                                                    ELSE Views!SignedSum(upto(e))
  BY DEF Views!BalanceAt
<1>2. /\ after(d) = after(e) \cup D /\ after(e) \cap D = {}
      /\ upto(e) = upto(d) \cup D /\ upto(d) \cap D = {}
  BY LiveRows DEF BookedOn
<1>3. /\ after(d) \subseteq Views!Live /\ after(e) \subseteq Views!Live
      /\ upto(d) \subseteq Views!Live /\ upto(e) \subseteq Views!Live /\ D \subseteq Views!Live
  BY DEF BookedOn
<1>4. a \in Connected => now \in Int
  BY DEF Views!LedgerTypeOK
<1> HIDE DEF mine, now, after, upto, D
<1>5. Views!SignedSum(after(e) \cup D) = Views!SignedSum(after(e)) + Views!SignedSum(D)
  BY <1>2, <1>3, RowParts
<1>6. Views!SignedSum(upto(d) \cup D) = Views!SignedSum(upto(d)) + Views!SignedSum(D)
  BY <1>2, <1>3, RowParts
<1>7. /\ Views!SignedSum(after(d)) \in Int /\ Views!SignedSum(after(e)) \in Int
      /\ Views!SignedSum(upto(d)) \in Int /\ Views!SignedSum(upto(e)) \in Int
      /\ Views!SignedSum(D) \in Int
  BY <1>3, RowSums
<1>8. /\ Views!SignedSum(after(d)) = Views!SignedSum(after(e)) + Views!SignedSum(D)
      /\ Views!SignedSum(upto(e)) = Views!SignedSum(upto(d)) + Views!SignedSum(D)
  BY <1>2, <1>5, <1>6
<1> QED
  BY <1>1, <1>4, <1>7, <1>8 DEF D

BookedOnOpen(from, to) ==
  {r \in Views!Live : /\ Views!OnOpen(r) /\ Views!Realized(r)
                      /\ booked[r].day > from /\ booked[r].day <= to}

LEMMA OpenBooks ==
  ASSUME Views!LedgerAssumption
  PROVE  IsFiniteSet(Views!Open) /\ Views!Open \subseteq Books
  BY ViewSets, FS_Subset DEF Views!LedgerAssumption, Views!Open

LEMMA BalanceMoves ==
  ASSUME Views!LedgerAssumption, Views!LedgerTypeOK, NEW d \in Int, NEW e \in Int, d <= e
  PROVE  /\ Views!Balance(d) \in Int /\ Views!Balance(e) \in Int
         /\ Views!Balance(e) = Views!Balance(d) + Views!SignedSum(BookedOnOpen(d, e))
         /\ Views!SignedSum(BookedOnOpen(d, e)) \in Int
<1> DEFINE O == Views!Open
           S == BookedOnOpen(d, e)
           kind == [r \in S |-> booked[r].account]
           f == [a \in O |-> Views!SignedSum(BookedOn(a, d, e))]
           g == [a \in O |-> Views!BalanceAt(a, d)]
           h == [a \in O |-> Views!BalanceAt(a, e)]
<1>1. \A a \in O : g[a] \in Int /\ h[a] \in Int /\ h[a] = g[a] + f[a] /\ f[a] \in Int
  <2>1. \A a \in O : BookedOn(a, d, e) \subseteq Views!Live
    BY DEF BookedOn
  <2> QED
    BY <2>1, OpenBooks, BalanceOfOneMoves, RowSums
<1>2. S \subseteq Views!Live /\ (\A r \in S : kind[r] \in O) /\ DOMAIN f = O
  BY DEF BookedOnOpen, Views!OnOpen
<1>3. \A a \in O : f[a] = Views!SignedSum({r \in S : kind[r] = a})
  <2>1. \A a \in O : BookedOn(a, d, e) = {r \in S : kind[r] = a}
    BY DEF BookedOn, BookedOnOpen, Views!OnOpen
  <2> QED
    BY <2>1
<1>4. /\ DOMAIN g = O /\ DOMAIN h = O
      /\ Views!Balance(d) = Views!SumFunction(g) /\ Views!Balance(e) = Views!SumFunction(h)
  BY DEF Views!Balance
<1>5. IsFiniteSet(O)
  BY OpenBooks
<1> HIDE DEF O, S, kind, f, g, h
<1>6. Views!SumFunction(f) = Views!SignedSum(S)
  BY <1>2, <1>3, <1>5, RowKinds
<1>7. /\ Views!Balance(d) = SumOver(g, O) /\ Views!Balance(e) = SumOver(h, O)
      /\ Views!SumFunction(f) = SumOver(f, O)
  BY <1>2, <1>4, ViewSums
<1>8. SumOver(g, O) = SumOver(h, O) - SumOver(f, O)
  <2>1. \A a \in O : h[a] \in Int /\ f[a] \in Int /\ g[a] = h[a] - f[a]
    BY <1>1
  <2> QED
    BY <1>5, <2>1, SumOfDifference
<1>9. SumOver(g, O) \in Int /\ SumOver(h, O) \in Int /\ SumOver(f, O) \in Int
  BY <1>1, <1>5, SumIsInt
<1> QED
  BY <1>6, <1>7, <1>8, <1>9 DEF S

-----------------------------------------------------------------------------
\* What the dashboard shows.
LEMMA HistoryMeets ==
  ASSUME Views!LedgerAssumption, Views!LedgerTypeOK
  PROVE  Views!HistoryMeetsBalance
<1> SUFFICES ASSUME NEW d \in Views!PastDays
             PROVE  Views!History(d)
                      = Views!Balance(d)
                        - Views!SignedSum({r \in Views!Live : /\ Views!OnOpen(r)
                                              /\ booked[r].day \in Views!FirstOf(Views!Month(d)) .. d
                                              /\ Views!Realized(r)
                                              /\ Views!Hidden(r)})
  BY DEF Views!HistoryMeetsBalance
<1> DEFINE first == Views!FirstOf(Views!Month(d))
           K == first .. d
           shown == {r \in Views!Live : /\ Views!OnOpen(r) /\ booked[r].day \in K
                                        /\ Views!Realized(r) /\ ~Views!Hidden(r)}
           away == {r \in Views!Live : /\ Views!OnOpen(r) /\ booked[r].day \in K
                                       /\ Views!Realized(r) /\ Views!Hidden(r)}
           f == [e \in K |-> Views!Delta(e)]
           kind == [r \in shown |-> booked[r].day]
<1>1. d \in Int /\ first \in Int /\ first <= d
  <2>1. today \in Int
    BY DEF Views!LedgerTypeOK
  <2>2. Views!FirstOf(Views!Month(today)) \in Int
    BY <2>1, MonthsCut
  <2>3. d \in Int
    BY <2>1, <2>2 DEF Views!PastDays
  <2>4. Views!Month(d) \in Int
    BY <2>3, MonthsCut
  <2> QED
    BY <2>3, <2>4, MonthsCut
<1>2. Views!Balance(d) = Views!Balance(first - 1) + Views!SignedSum(BookedOnOpen(first - 1, d))
      /\ Views!Balance(first - 1) \in Int
  <2>1. first - 1 \in Int /\ first - 1 <= d
    BY <1>1
  <2> HIDE DEF first
  <2> QED
    BY <1>1, <2>1, BalanceMoves
<1>3. BookedOnOpen(first - 1, d) = shown \cup away /\ shown \cap away = {}
      /\ shown \subseteq Views!Live /\ away \subseteq Views!Live
  <2> HIDE DEF first
  <2>1. \A r \in Views!Live : booked[r].day \in K <=> booked[r].day > first - 1 /\ booked[r].day <= d
    BY <1>1, LiveRows
  <2> QED
    BY <2>1 DEF BookedOnOpen
<1>4. \A e \in K : f[e] = Views!SignedSum({r \in shown : kind[r] = e})
  <2> SUFFICES ASSUME NEW e \in K PROVE f[e] = Views!SignedSum({r \in shown : kind[r] = e})
    OBVIOUS
  <2>1. {r \in shown : kind[r] = e}
          = {r \in Views!Live : /\ Views!OnOpen(r) /\ booked[r].day = e
                                /\ Views!Realized(r) /\ ~Views!Hidden(r)}
    OBVIOUS
  <2> QED
    BY <2>1 DEF Views!Delta
<1>5. IsFiniteSet(K) /\ DOMAIN f = K /\ \A r \in shown : kind[r] \in K
  BY <1>1, FS_Interval
<1>6. Views!History(d) = Views!Balance(first - 1) + Views!SumFunction(f)
  BY DEF Views!History
<1> HIDE DEF first, K, shown, away, f, kind
<1>7. Views!SumFunction(f) = Views!SignedSum(shown)
  BY <1>3, <1>4, <1>5, RowKinds
<1>8. Views!SignedSum(shown \cup away) = Views!SignedSum(shown) + Views!SignedSum(away)
      /\ Views!SignedSum(shown) \in Int /\ Views!SignedSum(away) \in Int
  BY <1>3, RowParts
<1>9. Views!History(d) = Views!Balance(d) - Views!SignedSum(away)
  <2> DEFINE b == Views!Balance(first - 1)
             moved == Views!SignedSum(BookedOnOpen(first - 1, d))
  <2>1. Views!Balance(d) = b + moved /\ b \in Int
    BY <1>2
  <2>2. moved = Views!SignedSum(shown) + Views!SignedSum(away)
    BY <1>3, <1>8
  <2>3. Views!History(d) = b + Views!SignedSum(shown)
    BY <1>6, <1>7
  <2> HIDE DEF b, moved
  <2> QED
    BY <2>1, <2>2, <2>3, <1>8
<1> QED
  BY <1>9 DEF away, K, first

\* The rows of a month, by category.
LEMMA ByCategory ==
  ASSUME Views!LedgerAssumption, Views!LedgerTypeOK, NEW S, S \subseteq Views!Live,
         NEW f, DOMAIN f = Categories \cup {NoCategory},
         \A c \in DOMAIN f : f[c] = Views!AmountSum({r \in S : booked[r].category = c})
  PROVE  Views!SumFunction(f) = Views!AmountSum(S)
<1> DEFINE K == Categories \cup {NoCategory}
           kind == [r \in S |-> booked[r].category]
<1>1. IsFiniteSet(K)
  BY ViewSets, FS_AddElement DEF Views!LedgerAssumption
<1>2. (\A r \in S : kind[r] \in K) /\ DOMAIN f = K
  BY LiveRows
<1>3. \A c \in K : f[c] = Views!AmountSum({r \in S : kind[r] = c})
  <2>1. \A c : {r \in S : kind[r] = c} = {r \in S : booked[r].category = c}
    OBVIOUS
  <2> QED
    BY <2>1
<1> HIDE DEF K, kind
<1> QED
  BY <1>1, <1>2, <1>3, RowKinds

LEMMA CategoriesMeet ==
  ASSUME Views!LedgerAssumption, Views!LedgerTypeOK
  PROVE  Views!CategoriesAddUp
<1> SUFFICES ASSUME NEW m \in Views!Months
             PROVE  Views!SumFunction([c \in Categories \cup {NoCategory} |-> Views!SpendingOn(c, m)])
                      = Views!MonthlyExpenses(m)
                        + Views!AmountSum({r \in Views!InMonth(m) \cap Opening :
                                              booked[r].type = "debit"})
  BY DEF Views!CategoriesAddUp
<1> DEFINE S == {r \in Views!InMonth(m) : booked[r].type = "debit"}
           A == {r \in Views!InMonth(m) \ Opening : booked[r].type = "debit"}
           B == {r \in Views!InMonth(m) \cap Opening : booked[r].type = "debit"}
           f == [c \in Categories \cup {NoCategory} |-> Views!SpendingOn(c, m)]
<1>1. S = A \cup B /\ A \cap B = {} /\ A \subseteq Views!Live /\ B \subseteq Views!Live
      /\ S \subseteq Views!Live
  BY DEF Views!InMonth
<1>2. \A c \in DOMAIN f : f[c] = Views!AmountSum({r \in S : booked[r].category = c})
  <2> SUFFICES ASSUME NEW c \in Categories \cup {NoCategory}
               PROVE  Views!SpendingOn(c, m) = Views!AmountSum({r \in S : booked[r].category = c})
    OBVIOUS
  <2>1. {r \in S : booked[r].category = c}
          = {r \in Views!InMonth(m) : booked[r].type = "debit" /\ booked[r].category = c}
    OBVIOUS
  <2> QED
    BY <2>1 DEF Views!SpendingOn
<1>3. Views!MonthlyExpenses(m) = Views!AmountSum(A)
  BY DEF Views!MonthlyExpenses
<1>4. DOMAIN f = Categories \cup {NoCategory}
  OBVIOUS
<1> HIDE DEF S, A, B, f
<1>5. Views!SumFunction(f) = Views!AmountSum(S)
  BY <1>1, <1>2, <1>4, ByCategory
<1>6. Views!AmountSum(A \cup B) = Views!AmountSum(A) + Views!AmountSum(B)
  BY <1>1, RowParts
<1> QED
  BY <1>1, <1>3, <1>5, <1>6 DEF B, f

LEMMA BudgetsMeet ==
  ASSUME Views!LedgerAssumption, Views!LedgerTypeOK
  PROVE  Views!BudgetsAgree
<1> SUFFICES ASSUME NEW m \in Views!Months, NEW c \in Categories
             PROVE  Views!Actual(c, m)
                      = Views!SpendingOn(c, m)
                        + Views!AmountSum({r \in Views!Live : /\ ~Views!OnOpen(r)
                                              /\ booked[r].type = "debit"
                                              /\ booked[r].category = c
                                              /\ Views!Month(Views!ReportDate(r)) = m
                                              /\ Views!CountsAsPnl(r)})
  BY DEF Views!BudgetsAgree
<1> DEFINE S == {r \in Views!Live : /\ booked[r].type = "debit"
                                    /\ booked[r].category = c
                                    /\ Views!Month(Views!ReportDate(r)) = m
                                    /\ Views!CountsAsPnl(r)}
           A == {r \in Views!InMonth(m) : booked[r].type = "debit" /\ booked[r].category = c}
           B == {r \in Views!Live : /\ ~Views!OnOpen(r)
                                    /\ booked[r].type = "debit"
                                    /\ booked[r].category = c
                                    /\ Views!Month(Views!ReportDate(r)) = m
                                    /\ Views!CountsAsPnl(r)}
<1>1. S = A \cup B /\ A \cap B = {} /\ A \subseteq Views!Live /\ B \subseteq Views!Live
  BY DEF Views!InMonth
<1>2. Views!Actual(c, m) = Views!AmountSum(S) /\ Views!SpendingOn(c, m) = Views!AmountSum(A)
  BY DEF Views!Actual, Views!SpendingOn
<1> HIDE DEF S, A, B
<1>3. Views!AmountSum(A \cup B) = Views!AmountSum(A) + Views!AmountSum(B)
  BY <1>1, RowParts
<1> QED
  BY <1>1, <1>2, <1>3 DEF B

LEMMA PagesMeet ==
  ASSUME Views!LedgerAssumption, Views!LedgerTypeOK
  PROVE  Views!AccountPagesAgree
<1> SUFFICES ASSUME NEW a \in Books \ Connected
             PROVE  /\ Views!Listed(a)
                         = Views!PageBalance(a, today)
                           + Views!SignedSum({r \in Views!Live : /\ booked[r].account = a
                                                 /\ booked[r].day > today
                                                 /\ Views!Realized(r)
                                                 /\ ~Views!Hidden(r)})
                    /\ Views!BalanceAt(a, today)
                         = Views!PageBalance(a, today)
                           + Views!SignedSum({r \in Views!Live : /\ booked[r].account = a
                                                 /\ booked[r].day <= today
                                                 /\ Views!Realized(r)
                                                 /\ Views!Hidden(r)})
  BY DEF Views!AccountPagesAgree
<1> DEFINE seen == {r \in Views!Live : booked[r].account = a /\ Views!Realized(r) /\ ~Views!Hidden(r)}
           page == {r \in Views!Live : /\ booked[r].account = a
                                       /\ booked[r].day <= today
                                       /\ Views!Realized(r)
                                       /\ ~Views!Hidden(r)}
           ahead == {r \in Views!Live : /\ booked[r].account = a
                                        /\ booked[r].day > today
                                        /\ Views!Realized(r)
                                        /\ ~Views!Hidden(r)}
           upto == {r \in {q \in Views!Live : booked[q].account = a /\ Views!Realized(q)} :
                      booked[r].day <= today}
           away == {r \in Views!Live : /\ booked[r].account = a
                                       /\ booked[r].day <= today
                                       /\ Views!Realized(r)
                                       /\ Views!Hidden(r)}
<1>1. today \in Int
  BY DEF Views!LedgerTypeOK
<1>2. /\ seen = page \cup ahead /\ page \cap ahead = {}
      /\ upto = page \cup away /\ page \cap away = {}
      /\ page \subseteq Views!Live /\ ahead \subseteq Views!Live /\ away \subseteq Views!Live
  <2>1. \A r \in Views!Live : booked[r].day <= today <=> ~(booked[r].day > today)
    BY <1>1, LiveRows
  <2> QED
    BY <2>1
<1>3. /\ Views!Listed(a) = Views!SignedSum(seen)
      /\ Views!PageBalance(a, today) = Views!SignedSum(page)
      /\ Views!BalanceAt(a, today) = Views!SignedSum(upto)
  BY DEF Views!Listed, Views!PageBalance, Views!BalanceAt
<1> HIDE DEF seen, page, ahead, upto, away
<1>4. /\ Views!SignedSum(page \cup ahead) = Views!SignedSum(page) + Views!SignedSum(ahead)
      /\ Views!SignedSum(page \cup away) = Views!SignedSum(page) + Views!SignedSum(away)
  BY <1>2, RowParts
<1> QED
  BY <1>2, <1>3, <1>4 DEF ahead, away

LEMMA PaidMeets ==
  ASSUME Views!LedgerAssumption, Views!LedgerTypeOK
  PROVE  Views!PaidOrToPay
<1> SUFFICES ASSUME NEW a \in Books \ Connected
             PROVE  Views!Listed(a) - Views!StillToPay(a)
                      = Views!SignedSum({r \in Views!Live :
                            /\ booked[r].account = a
                            /\ ~booked[r].ignored /\ ~Views!Hidden(r)
                            /\ ~(booked[r].status = "scheduled" /\ booked[r].type = "credit")})
  BY DEF Views!PaidOrToPay
<1> DEFINE seen == {r \in Views!Live : booked[r].account = a /\ Views!Realized(r) /\ ~Views!Hidden(r)}
           due == {r \in Views!Live : /\ booked[r].account = a
                                      /\ booked[r].type = "debit"
                                      /\ booked[r].status = "scheduled"
                                      /\ ~booked[r].ignored /\ ~Views!Hidden(r)}
           all == {r \in Views!Live :
                     /\ booked[r].account = a
                     /\ ~booked[r].ignored /\ ~Views!Hidden(r)
                     /\ ~(booked[r].status = "scheduled" /\ booked[r].type = "credit")}
<1>1. all = seen \cup due /\ seen \cap due = {} /\ seen \subseteq Views!Live /\ due \subseteq Views!Live
  BY LiveRows DEF Views!Realized
<1>2. Views!Listed(a) = Views!SignedSum(seen) /\ Views!StillToPay(a) = Views!AmountSum(due)
  BY DEF Views!Listed, Views!StillToPay
<1>3. {r \in due : booked[r].type = "debit"} = due
  OBVIOUS
<1> HIDE DEF seen, due, all
<1>4. Views!SignedSum(seen \cup due) = Views!SignedSum(seen) + Views!SignedSum(due)
      /\ Views!SignedSum(seen) \in Int /\ Views!AmountSum(due) \in Int
  BY <1>1, RowParts
<1>5. Views!SignedSum(due) = -Views!AmountSum(due)
  BY <1>1, <1>3, SignsAre
<1>6. Views!Listed(a) - Views!StillToPay(a) = Views!SignedSum(all)
  BY <1>1, <1>2, <1>4, <1>5
<1> QED
  BY <1>6 DEF all

LEMMA PagesAddUp ==
  ASSUME Views!LedgerAssumption, Views!LedgerTypeOK
  PROVE  Views!AccountPagesAddUp
<1> SUFFICES ASSUME ~accrual, NEW m \in Views!Months
             PROVE  /\ Views!SumFunction([a \in Views!Open |-> Views!AccountIncome(a, m)])
                         = Views!MonthlyIncome(m)
                    /\ Views!SumFunction([a \in Views!Open |-> Views!AccountExpenses(a, m)])
                         = Views!MonthlyExpenses(m)
                           - Views!AmountSum({r \in Views!InMonth(m) \ Opening :
                                                /\ booked[r].type = "credit"
                                                /\ booked[r].account \in Cards})
                           + Views!AmountSum({r \in Views!InMonth(m) \cap Opening :
                                                /\ booked[r].type = "debit"
                                                /\ booked[r].account \notin Cards})
  BY DEF Views!AccountPagesAddUp
<1> DEFINE O == Views!Open
           I == {r \in Views!InMonth(m) \ Opening : booked[r].type = "credit"}
           D == {r \in Views!InMonth(m) \ Opening : booked[r].type = "debit"}
           C == {r \in Views!InMonth(m) \ Opening : /\ booked[r].type = "credit"
                                                    /\ booked[r].account \in Cards}
           P == {r \in Views!InMonth(m) \cap Opening : /\ booked[r].type = "debit"
                                                       /\ booked[r].account \notin Cards}
           f == [a \in O |-> Views!AccountIncome(a, m)]
           h == [a \in O |-> Views!AccountExpenses(a, m)]
           out == [a \in O |-> Views!AmountSum({r \in D \cup P : booked[r].account = a})]
           back == [a \in O |-> Views!AmountSum({r \in C : booked[r].account = a})]
           kind == [r \in Views!Live |-> booked[r].account]
<1>1. \A r \in Views!Live : Views!ReportDate(r) = Views!Bucket(r)
  BY DEF Views!ReportDate, Views!Bucket
<1>2. ASSUME NEW a \in O
      PROVE  Views!Window(a, m) = {r \in Views!InMonth(m) : booked[r].account = a}
  BY <1>1 DEF Views!Window, Views!InMonth, Views!OnOpen
<1>3. /\ I \subseteq Views!Live /\ D \subseteq Views!Live /\ C \subseteq Views!Live
      /\ P \subseteq Views!Live /\ D \cap P = {} /\ D \cup P \subseteq Views!Live
      /\ \A r \in I \cup D \cup C \cup P : kind[r] \in O
  BY DEF Views!InMonth, Views!OnOpen
<1>4. \A a \in O : f[a] = Views!AmountSum({r \in I : kind[r] = a})
  <2> SUFFICES ASSUME NEW a \in O
               PROVE  Views!AccountIncome(a, m) = Views!AmountSum({r \in I : kind[r] = a})
    OBVIOUS
  <2>1. {r \in I : kind[r] = a} = {r \in Views!Window(a, m) \ Opening : booked[r].type = "credit"}
    BY <1>2, <1>3
  <2> QED
    BY <2>1 DEF Views!AccountIncome
<1>5. ASSUME NEW a \in O
      PROVE  h[a] = out[a] - back[a] /\ out[a] \in Int /\ back[a] \in Int
  <2> DEFINE W == Views!Window(a, m) \ Opening
             Wc == {r \in W : booked[r].type = "credit"}
             Wd == {r \in W : booked[r].type = "debit"}
             own == {r \in D \cup P : booked[r].account = a}
             refunds == {r \in C : booked[r].account = a}
  <2>1. W \subseteq Views!Live /\ own \subseteq Views!Live /\ refunds \subseteq Views!Live
    BY <1>3 DEF Views!Window
  <2>2. Views!AmountSum(own) \in Int /\ Views!AmountSum(refunds) \in Int
    BY <2>1, RowSums
  <2>3. CASE a \in Cards
    <3>1. Wc = refunds /\ Wd = own
      BY <1>2, <2>3
    <3>2. h[a] = -Views!SignedSum(W)
      BY <2>3 DEF Views!AccountExpenses
    <3> HIDE DEF W
    <3>3. Views!SignedSum(W) = Views!AmountSum(Wc) - Views!AmountSum(Wd)
      BY <2>1, SignsAre
    <3> HIDE DEF Wc, Wd, own, refunds
    <3>4. h[a] = Views!AmountSum(own) - Views!AmountSum(refunds)
      BY <2>2, <3>1, <3>2, <3>3
    <3> QED
      BY <2>2, <3>4 DEF own, refunds
  <2>4. CASE a \notin Cards
    <3>1. refunds = {} /\ own = {r \in Views!Window(a, m) : booked[r].type = "debit"}
      BY <1>2, <2>4
    <3>2. h[a] = Views!AmountSum({r \in Views!Window(a, m) : booked[r].type = "debit"})
      BY <2>4 DEF Views!AccountExpenses
    <3> HIDE DEF own, refunds
    <3>3. Views!AmountSum(refunds) = 0
      <4>1. Views!AmountSum(refunds) = SumOver(Costs, {})
        BY <2>1, <3>1, RowSums
      <4> QED
        BY <4>1, SumOfNone
    <3>4. h[a] = Views!AmountSum(own) - Views!AmountSum(refunds)
      BY <2>2, <3>1, <3>2, <3>3
    <3> QED
      BY <2>2, <3>4 DEF own, refunds
  <2> QED
    BY <2>3, <2>4
<1>6. /\ \A a \in O : out[a] = Views!AmountSum({r \in D \cup P : kind[r] = a})
      /\ \A a \in O : back[a] = Views!AmountSum({r \in C : kind[r] = a})
  <2>1. \A a : /\ {r \in D \cup P : kind[r] = a} = {r \in D \cup P : booked[r].account = a}
               /\ {r \in C : kind[r] = a} = {r \in C : booked[r].account = a}
    BY <1>3
  <2> HIDE DEF D, P, C, kind
  <2> QED
    BY <2>1
<1>7. Views!MonthlyIncome(m) = Views!AmountSum(I) /\ Views!MonthlyExpenses(m) = Views!AmountSum(D)
  BY DEF Views!MonthlyIncome, Views!MonthlyExpenses
<1>8. DOMAIN f = O /\ DOMAIN h = O /\ DOMAIN out = O /\ DOMAIN back = O /\ IsFiniteSet(O)
  BY OpenBooks
<1> HIDE DEF O, I, D, C, P, f, h, out, back, kind
<1>9. Views!SumFunction(f) = Views!AmountSum(I)
  BY <1>3, <1>4, <1>8, RowKinds
<1>10. Views!SumFunction(out) = Views!AmountSum(D \cup P)
  <2> DEFINE S == D \cup P
  <2>1. S \subseteq Views!Live /\ (\A r \in S : kind[r] \in O)
        /\ \A a \in O : out[a] = Views!AmountSum({r \in S : kind[r] = a})
    BY <1>3, <1>6
  <2> HIDE DEF S
  <2>2. Views!SumFunction(out) = Views!AmountSum(S)
    BY <1>8, <2>1, RowKinds
  <2> QED
    BY <2>2 DEF S
<1>11. Views!SumFunction(back) = Views!AmountSum(C)
  BY <1>3, <1>6, <1>8, RowKinds
<1>12. Views!AmountSum(D \cup P) = Views!AmountSum(D) + Views!AmountSum(P)
       /\ Views!AmountSum(D) \in Int /\ Views!AmountSum(P) \in Int
  BY <1>3, RowParts
<1>13. Views!SumFunction(h) = Views!SumFunction(out) - Views!SumFunction(back)
  <2>1. SumOver(h, O) = SumOver(out, O) - SumOver(back, O)
    BY <1>5, <1>8, SumOfDifference
  <2> QED
    BY <1>8, <2>1, ViewSums
<1>14. Views!AmountSum(C) \in Int
  BY <1>3, RowSums
<1>15. /\ Views!SumFunction(f) = Views!MonthlyIncome(m)
       /\ Views!SumFunction(h) = Views!MonthlyExpenses(m) - Views!AmountSum(C) + Views!AmountSum(P)
  BY <1>7, <1>9, <1>10, <1>11, <1>12, <1>13, <1>14
<1> QED
  BY <1>15 DEF f, h, C, P, O

LEMMA DashboardFits ==
  ASSUME Views!LedgerAssumption, Views!LedgerTypeOK
  PROVE  Views!DashboardAgrees
  BY HistoryMeets, CategoriesMeet, BudgetsMeet, PagesMeet, PagesAddUp, PaidMeets
     DEF Views!DashboardAgrees

-----------------------------------------------------------------------------
\* What the reports show.
LEMMA DatesAre ==
  ASSUME Views!LedgerAssumption, Views!LedgerTypeOK, NEW r \in Views!Live
  PROVE  /\ Views!Due(r) \in Int /\ Views!Due(r) >= booked[r].day
         /\ booked[r].account \notin Cards => Views!Due(r) = booked[r].day
         /\ Views!ReportDate(r) \in Int /\ Views!FlowDate(r) \in Int
<1> DEFINE d == booked[r].day
           m == Views!Month(d)
<1>1. d \in Int
  BY LiveRows
<1>2. m \in Int /\ d <= Views!LastOf(m) /\ Views!FirstOf(m + 1) = Views!LastOf(m) + 1
      /\ Views!LastOf(m) \in Int
  <2>1. m \in Int
    BY <1>1, MonthsCut
  <2> HIDE DEF d
  <2>2. d <= Views!LastOf(m) <=> Views!Month(d) <= m
    BY <1>1, <2>1, MonthsCut
  <2> QED
    BY <1>1, <2>1, <2>2, MonthsCut
<1>3. Views!Due(r) = IF booked[r].account \in Cards THEN Views!FirstOf(m + 1) + 1 ELSE d
  BY DEF Views!Due, Views!DueOn
<1> HIDE DEF d, m
<1>4. Views!Due(r) \in Int /\ Views!Due(r) >= d
      /\ (booked[r].account \notin Cards => Views!Due(r) = d)
  BY <1>1, <1>2, <1>3
<1>5. booked[r].moved # Undated => booked[r].moved \in Int
  <2>1. \A x \in Moved : x \in Int
    <3>1. Moved \subseteq Nat
      BY DEF Views!LedgerAssumption
    <3> QED
      BY <3>1
  <2>2. booked[r].moved \in Moved \/ booked[r].moved = Undated
    BY LiveRows
  <2> DEFINE x == booked[r].moved
  <2> HIDE DEF x
  <2>3. x \in Moved \/ x = Undated
    BY <2>2 DEF x
  <2>4. x # Undated => x \in Int
    BY <2>1, <2>3
  <2> QED
    BY <2>4 DEF x
<1>6. Views!ReportDate(r) \in Int /\ Views!FlowDate(r) \in Int
  BY <1>1, <1>4, <1>5 DEF Views!ReportDate, Views!FlowDate, d
<1> QED
  BY <1>4, <1>6 DEF d

LEMMA BarsMeet ==
  ASSUME Views!LedgerAssumption, Views!LedgerTypeOK
  PROVE  Views!ReportAgrees
<1> SUFFICES ASSUME NEW m \in Views!Months
             PROVE  /\ Views!LastOf(m) <= today =>
                         /\ Views!BarExpenses(m) = Views!MonthlyExpenses(m)
                         /\ Views!BarIncome(m) = Views!MonthlyIncome(m)
                    /\ Views!SumFunction([c \in Categories \cup {NoCategory} |-> Views!BarOn(c, m)])
                         = Views!BarExpenses(m)
                    /\ \A c \in Categories : Views!BarOn(c, m) = 0 \/ Views!Invested(c, m) = 0
  BY DEF Views!ReportAgrees
<1>1. m \in Int /\ today \in Int
  <2>1. MaxDay \in Int
    BY DEF Views!LedgerAssumption
  <2>2. Views!Month(MaxDay) \in Int
    BY <2>1, MonthsCut
  <2> QED
    BY <2>2 DEF Views!Months, Views!LedgerTypeOK
<1>2. ASSUME Views!LastOf(m) <= today
      PROVE  /\ Views!BarExpenses(m) = Views!MonthlyExpenses(m)
             /\ Views!BarIncome(m) = Views!MonthlyIncome(m)
  <2>1. ASSUME NEW r \in Views!InMonth(m) PROVE Views!ReportDate(r) <= today
    <3>1. r \in Views!Live /\ Views!Month(Views!ReportDate(r)) = m
      BY DEF Views!InMonth
    <3>2. Views!ReportDate(r) \in Int
      BY <3>1, DatesAre
    <3>3. Views!ReportDate(r) <= Views!LastOf(m)
      BY <1>1, <3>1, <3>2, MonthsCut
    <3> QED
      BY <1>1, <1>2, <3>2, <3>3, MonthsCut
  <2>2. /\ {r \in Views!InMonth(m) \ Opening : booked[r].type = "debit" /\ Views!ReportDate(r) <= today}
             = {r \in Views!InMonth(m) \ Opening : booked[r].type = "debit"}
        /\ {r \in Views!InMonth(m) \ Opening : booked[r].type = "credit" /\ Views!ReportDate(r) <= today}
             = {r \in Views!InMonth(m) \ Opening : booked[r].type = "credit"}
    BY <2>1
  <2> QED
    BY <2>2 DEF Views!BarExpenses, Views!BarIncome, Views!MonthlyExpenses, Views!MonthlyIncome
<1>3. Views!SumFunction([c \in Categories \cup {NoCategory} |-> Views!BarOn(c, m)])
        = Views!BarExpenses(m)
  <2> DEFINE S == {r \in Views!InMonth(m) \ Opening : booked[r].type = "debit"
                                                      /\ Views!ReportDate(r) <= today}
             f == [c \in Categories \cup {NoCategory} |-> Views!BarOn(c, m)]
  <2>1. S \subseteq Views!Live /\ DOMAIN f = Categories \cup {NoCategory}
    BY DEF Views!InMonth
  <2>2. \A c \in DOMAIN f : f[c] = Views!AmountSum({r \in S : booked[r].category = c})
    <3> SUFFICES ASSUME NEW c \in Categories \cup {NoCategory}
                 PROVE  Views!BarOn(c, m) = Views!AmountSum({r \in S : booked[r].category = c})
      OBVIOUS
    <3>1. {r \in S : booked[r].category = c}
            = {r \in Views!InMonth(m) \ Opening : /\ booked[r].type = "debit"
                                                  /\ booked[r].category = c
                                                  /\ Views!ReportDate(r) <= today}
      OBVIOUS
    <3> QED
      BY <3>1 DEF Views!BarOn
  <2>3. Views!BarExpenses(m) = Views!AmountSum(S)
    BY DEF Views!BarExpenses
  <2> HIDE DEF S, f
  <2>4. Views!SumFunction(f) = Views!AmountSum(S)
    BY <2>1, <2>2, ByCategory
  <2> QED
    BY <2>3, <2>4 DEF f
<1>4. ASSUME NEW c \in Categories PROVE Views!BarOn(c, m) = 0 \/ Views!Invested(c, m) = 0
  <2> DEFINE A == {r \in Views!InMonth(m) \ Opening : /\ booked[r].type = "debit"
                                                      /\ booked[r].category = c
                                                      /\ Views!ReportDate(r) <= today}
             B == {r \in Views!Live \ Opening : /\ Views!OnOpen(r)
                                                /\ booked[r].type = "debit"
                                                /\ booked[r].category = c
                                                /\ Views!Month(Views!ReportDate(r)) = m
                                                /\ Views!ReportDate(r) <= today
                                                /\ ~booked[r].paired
                                                /\ Views!Realized(r)
                                                /\ c \in transfer \ hidden}
  <2>1. Views!BarOn(c, m) = Views!AmountSum(A) /\ Views!Invested(c, m) = Views!AmountSum(B)
    BY DEF Views!BarOn, Views!Invested
  <2>2. (A = {} \/ B = {}) /\ A \subseteq Views!Live /\ B \subseteq Views!Live
    BY DEF Views!InMonth, Views!CountsAsPnl
  <2> HIDE DEF A, B
  <2> QED
    BY <2>1, <2>2, RowSums, SumOfNone
<1> QED
  BY <1>2, <1>3, <1>4

\* Net worth takes every card for a debt.
LEMMA NetWorthIs ==
  ASSUME Views!LedgerAssumption, Views!LedgerTypeOK, NEW d \in Int
  PROVE  /\ Views!NetWorth(d) = Views!Balance(d) - 2 * Views!Overpaid(d)
         /\ Views!Overpaid(d) \in Int
<1> DEFINE O == Views!Open
           b == [a \in O |-> Views!BalanceAt(a, d)]
           w == [a \in O |-> IF Views!Liable(a, d) THEN -Views!Abs(Views!BalanceAt(a, d))
                                                   ELSE Views!BalanceAt(a, d)]
           OC == O \cap Cards
           p == [a \in OC |-> IF Views!BalanceAt(a, d) > 0 THEN Views!BalanceAt(a, d) ELSE 0]
           q == [a \in O |-> IF a \in Cards /\ b[a] > 0 THEN b[a] ELSE 0]
           h == [a \in O |-> b[a] - q[a]]
<1>1. \A a \in O : b[a] \in Int
  BY OpenBooks, BalanceOfOneMoves
<1>2. \A a \in O : w[a] = IF a \in Cards \/ b[a] < 0 THEN -Views!Abs(b[a]) ELSE b[a]
  BY DEF Views!Liable
<1>3. \A a \in OC : p[a] = IF b[a] > 0 THEN b[a] ELSE 0
  OBVIOUS
<1>4. OC \subseteq O /\ \A a \in O : a \in OC <=> a \in Cards
  OBVIOUS
<1>5. /\ Views!Balance(d) = Views!SumFunction(b) /\ Views!NetWorth(d) = Views!SumFunction(w)
      /\ Views!Overpaid(d) = Views!SumFunction(p)
      /\ DOMAIN b = O /\ DOMAIN w = O /\ DOMAIN p = OC
  BY DEF Views!Balance, Views!NetWorth, Views!Overpaid
<1>6. IsFiniteSet(O)
  BY OpenBooks
<1>7. \A a \in O : q[a] = (IF a \in Cards /\ b[a] > 0 THEN b[a] ELSE 0) /\ h[a] = b[a] - q[a]
  OBVIOUS
<1> HIDE DEF O, OC, b, w, p, q, h
<1>8. \A a \in O : q[a] \in Int /\ h[a] \in Int
  BY <1>1, <1>7
<1>9. \A a \in O : w[a] = h[a] - q[a]
  BY <1>1, <1>2, <1>7, <1>8 DEF Views!Abs
<1>10. SumOver(h, O) = SumOver(b, O) - SumOver(q, O)
  BY <1>1, <1>6, <1>7, <1>8, SumOfDifference
<1>11. SumOver(w, O) = SumOver(h, O) - SumOver(q, O)
  BY <1>6, <1>8, <1>9, SumOfDifference
<1>12. SumOver(q, O) = SumOver(q, OC)
  BY <1>4, <1>6, <1>7, <1>8, SumOnPart
<1>13. SumOver(q, OC) = SumOver(p, OC)
  <2>1. IsFiniteSet(OC) /\ \A a \in OC : q[a] = p[a]
    BY <1>3, <1>4, <1>6, <1>7, FS_Subset
  <2> QED
    BY <2>1, SumSame
<1>14. SumOver(b, O) \in Int /\ SumOver(q, O) \in Int
  BY <1>1, <1>6, <1>8, SumIsInt
<1> QED
  BY <1>5, <1>10, <1>11, <1>12, <1>13, <1>14, ViewSums

LEMMA NetWorthMeets ==
  ASSUME Views!LedgerAssumption, Views!LedgerTypeOK
  PROVE  Views!NetWorthMeetsGoal
<1>1. today \in Int
  BY DEF Views!LedgerTypeOK
<1>2. Views!GoalNetWorth = Views!Balance(today)
  BY DEF Views!GoalNetWorth, Views!Balance
<1> QED
  BY <1>1, <1>2, NetWorthIs DEF Views!NetWorthMeetsGoal

LEMMA ReportStarts ==
  ASSUME Views!LedgerAssumption, Views!LedgerTypeOK, NEW n \in 1 .. 2
  PROVE  Views!ReportStart(n) \in Int /\ Views!ReportStart(n) <= today /\ today \in Int
<1> DEFINE m == Views!Month(today) - n
<1>1. today \in Int
  BY DEF Views!LedgerTypeOK
<1>2. Views!Month(today) \in Int /\ m \in Int /\ m <= Views!Month(today)
  <2>1. Views!Month(today) \in Int
    BY <1>1, MonthsCut
  <2> QED
    BY <2>1
<1> HIDE DEF m
<1>3. Views!FirstOf(m) \in Int /\ Views!FirstOf(m) <= today
  BY <1>1, <1>2, MonthsCut
<1> QED
  BY <1>1, <1>3 DEF Views!ReportStart, m

LEMMA NetWorthMovesBy ==
  ASSUME Views!LedgerAssumption, Views!LedgerTypeOK
  PROVE  Views!NetWorthMoves
<1> SUFFICES ASSUME NEW n \in 1 .. 2
             PROVE  Views!NetWorthChange(n)
                      = Views!SignedSum({r \in Views!Live :
                             /\ Views!OnOpen(r) /\ Views!Realized(r)
                             /\ booked[r].day \in Views!ReportStart(n) + 1 .. today})
                        - 2 * (Views!Overpaid(today) - Views!Overpaid(Views!ReportStart(n)))
  BY DEF Views!NetWorthMoves
<1> DEFINE s == Views!ReportStart(n)
           S == {r \in Views!Live : /\ Views!OnOpen(r) /\ Views!Realized(r)
                                    /\ booked[r].day \in s + 1 .. today}
<1>1. s \in Int /\ s <= today /\ today \in Int
  BY ReportStarts
<1>2. Views!NetWorthChange(n) = Views!NetWorth(today) - Views!NetWorth(s)
  BY DEF Views!NetWorthChange
<1> HIDE DEF s
<1>3. S = BookedOnOpen(s, today)
  BY <1>1, LiveRows DEF BookedOnOpen
<1> HIDE DEF S
<1>4. /\ Views!Balance(today) = Views!Balance(s) + Views!SignedSum(S)
      /\ Views!Balance(s) \in Int /\ Views!SignedSum(S) \in Int
  BY <1>1, <1>3, BalanceMoves
<1>5. /\ Views!NetWorth(today) = Views!Balance(today) - 2 * Views!Overpaid(today)
      /\ Views!NetWorth(s) = Views!Balance(s) - 2 * Views!Overpaid(s)
      /\ Views!Overpaid(today) \in Int /\ Views!Overpaid(s) \in Int
  BY <1>1, NetWorthIs
<1>6. Views!NetWorthChange(n)
        = Views!SignedSum(S) - 2 * (Views!Overpaid(today) - Views!Overpaid(s))
  BY <1>2, <1>4, <1>5
<1> QED
  BY <1>6 DEF S, s

\* The rows of a report's window, by month.
LEMMA ByMonth ==
  ASSUME Views!LedgerAssumption, Views!LedgerTypeOK, NEW n \in 1 .. 2,
         NEW T, T \subseteq Views!Live, NEW f, DOMAIN f = Views!BarsOf(n),
         \A m \in DOMAIN f : f[m] = Views!AmountSum({r \in T : /\ Views!Month(Views!ReportDate(r)) = m
                                                               /\ Views!ReportDate(r) <= today})
  PROVE  Views!SumFunction(f)
           = Views!AmountSum({r \in T : Views!ReportDate(r) \in Views!ReportStart(n) .. today})
<1> DEFINE S == {r \in T : Views!ReportDate(r) \in Views!ReportStart(n) .. today}
           K == Views!BarsOf(n)
           kind == [r \in S |-> Views!Month(Views!ReportDate(r))]
           first == Views!Month(today) - n
<1>1. /\ today \in Int /\ Views!Month(today) \in Int /\ first \in Int
      /\ K = first .. Views!Month(today)
      /\ Views!ReportStart(n) = Views!FirstOf(first)
  <2>1. today \in Int
    BY ReportStarts
  <2>2. Views!Month(today) \in Int
    BY <2>1, MonthsCut
  <2> QED
    BY <2>1, <2>2 DEF Views!BarsOf, Views!ReportStart
<1>2. ASSUME NEW r \in T, Views!ReportDate(r) <= today
      PROVE  /\ Views!ReportDate(r) \in Views!ReportStart(n) .. today
                  <=> Views!Month(Views!ReportDate(r)) \in K
  <2> DEFINE d == Views!ReportDate(r)
             m == Views!Month(today)
  <2>1. d \in Int
    BY DatesAre
  <2> HIDE DEF d, first
  <2>2. Views!Month(d) \in Int /\ (Views!FirstOf(first) <= d <=> first <= Views!Month(d))
        /\ Views!FirstOf(first) \in Int
    BY <1>1, <2>1, MonthsCut
  <2>3. Views!Month(d) <= Views!Month(today)
    <3>1. m \in Int /\ (today <= Views!LastOf(m) <=> Views!Month(today) <= m) /\ Views!LastOf(m) \in Int
      <4>1. m \in Int
        BY <1>1
      <4> HIDE DEF m
      <4> QED
        BY <1>1, <4>1, MonthsCut
    <3>2. today <= Views!LastOf(m)
      BY <3>1
    <3> HIDE DEF m
    <3>3. d <= Views!LastOf(m)
      BY <1>1, <1>2, <2>1, <3>1, <3>2 DEF d
    <3>4. Views!Month(d) <= m
      BY <2>1, <3>1, <3>3, MonthsCut
    <3> QED
      BY <3>4 DEF m
  <2>4. d \in Views!FirstOf(first) .. today <=> first <= Views!Month(d)
    BY <1>1, <1>2, <2>1, <2>2 DEF d
  <2>5. Views!Month(d) \in K <=> first <= Views!Month(d)
    BY <1>1, <2>2, <2>3
  <2> QED
    BY <1>1, <2>4, <2>5 DEF d
<1>3. ASSUME NEW m \in K
      PROVE  {r \in S : kind[r] = m} = {r \in T : /\ Views!Month(Views!ReportDate(r)) = m
                                                  /\ Views!ReportDate(r) <= today}
  <2>1. \A r \in T : Views!ReportDate(r) \in Views!ReportStart(n) .. today
                       => Views!ReportDate(r) <= today
    <3> TAKE r \in T
    <3>1. Views!ReportStart(n) \in Int
      BY ReportStarts
    <3> QED
      BY <1>1, <3>1
  <2> HIDE DEF K
  <2> QED
    BY <1>2, <1>3, <2>1
<1>4. \A r \in S : kind[r] \in K
  <2> SUFFICES ASSUME NEW r \in S PROVE Views!Month(Views!ReportDate(r)) \in K
    OBVIOUS
  <2>1. Views!ReportDate(r) <= today
    BY <1>1, ReportStarts
  <2> QED
    BY <1>2, <2>1
<1>5. \A m \in K : f[m] = Views!AmountSum({r \in S : kind[r] = m})
  BY <1>3
<1>6. IsFiniteSet(K) /\ S \subseteq Views!Live /\ DOMAIN f = K
  BY <1>1, FS_Interval
<1> HIDE DEF S, K, kind
<1>7. Views!SumFunction(f) = Views!AmountSum(S)
  BY <1>4, <1>5, <1>6, RowKinds
<1> QED
  BY <1>7 DEF S

LEMMA CompositionMeets ==
  ASSUME Views!LedgerAssumption, Views!LedgerTypeOK
  PROVE  Views!CompositionAddsUp
<1> DEFINE all(type, n) ==
             Views!SumFunction([c \in Categories \cup {NoCategory} |-> Views!Composed(c, type, n)])
           bars(c, n) == Views!SumFunction([m \in Views!BarsOf(n) |-> Views!BarOn(c, m)])
<1> SUFFICES ASSUME NEW n \in 1 .. 2
             PROVE  /\ all("credit", n) = Views!ReportIncome(n)
                    /\ all("debit", n) = Views!ReportExpenses(n)
                    /\ \A c \in Categories : Views!Composed(c, "debit", n) = bars(c, n)
  BY DEF Views!CompositionAddsUp
<1> DEFINE T(type) == {r \in Views!Flows : booked[r].type = type}
           S(type) == {r \in T(type) : Views!ReportDate(r) \in Views!ReportStart(n) .. today}
<1>1. \A type : T(type) \subseteq Views!Live /\ S(type) \subseteq Views!Live
  BY DEF Views!Flows
<1>2. ASSUME NEW type PROVE all(type, n) = Views!AmountSum(S(type))
  <2> DEFINE f == [c \in Categories \cup {NoCategory} |-> Views!Composed(c, type, n)]
             W == S(type)
  <2>1. \A c \in DOMAIN f : f[c] = Views!AmountSum({r \in W : booked[r].category = c})
    <3> SUFFICES ASSUME NEW c \in Categories \cup {NoCategory}
                 PROVE  Views!Composed(c, type, n)
                          = Views!AmountSum({r \in W : booked[r].category = c})
      OBVIOUS
    <3>1. {r \in W : booked[r].category = c}
            = {r \in Views!Flows : /\ Views!ReportDate(r) \in Views!ReportStart(n) .. today
                                   /\ booked[r].type = type
                                   /\ booked[r].category = c}
      OBVIOUS
    <3> QED
      BY <3>1 DEF Views!Composed
  <2>2. W \subseteq Views!Live /\ DOMAIN f = Categories \cup {NoCategory}
    BY <1>1
  <2> HIDE DEF f, W
  <2>3. Views!SumFunction(f) = Views!AmountSum(W)
    BY <2>1, <2>2, ByCategory
  <2> QED
    BY <2>3 DEF f, W
<1>3. ASSUME NEW m
      PROVE  /\ Views!BarIncome(m)
                  = Views!AmountSum({r \in T("credit") : /\ Views!Month(Views!ReportDate(r)) = m
                                                         /\ Views!ReportDate(r) <= today})
             /\ Views!BarExpenses(m)
                  = Views!AmountSum({r \in T("debit") : /\ Views!Month(Views!ReportDate(r)) = m
                                                        /\ Views!ReportDate(r) <= today})
  <2>1. /\ {r \in T("credit") : /\ Views!Month(Views!ReportDate(r)) = m
                                /\ Views!ReportDate(r) <= today}
             = {r \in Views!InMonth(m) \ Opening : /\ booked[r].type = "credit"
                                                   /\ Views!ReportDate(r) <= today}
        /\ {r \in T("debit") : /\ Views!Month(Views!ReportDate(r)) = m
                               /\ Views!ReportDate(r) <= today}
             = {r \in Views!InMonth(m) \ Opening : /\ booked[r].type = "debit"
                                                   /\ Views!ReportDate(r) <= today}
    BY DEF Views!Flows, Views!InMonth
  <2> QED
    BY <2>1 DEF Views!BarIncome, Views!BarExpenses
<1>4. Views!ReportIncome(n) = Views!AmountSum(S("credit"))
  <2> DEFINE f == [m \in Views!BarsOf(n) |-> Views!BarIncome(m)]
             W == T("credit")
  <2>1. \A m \in DOMAIN f : f[m] = Views!AmountSum({r \in W : /\ Views!Month(Views!ReportDate(r)) = m
                                                              /\ Views!ReportDate(r) <= today})
    BY <1>3
  <2>2. W \subseteq Views!Live /\ DOMAIN f = Views!BarsOf(n)
        /\ Views!ReportIncome(n) = Views!SumFunction(f)
    BY <1>1 DEF Views!ReportIncome
  <2> HIDE DEF f, W
  <2>3. Views!SumFunction(f)
          = Views!AmountSum({r \in W : Views!ReportDate(r) \in Views!ReportStart(n) .. today})
    BY <2>1, <2>2, ByMonth
  <2> QED
    BY <2>2, <2>3 DEF W
<1>5. Views!ReportExpenses(n) = Views!AmountSum(S("debit"))
  <2> DEFINE f == [m \in Views!BarsOf(n) |-> Views!BarExpenses(m)]
             W == T("debit")
  <2>1. \A m \in DOMAIN f : f[m] = Views!AmountSum({r \in W : /\ Views!Month(Views!ReportDate(r)) = m
                                                              /\ Views!ReportDate(r) <= today})
    BY <1>3
  <2>2. W \subseteq Views!Live /\ DOMAIN f = Views!BarsOf(n)
        /\ Views!ReportExpenses(n) = Views!SumFunction(f)
    BY <1>1 DEF Views!ReportExpenses
  <2> HIDE DEF f, W
  <2>3. Views!SumFunction(f)
          = Views!AmountSum({r \in W : Views!ReportDate(r) \in Views!ReportStart(n) .. today})
    BY <2>1, <2>2, ByMonth
  <2> QED
    BY <2>2, <2>3 DEF W
<1>6. ASSUME NEW c \in Categories PROVE Views!Composed(c, "debit", n) = bars(c, n)
  <2> DEFINE f == [m \in Views!BarsOf(n) |-> Views!BarOn(c, m)]
             W == {r \in Views!Flows : booked[r].type = "debit" /\ booked[r].category = c}
  <2>1. ASSUME NEW m \in DOMAIN f
        PROVE  f[m] = Views!AmountSum({r \in W : /\ Views!Month(Views!ReportDate(r)) = m
                                                 /\ Views!ReportDate(r) <= today})
    <3>1. {r \in W : /\ Views!Month(Views!ReportDate(r)) = m
                     /\ Views!ReportDate(r) <= today}
            = {r \in Views!InMonth(m) \ Opening : /\ booked[r].type = "debit"
                                                  /\ booked[r].category = c
                                                  /\ Views!ReportDate(r) <= today}
      BY DEF Views!Flows, Views!InMonth
    <3> QED
      BY <3>1 DEF Views!BarOn
  <2>2. W \subseteq Views!Live /\ DOMAIN f = Views!BarsOf(n)
    BY DEF Views!Flows
  <2>3. {r \in W : Views!ReportDate(r) \in Views!ReportStart(n) .. today}
          = {r \in Views!Flows : /\ Views!ReportDate(r) \in Views!ReportStart(n) .. today
                                 /\ booked[r].type = "debit"
                                 /\ booked[r].category = c}
    OBVIOUS
  <2>4. Views!Composed(c, "debit", n)
          = Views!AmountSum({r \in W : Views!ReportDate(r) \in Views!ReportStart(n) .. today})
    BY <2>3 DEF Views!Composed
  <2> HIDE DEF f, W
  <2>5. Views!SumFunction(f)
          = Views!AmountSum({r \in W : Views!ReportDate(r) \in Views!ReportStart(n) .. today})
    BY <2>1, <2>2, ByMonth
  <2> QED
    BY <2>4, <2>5 DEF f
<1> QED
  BY <1>2, <1>4, <1>5, <1>6

-----------------------------------------------------------------------------
\* The cash flow chart walks from today, back by what has flowed and on by what
\* will flow.
FlowsIn(from, to) ==
  {r \in Views!Flows : Views!FlowDate(r) > from /\ Views!FlowDate(r) <= to}

Walked(d) == IF d <= today THEN Views!WalkBack(d) ELSE Views!WalkOn(d)

LEMMA ChartDates ==
  ASSUME Views!LedgerAssumption, Views!LedgerTypeOK
  PROVE  /\ today \in Int /\ Views!ChartStart \in Int /\ Views!ChartEnd \in Int
         /\ Views!ChartStart < today /\ today < Views!ChartEnd
         /\ DaysInMonth \in Nat \ {0}
  BY DEF Views!LedgerAssumption, Views!LedgerTypeOK, Views!ChartStart, Views!ChartEnd

LEMMA FlowsAre ==
  ASSUME Views!LedgerAssumption, Views!LedgerTypeOK
  PROVE  /\ Views!Flows \subseteq Views!Live
         /\ \A r \in Views!Flows : /\ Views!FlowDate(r) \in Int /\ Views!OnOpen(r)
                                   /\ Views!Realized(r)
         /\ \A d, e : FlowsIn(d, e) \subseteq Views!Live
         /\ Views!Anchor \in Int
<1>1. Views!Flows \subseteq Views!Live
  BY DEF Views!Flows
<1>2. \A r \in Views!Flows : /\ Views!FlowDate(r) \in Int /\ Views!OnOpen(r) /\ Views!Realized(r)
  BY <1>1, DatesAre DEF Views!Flows, Views!CountsAsPnl
<1>3. \A d, e : FlowsIn(d, e) \subseteq Views!Live
  BY <1>1 DEF FlowsIn
<1>4. Views!Anchor \in Int
  <2>1. Views!Balance(today) \in Int
    BY ChartDates, BalanceMoves
  <2>2. Views!PendingPurchases \subseteq Views!Live
    BY <1>1 DEF Views!PendingPurchases
  <2>3. Views!SignedSum(Views!PendingPurchases) \in Int
    BY <2>2, RowSums
  <2> QED
    BY <2>1, <2>3 DEF Views!Anchor
<1> QED
  BY <1>1, <1>2, <1>3, <1>4

LEMMA FlowsSplit ==
  ASSUME Views!LedgerAssumption, Views!LedgerTypeOK,
         NEW d \in Int, NEW e \in Int, NEW f \in Int, d <= e, e <= f
  PROVE  /\ Views!SignedSum(FlowsIn(d, f))
              = Views!SignedSum(FlowsIn(d, e)) + Views!SignedSum(FlowsIn(e, f))
         /\ Views!SignedSum(FlowsIn(d, e)) \in Int /\ Views!SignedSum(FlowsIn(e, f)) \in Int
<1> DEFINE S == FlowsIn(d, e)
           T == FlowsIn(e, f)
<1>1. /\ FlowsIn(d, f) = S \cup T /\ S \cap T = {}
      /\ S \subseteq Views!Live /\ T \subseteq Views!Live
  BY FlowsAre DEF FlowsIn
<1> HIDE DEF S, T
<1>2. Views!SignedSum(S \cup T) = Views!SignedSum(S) + Views!SignedSum(T)
      /\ Views!SignedSum(S) \in Int /\ Views!SignedSum(T) \in Int
  BY <1>1, RowParts
<1> QED
  BY <1>1, <1>2 DEF S, T

LEMMA WalksAre ==
  ASSUME Views!LedgerAssumption, Views!LedgerTypeOK, NEW d \in Int, NEW e \in Int, d <= e
  PROVE  /\ Walked(e) = Walked(d) + Views!SignedSum(FlowsIn(d, e))
         /\ Walked(d) \in Int /\ Views!SignedSum(FlowsIn(d, e)) \in Int
<1> DEFINE A == Views!Anchor
<1>1. today \in Int /\ A \in Int
  BY ChartDates, FlowsAre
<1>2. /\ Views!WalkBack(d) = A - Views!SignedSum(FlowsIn(d, today))
      /\ Views!WalkBack(e) = A - Views!SignedSum(FlowsIn(e, today))
      /\ Views!WalkOn(d) = A + Views!SignedSum(FlowsIn(today, d))
      /\ Views!WalkOn(e) = A + Views!SignedSum(FlowsIn(today, e))
  BY DEF Views!WalkBack, Views!WalkOn, FlowsIn
<1> HIDE DEF A
<1>3. CASE e <= today
  <2>1. d <= today
    BY <1>1, <1>3
  <2>2. /\ Views!SignedSum(FlowsIn(d, today))
             = Views!SignedSum(FlowsIn(d, e)) + Views!SignedSum(FlowsIn(e, today))
        /\ Views!SignedSum(FlowsIn(d, e)) \in Int /\ Views!SignedSum(FlowsIn(e, today)) \in Int
    BY <1>1, <1>3, FlowsSplit
  <2>3. Walked(d) = Views!WalkBack(d) /\ Walked(e) = Views!WalkBack(e)
    BY <1>3, <2>1 DEF Walked
  <2> QED
    BY <1>1, <1>2, <2>2, <2>3
<1>4. CASE d <= today /\ today < e
  <2>1. ~(e <= today) /\ today <= e
    BY <1>1, <1>4
  <2>2. /\ Views!SignedSum(FlowsIn(d, e))
             = Views!SignedSum(FlowsIn(d, today)) + Views!SignedSum(FlowsIn(today, e))
        /\ Views!SignedSum(FlowsIn(d, today)) \in Int /\ Views!SignedSum(FlowsIn(today, e)) \in Int
    BY <1>1, <1>4, <2>1, FlowsSplit
  <2>3. Walked(d) = Views!WalkBack(d) /\ Walked(e) = Views!WalkOn(e)
    BY <1>4, <2>1 DEF Walked
  <2> QED
    BY <1>1, <1>2, <2>2, <2>3
<1>5. CASE today < d
  <2>1. ~(e <= today) /\ ~(d <= today) /\ today <= d
    BY <1>1, <1>5
  <2>2. /\ Views!SignedSum(FlowsIn(today, e))
             = Views!SignedSum(FlowsIn(today, d)) + Views!SignedSum(FlowsIn(d, e))
        /\ Views!SignedSum(FlowsIn(today, d)) \in Int /\ Views!SignedSum(FlowsIn(d, e)) \in Int
    BY <1>1, <2>1, FlowsSplit
  <2>3. Walked(d) = Views!WalkOn(d) /\ Walked(e) = Views!WalkOn(e)
    BY <2>1 DEF Walked
  <2> QED
    BY <1>1, <1>2, <2>2, <2>3
<1> QED
  BY <1>1, <1>3, <1>4, <1>5

\* What the chart counts on its days is what flows on them.
LEMMA FlowsByType ==
  ASSUME Views!LedgerAssumption, Views!LedgerTypeOK, NEW d \in Int, NEW e \in Int,
         Views!ChartStart <= d,
         NEW days, \A x \in Int : x \in days \ {Views!ChartStart} <=> d < x /\ x <= e
  PROVE  Views!SignedSum(FlowsIn(d, e))
           = Views!Booked("credit", days) - Views!Booked("debit", days)
<1> DEFINE S == FlowsIn(d, e)
<1>1. S \subseteq Views!Live
  BY FlowsAre
<1>2. \A type : {r \in S : booked[r].type = type}
                  = {r \in Views!Flows : /\ booked[r].type = type
                                         /\ Views!FlowDate(r) \in days \ {Views!ChartStart}}
  BY FlowsAre DEF FlowsIn
<1>3. /\ Views!Booked("credit", days) = Views!AmountSum({r \in S : booked[r].type = "credit"})
      /\ Views!Booked("debit", days) = Views!AmountSum({r \in S : booked[r].type = "debit"})
  BY <1>2 DEF Views!Booked
<1> HIDE DEF S
<1>4. Views!SignedSum(S) = Views!AmountSum({r \in S : booked[r].type = "credit"})
                           - Views!AmountSum({r \in S : booked[r].type = "debit"})
  BY <1>1, SignsAre
<1> QED
  BY <1>3, <1>4 DEF S

LEMMA MaxIs ==
  ASSUME NEW S, S \subseteq Int, NEW x \in S, \A y \in S : y <= x
  PROVE  Views!Max(S) = x
<1>1. \A y \in S : x >= y
  OBVIOUS
<1>2. Views!Max(S) = CHOOSE z \in S : \A y \in S : z >= y
  BY DEF Views!Max
<1>3. \A z \in S : (\A y \in S : z >= y) => z = x
  BY <1>1
<1> QED
  BY <1>1, <1>2, <1>3

\* The last day of the chart in a month.
LastIn(m) == IF Views!LastOf(m) <= Views!ChartEnd THEN Views!LastOf(m) ELSE Views!ChartEnd

LEMMA ChartMonths ==
  ASSUME Views!LedgerAssumption, Views!LedgerTypeOK, NEW m \in Int,
         Views!Month(Views!ChartStart) <= m, m <= Views!Month(Views!ChartEnd)
  PROVE  /\ Views!Max(Views!InChart(m)) = LastIn(m) /\ LastIn(m) \in Int
         /\ Views!ChartStart <= LastIn(m)
         /\ \A x \in Int : x \in Views!InChart(m)
              <=> Views!ChartStart <= x /\ Views!FirstOf(m) <= x /\ x <= LastIn(m)
<1> DEFINE s == Views!ChartStart
           e == Views!ChartEnd
           first == Views!FirstOf(m)
           last == Views!LastOf(m)
           S == Views!InChart(m)
<1>1. s \in Int /\ e \in Int /\ s < e
  BY ChartDates
<1>2. first \in Int /\ last \in Int /\ first <= last
  BY MonthsCut
<1>3. \A x \in Int : /\ Views!Month(x) \in Int
                     /\ Views!Month(x) = m <=> first <= x /\ x <= last
  <2> SUFFICES ASSUME NEW x \in Int
               PROVE  /\ Views!Month(x) \in Int
                      /\ Views!Month(x) = m <=> first <= x /\ x <= last
    OBVIOUS
  <2> DEFINE q == Views!Month(x)
  <2>1. q \in Int /\ (first <= x <=> m <= q) /\ (x <= last <=> q <= m)
    BY MonthsCut
  <2> HIDE DEF q, first, last
  <2> QED
    BY <2>1 DEF q
<1>4. s <= last /\ first <= e
  <2> HIDE DEF s, e
  <2>1. s <= last
    BY <1>1, MonthsCut DEF s
  <2>2. first <= e
    BY <1>1, MonthsCut DEF e
  <2> QED
    BY <2>1, <2>2
<1>5. \A x \in Int : x \in S <=> s <= x /\ x <= e /\ first <= x /\ x <= last
  BY <1>1, <1>3 DEF Views!InChart
<1>6. S \subseteq Int
  BY <1>1 DEF Views!InChart
<1>7. LastIn(m) = IF last <= e THEN last ELSE e
  BY DEF LastIn
<1> HIDE DEF s, e, first, last, S
<1>8. /\ LastIn(m) \in S /\ LastIn(m) \in Int
      /\ \A x \in S : x <= LastIn(m)
  BY <1>1, <1>2, <1>4, <1>5, <1>6, <1>7
<1>9. Views!Max(S) = LastIn(m)
  BY <1>6, <1>8, MaxIs
<1>10. s <= LastIn(m) /\ \A x \in Int : x \in S <=> s <= x /\ first <= x /\ x <= LastIn(m)
  BY <1>1, <1>2, <1>4, <1>5, <1>7, <1>8
<1> QED
  BY <1>8, <1>9, <1>10 DEF S, s, first

LEMMA ChartMeets ==
  ASSUME Views!LedgerAssumption, Views!LedgerTypeOK
  PROVE  Views!ChartAddsUp
<1> DEFINE from == Views!Month(Views!ChartStart)
           to == Views!Month(Views!ChartEnd)
           point == [m \in from .. to |-> Views!MonthPoint(m)]
<1>1. from \in Int /\ to \in Int
  BY ChartDates, MonthsCut
<1>2. ASSUME NEW m \in from + 1 .. to
      PROVE  point[m].balance = point[m - 1].balance + point[m].inflow - point[m].outflow
  <2> DEFINE p == m - 1
             days == Views!InChart(m)
  <2>1. m \in Int /\ p \in Int /\ m \in from .. to /\ p \in from .. to /\ p + 1 = m
    BY <1>1
  <2>2. /\ point[m].balance = Walked(Views!Max(days))
        /\ point[m].inflow = Views!Booked("credit", days)
        /\ point[m].outflow = Views!Booked("debit", days)
    <3>1. point[m] = Views!MonthPoint(m)
      BY <2>1
    <3> HIDE DEF point
    <3> QED
      BY <3>1 DEF Views!MonthPoint, Walked
  <2>3. point[p].balance = Walked(Views!Max(Views!InChart(p)))
    <3>1. point[p] = Views!MonthPoint(p)
      BY <2>1
    <3> HIDE DEF point, p
    <3> QED
      BY <3>1 DEF Views!MonthPoint, Walked
  <2>4. /\ from <= m /\ m <= to /\ from <= p /\ p <= to
    BY <1>1, <2>1
  <2>5. /\ Views!Max(days) = LastIn(m) /\ LastIn(m) \in Int
        /\ \A x \in Int : x \in days
             <=> Views!ChartStart <= x /\ Views!FirstOf(m) <= x /\ x <= LastIn(m)
    BY <2>1, <2>4, ChartMonths
  <2> HIDE DEF p
  <2>6. /\ Views!Max(Views!InChart(p)) = LastIn(p) /\ LastIn(p) \in Int
        /\ Views!ChartStart <= LastIn(p)
    BY <2>1, <2>4, ChartMonths
  <2>7. Views!FirstOf(m) = LastIn(p) + 1 /\ LastIn(p) <= LastIn(m)
    <3>1. /\ Views!FirstOf(p + 1) = Views!LastOf(p) + 1 /\ Views!LastOf(p) \in Int
      BY <2>1, MonthsCut
    <3>2. Views!FirstOf(m) <= Views!ChartEnd /\ Views!FirstOf(m) \in Int
          /\ Views!FirstOf(m) <= Views!LastOf(m) /\ Views!LastOf(m) \in Int
      <4>1. Views!ChartEnd \in Int
        BY ChartDates
      <4> QED
        BY <2>1, <2>4, <4>1, MonthsCut
    <3> QED
      BY <2>1, <3>1, <3>2, ChartDates DEF LastIn
  <2> HIDE DEF days, point
  <2>8. \A x \in Int : x \in days \ {Views!ChartStart} <=> LastIn(p) < x /\ x <= LastIn(m)
    BY <2>5, <2>6, <2>7, ChartDates
  <2>9. Views!SignedSum(FlowsIn(LastIn(p), LastIn(m)))
          = Views!Booked("credit", days) - Views!Booked("debit", days)
    BY <2>5, <2>6, <2>8, FlowsByType
  <2>10. /\ Walked(LastIn(m)) = Walked(LastIn(p)) + Views!SignedSum(FlowsIn(LastIn(p), LastIn(m)))
         /\ Walked(LastIn(p)) \in Int
    BY <2>5, <2>6, <2>7, WalksAre
  <2>11. Views!Booked("credit", days) \in Int /\ Views!Booked("debit", days) \in Int
    <3>1. \A type : {r \in Views!Flows : /\ booked[r].type = type
                                         /\ Views!FlowDate(r) \in days \ {Views!ChartStart}}
                      \subseteq Views!Live
      BY FlowsAre
    <3> QED
      BY <3>1, RowSums DEF Views!Booked
  <2>12. point[m].balance = point[p].balance + point[m].inflow - point[m].outflow
    BY <2>2, <2>3, <2>5, <2>6, <2>9, <2>10, <2>11
  <2> QED
    BY <2>12 DEF p
<1>3. Views!Projection.ending = Views!Projection.starting + Views!Projection.income
                                - Views!Projection.expenses
  <2> DEFINE days == today + 1 .. Views!ChartEnd
             e == Views!ChartEnd
  <2>1. /\ Views!Projection.starting = Views!Anchor
        /\ Views!Projection.ending = Views!Anchor + Views!SignedSum(FlowsIn(today, e))
        /\ Views!Projection.income = Views!Booked("credit", days)
        /\ Views!Projection.expenses = Views!Booked("debit", days)
    BY DEF Views!Projection, Views!WalkOn, FlowsIn
  <2>2. \A x \in Int : x \in days \ {Views!ChartStart} <=> today < x /\ x <= e
    BY ChartDates
  <2>3. today \in Int /\ e \in Int /\ Views!ChartStart <= today
    BY ChartDates
  <2> HIDE DEF days, e
  <2>4. Views!SignedSum(FlowsIn(today, e))
          = Views!Booked("credit", days) - Views!Booked("debit", days)
    BY <2>2, <2>3, FlowsByType
  <2>5. Views!Booked("credit", days) \in Int /\ Views!Booked("debit", days) \in Int
    <3>1. \A type : {r \in Views!Flows : /\ booked[r].type = type
                                         /\ Views!FlowDate(r) \in days \ {Views!ChartStart}}
                      \subseteq Views!Live
      BY FlowsAre
    <3> QED
      BY <3>1, RowSums DEF Views!Booked
  <2> QED
    BY <2>1, <2>4, <2>5, FlowsAre
<1> QED
  BY <1>2, <1>3 DEF Views!ChartAddsUp

\* What was bought and not yet due, and what is dated ahead, is what flows.
LEMMA ModesFit ==
  ASSUME Views!LedgerAssumption, Views!LedgerTypeOK
  PROVE  Views!ModesMeet
<1> DEFINE e == Views!ChartEnd
           P == Views!PendingPurchases
           B == {r \in Views!Flows : booked[r].day > today /\ booked[r].day <= e}
           S == FlowsIn(today, e)
<1> SUFFICES ASSUME \A r \in Views!Flows : booked[r].day <= e => Views!Due(r) <= e
             PROVE  Views!WalkOn(e) = Views!Balance(today) + Views!SignedSum(B)
  BY DEF Views!ModesMeet
<1>1. today \in Int /\ e \in Int /\ Views!Balance(today) \in Int
  BY ChartDates, BalanceMoves
<1>2. \A r \in Views!Flows :
         /\ booked[r].day \in Int /\ Views!Due(r) \in Int /\ Views!Due(r) >= booked[r].day
         /\ booked[r].account \notin Cards => Views!Due(r) = booked[r].day
  BY FlowsAre, LiveRows, DatesAre
<1>3. P \subseteq Views!Live /\ B \subseteq Views!Live /\ S \subseteq Views!Live
  BY FlowsAre DEF Views!PendingPurchases
<1>4. /\ Views!WalkOn(e) = Views!Anchor + Views!SignedSum(S)
      /\ Views!Anchor = Views!Balance(today) - (IF accrual THEN Views!SignedSum(P) ELSE 0)
  BY DEF Views!WalkOn, Views!Anchor, FlowsIn
<1>5. /\ Views!SignedSum(P) \in Int /\ Views!SignedSum(B) \in Int
      /\ Views!SignedSum(S) \in Int
  <2> HIDE DEF P, B, S
  <2> QED
    BY <1>3, RowSums
<1>6. CASE ~accrual
  <2>1. S = B
    BY <1>6 DEF FlowsIn, Views!FlowDate
  <2> HIDE DEF e, P, B, S
  <2> QED
    BY <1>1, <1>4, <1>5, <1>6, <2>1
<1>7. CASE accrual
  <2>1. \A r \in Views!Flows : r \in S <=> today < Views!Due(r) /\ Views!Due(r) <= e
    BY <1>7 DEF FlowsIn, Views!FlowDate
  <2>2. \A r \in Views!Flows :
           /\ r \in P <=> /\ booked[r].account \in Cards /\ booked[r].day <= today
                         /\ Views!Due(r) > today /\ Views!Due(r) <= e
           /\ r \in B <=> booked[r].day > today /\ booked[r].day <= e
    BY DEF Views!PendingPurchases
  <2>3. P \subseteq Views!Flows /\ B \subseteq Views!Flows /\ S \subseteq Views!Flows
    BY DEF Views!PendingPurchases, FlowsIn
  <2>4. \A r \in Views!Flows : booked[r].day <= e => Views!Due(r) <= e
    OBVIOUS
  <2> HIDE DEF e, P, B, S
  <2>5. \A r \in Views!Flows : r \in S <=> r \in P \/ r \in B
    BY <1>1, <1>2, <2>1, <2>2, <2>4
  <2>6. \A r \in Views!Flows : ~(r \in P /\ r \in B)
    BY <1>1, <1>2, <2>2
  <2>7. S = P \cup B /\ P \cap B = {}
    BY <2>3, <2>5, <2>6
  <2>8. Views!SignedSum(P \cup B) = Views!SignedSum(P) + Views!SignedSum(B)
    BY <1>3, <2>7, RowParts
  <2> QED
    BY <1>1, <1>4, <1>5, <1>7, <2>7, <2>8
<1> QED
  BY <1>6, <1>7

LEMMA WalkMeets ==
  ASSUME Views!LedgerAssumption, Views!LedgerTypeOK
  PROVE  Views!WalkMeetsBalance
<1> SUFFICES ASSUME NEW d \in (Views!ChartStart + 1) .. today, ~accrual,
                    \A r \in Views!Live : (/\ Views!OnOpen(r) /\ Views!Realized(r)
                                           /\ booked[r].day > d /\ booked[r].day <= today)
                                            => r \in Views!Flows
             PROVE  Views!WalkBack(d) = Views!Balance(d)
  BY DEF Views!WalkMeetsBalance
<1> DEFINE S == BookedOnOpen(d, today)
<1>1. today \in Int /\ d \in Int /\ d <= today
  BY ChartDates
<1>2. S = {r \in Views!Flows : Views!FlowDate(r) > d /\ Views!FlowDate(r) <= today}
  BY FlowsAre DEF BookedOnOpen, Views!FlowDate
<1>3. Views!WalkBack(d) = Views!Anchor - Views!SignedSum(S)
  BY <1>2 DEF Views!WalkBack
<1>4. Views!Anchor = Views!Balance(today) - 0
  BY DEF Views!Anchor
<1> HIDE DEF S
<1>5. /\ Views!Balance(today) \in Int /\ Views!Balance(d) \in Int
      /\ Views!SignedSum(S) \in Int
      /\ Views!Balance(today) = Views!Balance(d) + Views!SignedSum(S)
  BY <1>1, BalanceMoves DEF S
<1> QED
  BY <1>3, <1>4, <1>5

LEMMA ReportsFit ==
  ASSUME Views!LedgerAssumption, Views!LedgerTypeOK
  PROVE  Views!ReportsAgree
  BY BarsMeet, CompositionMeets, NetWorthMeets, NetWorthMovesBy, ModesFit, WalkMeets, ChartMeets
     DEF Views!ReportsAgree

-----------------------------------------------------------------------------
\* Budgets are budgets, and their months are numbers.
LEMMA MonthsCount == ASSUME Views!LedgerAssumption PROVE \A m \in Views!Months : m \in Int
<1>1. MaxDay \in Int
  BY DEF Views!LedgerAssumption
<1>2. Views!Month(MaxDay) \in Int
  BY <1>1, MonthsCut
<1> QED
  BY <1>2 DEF Views!Months

LEMMA BudgetsStayTyped ==
  ASSUME budgets \subseteq Views!Budget, [Views!Next]_(Views!vars)
  PROVE  (budgets \subseteq Views!Budget)'
<1>1. ASSUME NEW b \in Views!Budget, Views!CreateBudget(b)
      PROVE  (budgets \subseteq Views!Budget)'
  BY <1>1 DEF Views!CreateBudget
<1>2. ASSUME NEW b \in budgets, NEW n \in Limits, NEW m \in Views!Months,
             Views!UpdateBudget(b, n, m)
      PROVE  (budgets \subseteq Views!Budget)'
  <2>1. b \in Views!Budget
    OBVIOUS
  <2>2. /\ [b EXCEPT !.amount = n] \in Views!Budget
        /\ [b EXCEPT !.amount = n, !.month = m] \in Views!Budget
    BY <2>1 DEF Views!Budget
  <2> QED
    BY <1>2, <2>2 DEF Views!UpdateBudget
<1>3. ASSUME NEW b \in budgets, Views!DeleteBudget(b)
      PROVE  (budgets \subseteq Views!Budget)'
  BY <1>3 DEF Views!DeleteBudget
<1>4. CASE UNCHANGED budgets
  BY <1>4 DEF Views!Budget, Views!Months
<1>5. [Views!BudgetNext]_budgets
  BY DEF Views!Next, Views!vars
<1> QED
  BY <1>1, <1>2, <1>3, <1>4, <1>5 DEF Views!BudgetNext

\* The budget of a month before the one a change holds from is chosen among the
\* same rows as before.
LEMMA PastBudgets ==
  ASSUME Views!LedgerAssumption, budgets \subseteq Views!Budget,
         NEW b \in budgets, b.recurring, NEW n \in Limits, NEW e \in Views!Months,
         e >= b.month, Views!UpdateBudget(b, n, e), NEW m \in Views!Months, m < e
  PROVE  Views!Resolved(b.category, m)' = Views!Resolved(b.category, m)
<1> DEFINE c == b.category
           own == {o \in budgets : o.category = c /\ o.month = m /\ ~o.recurring}
           begun == {o \in budgets : o.category = c /\ o.month <= m /\ o.recurring}
           ownThen == {o \in budgets' : o.category = c /\ o.month = m /\ ~o.recurring}
           begunThen == {o \in budgets' : o.category = c /\ o.month <= m /\ o.recurring}
           moved1 == [b EXCEPT !.amount = n, !.month = e]
           moved2 == [b EXCEPT !.amount = n]
<1>1. b \in Views!Budget /\ e \in Int /\ m \in Int /\ b.month \in Int
  <2>1. b \in Views!Budget
    OBVIOUS
  <2>2. b.month \in Views!Months
    BY <2>1 DEF Views!Budget
  <2> QED
    BY <2>1, <2>2, MonthsCount
<1>2. /\ moved1.recurring /\ moved1.month = e
      /\ moved2.recurring /\ moved2.month = b.month
  BY <1>1 DEF Views!Budget
<1>3. CASE e # b.month
  <2>1. budgets' = budgets \cup {moved1}
    BY <1>3 DEF Views!UpdateBudget
  <2>2. ~(e <= m)
    BY <1>1
  <2> HIDE DEF moved1
  <2> QED
    BY <1>2, <2>1, <2>2 DEF Views!Resolved
<1>4. CASE e = b.month
  <2>1. budgets' = (budgets \ {b}) \cup {moved2}
    BY <1>4 DEF Views!UpdateBudget
  <2>2. ~(b.month <= m)
    BY <1>1, <1>4
  <2> HIDE DEF moved2
  <2> QED
    BY <1>2, <2>1, <2>2 DEF Views!Resolved
<1> QED
  BY <1>3, <1>4

\* What the dashboard shows fits together and fits the pages of the budgets and of
\* the accounts, for any accounts, categories, amounts, rows and length of months:
\* the line of the month, the categories, the budgets, the lists of accounts and
\* their pages (dashboard_service, budget_service, account_service).
THEOREM DashboardStands == ASSUME Views!LedgerAssumption PROVE ViewsSpec => []DashboardAgrees
<1>1. Views!LedgerTypeOK => DashboardAgrees
  BY DashboardFits DEF DashboardAgrees
<1> QED
  BY <1>1, LedgerTypedAlways, PTL

\* What the reports show fits together and fits the dashboard and the goals: the
\* bars and the composition, net worth, the cash flow chart in both accounting
\* modes and its projection (report_service).
THEOREM ReportsStand == ASSUME Views!LedgerAssumption PROVE ViewsSpec => []ReportsAgree
<1>1. Views!LedgerTypeOK => ReportsAgree
  BY ReportsFit DEF ReportsAgree
<1> QED
  BY <1>1, LedgerTypedAlways, PTL

\* Changing a recurring budget from a month on leaves what every earlier month
\* resolves to as it was (update_budget and _build_budget_map).
THEOREM PastBudgetsStand == ASSUME Views!LedgerAssumption PROVE ViewsSpec => ChangesFromMonthOn
<1> DEFINE Change == \A b \in budgets, n \in Limits, e \in Views!Months :
                        (b.recurring /\ e >= b.month /\ Views!UpdateBudget(b, n, e)) =>
                           \A m \in Views!Months :
                              m < e => Views!Resolved(b.category, m)'
                                         = Views!Resolved(b.category, m)
<1>1. Views!Init => budgets \subseteq Views!Budget
  BY DEF Views!Init
<1>2. budgets \subseteq Views!Budget /\ [Views!Next]_(Views!vars)
        => (budgets \subseteq Views!Budget)'
  BY BudgetsStayTyped
<1>3. budgets \subseteq Views!Budget => Change
  BY PastBudgets
<1>4. ChangesFromMonthOn <=> [][Change]_(Views!vars)
  BY DEF ChangesFromMonthOn, Views!ChangesFromMonthOn
<1> QED
  BY <1>1, <1>2, <1>3, <1>4, PTL DEF ViewsSpec, Views!Spec
=============================================================================
