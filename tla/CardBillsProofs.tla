---------------------------- MODULE CardBillsProofs ----------------------------
(***************************************************************************)
(* The calendars of a credit card, for every pair of cycle days and every  *)
(* day; the stored column effective_date, which follows what it is derived *)
(* from; and the bars of the page, which neither miss nor repeat a row.    *)
(* For any rows, bills and fees of the bank, and any number of edits, as   *)
(* long as the account stays a credit card.                                *)
(***************************************************************************)
EXTENDS CardBills, Lemmas

-----------------------------------------------------------------------------
(* The two days of a card.  They are apart when they fall on two days of   *)
(* every month, the shortest one included.                                 *)

DaysApart(close, dueDay) == close # dueDay /\ (close < 28 \/ dueDay < 28)

LEMMA DaysStayApart ==
  ASSUME NEW c \in 1 .. 31, NEW u \in 1 .. 31, DaysApart(c, u), NEW m \in Int
  PROVE  /\ c < u => ClampDay(m, c) < ClampDay(m, u)
         /\ u < c => ClampDay(m, u) < ClampDay(m, c)
<1>1. MonthStart(m) \in Int /\ MonthLength(m) \in 28 .. 31
  BY MonthHas
<1>2. QED
  BY <1>1 DEF ClampDay, DaysApart

\* A statement closes, then falls due, then the next one closes.
LEMMA OneDueDay ==
  ASSUME NEW c \in 1 .. 31, NEW u \in 1 .. 31, DaysApart(c, u),
         NEW m \in Int, ClampDay(m, c) \in Nat \ {0}
  PROVE  \E k \in Nat : /\ FirstAfter(ClampDay(m, c), u) = ClampDay(k, u)
                        /\ ClampDay(m, c) < ClampDay(k, u)
                        /\ ClampDay(k, u) < ClampDay(m + 1, c)
<1> DEFINE F == ClampDay(m, c)
<1>1. PICK k \in Nat : /\ FirstAfter(F, u) = ClampDay(k, u)
                       /\ ClampDay(k - 1, u) <= F /\ F < ClampDay(k, u)
  BY FirstAfterIs
<1>2. /\ F \in Nat \ {0} /\ ClampDay(m + 1, c) \in Int
      /\ MonthStart(m) \in Int /\ MonthStart(m + 1) \in Int
      /\ MonthStart(m) <= F /\ F < MonthStart(m + 1) /\ MonthStart(m + 1) <= ClampDay(m + 1, c)
  BY ClampsAround
<1>3. /\ ClampDay(m - 1, u) \in Int /\ ClampDay(m, u) \in Int /\ ClampDay(m + 1, u) \in Int
      /\ ClampDay(m - 1, u) < MonthStart(m)
      /\ ClampDay(m, u) < MonthStart(m + 1) /\ MonthStart(m + 1) <= ClampDay(m + 1, u)
  BY ClampsAround
<1>4. m - 1 \in Int /\ m + 1 \in Int /\ k - 1 \in Int /\ (m - 1) + 1 = m /\ (k - 1) + 1 = k
  OBVIOUS
<1>5. CASE c < u
  <2>1. F < ClampDay(m, u)
    BY <1>5, DaysStayApart
  <2> HIDE DEF F
  <2>2. ClampDay(m - 1, u) <= F
    BY <1>2, <1>3
  <2>3. k - 1 = m - 1
    BY <1>1, <1>2, <1>4, <2>1, <2>2, Between
  <2>4. k = m
    BY <2>3
  <2>5. ClampDay(k, u) < ClampDay(m + 1, c)
    BY <1>2, <1>3, <2>4
  <2> QED
    BY <1>1, <2>5 DEF F
<1>6. CASE u < c
  <2>1. ClampDay(m, u) < F /\ ClampDay(m + 1, u) < ClampDay(m + 1, c)
    BY <1>4, <1>6, DaysStayApart
  <2> HIDE DEF F
  <2>2. ClampDay(m, u) <= F /\ F < ClampDay(m + 1, u)
    BY <1>2, <1>3, <2>1
  <2>3. k - 1 = m
    BY <1>1, <1>2, <1>4, <2>2, Between
  <2>4. k = m + 1
    BY <2>3
  <2> QED
    BY <1>1, <2>1, <2>4 DEF F
<1>7. QED
  BY <1>5, <1>6 DEF DaysApart

LEMMA CycleOf ==
  ASSUME NEW d \in Nat \ {0}, NEW c \in 1 .. 31, NEW u \in 1 .. 31, DaysApart(c, u)
  PROVE  \E m \in Nat, k \in Nat :
           /\ FirstAfter(d, c) = ClampDay(m, c)
           /\ ClampDay(m - 1, c) <= d /\ d < ClampDay(m, c)
           /\ ComputeEffectiveDate(d, c, u) = ClampDay(k, u)
           /\ ClampDay(m, c) < ClampDay(k, u) /\ ClampDay(k, u) < ClampDay(m + 1, c)
<1>1. PICK m \in Nat : /\ FirstAfter(d, c) = ClampDay(m, c)
                       /\ ClampDay(m - 1, c) <= d /\ d < ClampDay(m, c)
  BY FirstAfterIs
<1>2. ClampDay(m, c) \in Nat \ {0}
  <2>1. m \in Int
    OBVIOUS
  <2>2. ClampDay(m, c) \in Int
    BY <2>1, ClampIs
  <2> QED
    BY <1>1, <2>2
<1>3. PICK k \in Nat : /\ FirstAfter(ClampDay(m, c), u) = ClampDay(k, u)
                       /\ ClampDay(m, c) < ClampDay(k, u) /\ ClampDay(k, u) < ClampDay(m + 1, c)
  BY <1>2, OneDueDay
<1>4. ComputeEffectiveDate(d, c, u) = ClampDay(k, u)
  BY <1>1, <1>3 DEF ComputeEffectiveDate, NoDay
<1>5. QED
  BY <1>1, <1>3, <1>4

\* What the calendars of the code say of two days, d and e, of a card.
Agree(d, e, c, u) ==
  LET bill == ComputeEffectiveDate(d, c, u)
      later == ComputeEffectiveDate(e, c, u)
  IN  /\ d \in CycleStart(d, c) .. CycleEnd(d, c)
      /\ CycleEnd(d, c) < bill
      /\ BillCloseDate(bill, c) = CycleEnd(d, c) + 1
      /\ NextClose(bill, c, u) = CycleEnd(d, c) + 1
      /\ IF e <= CycleEnd(d, c) THEN e >= d => later = bill ELSE later > bill

LEMMA CalendarsAgree ==
  ASSUME NEW d \in Nat \ {0}, NEW e \in Nat \ {0},
         NEW c \in 1 .. 31, NEW u \in 1 .. 31, DaysApart(c, u)
  PROVE  Agree(d, e, c, u)
<1>1. PICK m \in Nat, k \in Nat :
        /\ FirstAfter(d, c) = ClampDay(m, c)
        /\ ClampDay(m - 1, c) <= d /\ d < ClampDay(m, c)
        /\ ComputeEffectiveDate(d, c, u) = ClampDay(k, u)
        /\ ClampDay(m, c) < ClampDay(k, u) /\ ClampDay(k, u) < ClampDay(m + 1, c)
  BY CycleOf
<1>2. PICK n \in Nat, l \in Nat :
        /\ FirstAfter(e, c) = ClampDay(n, c)
        /\ ClampDay(n - 1, c) <= e /\ e < ClampDay(n, c)
        /\ ComputeEffectiveDate(e, c, u) = ClampDay(l, u)
        /\ ClampDay(n, c) < ClampDay(l, u) /\ ClampDay(l, u) < ClampDay(n + 1, c)
  BY CycleOf
<1> DEFINE F == ClampDay(m, c)
           B == ClampDay(k, u)
           L == ClampDay(l, u)
<1>3. /\ m \in Int /\ k \in Int /\ n \in Int /\ l \in Int
      /\ m - 1 \in Int /\ n - 1 \in Int /\ (m - 1) + 1 = m /\ (n - 1) + 1 = n
  OBVIOUS
<1>4. ClampDay(m - 1, c) \in Int /\ F \in Int /\ ClampDay(m + 1, c) \in Int
  BY <1>3, ClampsAround
<1>5. /\ ClampDay(n - 1, c) \in Int /\ ClampDay(n, c) \in Int /\ ClampDay(n + 1, c) \in Int
  BY <1>3, ClampsAround
<1>6. B \in Int /\ L \in Int
  BY <1>3, ClampIs
<1>7. F \in Nat \ {0} /\ B \in Nat \ {0}
  BY <1>1, <1>4, <1>6
<1>8. CycleEnd(d, c) = F - 1
  BY <1>1 DEF CycleEnd
<1>9. CycleStart(d, c) = ClampDay(m - 1, c)
  <2>1. MonthOf(F) = m
    BY <1>3, <1>7, ClampIn
  <2> QED
    BY <1>1, <2>1 DEF CycleStart
<1>10. LastOnOrBefore(B, c) = F
  <2>1. PICK j \in Int : /\ LastOnOrBefore(B, c) = ClampDay(j, c)
                         /\ ClampDay(j, c) <= B /\ B < ClampDay(j + 1, c)
    BY <1>7, LastIs
  <2>2. F <= B
    BY <1>1, <1>4, <1>6
  <2>3. j = m
    BY <1>1, <1>3, <1>6, <2>1, <2>2, Between
  <2> QED
    BY <2>1, <2>3
<1>11. NextDue(B, u) = B
  <2>1. MonthOf(B) = k
    BY <1>3, <1>7, ClampIn
  <2>2. B >= B
    BY <1>6
  <2> QED
    BY <2>1, <2>2 DEF NextDue, NextDayOccurrence
<1>12. /\ BillCloseDate(B, c) = F /\ NextClose(B, c, u) = F
  BY <1>10, <1>11 DEF BillCloseDate, NextClose, NoDay
<1>13. CASE e < F
  <2>1. e >= d => L = B
    <3> SUFFICES ASSUME e >= d PROVE L = B
      OBVIOUS
    <3>1. ClampDay(m - 1, c) <= e
      BY <1>1, <1>4
    <3>2. m - 1 = n - 1
      BY <1>2, <1>3, <1>13, <3>1, Between
    <3>3. m = n
      BY <3>2
    <3>4. FirstAfter(e, c) = FirstAfter(d, c)
      BY <1>1, <1>2, <3>3
    <3>5. ComputeEffectiveDate(e, c, u) = ComputeEffectiveDate(d, c, u)
      BY <3>4 DEF ComputeEffectiveDate, NoDay
    <3> QED
      BY <1>1, <1>2, <3>5
  <2>2. e <= F - 1
    BY <1>4, <1>13
  <2> HIDE DEF F, B, L
  <2> QED
    BY <1>1, <1>2, <1>4, <1>6, <1>8, <1>9, <1>12, <2>1, <2>2 DEF Agree, B, F, L
<1>14. CASE ~(e < F)
  <2>1. m < n
    <3>1. F < ClampDay(n, c)
      BY <1>2, <1>4, <1>5, <1>14
    <3>2. ~(n < m)
      <4>1. n < m => ClampDay(n, c) < F
        BY <1>3, ClampGrows
      <4> QED
        BY <1>4, <1>5, <3>1, <4>1
    <3>3. n # m
      BY <1>4, <3>1
    <3> QED
      BY <1>3, <3>2, <3>3
  <2>2. ClampDay(m + 1, c) <= ClampDay(n, c)
    <3>1. m + 1 < n => ClampDay(m + 1, c) < ClampDay(n, c)
      BY <1>3, ClampGrows
    <3> QED
      BY <1>3, <1>4, <1>5, <2>1, <3>1
  <2>3. L > B
    BY <1>1, <1>2, <1>4, <1>5, <1>6, <2>2
  <2>4. ~(e <= F - 1)
    BY <1>4, <1>14
  <2> HIDE DEF F, B, L
  <2> QED
    BY <1>1, <1>2, <1>4, <1>6, <1>8, <1>9, <1>12, <2>3, <2>4 DEF Agree, B, F, L
<1>15. QED
  BY <1>13, <1>14

-----------------------------------------------------------------------------
(* effective_date *)

\* A row has the columns of a row.
Columns == {"kind", "onCard", "date", "override", "bill", "tag", "eff", "pending"}
IsRow(x) == x = [f \in Columns |-> x[f]] /\ x.onCard \in BOOLEAN

\* Its effective_date is the one its other columns and the card c give, unless
\* a bill of the bank decides.
Follows(x, c) ==
  x.kind # "charge" =>
    /\ x.override # NoDay => x.eff = x.override
    /\ x.override = NoDay /\ ~x.onCard => x.eff = x.date
    /\ x.override = NoDay /\ x.onCard /\ x.bill = NoBill =>
         x.eff = ComputeEffectiveDate(x.date, c.close, c.due)

Card == [type : {"credit_card"}, close : CloseDays, due : DueDays]

\* The same under some cycle the card may have had.
Decided(x) == \E c \in Card : Follows(x, c)

\* A row that no sync has left behind follows the card as it is.
Rowed ==
  /\ row = [r \in AnyRow |-> row[r]]
  /\ \A r \in AnyRow : /\ IsRow(row[r]) /\ Decided(row[r])
                       /\ r \notin behind => Follows(row[r], card)
  /\ \A r \in Charges : row[r] = NoRow \/ row[r].kind = "charge"

BillsInv == card \in Card /\ Rowed

-----------------------------------------------------------------------------
(* The helpers *)

\* What apply_effective_date leaves follows the card.
LEMMA AppliedFollows ==
  ASSUME NEW x, IsRow(x), NEW d, card.type = "credit_card", x.bill # NoBill \/ d = NoDay
  PROVE  /\ IsRow(Applied(x, d)) /\ Follows(Applied(x, d), card)
         /\ Applied(x, d).kind = x.kind
<1> DEFINE e == Effective(x, d, card)
<1>1. Applied(x, d) = [x EXCEPT !.eff = e]
  BY DEF Applied
<1>2. /\ x.override # NoDay => e = x.override
      /\ x.override = NoDay /\ ~x.onCard => e = x.date
      /\ x.override = NoDay /\ x.onCard /\ x.bill = NoBill =>
           e = ComputeEffectiveDate(x.date, card.close, card.due)
  BY DEF Effective
<1> HIDE DEF e
<1>3. IsRow([x EXCEPT !.eff = e])
  BY DEF IsRow, Columns
<1>4. /\ [x EXCEPT !.eff = e].eff = e
      /\ [x EXCEPT !.eff = e].override = x.override
      /\ [x EXCEPT !.eff = e].onCard = x.onCard
      /\ [x EXCEPT !.eff = e].date = x.date
      /\ [x EXCEPT !.eff = e].bill = x.bill
      /\ [x EXCEPT !.eff = e].kind = x.kind
  BY DEF IsRow, Columns
<1>5. Follows([x EXCEPT !.eff = e], card)
  BY <1>2, <1>4 DEF Follows
<1>6. QED
  BY <1>1, <1>3, <1>4, <1>5

\* Linking a row to a bill changes bill_id alone.
LEMMA RelinkedRow ==
  ASSUME NEW x, IsRow(x)
  PROVE  IsRow(Relinked(x)) /\ Relinked(x).kind = x.kind
<1>1. PICK b : Relinked(x) = x \/ Relinked(x) = [x EXCEPT !.bill = b]
  BY DEF Relinked
<1>2. IsRow([x EXCEPT !.bill = b]) /\ [x EXCEPT !.bill = b].kind = x.kind
  BY DEF IsRow, Columns
<1>3. QED
  BY <1>1, <1>2

\* Nor does it disturb what apply_effective_date has left for want of a bill.
LEMMA RelinkedFollows ==
  ASSUME NEW x, IsRow(x), card.type = "credit_card"
  PROVE  IsRow(Relinked(Applied(x, NoDay))) /\ Follows(Relinked(Applied(x, NoDay)), card)
<1> DEFINE a == Applied(x, NoDay)
           e == Effective(x, NoDay, card)
<1>1. a = [x EXCEPT !.eff = e]
  BY DEF Applied
<1>2. /\ x.override # NoDay => e = x.override
      /\ x.override = NoDay /\ ~x.onCard => e = x.date
      /\ x.override = NoDay /\ x.onCard =>
           e = ComputeEffectiveDate(x.date, card.close, card.due)
  BY DEF Effective
<1> HIDE DEF e
<1>3. /\ IsRow(a) /\ a.eff = e /\ a.override = x.override /\ a.onCard = x.onCard
      /\ a.date = x.date
  BY <1>1 DEF IsRow, Columns
<1>4. PICK b : Relinked(a) = a \/ Relinked(a) = [a EXCEPT !.bill = b]
  BY DEF Relinked
<1> HIDE DEF a
<1>5. /\ IsRow([a EXCEPT !.bill = b]) /\ [a EXCEPT !.bill = b].eff = a.eff
      /\ [a EXCEPT !.bill = b].override = a.override /\ [a EXCEPT !.bill = b].onCard = a.onCard
      /\ [a EXCEPT !.bill = b].date = a.date
  BY <1>3 DEF IsRow, Columns
<1>6. Follows(a, card) /\ Follows([a EXCEPT !.bill = b], card)
  BY <1>2, <1>3, <1>5 DEF Follows
<1>7. IsRow(Relinked(a)) /\ Follows(Relinked(a), card)
  BY <1>3, <1>4, <1>5, <1>6
<1>8. QED
  BY <1>7 DEF a

LEMMA NoRowFollows == IsRow(NoRow) /\ NoRow.override = NoDay /\ ~NoRow.onCard
                      /\ NoRow.eff = NoRow.date /\ \A c : Follows(NoRow, c)
  BY DEF NoRow, IsRow, Columns, Follows, NoDay

\* One row is written, the others and the card stay.
LEMMA OneRow ==
  ASSUME BillsInv, card' = card, NEW r \in AnyRow, NEW x, row' = [row EXCEPT ![r] = x],
         IsRow(x), Follows(x, card) \/ (Decided(x) /\ r \in behind'),
         behind \ {r} \subseteq behind',
         r \in Charges => x = NoRow \/ x.kind = "charge"
  PROVE  BillsInv'
<1>1. /\ row' = [q \in AnyRow |-> row'[q]]
      /\ \A q \in AnyRow : row'[q] = IF q = r THEN x ELSE row[q]
  BY DEF BillsInv, Rowed
<1>0. Decided(x)
  BY DEF BillsInv, Rowed, Decided
<1>2. \A q \in AnyRow : /\ IsRow(row'[q]) /\ Decided(row'[q])
                       /\ q \notin behind' => Follows(row'[q], card)
  BY <1>0, <1>1 DEF BillsInv, Rowed
<1>3. \A q \in Charges : row'[q] = NoRow \/ row'[q].kind = "charge"
  BY <1>1 DEF BillsInv, Rowed, AnyRow
<1>4. QED
  BY <1>1, <1>2, <1>3 DEF BillsInv, Rowed, Decided

-----------------------------------------------------------------------------
(* Every step *)

LEMMA BillsInit == Init => BillsInv
<1> SUFFICES ASSUME Init PROVE BillsInv
  OBVIOUS
<1>1. card \in Card
  BY DEF Init, Card
<1>2. row = [r \in AnyRow |-> NoRow]
  BY DEF Init
<1>3. Rowed
  BY <1>1, <1>2, NoRowFollows DEF Rowed, AnyRow, Decided
<1>4. QED
  BY <1>1, <1>3 DEF BillsInv

LEMMA BillsStep == BillsInv /\ [Next]_vars => BillsInv'
<1> SUFFICES ASSUME BillsInv, [Next]_vars PROVE BillsInv'
  OBVIOUS
<1>a. card \in Card /\ card.type = "credit_card"
  BY DEF BillsInv, Card
<1>b. \A r \in AnyRow : IsRow(row[r]) /\ Decided(row[r])
  BY DEF BillsInv, Rowed
<1>c. \A r \in Live : r \in AnyRow /\ (r \in Charges => row[r].kind = "charge")
  BY DEF BillsInv, Rowed, Live
<1>d. \A r \in Rows : r \in AnyRow /\ r \notin Charges
  BY BillsAssumption DEF AnyRow
<1>e. IsRow(NoRow)
  BY NoRowFollows
<1>1. ASSUME NEW r \in Rows, NEW onCard \in BOOLEAN, NEW d, NEW o, Enter(r, onCard, d, o)
      PROVE BillsInv'
  <2> DEFINE x == [NoRow EXCEPT !.kind = "manual", !.onCard = onCard, !.date = d, !.override = o]
  <2>1. IsRow(x)
    BY DEF NoRow, IsRow, Columns, NoDay
  <2> DEFINE y == Relinked(Applied(x, NoDay))
  <2>2. card' = card /\ behind' = behind /\ row' = [row EXCEPT ![r] = y]
    BY <1>1 DEF Enter
  <2> HIDE DEF x
  <2>3. IsRow(y) /\ Follows(y, card)
    BY <1>a, <2>1, RelinkedFollows
  <2> HIDE DEF y
  <2>4. QED
    BY <1>d, <2>2, <2>3, OneRow
<1>2. ASSUME NEW r \in AnyRow, NEW d, EditDate(r, d) PROVE BillsInv'
  <2> DEFINE x == [row[r] EXCEPT !.date = d, !.pending = FALSE]
  <2>1. IsRow(x) /\ x.kind = row[r].kind
    BY <1>b DEF IsRow, Columns
  <2>2. /\ card' = card /\ row' = [row EXCEPT ![r] = Applied(x, NoDay)] /\ r \in Live
        /\ behind \ {r} \subseteq behind'
    BY <1>2 DEF EditDate, Settled
  <2> HIDE DEF x
  <2>3. /\ IsRow(Applied(x, NoDay)) /\ Follows(Applied(x, NoDay), card)
        /\ Applied(x, NoDay).kind = x.kind
    BY <1>a, <2>1, AppliedFollows
  <2> DEFINE y == Applied(x, NoDay)
  <2>4. r \in Charges => y.kind = "charge"
    BY <1>c, <2>1, <2>2, <2>3
  <2>5. row' = [row EXCEPT ![r] = y] /\ IsRow(y) /\ Follows(y, card)
    BY <2>2, <2>3
  <2> HIDE DEF y
  <2>6. QED
    BY <2>2, <2>4, <2>5, OneRow
<1>3. ASSUME NEW r \in AnyRow, MoveToAccount(r) PROVE BillsInv'
  <2> DEFINE x == [row[r] EXCEPT !.onCard = ~row[r].onCard, !.pending = FALSE]
  <2>a. (~row[r].onCard) \in BOOLEAN
    OBVIOUS
  <2>1. IsRow(x) /\ x.kind = row[r].kind
    BY <1>b, <2>a DEF IsRow, Columns
  <2>2. /\ card' = card /\ row' = [row EXCEPT ![r] = Applied(x, NoDay)] /\ r \in Live
        /\ behind \ {r} \subseteq behind'
    BY <1>3 DEF MoveToAccount, Settled
  <2> HIDE DEF x
  <2> DEFINE y == Applied(x, NoDay)
  <2>3. IsRow(y) /\ Follows(y, card) /\ y.kind = x.kind
    BY <1>a, <2>1, AppliedFollows
  <2>4. r \in Charges => y.kind = "charge"
    BY <1>c, <2>1, <2>2, <2>3
  <2>5. row' = [row EXCEPT ![r] = y]
    BY <2>2
  <2> HIDE DEF y
  <2>6. QED
    BY <2>2, <2>3, <2>4, <2>5, OneRow
<1>4. ASSUME NEW r \in AnyRow, NEW o, SetOverride(r, o) PROVE BillsInv'
  <2> DEFINE x == [row[r] EXCEPT !.override = o, !.pending = FALSE]
  <2>1. IsRow(x) /\ x.kind = row[r].kind
    BY <1>b DEF IsRow, Columns
  <2>2. /\ card' = card /\ row' = [row EXCEPT ![r] = Applied(Relinked(x), NoDay)] /\ r \in Live
        /\ behind \ {r} \subseteq behind'
    BY <1>4 DEF SetOverride, Settled
  <2> HIDE DEF x
  <2> DEFINE z == Relinked(x)
  <2>3. IsRow(z) /\ z.kind = x.kind
    BY <2>1, RelinkedRow
  <2> DEFINE y == Applied(z, NoDay)
  <2>4. row' = [row EXCEPT ![r] = y]
    BY <2>2
  <2> HIDE DEF z
  <2>5. IsRow(y) /\ Follows(y, card) /\ y.kind = z.kind
    BY <1>a, <2>3, AppliedFollows
  <2>6. r \in Charges => y.kind = "charge"
    BY <1>c, <2>1, <2>2, <2>3, <2>5
  <2> HIDE DEF y
  <2>7. QED
    BY <2>2, <2>4, <2>5, <2>6, OneRow
<1>5. ASSUME NEW r \in AnyRow, Delete(r) PROVE BillsInv'
  <2>1. card' = card /\ row' = [row EXCEPT ![r] = NoRow] /\ behind \ {r} \subseteq behind'
    BY <1>5 DEF Delete, Settled
  <2>2. Follows(NoRow, card)
    BY NoRowFollows
  <2>3. QED
    BY <1>e, <2>1, <2>2, OneRow
<1>6. ASSUME NEW close \in CloseDays, NEW dueDay \in DueDays, ChangeCycle(close, dueDay) PROVE BillsInv'
  <2> DEFINE c == [card EXCEPT !.close = close, !.due = dueDay]
  <2>1. card' = c /\ row' = Recomputed(c)
    BY <1>6 DEF ChangeCycle
  <2>2. c \in Card
    BY <1>a DEF Card
  <2>3. card'.type = "credit_card"
    BY <2>1, <2>2 DEF Card
  <2> HIDE DEF c
  <2>4. ASSUME NEW r \in AnyRow
        PROVE /\ IsRow(row'[r]) /\ Follows(row'[r], c)
              /\ row[r] = NoRow => row'[r] = NoRow
              /\ row'[r].kind = row[r].kind
    <3> DEFINE e == Effective(row[r], NoDay, c)
    <3>1. row'[r] = IF r \in Live /\ row[r].onCard THEN [row[r] EXCEPT !.eff = e] ELSE row[r]
      BY <2>1 DEF Recomputed
    <3>2. IsRow(row[r]) /\ Decided(row[r])
      BY <1>b
    <3>3. /\ row[r].override # NoDay => e = row[r].override
          /\ row[r].override = NoDay /\ row[r].onCard =>
               e = ComputeEffectiveDate(row[r].date, c.close, c.due)
      BY <2>1, <2>3 DEF Effective
    <3> HIDE DEF e
    <3>4. CASE r \in Live /\ row[r].onCard
      <4>1. row[r] # NoRow /\ row'[r] = [row[r] EXCEPT !.eff = e]
        BY <3>1, <3>4 DEF Live
      <4>2. /\ IsRow([row[r] EXCEPT !.eff = e])
            /\ [row[r] EXCEPT !.eff = e].eff = e
            /\ [row[r] EXCEPT !.eff = e].override = row[r].override
            /\ [row[r] EXCEPT !.eff = e].onCard = row[r].onCard
            /\ [row[r] EXCEPT !.eff = e].date = row[r].date
            /\ [row[r] EXCEPT !.eff = e].kind = row[r].kind
        BY <3>2 DEF IsRow, Columns
      <4>3. Follows(row'[r], c)
        BY <3>3, <3>4, <4>1, <4>2 DEF Follows
      <4>4. QED
        BY <4>1, <4>2, <4>3
    <3>5. CASE ~(r \in Live /\ row[r].onCard)
      <4>1. row'[r] = row[r] /\ (row[r] = NoRow \/ ~row[r].onCard)
        BY <3>1, <3>5 DEF Live
      <4>2. Follows(row[r], c)
        BY <3>2, <4>1, NoRowFollows DEF Decided, Follows
      <4>3. QED
        BY <3>2, <4>1, <4>2
    <3>6. QED
      BY <3>4, <3>5
  <2>5. row' = [r \in AnyRow |-> row'[r]]
    BY <2>1 DEF Recomputed
  <2>6. \A r \in Charges : row'[r] = NoRow \/ row'[r].kind = "charge"
    BY <2>4 DEF BillsInv, Rowed, AnyRow
  <2>7. QED
    BY <2>1, <2>2, <2>4, <2>5, <2>6 DEF BillsInv, Rowed, Decided
<1>7. ASSUME NEW b, NEW d, NEW fees \in SUBSET Charges, SyncBill(b, d, fees) PROVE BillsInv'
  <2> DEFINE Base(r) == IF r \in Live THEN row[r]
                        ELSE [NoRow EXCEPT !.kind = "charge", !.onCard = TRUE, !.tag = b]
             Put(r) == [Base(r) EXCEPT !.date = BillCloseDate(d, card.close), !.eff = d, !.bill = b]
  <2>1. /\ card' = card /\ behind' = behind
        /\ row' = [r \in AnyRow |-> row'[r]]
        /\ \A r \in AnyRow : \/ r \in fees /\ row'[r] = Put(r)
                             \/ row'[r] = NoRow
                             \/ r \notin fees /\ row'[r] = row[r]
    BY <1>7 DEF SyncBill
  <2>2. ASSUME NEW r \in fees PROVE IsRow(Put(r)) /\ Put(r).kind = "charge"
    <3>1. IsRow([NoRow EXCEPT !.kind = "charge", !.onCard = TRUE, !.tag = b])
          /\ [NoRow EXCEPT !.kind = "charge", !.onCard = TRUE, !.tag = b].kind = "charge"
      BY DEF NoRow, IsRow, Columns, NoDay
    <3>2. IsRow(Base(r)) /\ Base(r).kind = "charge"
      BY <1>b, <1>c, <3>1
    <3> DEFINE a == Base(r)
               v == BillCloseDate(d, card.close)
    <3>3. IsRow(a) /\ a.kind = "charge"
      BY <3>2
    <3> HIDE DEF a, v
    <3>4. /\ IsRow([a EXCEPT !.date = v, !.eff = d, !.bill = b])
          /\ [a EXCEPT !.date = v, !.eff = d, !.bill = b].kind = "charge"
      BY <3>3 DEF IsRow, Columns
    <3>5. QED
      BY <3>4 DEF a, v
  <2> HIDE DEF Put
  <2>3. ASSUME NEW r \in AnyRow
        PROVE  /\ IsRow(row'[r]) /\ Decided(row'[r])
               /\ r \notin behind => Follows(row'[r], card)
    <3>1. CASE r \in fees /\ row'[r] = Put(r)
      <4>1. \A k : Follows(row'[r], k)
        BY <2>2, <3>1 DEF Follows
      <4> QED
        BY <1>a, <2>2, <3>1, <4>1 DEF Decided
    <3>2. CASE row'[r] = NoRow
      BY <1>a, <1>e, <3>2, NoRowFollows DEF Decided
    <3>3. CASE row'[r] = row[r]
      BY <3>3 DEF BillsInv, Rowed
    <3> QED
      BY <2>1, <3>1, <3>2, <3>3
  <2>4. \A r \in Charges : row'[r] = NoRow \/ row'[r].kind = "charge"
    BY <2>1, <2>2 DEF BillsInv, Rowed, AnyRow
  <2>5. QED
    BY <1>a, <2>1, <2>3, <2>4 DEF BillsInv, Rowed
<1>8. ASSUME NEW r \in Rows, NEW d, NEW tag, NEW pending, NEW fetched,
             SyncNew(r, d, tag, pending, fetched)
      PROVE BillsInv'
  <2> DEFINE b == BillNamed(tag, fetched)
             x == [NoRow EXCEPT !.kind = "sync", !.onCard = TRUE, !.date = d, !.tag = tag,
                                !.bill = b, !.pending = pending]
             y == Applied(x, DueOf(b))
  <2>1. card' = card /\ behind' = behind /\ row' = [row EXCEPT ![r] = y]
    BY <1>8 DEF SyncNew
  <2> HIDE DEF b
  <2>2. IsRow(x) /\ x.bill = b
    BY DEF NoRow, IsRow, Columns, NoDay
  <2> HIDE DEF x
  <2>3. x.bill # NoBill \/ DueOf(b) = NoDay
    BY <2>2 DEF DueOf
  <2>4. IsRow(y) /\ Follows(y, card)
    BY <1>a, <2>2, <2>3, AppliedFollows
  <2> HIDE DEF y
  <2>5. QED
    BY <1>d, <2>1, <2>4, OneRow
<1>9. ASSUME NEW r \in Rows, NEW tag, NEW fetched, SyncAgain(r, tag, fetched) PROVE BillsInv'
  <2> DEFINE b == BillNamed(tag, fetched)
             x == [row[r] EXCEPT !.pending = FALSE]
             z == [x EXCEPT !.bill = b]
             found == b # NoBill /\ x.override = NoDay /\ x.bill # b
             y == IF found THEN Applied(z, DueOf(b)) ELSE x
  <2>1. /\ card' = card /\ row' = [row EXCEPT ![r] = y]
        /\ behind \ {r} \subseteq behind' /\ (~found => behind' = behind)
    BY <1>9 DEF SyncAgain, Settled
  <2> HIDE DEF b
  <2>2. IsRow(row[r]) /\ Decided(row[r]) /\ (r \notin behind => Follows(row[r], card))
    BY <1>b, <1>d DEF BillsInv, Rowed
  <2>3. /\ IsRow(x) /\ x.kind = row[r].kind /\ x.override = row[r].override
        /\ x.onCard = row[r].onCard /\ x.eff = row[r].eff /\ x.date = row[r].date
        /\ x.bill = row[r].bill
    BY <2>2 DEF IsRow, Columns
  <2>4. Decided(x) /\ (r \notin behind => Follows(x, card))
    <3>1. \A c : Follows(row[r], c) => Follows(x, c)
      BY <2>3 DEF Follows
    <3> QED
      BY <2>2, <3>1 DEF Decided
  <2> HIDE DEF x
  <2>5. IsRow(z) /\ z.bill = b
    BY <2>3 DEF IsRow, Columns
  <2> HIDE DEF z
  <2>6. b # NoBill => IsRow(Applied(z, DueOf(b))) /\ Follows(Applied(z, DueOf(b)), card)
    BY <1>a, <2>5, AppliedFollows
  <2>7. IsRow(y) /\ (Follows(y, card) \/ (Decided(y) /\ r \in behind'))
    <3>1. CASE found
      BY <2>6, <3>1
    <3>2. CASE ~found
      BY <2>1, <2>3, <2>4, <3>2
    <3> QED
      BY <3>1, <3>2
  <2> HIDE DEF y
  <2>8. QED
    BY <1>d, <2>1, <2>7, OneRow
<1>12. ASSUME NEW close \in CloseDays, NEW dueDay \in DueDays, SyncCycle(close, dueDay)
       PROVE  BillsInv'
  <2> DEFINE c == [card EXCEPT !.close = close, !.due = dueDay]
  <2>1. card' = c /\ row' = row /\ behind' = behind \cup {r \in Live \cap Rows : row[r].onCard}
    BY <1>12 DEF SyncCycle
  <2>2. c \in Card
    BY <1>a DEF Card
  <2> HIDE DEF c
  <2>3. ASSUME NEW r \in AnyRow, r \notin behind' PROVE Follows(row[r], c)
    <3>1. Follows(row[r], card)
      BY <2>1, <2>3 DEF BillsInv, Rowed
    <3>2. row[r] = NoRow \/ r \in Charges \/ ~row[r].onCard
      BY <2>1, <2>3 DEF Live, AnyRow
    <3>3. CASE row[r] = NoRow
      BY <3>3, NoRowFollows
    <3>4. CASE row[r] # NoRow /\ r \in Charges
      BY <3>4 DEF BillsInv, Rowed, Follows
    <3>5. CASE ~row[r].onCard
      BY <3>1, <3>5 DEF Follows
    <3> QED
      BY <3>2, <3>3, <3>4, <3>5
  <2>4. QED
    BY <1>b, <2>1, <2>2, <2>3 DEF BillsInv, Rowed
<1>10. CASE UNCHANGED vars
  <2>1. card' = card /\ row' = row /\ behind' = behind
    BY <1>10 DEF vars
  <2>2. QED
    BY <2>1 DEF BillsInv, Rowed
<1>11. QED
  BY <1>1, <1>2, <1>3, <1>4, <1>5, <1>6, <1>7, <1>8, <1>9, <1>10, <1>12 DEF Next, User, Bank

-----------------------------------------------------------------------------
(* The theorem *)

(* The user's override decides the month of a row, whatever the bank        *)
(* reports and in whatever order, and a row that neither the user nor the   *)
(* bank has put on a bill falls due by the cycle the card has now, or, when *)
(* a sync has changed the cycle since, by another it may have had, for any  *)
(* calendar (apply_effective_date, _recompute_effective_dates).             *)
THEOREM MonthsDecided == Spec => []EffectiveDates
<1>1. BillsInv => OverrideWins
  BY DEF BillsInv, Rowed, Decided, Follows, OverrideWins, Live
<1>2. BillsInv => UnbilledFollowCycle
  <2> SUFFICES ASSUME BillsInv, NEW r \in Live, row[r].kind # "charge", row[r].override = NoDay
               PROVE  /\ ~row[r].onCard => row[r].eff = row[r].date
                      /\ row[r].onCard /\ row[r].bill = NoBill =>
                           \E close \in CloseDays, dueDay \in DueDays :
                              /\ row[r].eff = ComputeEffectiveDate(row[r].date, close, dueDay)
                              /\ r \notin behind => close = card.close /\ dueDay = card.due
    BY DEF UnbilledFollowCycle
  <2>1. PICK c \in Card : Follows(row[r], c) /\ (r \notin behind => c = card)
    BY DEF BillsInv, Rowed, Decided, Live
  <2>2. c.close \in CloseDays /\ c.due \in DueDays
    BY DEF Card
  <2> QED
    BY <2>1, <2>2 DEF Follows
<1>3. BillsInv => EffectiveDates
  BY <1>1, <1>2 DEF EffectiveDates
<1>4. QED
  BY <1>3, BillsInit, BillsStep, PTL DEF Spec
-----------------------------------------------------------------------------
(* What the columns hold, and which bills there are *)

\* A row that is there has a day, and no bill but one the bank has issued.
Filed(x, bills) == x = NoRow \/ (x.date # NoDay /\ x.bill \in bills \cup {NoBill})

FiledInv ==
  /\ card \in Card
  /\ due \in [Bills -> DueDates \cup {NoDay}]
  /\ \A b, c \in Ingested : due[b] = due[c] => b = c
  /\ row \in [AnyRow -> Row]
  /\ \A r \in AnyRow : Filed(row[r], Ingested)
  /\ edits \in 0 .. MaxEdits

LEMMA NoRowTyped == NoRow \in Row
  BY DEF NoRow, Row, NoDay

LEMMA CardTyped ==
  ASSUME NEW c \in Card
  PROVE  c.close \in 1 .. 31 /\ c.due \in 1 .. 31 /\ c.type = "credit_card"
  BY CycleAssumption DEF Card

LEMMA EffectiveIn ==
  ASSUME NEW d \in Nat \ {0}, NEW c \in 1 .. 31, NEW u \in 1 .. 31
  PROVE  ComputeEffectiveDate(d, c, u) \in Nat
<1>1. PICK m \in Nat : FirstAfter(d, c) = ClampDay(m, c) /\ d < ClampDay(m, c)
  BY FirstAfterIs
<1>2. m \in Int
  OBVIOUS
<1>3. ClampDay(m, c) \in Int
  BY <1>2, ClampIs
<1>4. ClampDay(m, c) \in Nat \ {0}
  BY <1>1, <1>3
<1>5. PICK k \in Nat : /\ FirstAfter(ClampDay(m, c), u) = ClampDay(k, u)
                       /\ ClampDay(m, c) < ClampDay(k, u)
  BY <1>4, FirstAfterIs
<1>6. k \in Int
  OBVIOUS
<1>7. ClampDay(k, u) \in Int
  BY <1>6, ClampIs
<1>8. QED
  BY <1>1, <1>4, <1>5, <1>7 DEF ComputeEffectiveDate, NoDay

\* After the first month a bill closes on a day of the calendar.
LEMMA BillCloses ==
  ASSUME NEW d \in DueDates, NEW c \in 1 .. 31
  PROVE  BillCloseDate(d, c) \in Nat \ {0}
<1>1. d \in Nat \ {0} /\ d > 31
  BY CycleAssumption
<1>2. PICK m \in Int : m >= MonthOf(d) - 1 /\ LastOnOrBefore(d, c) = ClampDay(m, c)
  BY <1>1, LastIs
<1>3. MonthStart(0) = 1 /\ MonthStart(1) = 32
  <2>1. 0 \div 12 = 0 /\ 0 % 12 = 0 /\ 1 \div 12 = 0 /\ 1 % 12 = 1
    BY SMT
  <2> QED
    BY <2>1, PassedIs DEF MonthStart
<1>4. MonthOf(d) \in Nat /\ d < MonthStart(MonthOf(d) + 1)
  BY <1>1, MonthOfIs
<1>5. MonthOf(d) # 0
  <2> SUFFICES ASSUME MonthOf(d) = 0 PROVE FALSE
    OBVIOUS
  <2>1. MonthOf(d) + 1 = 1
    OBVIOUS
  <2> QED
    BY <1>1, <1>3, <1>4, <2>1
<1>6. m >= 0
  BY <1>2, <1>4, <1>5
<1>7. MonthStart(m) >= MonthStart(0) + 28 * (m - 0)
  BY <1>6, MonthsApart
<1>8. ClampDay(m, c) \in Int /\ MonthStart(m) \in Int /\ MonthStart(m) <= ClampDay(m, c)
  BY ClampIs, MonthHas
<1>9. ClampDay(m, c) \in Nat \ {0}
  BY <1>3, <1>6, <1>7, <1>8
<1>10. QED
  BY <1>2, <1>9 DEF BillCloseDate, NoDay

LEMMA AppliedTyped ==
  ASSUME card \in Card, NEW x \in Row, x.date # NoDay, NEW d \in Nat
  PROVE  /\ Applied(x, d) \in Row
         /\ Applied(x, d).date = x.date /\ Applied(x, d).bill = x.bill
<1> DEFINE e == Effective(x, d, card)
<1>1. x.date \in Nat \ {0} /\ x.override \in Nat
  BY DEF Row, NoDay
<1>2. e \in Nat
  BY <1>1, CardTyped, EffectiveIn DEF Effective
<1> HIDE DEF e
<1>3. /\ [x EXCEPT !.eff = e] \in Row
      /\ [x EXCEPT !.eff = e].date = x.date /\ [x EXCEPT !.eff = e].bill = x.bill
  BY <1>2 DEF Row
<1>4. QED
  BY <1>3 DEF Applied, e

LEMMA RelinkedTyped ==
  ASSUME NEW x \in Row, x.bill \in Ingested \cup {NoBill}
  PROVE  /\ Relinked(x) \in Row
         /\ Relinked(x).date = x.date /\ Relinked(x).bill \in Ingested \cup {NoBill}
<1>1. PICK b \in Ingested \cup {NoBill} : Relinked(x) = x \/ Relinked(x) = [x EXCEPT !.bill = b]
  BY DEF Relinked
<1>2. b \in Bills \cup {NoBill}
  BY DEF Ingested
<1>3. /\ [x EXCEPT !.bill = b] \in Row
      /\ [x EXCEPT !.bill = b].date = x.date /\ [x EXCEPT !.bill = b].bill = b
  BY <1>2 DEF Row
<1>4. QED
  BY <1>1, <1>3

\* One row is written; the card and the bills stay.
LEMMA OneRowFiled ==
  ASSUME FiledInv, card' = card, due' = due, edits' \in 0 .. MaxEdits,
         NEW r \in AnyRow, NEW x \in Row, row' = [row EXCEPT ![r] = x], Filed(x, Ingested)
  PROVE  FiledInv'
<1>1. Ingested' = Ingested
  BY DEF Ingested
<1>2. row' \in [AnyRow -> Row] /\ \A q \in AnyRow : row'[q] = IF q = r THEN x ELSE row[q]
  BY DEF FiledInv
<1>3. \A q \in AnyRow : Filed(row'[q], Ingested')
  BY <1>1, <1>2 DEF FiledInv
<1>4. /\ card' \in Card /\ due' \in [Bills -> DueDates \cup {NoDay}]
      /\ \A b, c \in Ingested' : due'[b] = due'[c] => b = c
  BY <1>1 DEF FiledInv
<1>5. QED
  BY <1>2, <1>3, <1>4 DEF FiledInv

LEMMA FiledInit == Init => FiledInv
<1> SUFFICES ASSUME Init PROVE FiledInv
  OBVIOUS
<1>1. card \in Card /\ due \in [Bills -> DueDates \cup {NoDay}] /\ Ingested = {}
  BY DEF Init, Card, Ingested
<1>2. row \in [AnyRow -> Row] /\ \A r \in AnyRow : Filed(row[r], Ingested)
  BY NoRowTyped DEF Init, Filed
<1>3. edits \in 0 .. MaxEdits
  BY CycleAssumption DEF Init
<1>4. QED
  BY <1>1, <1>2, <1>3 DEF FiledInv

\* What an edit leaves of a row that is there.
LEMMA LiveFiled ==
  ASSUME FiledInv, NEW r \in Live
  PROVE  /\ r \in AnyRow /\ row[r] \in Row /\ row[r].date # NoDay
         /\ row[r].bill \in Ingested \cup {NoBill}
  BY DEF FiledInv, Live, Filed

LEMMA FiledStep == FiledInv /\ [Next]_vars => FiledInv'
<1> SUFFICES ASSUME FiledInv, [Next]_vars PROVE FiledInv'
  OBVIOUS
<1>a. /\ card \in Card /\ row \in [AnyRow -> Row] /\ edits \in 0 .. MaxEdits
      /\ due \in [Bills -> DueDates \cup {NoDay}]
  BY DEF FiledInv
<1>b. Bounded => edits' \in 0 .. MaxEdits
  BY <1>a, CycleAssumption DEF Bounded
<1>c. \A r \in Rows : r \in AnyRow
  BY DEF AnyRow
<1>d. \A o \in DueDates \cup {NoDay} : o \in Nat
  BY CycleAssumption DEF NoDay
<1>e. NoDay \in Nat /\ \A d \in Days : d \in Nat /\ d # NoDay
  BY CycleAssumption DEF NoDay
<1>f. \A b \in Ingested : b \in Bills /\ due[b] \in Nat /\ due[b] \in DueDates /\ due[b] # NoDay
  BY <1>a, <1>d DEF Ingested
<1>1. ASSUME NEW r \in Rows, NEW onCard \in BOOLEAN, NEW d \in Days,
             NEW o \in DueDates \cup {NoDay}, Enter(r, onCard, d, o)
      PROVE FiledInv'
  <2> DEFINE x == [NoRow EXCEPT !.kind = "manual", !.onCard = onCard, !.date = d, !.override = o]
             a == Applied(x, NoDay)
             y == Relinked(a)
  <2>1. x \in Row /\ x.date = d /\ x.bill = NoBill
    BY <1>d, <1>e DEF NoRow, Row, NoDay
  <2>2. card' = card /\ due' = due /\ edits' = edits /\ row' = [row EXCEPT ![r] = y]
    BY <1>1 DEF Enter
  <2> HIDE DEF x
  <2>3. a \in Row /\ a.date = d /\ a.bill = NoBill
    BY <1>a, <1>e, <2>1, AppliedTyped
  <2> HIDE DEF a
  <2>4. y \in Row /\ y.date = d /\ y.bill \in Ingested \cup {NoBill}
    BY <2>3, RelinkedTyped
  <2> HIDE DEF y
  <2>5. Filed(y, Ingested)
    BY <1>e, <2>4 DEF Filed
  <2>6. QED
    BY <1>a, <1>c, <2>2, <2>4, <2>5, OneRowFiled
<1>2. ASSUME NEW r \in AnyRow, NEW d \in Days, EditDate(r, d) PROVE FiledInv'
  <2> DEFINE x == [row[r] EXCEPT !.date = d, !.pending = FALSE]
             y == Applied(x, NoDay)
  <2>1. r \in Live /\ card' = card /\ due' = due /\ Bounded /\ row' = [row EXCEPT ![r] = y]
    BY <1>2 DEF EditDate
  <2>2. row[r] \in Row /\ row[r].bill \in Ingested \cup {NoBill}
    BY <2>1, LiveFiled
  <2>3. x \in Row /\ x.date = d /\ x.bill = row[r].bill
    BY <1>e, <2>2 DEF Row
  <2> HIDE DEF x
  <2>4. y \in Row /\ y.date = d /\ y.bill = row[r].bill
    BY <1>a, <1>e, <2>3, AppliedTyped
  <2> HIDE DEF y
  <2>5. Filed(y, Ingested)
    BY <1>e, <2>2, <2>4 DEF Filed
  <2>6. QED
    BY <1>b, <2>1, <2>4, <2>5, OneRowFiled
<1>3. ASSUME NEW r \in AnyRow, MoveToAccount(r) PROVE FiledInv'
  <2> DEFINE x == [row[r] EXCEPT !.onCard = ~row[r].onCard, !.pending = FALSE]
             y == Applied(x, NoDay)
  <2>1. r \in Live /\ card' = card /\ due' = due /\ Bounded /\ row' = [row EXCEPT ![r] = y]
    BY <1>3 DEF MoveToAccount
  <2>2. /\ row[r] \in Row /\ row[r].date # NoDay /\ row[r].bill \in Ingested \cup {NoBill}
        /\ (~row[r].onCard) \in BOOLEAN
    BY <2>1, LiveFiled
  <2>3. x \in Row /\ x.date = row[r].date /\ x.bill = row[r].bill
    BY <2>2 DEF Row
  <2> HIDE DEF x
  <2>4. y \in Row /\ y.date = row[r].date /\ y.bill = row[r].bill
    BY <1>a, <1>e, <2>2, <2>3, AppliedTyped
  <2> HIDE DEF y
  <2>5. Filed(y, Ingested)
    BY <2>2, <2>4 DEF Filed
  <2>6. QED
    BY <1>b, <2>1, <2>4, <2>5, OneRowFiled
<1>4. ASSUME NEW r \in AnyRow, NEW o \in DueDates \cup {NoDay}, SetOverride(r, o)
      PROVE FiledInv'
  <2> DEFINE x == [row[r] EXCEPT !.override = o, !.pending = FALSE]
             z == Relinked(x)
             y == Applied(z, NoDay)
  <2>1. r \in Live /\ card' = card /\ due' = due /\ Bounded /\ row' = [row EXCEPT ![r] = y]
    BY <1>4 DEF SetOverride
  <2>2. row[r] \in Row /\ row[r].date # NoDay /\ row[r].bill \in Ingested \cup {NoBill}
    BY <2>1, LiveFiled
  <2>3. x \in Row /\ x.date = row[r].date /\ x.bill = row[r].bill
    BY <1>d, <2>2 DEF Row
  <2> HIDE DEF x
  <2>4. z \in Row /\ z.date = row[r].date /\ z.bill \in Ingested \cup {NoBill}
    BY <2>2, <2>3, RelinkedTyped
  <2> HIDE DEF z
  <2>5. y \in Row /\ y.date = row[r].date /\ y.bill = z.bill
    BY <1>a, <1>e, <2>2, <2>4, AppliedTyped
  <2> HIDE DEF y
  <2>6. Filed(y, Ingested)
    BY <2>2, <2>4, <2>5 DEF Filed
  <2>7. QED
    BY <1>b, <2>1, <2>5, <2>6, OneRowFiled
<1>5. ASSUME NEW r \in AnyRow, Delete(r) PROVE FiledInv'
  <2>1. card' = card /\ due' = due /\ edits' = edits /\ row' = [row EXCEPT ![r] = NoRow]
    BY <1>5 DEF Delete
  <2>2. NoRow \in Row /\ Filed(NoRow, Ingested)
    BY NoRowTyped DEF Filed
  <2>3. QED
    BY <1>a, <2>1, <2>2, OneRowFiled
<1>6. ASSUME NEW close \in CloseDays, NEW dueDay \in DueDays, ChangeCycle(close, dueDay)
      PROVE FiledInv'
  <2> DEFINE c == [card EXCEPT !.close = close, !.due = dueDay]
  <2>1. card' = c /\ row' = Recomputed(c) /\ due' = due /\ edits' \in 0 .. MaxEdits
    BY <1>6, <1>b DEF ChangeCycle
  <2>2. c \in Card
    BY <1>a DEF Card
  <2> HIDE DEF c
  <2>3. Ingested' = Ingested
    BY <2>1 DEF Ingested
  <2>4. ASSUME NEW r \in AnyRow PROVE row'[r] \in Row /\ Filed(row'[r], Ingested)
    <3> DEFINE e == Effective(row[r], NoDay, c)
    <3>1. row'[r] = IF r \in Live /\ row[r].onCard THEN [row[r] EXCEPT !.eff = e] ELSE row[r]
      BY <2>1 DEF Recomputed
    <3>2. CASE r \in Live
      <4>1. /\ row[r] \in Row /\ row[r].date # NoDay /\ row[r].bill \in Ingested \cup {NoBill}
        BY <3>2, LiveFiled
      <4>2. row[r].date \in Nat \ {0} /\ row[r].override \in Nat
        BY <4>1 DEF Row, NoDay
      <4>3. e \in Nat
        BY <1>e, <2>2, <4>2, CardTyped, EffectiveIn DEF Effective
      <4> HIDE DEF e
      <4>4. /\ [row[r] EXCEPT !.eff = e] \in Row
            /\ [row[r] EXCEPT !.eff = e].date = row[r].date
            /\ [row[r] EXCEPT !.eff = e].bill = row[r].bill
        BY <4>1, <4>3 DEF Row
      <4>5. QED
        BY <3>1, <4>1, <4>4 DEF Filed
    <3>3. CASE r \notin Live
      BY <1>a, <3>1, <3>3 DEF FiledInv
    <3>4. QED
      BY <3>2, <3>3
  <2>5. row' \in [AnyRow -> Row]
    BY <2>1, <2>4 DEF Recomputed
  <2>6. QED
    BY <2>1, <2>2, <2>3, <2>4, <2>5 DEF FiledInv
<1>7. ASSUME NEW b \in Bills, NEW d \in DueDates, NEW fees \in SUBSET Charges, SyncBill(b, d, fees)
      PROVE FiledInv'
  <2> DEFINE Base(r) == IF r \in Live THEN row[r]
                        ELSE [NoRow EXCEPT !.kind = "charge", !.onCard = TRUE, !.tag = b]
             v == BillCloseDate(d, card.close)
             Put(r) == [Base(r) EXCEPT !.date = v, !.eff = d, !.bill = b]
  <2>1. /\ card' = card /\ due' = [due EXCEPT ![b] = d]
        /\ \A c \in Ingested \ {b} : due[c] # d
        /\ row' = [r \in AnyRow |-> row'[r]]
        /\ \A r \in AnyRow : \/ r \in fees /\ row'[r] = Put(r)
                             \/ row'[r] = NoRow
                             \/ row'[r] = row[r]
    BY <1>7 DEF SyncBill
  <2>2. edits' \in 0 .. MaxEdits
    <3>1. \/ edits' = edits
          \/ edits' = edits + 1 /\ edits < MaxEdits
      BY <1>7 DEF SyncBill
    <3> QED
      BY <1>a, <3>1, CycleAssumption
  <2>3. d \in Nat /\ d # NoDay
    BY CycleAssumption DEF NoDay
  <2>4. /\ Ingested' = Ingested \cup {b}
        /\ \A c \in Bills : due'[c] = IF c = b THEN d ELSE due[c]
    BY <1>a, <2>1, <2>3 DEF Ingested
  <2>5. v \in Nat \ {0}
    BY <1>a, BillCloses, CardTyped
  <2> HIDE DEF v
  <2>6. ASSUME NEW r \in fees
        PROVE  Put(r) \in Row /\ Put(r).date = v /\ Put(r).bill = b
    <3> DEFINE a == Base(r)
    <3>1. [NoRow EXCEPT !.kind = "charge", !.onCard = TRUE, !.tag = b] \in Row
      BY DEF NoRow, Row, NoDay
    <3>2. a \in Row
      BY <3>1, LiveFiled
    <3> HIDE DEF a
    <3>3. /\ [a EXCEPT !.date = v, !.eff = d, !.bill = b] \in Row
          /\ [a EXCEPT !.date = v, !.eff = d, !.bill = b].date = v
          /\ [a EXCEPT !.date = v, !.eff = d, !.bill = b].bill = b
      BY <2>3, <2>5, <3>2 DEF Row
    <3>4. QED
      BY <3>3 DEF a
  <2> HIDE DEF Put
  <2>7. \A r \in fees : Filed(Put(r), Ingested')
    BY <2>4, <2>5, <2>6 DEF Filed, NoDay
  <2>8. \A r \in AnyRow : Filed(row[r], Ingested) => Filed(row[r], Ingested')
    BY <2>4 DEF Filed
  <2>9. \A r \in AnyRow : row'[r] \in Row /\ Filed(row'[r], Ingested')
    <3> TAKE r \in AnyRow
    <3>1. CASE r \in fees /\ row'[r] = Put(r)
      BY <2>6, <2>7, <3>1
    <3>2. CASE row'[r] = NoRow
      BY <3>2, NoRowTyped DEF Filed
    <3>3. CASE row'[r] = row[r]
      BY <1>a, <2>8, <3>3 DEF FiledInv
    <3>4. QED
      BY <2>1, <3>1, <3>2, <3>3
  <2>10. row' \in [AnyRow -> Row]
    BY <2>1, <2>9
  <2>11. \A p, q \in Ingested' : due'[p] = due'[q] => p = q
    BY <1>f, <2>1, <2>4 DEF FiledInv
  <2>12. due' \in [Bills -> DueDates \cup {NoDay}]
    BY <1>a, <2>1
  <2>13. QED
    BY <1>a, <2>1, <2>2, <2>9, <2>10, <2>11, <2>12 DEF FiledInv
<1>8. ASSUME NEW r \in Rows, NEW d \in Days, NEW tag \in Bills \cup {NoBill},
             NEW pending \in BOOLEAN, NEW fetched \in BOOLEAN,
             SyncNew(r, d, tag, pending, fetched)
      PROVE FiledInv'
  <2> DEFINE b == BillNamed(tag, fetched)
             x == [NoRow EXCEPT !.kind = "sync", !.onCard = TRUE, !.date = d, !.tag = tag,
                                !.bill = b, !.pending = pending]
             y == Applied(x, DueOf(b))
  <2>1. card' = card /\ due' = due /\ edits' = edits /\ row' = [row EXCEPT ![r] = y]
    BY <1>8 DEF SyncNew
  <2>2. b \in Ingested \cup {NoBill} /\ b \in Bills \cup {NoBill}
    BY <1>f DEF BillNamed
  <2>3. DueOf(b) \in Nat
    BY <1>e, <1>f, <2>2 DEF DueOf
  <2> HIDE DEF b
  <2>4. x \in Row /\ x.date = d /\ x.bill = b
    BY <1>e, <2>2 DEF NoRow, Row, NoDay
  <2> HIDE DEF x
  <2>5. y \in Row /\ y.date = d /\ y.bill = b
    BY <1>a, <1>e, <2>3, <2>4, AppliedTyped
  <2> HIDE DEF y
  <2>6. Filed(y, Ingested)
    BY <1>e, <2>2, <2>5 DEF Filed
  <2>7. QED
    BY <1>a, <1>c, <2>1, <2>5, <2>6, OneRowFiled
<1>9. ASSUME NEW r \in Rows, NEW tag \in Bills \cup {NoBill}, NEW fetched \in BOOLEAN,
             SyncAgain(r, tag, fetched)
      PROVE FiledInv'
  <2> DEFINE b == BillNamed(tag, fetched)
             x == [row[r] EXCEPT !.pending = FALSE]
             z == [x EXCEPT !.bill = b]
             y == IF b # NoBill /\ x.override = NoDay /\ x.bill # b
                  THEN Applied(z, DueOf(b)) ELSE x
  <2>1. card' = card /\ due' = due /\ edits' = edits /\ row' = [row EXCEPT ![r] = y]
    BY <1>9 DEF SyncAgain
  <2>2. b \in Ingested \cup {NoBill} /\ b \in Bills \cup {NoBill}
    BY <1>f DEF BillNamed
  <2>3. DueOf(b) \in Nat
    BY <1>e, <1>f, <2>2 DEF DueOf
  <2> HIDE DEF b
  <2>4. r \in Live
    BY <1>9, <1>c DEF SyncAgain, Live, NoRow
  <2>5. /\ row[r] \in Row /\ row[r].date # NoDay /\ row[r].bill \in Ingested \cup {NoBill}
    BY <2>4, LiveFiled
  <2>6. x \in Row /\ x.date = row[r].date /\ x.bill = row[r].bill
    BY <2>5 DEF Row
  <2> HIDE DEF x
  <2>7. z \in Row /\ z.date = x.date /\ z.bill = b
    BY <2>2, <2>6 DEF Row
  <2> HIDE DEF z
  <2>8. Applied(z, DueOf(b)) \in Row /\ Applied(z, DueOf(b)).date = x.date
        /\ Applied(z, DueOf(b)).bill = b
    BY <1>a, <2>3, <2>5, <2>6, <2>7, AppliedTyped
  <2>9. y \in Row /\ y.date = row[r].date /\ y.bill \in Ingested \cup {NoBill}
    BY <2>2, <2>5, <2>6, <2>8
  <2> HIDE DEF y
  <2>10. Filed(y, Ingested)
    BY <2>5, <2>9 DEF Filed
  <2>11. QED
    BY <1>a, <1>c, <2>1, <2>9, <2>10, OneRowFiled
<1>10. CASE UNCHANGED vars
  <2>1. card' = card /\ row' = row /\ due' = due /\ edits' = edits
    BY <1>10 DEF vars
  <2>2. Ingested' = Ingested
    BY <2>1 DEF Ingested
  <2>3. QED
    BY <2>1, <2>2 DEF FiledInv
<1>11. ASSUME NEW close \in CloseDays, NEW dueDay \in DueDays, SyncCycle(close, dueDay)
       PROVE  FiledInv'
  <2>1. /\ card' = [card EXCEPT !.close = close, !.due = dueDay]
        /\ row' = row /\ due' = due /\ Bounded
    BY <1>11 DEF SyncCycle
  <2>2. card' \in Card
    BY <1>a, <2>1 DEF Card
  <2>3. Ingested' = Ingested
    BY <2>1 DEF Ingested
  <2>4. QED
    BY <1>b, <2>1, <2>2, <2>3 DEF FiledInv
<1>12. QED
  BY <1>1, <1>2, <1>3, <1>4, <1>5, <1>6, <1>7, <1>8, <1>9, <1>10, <1>11 DEF Next, User, Bank

\* Only the user's and the feed's rows are left behind.
BehindRows == behind \subseteq Rows

LEMMA BehindStep == BehindRows /\ [Next]_vars => BehindRows'
<1> SUFFICES ASSUME BehindRows, [Next]_vars PROVE BehindRows'
  OBVIOUS
<1>1. ASSUME behind' = behind \/ behind' = {} \/ \E r : Settled(r) PROVE BehindRows'
  BY <1>1 DEF Settled, BehindRows
<1>2. ASSUME NEW r PROVE /\ \A onCard, d, o : Enter(r, onCard, d, o) => BehindRows'
                         /\ \A d : EditDate(r, d) => BehindRows'
                         /\ \A o : SetOverride(r, o) => BehindRows'
                         /\ MoveToAccount(r) \/ Delete(r) => BehindRows'
  <2>1. /\ \A onCard, d, o : Enter(r, onCard, d, o) => behind' = behind
        /\ \A d : EditDate(r, d) => Settled(r)
        /\ \A o : SetOverride(r, o) => Settled(r)
        /\ MoveToAccount(r) \/ Delete(r) => Settled(r)
    BY Zenon DEF Enter, EditDate, SetOverride, MoveToAccount, Delete
  <2> QED
    BY <1>1, <2>1
<1>4. ASSUME NEW c, NEW d, ChangeCycle(c, d) \/ SyncCycle(c, d) PROVE BehindRows'
  BY <1>4 DEF ChangeCycle, SyncCycle, BehindRows
<1>5. ASSUME NEW b, NEW d, NEW fees, SyncBill(b, d, fees) PROVE BehindRows'
  <2>1. behind' = behind
    BY <1>5, Zenon DEF SyncBill
  <2> QED
    BY <1>1, <2>1
<1>6. ASSUME NEW r, NEW tag, NEW fetched
      PROVE  /\ \A d, pending : SyncNew(r, d, tag, pending, fetched) => BehindRows'
             /\ SyncAgain(r, tag, fetched) => BehindRows'
  <2>1. \A d, pending : SyncNew(r, d, tag, pending, fetched) => behind' = behind
    BY Zenon DEF SyncNew
  <2>2. SyncAgain(r, tag, fetched) => Settled(r) \/ behind' = behind
    BY Zenon DEF SyncAgain
  <2> QED
    BY <1>1, <2>1, <2>2
<1>3. CASE UNCHANGED vars
  BY <1>3 DEF vars, BehindRows
<1> QED
  BY <1>2, <1>3, <1>4, <1>5, <1>6 DEF Next, User, Bank

-----------------------------------------------------------------------------
(* The bars of the page *)

\* A set of days with a bound has a last one.
LEMMA LastDay ==
  ASSUME NEW S \in SUBSET Nat, S # {}, NEW n \in Nat, \A s \in S : s <= n
  PROVE  \E d \in S : \A e \in S : e <= d
<1> DEFINE T == {n - s : s \in S}
<1>1. T \subseteq Nat /\ T # {}
  <2>1. \A s \in S : n - s \in Nat
    OBVIOUS
  <2>2. T \subseteq Nat
    BY <2>1
  <2> QED
    BY <2>2
<1>2. PICK t \in T : \A u \in T : <<u, t>> \notin OpToRel(<, Nat)
  <2> HIDE DEF T
  <2> QED
    BY <1>1, NatLessThanWellFounded, WFMin
<1>3. PICK d \in S : t = n - d
  OBVIOUS
<1>4. ASSUME NEW e \in S PROVE e <= d
  <2>1. n - e \in T /\ n - e \in Nat /\ n - d \in Nat
    OBVIOUS
  <2>2. <<n - e, n - d>> \notin OpToRel(<, Nat)
    BY <1>2, <1>3, <2>1
  <2>3. ~(n - e < n - d)
    BY <2>1, <2>2 DEF OpToRel
  <2>4. QED
    BY <2>3
<1>5. QED
  BY <1>4

\* The bill before another is the last one due before it.
LEMMA PreviousIs ==
  ASSUME FiledInv, NEW c \in Ingested
  PROVE  /\ Previous(c) \in Nat
         /\ \A b \in Ingested : due[b] < due[c] => due[b] <= Previous(c) /\ Previous(c) # NoDay
<1> DEFINE earlier == {due[p] : p \in {p \in Ingested : due[p] < due[c]}}
<1>1. \A p \in Ingested : due[p] \in Nat /\ due[p] # NoDay
  BY CycleAssumption DEF FiledInv, Ingested, NoDay
<1>2. /\ earlier \in SUBSET Nat /\ due[c] \in Nat /\ NoDay \notin earlier
      /\ \A s \in earlier : s <= due[c]
      /\ \A b \in Ingested : due[b] < due[c] => due[b] \in earlier
  <2>1. \A s \in earlier : s \in Nat /\ s # NoDay /\ s < due[c]
    BY <1>1
  <2>2. \A b \in Ingested : due[b] < due[c] => due[b] \in earlier
    OBVIOUS
  <2> HIDE DEF earlier
  <2> QED
    BY <1>1, <2>1, <2>2
<1>3. Previous(c) = IF earlier = {} THEN NoDay
                    ELSE CHOOSE d \in earlier : \A e \in earlier : e <= d
  BY DEF Previous
<1> HIDE DEF earlier
<1>4. CASE earlier = {}
  BY <1>2, <1>3, <1>4 DEF NoDay
<1>5. CASE earlier # {}
  <2>1. \E d \in earlier : \A e \in earlier : e <= d
    BY <1>2, <1>5, LastDay
  <2>2. Previous(c) \in earlier /\ \A e \in earlier : e <= Previous(c)
    BY <1>3, <1>5, <2>1
  <2> QED
    BY <1>2, <2>2
<1>6. QED
  BY <1>4, <1>5

\* The window of a bill begins after every bill due before it.
LEMMA WindowsApart ==
  ASSUME FiledInv, NEW c \in Ingested
  PROVE  /\ BillRangeStart(due[c], Previous(c)) \in Int
         /\ \A b \in Ingested : due[b] < due[c] => BillRangeStart(due[c], Previous(c)) > due[b]
<1>1. \A p \in Ingested : due[p] \in Nat
  BY CycleAssumption DEF FiledInv, Ingested, NoDay
<1>2. QED
  BY <1>1, PreviousIs DEF BillRangeStart

LEMMA OneBar ==
  ASSUME FiledInv, NEW r \in Live
  PROVE  LET x == row[r]
             bills == {b \in Ingested : InBill(x, b)}
             covered == \E b \in Ingested : /\ ~Deferred(x, b)
                                            /\ Bucket(x) \in BillRangeStart(due[b], Previous(b)) .. due[b]
         IN  x.onCard => IF x.bill # NoBill THEN bills = {x.bill}
                         ELSE covered => Cardinality(bills) = 1
<1> DEFINE x == row[r]
           bills == {b \in Ingested : InBill(x, b)}
           InWindow(b) == Bucket(x) \in BillRangeStart(due[b], Previous(b)) .. due[b]
<1>1. x.bill \in Ingested \cup {NoBill} /\ x \in Row
  BY LiveFiled
<1>2. \A b \in Ingested : due[b] \in Nat /\ b # NoBill
  BY CycleAssumption, BillsAssumption DEF FiledInv, Ingested, NoDay
<1>3. Bucket(x) \in Nat
  BY <1>1 DEF Bucket, Row
<1>4. ASSUME NEW b \in Ingested, NEW c \in Ingested, InWindow(b), InWindow(c) PROVE b = c
  <2>1. /\ BillRangeStart(due[b], Previous(b)) <= Bucket(x) /\ Bucket(x) <= due[b]
        /\ BillRangeStart(due[c], Previous(c)) <= Bucket(x) /\ Bucket(x) <= due[c]
    BY <1>4
  <2>2. /\ BillRangeStart(due[b], Previous(b)) \in Int
        /\ BillRangeStart(due[c], Previous(c)) \in Int
        /\ due[b] < due[c] => BillRangeStart(due[c], Previous(c)) > due[b]
        /\ due[c] < due[b] => BillRangeStart(due[b], Previous(b)) > due[c]
    BY WindowsApart
  <2>3. ~(due[b] < due[c]) /\ ~(due[c] < due[b])
    BY <1>2, <1>3, <2>1, <2>2
  <2>4. due[b] = due[c]
    BY <1>2, <2>3
  <2> QED
    BY <2>4 DEF FiledInv
<1>5. ASSUME x.onCard, x.bill # NoBill PROVE bills = {x.bill}
  BY <1>1, <1>5 DEF InBill
<1>6. ASSUME x.onCard, x.bill = NoBill,
             \E b \in Ingested : ~Deferred(x, b) /\ InWindow(b)
      PROVE  Cardinality(bills) = 1
  <2>1. PICK b \in Ingested : ~Deferred(x, b) /\ InWindow(b)
    BY <1>6
  <2>2. InBill(x, b)
    BY <1>6, <2>1 DEF InBill
  <2>3. \A c \in Ingested : InBill(x, c) => InWindow(c)
    BY <1>2, <1>6 DEF InBill
  <2>4. \A c \in bills : c = b
    BY <1>4, <2>1, <2>3
  <2>5. bills = {b}
    BY <2>2, <2>4
  <2> HIDE DEF bills
  <2>6. QED
    BY <2>5, FS_Singleton
<1>7. QED
  BY <1>5, <1>6

LEMMA BarsStand == FiledInv /\ BehindRows => TypeOK /\ InOneBill
<1> SUFFICES ASSUME FiledInv, BehindRows PROVE TypeOK /\ InOneBill
  OBVIOUS
<1>1. card \in [type : {"credit_card", "checking"}, close : 0 .. 31, due : 0 .. 31]
  BY CycleAssumption DEF FiledInv, Card
<1>2. due \in [Bills -> Nat]
  <2>1. DueDates \cup {NoDay} \subseteq Nat
    BY CycleAssumption DEF NoDay
  <2> QED
    BY <2>1 DEF FiledInv
<1>3. \A r \in Live : row[r].bill \in Ingested \cup {NoBill}
  BY LiveFiled
<1>4. TypeOK
  BY <1>1, <1>2, <1>3 DEF FiledInv, BehindRows, TypeOK
<1>5. InOneBill
  BY OneBar DEF InOneBill
<1>6. QED
  BY <1>4, <1>5

LEMMA CalendarStands ==
  ASSUME \A c \in CloseDays, u \in DueDays : DaysApart(c, u)
  PROVE  FiledInv => CyclesAgree
<1> SUFFICES ASSUME FiledInv PROVE CyclesAgree
  OBVIOUS
<1>1. /\ card.close \in 1 .. 31 /\ card.due \in 1 .. 31 /\ DaysApart(card.close, card.due)
  BY CardTyped DEF FiledInv, Card
<1>2. \A d, e \in Days : Agree(d, e, card.close, card.due)
  BY <1>1, CycleAssumption, CalendarsAgree
<1>3. QED
  BY <1>2 DEF Agree, CyclesAgree

(* Whatever the bank reports, and however often a row is edited, moved or   *)
(* put on another bill, every row of the card the bars of its page cover is *)
(* in exactly one of them, and where the bank has put a row, no other bar   *)
(* counts it; a row's bill is one the bank has issued.                      *)
THEOREM BarsPartition == Spec => [](TypeOK /\ InOneBill)
<1>1. Init => BehindRows
  BY DEF Init, BehindRows
<1>2. QED
  BY <1>1, FiledInit, FiledStep, BehindStep, BarsStand, PTL DEF Spec

(* And the three calendars of the code, compute_effective_date,             *)
(* get_cycle_dates and the windows of the web application, agree on every   *)
(* day, for all cards whose close and due days fall on two days of every    *)
(* month.  Where both fall on one day get_cycle_dates shows the bill as     *)
(* closing on the day it is due, a month after compute_effective_date has   *)
(* closed it.                                                               *)
THEOREM BillsPartitioned ==
  ASSUME \A c \in CloseDays, u \in DueDays : DaysApart(c, u)
  PROVE  Spec => []BillsPartition
<1>1. FiledInv /\ BehindRows => BillsPartition
  BY BarsStand, CalendarStands DEF BillsPartition
<1>2. Init => BehindRows
  BY DEF Init, BehindRows
<1>3. QED
  BY <1>1, <1>2, FiledInit, FiledStep, BehindStep, PTL DEF Spec
=============================================================================
