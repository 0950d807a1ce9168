-------------------------- MODULE TransferPairsProofs --------------------------
(***************************************************************************)
(* Proofs about TransferPairs for any number of requests in flight.        *)
(***************************************************************************)
EXTENDS TransferPairs, FiniteSetTheorems, TLAPS

-----------------------------------------------------------------------------
(* Rows *)

\* The row that does not exist is typed and in no transfer.
LEMMA NoRowFacts == NoRow \in Row /\ NoRow.pair = NoPair /\ NoRow.account = NoAccount
                    /\ NoRow.source = "none"
  BY DEF Row, NoRow

\* The table with no row is typed.
LEMMA NoRowsType == NoRows \in [Rows -> Row]
  BY NoRowFacts DEF NoRows

\* Rows that exist keep their type when a column is set.
LEMMA RowColumns ==
    ASSUME NEW x \in Row, x # NoRow
    PROVE  /\ x.account \in Accounts /\ x.type \in Types /\ x.day \in Days
           /\ x.amount \in Amounts /\ x.pair \in Pairs \cup {NoPair}
           /\ x.source \in {"manual", "import", "sync"}
  BY DEF Row

\* Setting transfer_pair_id leaves a row a row, with that id and its type.
LEMMA SetPair ==
    ASSUME NEW x \in Row, x # NoRow, NEW p \in Pairs \cup {NoPair}
    PROVE  /\ [x EXCEPT !.pair = p] \in Row
           /\ [x EXCEPT !.pair = p] # NoRow
           /\ [x EXCEPT !.pair = p].pair = p
           /\ [x EXCEPT !.pair = p].type = x.type
  BY NoRowFacts DEF Row

\* So does setting the date (update_transaction and its cascade).
LEMMA SetDay ==
    ASSUME NEW x \in Row, x # NoRow, NEW d \in Days
    PROVE  /\ [x EXCEPT !.day = d] \in Row
           /\ [x EXCEPT !.day = d] # NoRow
           /\ [x EXCEPT !.day = d].pair = x.pair
           /\ [x EXCEPT !.day = d].type = x.type
  BY NoRowFacts DEF Row

\* So does moving the row to another account.
LEMMA SetAccount ==
    ASSUME NEW x \in Row, x # NoRow, NEW a \in Accounts
    PROVE  /\ [x EXCEPT !.account = a] \in Row
           /\ [x EXCEPT !.account = a] # NoRow
           /\ [x EXCEPT !.account = a].pair = x.pair
           /\ [x EXCEPT !.account = a].type = x.type
  BY NoRowFacts DEF Row

\* So does editing its type.
LEMMA SetType ==
    ASSUME NEW x \in Row, x # NoRow, NEW t \in Types
    PROVE  /\ [x EXCEPT !.type = t] \in Row
           /\ [x EXCEPT !.type = t] # NoRow
           /\ [x EXCEPT !.type = t].pair = x.pair
  BY NoRowFacts DEF Row

\* A row that is entered is typed, exists and is in no transfer.
LEMMA NewRow ==
    ASSUME NEW src \in {"manual", "import"}, NEW a \in Accounts, NEW t \in Types,
           NEW d \in Days, NEW n \in Amounts
    PROVE  /\ Enter(src, a, t, d, n) \in Row
           /\ Enter(src, a, t, d, n) # NoRow
           /\ Enter(src, a, t, d, n).pair = NoPair
           /\ Enter(src, a, t, d, n).type = t
  BY NoRowFacts DEF Row, Enter

\* An UPDATE leaves each column at its committed value or at the new one.
LEMMA UpdateRow ==
    ASSUME NEW x \in Row, x # NoRow, NEW old \in Row, old # NoRow, NEW new \in Row, new # NoRow
    PROVE  /\ Update(x, old, new) \in Row
           /\ Update(x, old, new) # NoRow
           /\ Update(x, old, new).pair = IF new.pair # old.pair THEN new.pair ELSE x.pair
           /\ Update(x, old, new).type = IF new.type # old.type THEN new.type ELSE x.type
  BY NoRowFacts DEF Row, Update

\* A row with a transfer_pair_id exists.
LEMMA PairedExists ==
    ASSUME NEW x \in Row, x.pair # NoPair
    PROVE  x # NoRow
  BY NoRowFacts

-----------------------------------------------------------------------------
(* The inductive invariant *)

\* Session s has given row r a transfer_pair_id.
New(s, r) == /\ mem[s][r] # NoRow
             /\ mem[s][r].pair # NoPair
             /\ snap[s][r] = NoRow \/ snap[s][r].pair # mem[s][r].pair

\* A session that has not looked for transfers holds none.
Quiet == \A s \in Sessions : phase[s] \in {"idle", "insert"} =>
            \A r \in Rows : snap[s][r] = NoRow /\ mem[s][r].pair = NoPair

\* What a session gives out nobody else has.
Exclusive ==
    \A s \in Sessions : \A r \in Rows : New(s, r) =>
       \A q \in Rows : /\ row[q].pair # mem[s][r].pair
                       /\ \A t \in Sessions \ {s} : mem[t][q].pair # mem[s][r].pair

\* It gives it to two rows at most.
TwoNew ==
    \A s \in Sessions : \A a, b, c \in Rows :
       (/\ New(s, a) /\ New(s, b) /\ New(s, c)
        /\ mem[s][a].pair = mem[s][b].pair /\ mem[s][a].pair = mem[s][c].pair) =>
          a = b \/ a = c \/ b = c

\* The debits a detection has still to visit are rows it holds.
Visiting == \A s \in Sessions : \A d \in todo[s] : phase[s] = "match" /\ mem[s][d] # NoRow

Inv == Quiet /\ Exclusive /\ TwoNew /\ AtMostTwoLegs
IInv == TypeOK /\ Visiting /\ Inv

Few(S) == \A a, b, c \in S : a = b \/ a = c \/ b = c

\* A session that changes what it holds, and gives at most two rows a fresh id.
LEMMA HoldKeeps ==
    ASSUME IInv, NEW s \in Sessions, NEW two \in SUBSET Rows, Few(two),
           Quiet', UNCHANGED row,
           \A t \in Sessions \ {s} : mem'[t] = mem[t] /\ snap'[t] = snap[t],
           \A r \in Rows : New(s, r)' =>
              \/ New(s, r) /\ mem'[s][r].pair = mem[s][r].pair
              \/ r \in two /\ mem'[s][r].pair \in FreshPairs,
           \A q \in Rows : \/ mem'[s][q].pair \in {NoPair, row[q].pair, mem[s][q].pair}
                           \/ mem'[s][q].pair \in FreshPairs
    PROVE  Inv'
<1> USE DEF IInv, Inv
<1>1. \A t \in Sessions \ {s} : \A r \in Rows : New(t, r)' = New(t, r)
  BY DEF New
<1>2. ASSUME NEW t \in Sessions, NEW r \in Rows, New(t, r)', NEW q \in Rows,
             NEW u \in Sessions \ {t}
      PROVE  row'[q].pair # mem'[t][r].pair /\ mem'[u][q].pair # mem'[t][r].pair
  <2>1. CASE t = s
    <3>1. CASE New(s, r) /\ mem'[s][r].pair = mem[s][r].pair
      BY <1>2, <2>1, <3>1 DEF Exclusive
    <3>2. CASE mem'[s][r].pair \in FreshPairs
      BY <1>2, <2>1, <3>2 DEF FreshPairs
    <3> QED
      BY <1>2, <2>1, <3>1, <3>2
  <2>2. CASE t # s
    <3>1. New(t, r) /\ mem'[t][r].pair = mem[t][r].pair
      BY <1>1, <1>2, <2>2
    <3>2. row'[q].pair # mem'[t][r].pair /\ mem[u][q].pair # mem'[t][r].pair
      BY <3>1 DEF Exclusive
    <3>3. mem'[t][r].pair # NoPair
      BY <3>1 DEF New
    <3>4. CASE u = s
      <4>1. mem'[t][r].pair \notin FreshPairs
        BY <3>1, <2>2 DEF FreshPairs
      <4> QED
        BY <3>2, <3>3, <3>4, <4>1
    <3>5. CASE u # s
      BY <3>2, <3>5
    <3> QED
      BY <3>2, <3>4, <3>5
  <2> QED
    BY <2>1, <2>2
<1>3. Exclusive'
  <2>1. ASSUME NEW t \in Sessions, NEW r \in Rows, New(t, r)', NEW q \in Rows
        PROVE  row'[q].pair # mem'[t][r].pair
    <3>1. CASE t = s
      <4>1. CASE New(s, r) /\ mem'[s][r].pair = mem[s][r].pair
        BY <2>1, <3>1, <4>1 DEF Exclusive
      <4>2. CASE mem'[s][r].pair \in FreshPairs
        BY <2>1, <3>1, <4>2 DEF FreshPairs
      <4> QED
        BY <2>1, <3>1, <4>1, <4>2
    <3>2. CASE t # s
      BY <1>1, <2>1, <3>2 DEF Exclusive
    <3> QED
      BY <3>1, <3>2
  <2> QED
    BY <1>2, <2>1 DEF Exclusive
<1>4. TwoNew'
  <2> SUFFICES ASSUME NEW t \in Sessions, NEW a \in Rows, NEW b \in Rows, NEW c \in Rows,
                      New(t, a)', New(t, b)', New(t, c)',
                      mem'[t][a].pair = mem'[t][b].pair, mem'[t][a].pair = mem'[t][c].pair
               PROVE  a = b \/ a = c \/ b = c
    BY DEF TwoNew
  <2>1. CASE t # s
    BY <1>1, <2>1 DEF TwoNew
  <2>2. CASE t = s
    <3>1. CASE mem'[t][a].pair \in FreshPairs
      <4>1. \A r \in Rows : mem[s][r].pair # mem'[t][a].pair
        BY <3>1 DEF FreshPairs
      <4>2. a \in two /\ b \in two /\ c \in two
        BY <2>2, <4>1
      <4> QED
        BY <4>2 DEF Few
    <3>2. CASE mem'[t][a].pair \notin FreshPairs
      <4>1. /\ New(s, a) /\ mem'[s][a].pair = mem[s][a].pair
            /\ New(s, b) /\ mem'[s][b].pair = mem[s][b].pair
            /\ New(s, c) /\ mem'[s][c].pair = mem[s][c].pair
        BY <2>2, <3>2
      <4> QED
        BY <2>2, <4>1 DEF TwoNew
    <3> QED
      BY <3>1, <3>2
  <2> QED
    BY <2>1, <2>2
<1>5. AtMostTwoLegs'
  BY DEF AtMostTwoLegs, Partner
<1> QED
  BY <1>3, <1>4, <1>5

-----------------------------------------------------------------------------
(* Sessions *)

\* The rows a request has changed are typed.
LEMMA DifferingType ==
    ASSUME NEW x \in [Rows -> Row], NEW y \in [Rows -> Row]
    PROVE  Differing(x, y) \in [Rows -> Row]
  BY NoRowFacts DEF Differing

\* A request that leaves every id alone, or gives a fresh one to two rows.
LEMMA RequestKeeps ==
    ASSUME IInv, NEW s \in Sessions, NEW m \in [Rows -> Row], Request(s, m),
           NEW two \in SUBSET Rows, Few(two),
           \A r \in Rows : \/ m[r].pair = NoPair
                           \/ row[r] # NoRow /\ m[r].pair = row[r].pair
                           \/ r \in two /\ m[r].pair \in FreshPairs
    PROVE  IInv'
<1> USE DEF IInv
<1>1. /\ snap' = [snap EXCEPT ![s] = Differing(row, m)]
      /\ mem' = [mem EXCEPT ![s] = Differing(m, row)]
      /\ phase' = [phase EXCEPT ![s] = "commit"]
      /\ job' = [job EXCEPT ![s] = "request"]
      /\ row' = row /\ todo' = todo
  BY DEF Request, Ready
<1>2. TypeOK'
  <2>1. Differing(row, m) \in [Rows -> Row] /\ Differing(m, row) \in [Rows -> Row]
    BY DifferingType DEF TypeOK
  <2> QED
    BY <1>1, <2>1 DEF TypeOK, Phases, Jobs
<1>3. /\ \A t \in Sessions \ {s} : mem'[t] = mem[t] /\ snap'[t] = snap[t] /\ phase'[t] = phase[t]
      /\ \A r \in Rows : /\ mem'[s][r] = IF m[r] = row[r] THEN NoRow ELSE m[r]
                         /\ snap'[s][r] = IF row[r] = m[r] THEN NoRow ELSE row[r]
      /\ phase'[s] = "commit"
  BY <1>1 DEF TypeOK, Differing
<1>4. Quiet' /\ Visiting'
  <2>1. Quiet'
    BY <1>3 DEF Quiet, Inv
  <2>2. phase[s] = "idle"
    BY DEF Request
  <2>3. todo[s] = {}
    BY <2>2 DEF Visiting
  <2>4. Visiting'
    BY <1>1, <1>3, <2>3 DEF Visiting
  <2> QED
    BY <2>1, <2>4
<1>5. \A r \in Rows : New(s, r)' => r \in two /\ mem'[s][r].pair \in FreshPairs
  <2> SUFFICES ASSUME NEW r \in Rows, New(s, r)' PROVE r \in two /\ mem'[s][r].pair \in FreshPairs
    OBVIOUS
  <2>1. m[r] # row[r] /\ mem'[s][r] = m[r] /\ snap'[s][r] = row[r]
    BY <1>3 DEF New
  <2>2. m[r].pair # NoPair /\ (row[r] = NoRow \/ row[r].pair # m[r].pair)
    BY <2>1 DEF New
  <2> QED
    BY <2>1, <2>2
<1>6. \A q \in Rows : \/ mem'[s][q].pair \in {NoPair, row[q].pair, mem[s][q].pair}
                      \/ mem'[s][q].pair \in FreshPairs
  BY <1>3, NoRowFacts
<1>7. Inv'
  BY <1>1, <1>3, <1>4, <1>5, <1>6, HoldKeeps
<1> QED
  BY <1>2, <1>4, <1>7

\* A session that ends holds nothing.
LEMMA CloseFacts ==
    ASSUME TypeOK, NEW s \in Sessions, Close(s)
    PROVE  /\ \A t \in Sessions \ {s} : mem'[t] = mem[t] /\ snap'[t] = snap[t] /\ phase'[t] = phase[t]
           /\ mem'[s] = NoRows /\ snap'[s] = NoRows /\ todo'[s] = {}
           /\ \A t \in Sessions \ {s} : todo'[t] = todo[t]
           /\ phase' \in [Sessions -> Phases] /\ job' \in [Sessions -> Jobs]
           /\ snap' \in [Sessions -> [Rows -> Row]] /\ mem' \in [Sessions -> [Rows -> Row]]
           /\ todo' \in [Sessions -> SUBSET Rows]
  BY NoRowsType DEF Close, TypeOK, Phases, Jobs

\* What a flush leaves in a row: an id it had, or one the session gave it.
LEMMA WrittenFacts ==
    ASSUME TypeOK, NEW s \in Sessions, NEW r \in Rows
    PROVE  /\ Written(s, r) \in Row
           /\ \/ Written(s, r).pair \in {NoPair, row[r].pair}
              \/ New(s, r) /\ Written(s, r).pair = mem[s][r].pair
<1>1. row[r] \in Row /\ snap[s][r] \in Row /\ mem[s][r] \in Row
  BY DEF TypeOK
<1>2. CASE snap[s][r] = NoRow
  BY <1>1, <1>2 DEF Written, New
<1>3. CASE snap[s][r] # NoRow /\ (mem[s][r] = NoRow \/ row[r] = NoRow)
  BY <1>3, NoRowFacts DEF Written
<1>4. CASE snap[s][r] # NoRow /\ mem[s][r] # NoRow /\ row[r] # NoRow
  <2>1. Written(s, r) = Update(row[r], snap[s][r], mem[s][r])
    BY <1>4 DEF Written
  <2>2. Written(s, r) \in Row
    BY <1>1, <1>4, <2>1, UpdateRow
  <2>3. Written(s, r).pair = IF mem[s][r].pair # snap[s][r].pair THEN mem[s][r].pair ELSE row[r].pair
    BY <1>1, <1>4, <2>1, UpdateRow
  <2> QED
    BY <1>4, <2>2, <2>3 DEF New
<1> QED
  BY <1>2, <1>3, <1>4

\* A commit: the ids that become visible are those the session alone had
\* given out, to two rows at most.
LEMMA CommitKeeps ==
    ASSUME IInv, NEW s \in Sessions, Commit(s)
    PROVE  IInv'
<1> USE DEF IInv, Inv
<1>1. Close(s) /\ row' = [r \in Rows |-> Written(s, r)]
  BY DEF Commit
<1>2. /\ \A t \in Sessions \ {s} : mem'[t] = mem[t] /\ snap'[t] = snap[t] /\ phase'[t] = phase[t]
      /\ mem'[s] = NoRows /\ snap'[s] = NoRows /\ todo'[s] = {}
      /\ \A t \in Sessions \ {s} : todo'[t] = todo[t]
      /\ phase' \in [Sessions -> Phases] /\ job' \in [Sessions -> Jobs]
      /\ snap' \in [Sessions -> [Rows -> Row]] /\ mem' \in [Sessions -> [Rows -> Row]]
      /\ todo' \in [Sessions -> SUBSET Rows]
  BY <1>1, CloseFacts
<1>3. \A r \in Rows : /\ row'[r] \in Row
                      /\ \/ row'[r].pair \in {NoPair, row[r].pair}
                         \/ New(s, r) /\ row'[r].pair = mem[s][r].pair
  BY <1>1, WrittenFacts
<1>4. TypeOK'
  <2>1. row' \in [Rows -> Row]
    BY <1>1, <1>3
  <2> QED
    BY <1>2, <2>1 DEF TypeOK
<1>5. \A r \in Rows : ~New(s, r)' /\ mem'[s][r].pair = NoPair
  BY <1>2, NoRowFacts DEF New, NoRows
<1>6. \A t \in Sessions \ {s} : \A r \in Rows : New(t, r)' = New(t, r)
  BY <1>2 DEF New
<1>7. Quiet' /\ Visiting'
  <2>1. Quiet'
    BY <1>2, NoRowFacts DEF Quiet, NoRows
  <2>2. Visiting'
    BY <1>2 DEF Visiting
  <2> QED
    BY <2>1, <2>2
<1>8. Exclusive'
  <2> SUFFICES ASSUME NEW t \in Sessions, NEW r \in Rows, New(t, r)', NEW q \in Rows
               PROVE  /\ row'[q].pair # mem'[t][r].pair
                      /\ \A u \in Sessions \ {t} : mem'[u][q].pair # mem'[t][r].pair
    BY DEF Exclusive
  <2>1. t # s /\ New(t, r) /\ mem'[t][r].pair = mem[t][r].pair
    BY <1>2, <1>5, <1>6
  <2>2. mem'[t][r].pair # NoPair
    BY <2>1 DEF New
  <2>3. /\ row[q].pair # mem'[t][r].pair
        /\ \A u \in Sessions \ {t} : mem[u][q].pair # mem'[t][r].pair
    BY <2>1 DEF Exclusive
  <2>4. row'[q].pair # mem'[t][r].pair
    BY <1>3, <2>1, <2>2, <2>3
  <2>5. ASSUME NEW u \in Sessions \ {t} PROVE mem'[u][q].pair # mem'[t][r].pair
    BY <1>2, <1>5, <2>2, <2>3
  <2> QED
    BY <2>4, <2>5
<1>9. TwoNew'
  <2> SUFFICES ASSUME NEW t \in Sessions, NEW a \in Rows, NEW b \in Rows, NEW c \in Rows,
                      New(t, a)', New(t, b)', New(t, c)',
                      mem'[t][a].pair = mem'[t][b].pair, mem'[t][a].pair = mem'[t][c].pair
               PROVE  a = b \/ a = c \/ b = c
    BY DEF TwoNew
  <2>1. t # s
    BY <1>5
  <2> QED
    BY <1>2, <1>6, <2>1 DEF TwoNew
<1>10. AtMostTwoLegs'
  <2> SUFFICES ASSUME NEW a \in Rows, NEW b \in Rows, NEW c \in Rows,
                      Partner(a, b)', Partner(a, c)'
               PROVE  b = c
    BY DEF AtMostTwoLegs
  <2>1. /\ a # b /\ a # c
        /\ row'[a].pair # NoPair /\ row'[b].pair = row'[a].pair /\ row'[c].pair = row'[a].pair
    BY DEF Partner
  <2>2. CASE \E r \in {a, b, c} : New(s, r) /\ row'[r].pair = mem[s][r].pair
    <3>1. \A q \in Rows : row[q].pair # row'[a].pair
      BY <2>1, <2>2 DEF Exclusive
    <3>2. /\ New(s, a) /\ row'[a].pair = mem[s][a].pair
          /\ New(s, b) /\ row'[b].pair = mem[s][b].pair
          /\ New(s, c) /\ row'[c].pair = mem[s][c].pair
      BY <1>3, <2>1, <3>1
    <3> QED
      BY <2>1, <3>2 DEF TwoNew
  <2>3. CASE ~\E r \in {a, b, c} : New(s, r) /\ row'[r].pair = mem[s][r].pair
    <3>1. row[a].pair = row'[a].pair /\ row[b].pair = row'[a].pair /\ row[c].pair = row'[a].pair
      BY <1>3, <2>1, <2>3
    <3> QED
      BY <2>1, <3>1 DEF AtMostTwoLegs, Partner
  <2> QED
    BY <2>2, <2>3
<1> QED
  BY <1>4, <1>7, <1>8, <1>9, <1>10

-----------------------------------------------------------------------------
(* What the user asks for *)

\* Rows in the table are typed.
LEMMA RowsTyped ==
    ASSUME IInv, NEW r \in Rows
    PROVE  row[r] \in Row
  BY DEF IInv, TypeOK

\* link_existing_as_transfer gives a fresh id to two rows.
LEMMA LinkKeeps ==
    ASSUME IInv, NEW s \in Sessions, Link(s)
    PROVE  IInv'
<1>1. PICK a \in Rows, b \in Rows, p \in FreshPairs :
         CanLink(a, b) /\ Request(s, [row EXCEPT ![a].pair = p, ![b].pair = p])
  BY DEF Link
<1> DEFINE m == [row EXCEPT ![a].pair = p, ![b].pair = p]
<1>2. row \in [Rows -> Row] /\ a # b /\ row[a] # NoRow /\ row[b] # NoRow /\ p \in Pairs
  BY <1>1 DEF IInv, TypeOK, CanLink, FreshPairs
<1>3. \A r \in Rows : m[r] = IF r \in {a, b} THEN [row[r] EXCEPT !.pair = p] ELSE row[r]
  BY <1>2
<1>4. \A r \in Rows : m[r] \in Row /\ m[r].pair = IF r \in {a, b} THEN p ELSE row[r].pair
  <2> SUFFICES ASSUME NEW r \in Rows
               PROVE  m[r] \in Row /\ m[r].pair = IF r \in {a, b} THEN p ELSE row[r].pair
    OBVIOUS
  <2> HIDE DEF m
  <2>1. CASE r \in {a, b}
    <3>1. row[r] \in Row /\ row[r] # NoRow /\ m[r] = [row[r] EXCEPT !.pair = p]
      BY <1>2, <1>3, <2>1
    <3> QED
      BY <1>2, <2>1, <3>1, SetPair
  <2>2. CASE r \notin {a, b}
    BY <1>2, <1>3, <2>2
  <2> QED
    BY <2>1, <2>2
<1>5. m \in [Rows -> Row]
  BY <1>2, <1>4
<1>6. \A r \in Rows : \/ m[r].pair = NoPair
                      \/ row[r] # NoRow /\ m[r].pair = row[r].pair
                      \/ r \in {a, b} /\ m[r].pair \in FreshPairs
  BY <1>2, <1>4, NoRowFacts
<1>7. Few({a, b}) /\ {a, b} \in SUBSET Rows
  BY DEF Few
<1> HIDE DEF m
<1>8. Request(s, m)
  BY <1>1 DEF m
<1> QED
  BY <1>5, <1>6, <1>7, <1>8, RequestKeeps

\* create_transfer inserts two rows with a fresh id.
LEMMA CreateTransferKeeps ==
    ASSUME IInv, NEW s \in Sessions, CreateTransfer(s)
    PROVE  IInv'
<1>1. PICK a \in FreshRows, b \in FreshRows, from \in Accounts, to \in Accounts,
           d \in Days, n \in Amounts, p \in FreshPairs :
         /\ a # b
         /\ Request(s, [row EXCEPT ![a] = [Enter("manual", from, "debit", d, n) EXCEPT !.pair = p],
                                   ![b] = [Enter("manual", to, "credit", d, n) EXCEPT !.pair = p]])
  BY DEF CreateTransfer
<1> DEFINE x == Enter("manual", from, "debit", d, n)
           y == Enter("manual", to, "credit", d, n)
           m == [row EXCEPT ![a] = [x EXCEPT !.pair = p], ![b] = [y EXCEPT !.pair = p]]
<1>2. row \in [Rows -> Row] /\ a \in Rows /\ b \in Rows /\ p \in Pairs
  BY <1>1 DEF IInv, TypeOK, FreshRows, FreshPairs
<1>3. /\ [x EXCEPT !.pair = p] \in Row /\ [x EXCEPT !.pair = p].pair = p
      /\ [y EXCEPT !.pair = p] \in Row /\ [y EXCEPT !.pair = p].pair = p
  <2>1. x \in Row /\ x # NoRow /\ y \in Row /\ y # NoRow
    BY NewRow DEF Types
  <2> HIDE DEF x, y
  <2> QED
    BY <1>2, <2>1, SetPair
<1> HIDE DEF x, y
<1>4. \A r \in Rows : m[r] \in Row /\ m[r].pair = IF r \in {a, b} THEN p ELSE row[r].pair
  BY <1>1, <1>2, <1>3
<1>5. m \in [Rows -> Row]
  BY <1>2, <1>4
<1>6. \A r \in Rows : \/ m[r].pair = NoPair
                      \/ row[r] # NoRow /\ m[r].pair = row[r].pair
                      \/ r \in {a, b} /\ m[r].pair \in FreshPairs
  BY <1>2, <1>4, NoRowFacts
<1>7. Few({a, b}) /\ {a, b} \in SUBSET Rows
  BY <1>2 DEF Few
<1>8. Request(s, m)
  BY <1>1 DEF x, y
<1> HIDE DEF m
<1> QED
  BY <1>5, <1>6, <1>7, <1>8, RequestKeeps

\* create_transfer_counterpart gives a fresh id to a row and inserts the other.
LEMMA CreateCounterpartKeeps ==
    ASSUME IInv, NEW s \in Sessions, CreateCounterpart(s)
    PROVE  IInv'
<1>1. PICK a \in Rows, b \in FreshRows, to \in Accounts, p \in FreshPairs :
         /\ row[a] # NoRow
         /\ Request(s, [row EXCEPT ![a].pair = p,
                                   ![b] = [Enter("manual", to, Opposite(row[a].type), row[a].day,
                                                 row[a].amount) EXCEPT !.pair = p]])
  BY DEF CreateCounterpart
<1> DEFINE x == Enter("manual", to, Opposite(row[a].type), row[a].day, row[a].amount)
           m == [row EXCEPT ![a].pair = p, ![b] = [x EXCEPT !.pair = p]]
<1>2. row \in [Rows -> Row] /\ b \in Rows /\ row[b] = NoRow /\ p \in Pairs
  BY <1>1 DEF IInv, TypeOK, FreshRows, FreshPairs
<1>3. [x EXCEPT !.pair = p] \in Row /\ [x EXCEPT !.pair = p].pair = p
  <2>1. row[a].day \in Days /\ row[a].amount \in Amounts /\ Opposite(row[a].type) \in Types
    BY <1>1, <1>2, RowColumns DEF Opposite, Types
  <2>2. x \in Row /\ x # NoRow
    BY <2>1, NewRow
  <2> HIDE DEF x
  <2> QED
    BY <1>2, <2>2, SetPair
<1>4. [row[a] EXCEPT !.pair = p] \in Row /\ [row[a] EXCEPT !.pair = p].pair = p
  BY <1>1, <1>2, SetPair
<1> HIDE DEF x
<1>5. \A r \in Rows : m[r] = IF r = b THEN [x EXCEPT !.pair = p]
                            ELSE IF r = a THEN [row[a] EXCEPT !.pair = p] ELSE row[r]
  BY <1>1, <1>2
<1>6. \A r \in Rows : m[r] \in Row /\ m[r].pair = IF r \in {a, b} THEN p ELSE row[r].pair
  BY <1>2, <1>3, <1>4, <1>5
<1>7. m \in [Rows -> Row]
  BY <1>2, <1>6
<1>8. \A r \in Rows : \/ m[r].pair = NoPair
                      \/ row[r] # NoRow /\ m[r].pair = row[r].pair
                      \/ r \in {a, b} /\ m[r].pair \in FreshPairs
  BY <1>2, <1>6, NoRowFacts
<1>9. Few({a, b}) /\ {a, b} \in SUBSET Rows
  BY <1>2 DEF Few
<1>10. Request(s, m)
  BY <1>1 DEF x
<1> HIDE DEF m
<1> QED
  BY <1>7, <1>8, <1>9, <1>10, RequestKeeps

\* A request that gives out no id.
LEMMA PlainKeeps ==
    ASSUME IInv, NEW s \in Sessions, NEW m \in [Rows -> Row], Request(s, m),
           \A r \in Rows : \/ m[r].pair = NoPair
                           \/ row[r] # NoRow /\ m[r].pair = row[r].pair
    PROVE  IInv'
<1>1. Few({}) /\ {} \in SUBSET Rows
  BY DEF Few
<1> QED
  BY <1>1, RequestKeeps

\* unlink_transfer_pair gives out nothing.
LEMMA UnlinkKeeps ==
    ASSUME IInv, NEW s \in Sessions, Unlink(s)
    PROVE  IInv'
<1>1. PICK p \in Pairs :
         Request(s, [r \in Rows |-> IF row[r].pair = p THEN [row[r] EXCEPT !.pair = NoPair]
                                    ELSE row[r]])
  BY DEF Unlink
<1> DEFINE m == [r \in Rows |-> IF row[r].pair = p THEN [row[r] EXCEPT !.pair = NoPair]
                                ELSE row[r]]
<1>2. \A r \in Rows : m[r] \in Row /\ m[r].pair \in {NoPair, row[r].pair}
  <2> SUFFICES ASSUME NEW r \in Rows
               PROVE  m[r] \in Row /\ m[r].pair \in {NoPair, row[r].pair}
    OBVIOUS
  <2>1. CASE row[r].pair = p
    <3>1. row[r] # NoRow
      BY <2>1, PairsAssumption, NoRowFacts
    <3> QED
      BY <2>1, <3>1, RowsTyped, SetPair
  <2>2. CASE row[r].pair # p
    BY <2>2, RowsTyped
  <2> QED
    BY <2>1, <2>2
<1>3. m \in [Rows -> Row]
  BY <1>2
<1> HIDE DEF m
<1>4. \A r \in Rows : m[r].pair = NoPair \/ (row[r] # NoRow /\ m[r].pair = row[r].pair)
  BY <1>2, NoRowFacts
<1>5. Request(s, m)
  BY <1>1 DEF m
<1> QED
  BY <1>3, <1>4, <1>5, PlainKeeps

\* Nor does update_transaction with a date.
LEMMA EditDateKeeps ==
    ASSUME IInv, NEW s \in Sessions, EditDate(s)
    PROVE  IInv'
<1>1. PICK a \in Rows, d \in Days :
         /\ row[a] # NoRow
         /\ Request(s, [r \in Rows |-> IF r = a \/ r \in PairedWith(a)
                                       THEN [row[r] EXCEPT !.day = d] ELSE row[r]])
  BY DEF EditDate
<1> DEFINE m == [r \in Rows |-> IF r = a \/ r \in PairedWith(a)
                                THEN [row[r] EXCEPT !.day = d] ELSE row[r]]
<1>2. \A r \in Rows : m[r] \in Row /\ m[r].pair = row[r].pair
  <2> SUFFICES ASSUME NEW r \in Rows
               PROVE  m[r] \in Row /\ m[r].pair = row[r].pair
    OBVIOUS
  <2>1. CASE r = a \/ r \in PairedWith(a)
    <3>1. row[r] # NoRow
      BY <1>1, <2>1, NoRowFacts DEF PairedWith
    <3> QED
      BY <2>1, <3>1, RowsTyped, SetDay
  <2>2. CASE ~(r = a \/ r \in PairedWith(a))
    BY <2>2, RowsTyped
  <2> QED
    BY <2>1, <2>2
<1>3. m \in [Rows -> Row]
  BY <1>2
<1> HIDE DEF m
<1>4. \A r \in Rows : m[r].pair = NoPair \/ (row[r] # NoRow /\ m[r].pair = row[r].pair)
  BY <1>2, NoRowFacts
<1>5. Request(s, m)
  BY <1>1 DEF m
<1> QED
  BY <1>3, <1>4, <1>5, PlainKeeps

\* Nor with an account.
LEMMA MoveKeeps ==
    ASSUME IInv, NEW s \in Sessions, Move(s)
    PROVE  IInv'
<1>1. PICK a \in Rows, to \in Accounts :
         row[a] # NoRow /\ Request(s, [row EXCEPT ![a].account = to])
  BY DEF Move, CanMove
<1> DEFINE m == [row EXCEPT ![a].account = to]
<1>2. row \in [Rows -> Row]
  BY DEF IInv, TypeOK
<1>3. \A r \in Rows : m[r] \in Row /\ m[r].pair = row[r].pair
  BY <1>1, <1>2, SetAccount
<1>4. m \in [Rows -> Row]
  BY <1>2, <1>3
<1> HIDE DEF m
<1>5. \A r \in Rows : m[r].pair = NoPair \/ (row[r] # NoRow /\ m[r].pair = row[r].pair)
  BY <1>3, NoRowFacts
<1>6. Request(s, m)
  BY <1>1 DEF m
<1> QED
  BY <1>4, <1>5, <1>6, PlainKeeps

\* Nor with a type.
LEMMA FlipTypeKeeps ==
    ASSUME IInv, NEW s \in Sessions, FlipType(s)
    PROVE  IInv'
<1>1. PICK a \in Rows :
         row[a] # NoRow /\ Request(s, [row EXCEPT ![a].type = Opposite(@)])
  BY DEF FlipType
<1> DEFINE m == [row EXCEPT ![a].type = Opposite(@)]
<1>2. row \in [Rows -> Row] /\ Opposite(row[a].type) \in Types
  BY DEF IInv, TypeOK, Opposite, Types
<1>3. \A r \in Rows : m[r] = IF r = a THEN [row[r] EXCEPT !.type = Opposite(row[r].type)] ELSE row[r]
  BY <1>2
<1>4. \A r \in Rows : m[r] \in Row /\ m[r].pair = row[r].pair
  BY <1>1, <1>2, <1>3, SetType
<1>5. m \in [Rows -> Row]
  BY <1>2, <1>4
<1>6. Request(s, m)
  BY <1>1
<1> HIDE DEF m
<1>7. \A r \in Rows : m[r].pair = NoPair \/ (row[r] # NoRow /\ m[r].pair = row[r].pair)
  BY <1>4, NoRowFacts
<1> QED
  BY <1>5, <1>6, <1>7, PlainKeeps

\* Nor does delete_transaction.
LEMMA DeleteKeeps ==
    ASSUME IInv, NEW s \in Sessions, Delete(s)
    PROVE  IInv'
<1>1. PICK a \in Rows :
         Request(s, [r \in Rows |-> IF r = a \/ r \in PairedWith(a) THEN NoRow ELSE row[r]])
  BY DEF Delete
<1> DEFINE m == [r \in Rows |-> IF r = a \/ r \in PairedWith(a) THEN NoRow ELSE row[r]]
<1>2. \A r \in Rows : m[r] \in Row /\ m[r].pair \in {NoPair, row[r].pair}
  BY RowsTyped, NoRowFacts
<1>3. m \in [Rows -> Row]
  BY <1>2
<1> HIDE DEF m
<1>4. \A r \in Rows : m[r].pair = NoPair \/ (row[r] # NoRow /\ m[r].pair = row[r].pair)
  BY <1>2, NoRowFacts
<1>5. Request(s, m)
  BY <1>1 DEF m
<1> QED
  BY <1>3, <1>4, <1>5, PlainKeeps

-----------------------------------------------------------------------------
(* Sync and detection *)

\* A session that holds rows without an id gives none out.
LEMMA StartSyncKeeps ==
    ASSUME IInv, NEW s \in Sessions, NEW j \in Jobs, StartSync(s, j)
    PROVE  IInv'
<1> USE DEF IInv
<1>1. /\ phase[s] = "idle" /\ phase' = [phase EXCEPT ![s] = "insert"]
      /\ job' = [job EXCEPT ![s] = j]
      /\ row' = row /\ snap' = snap /\ mem' = mem /\ todo' = todo
  BY DEF StartSync
<1>2. TypeOK'
  BY <1>1 DEF TypeOK, Phases
<1>3. Quiet' /\ Visiting'
  BY <1>1 DEF Inv, Quiet, Visiting, TypeOK
<1>4. Few({}) /\ {} \in SUBSET Rows
  BY DEF Few
<1>5. \A r \in Rows : New(s, r)' => New(s, r) /\ mem'[s][r].pair = mem[s][r].pair
  BY <1>1 DEF New
<1>6. \A q \in Rows : mem'[s][q].pair \in {NoPair, row[q].pair, mem[s][q].pair}
  BY <1>1
<1>7. \A t \in Sessions \ {s} : mem'[t] = mem[t] /\ snap'[t] = snap[t]
  BY <1>1
<1>8. Inv'
  BY <1>1, <1>3, <1>4, <1>5, <1>6, <1>7, HoldKeeps
<1> QED
  BY <1>2, <1>3, <1>8

\* A charge of the feed is inserted without an id.
LEMMA InsertChargeKeeps ==
    ASSUME IInv, NEW s \in Sessions, InsertCharge(s)
    PROVE  IInv'
<1> USE DEF IInv
<1>1. PICK r \in FreshRows, a \in Connected, ty \in Types, d \in Days, n \in Amounts :
         mem' = [mem EXCEPT ![s][r] = [source |-> "sync", account |-> a, type |-> ty, day |-> d,
                                       amount |-> n, pair |-> NoPair]]
  BY DEF InsertCharge
<1> DEFINE x == [source |-> "sync", account |-> a, type |-> ty, day |-> d,
                 amount |-> n, pair |-> NoPair]
<1>2. phase[s] = "insert" /\ row' = row /\ phase' = phase /\ job' = job /\ snap' = snap
      /\ todo' = todo /\ r \in Rows
  BY DEF InsertCharge, FreshRows
<1>3. x \in Row /\ x # NoRow /\ x.pair = NoPair
  BY PairsAssumption, NoRowFacts DEF Row
<1> HIDE DEF x
<1>4. mem' = [mem EXCEPT ![s] = [mem[s] EXCEPT ![r] = x]]
  BY <1>1 DEF x
<1>5. /\ mem'[s] = [mem[s] EXCEPT ![r] = x]
      /\ \A t \in Sessions \ {s} : mem'[t] = mem[t]
      /\ mem' \in [Sessions -> [Rows -> Row]]
  BY <1>3, <1>4 DEF TypeOK
<1>6. \A q \in Rows : mem'[s][q] = IF q = r THEN x ELSE mem[s][q]
  BY <1>5 DEF TypeOK
<1>7. TypeOK'
  BY <1>2, <1>5 DEF TypeOK
<1>8. Quiet' /\ Visiting'
  BY <1>2, <1>3, <1>5, <1>6 DEF Inv, Quiet, Visiting
<1>9. Few({}) /\ {} \in SUBSET Rows
  BY DEF Few
<1>10. \A q \in Rows : New(s, q)' => New(s, q) /\ mem'[s][q].pair = mem[s][q].pair
  BY <1>2, <1>3, <1>6 DEF New
<1>11. \A q \in Rows : mem'[s][q].pair \in {NoPair, row[q].pair, mem[s][q].pair}
  BY <1>3, <1>6
<1>12. Inv'
  BY <1>2, <1>5, <1>8, <1>9, <1>10, <1>11, HoldKeeps
<1> QED
  BY <1>7, <1>8, <1>12

\* What a session that has only inserted holds after its queries.
LEMMA ReadFacts ==
    ASSUME TypeOK, NEW s \in Sessions, Read(s)
    PROVE  /\ \A t \in Sessions \ {s} : mem'[t] = mem[t] /\ snap'[t] = snap[t]
           /\ \A r \in Rows : /\ snap'[s][r] = IF mem[s][r] # NoRow THEN NoRow ELSE row[r]
                              /\ mem'[s][r] = IF mem[s][r] # NoRow THEN mem[s][r] ELSE row[r]
           /\ snap' \in [Sessions -> [Rows -> Row]]
           /\ mem' \in [Sessions -> [Rows -> Row]]
<1> DEFINE old == [r \in Rows |-> IF mem[s][r] # NoRow THEN NoRow ELSE row[r]]
           new == [r \in Rows |-> IF mem[s][r] # NoRow THEN mem[s][r] ELSE row[r]]
<1>1. snap' = [snap EXCEPT ![s] = old] /\ mem' = [mem EXCEPT ![s] = new]
  BY DEF Read
<1>2. old \in [Rows -> Row] /\ new \in [Rows -> Row]
  BY NoRowFacts DEF TypeOK
<1>3. \A r \in Rows : /\ old[r] = IF mem[s][r] # NoRow THEN NoRow ELSE row[r]
                      /\ new[r] = IF mem[s][r] # NoRow THEN mem[s][r] ELSE row[r]
  OBVIOUS
<1> HIDE DEF old, new
<1> QED
  BY <1>1, <1>2, <1>3 DEF TypeOK

\* The queries of a session that has given out no id.
LEMMA ReadKeeps ==
    ASSUME IInv, NEW s \in Sessions, Read(s), UNCHANGED row,
           phase[s] \in {"idle", "insert"},
           \/ phase' = [phase EXCEPT ![s] = "match"]
           \/ phase' = [phase EXCEPT ![s] = "cleanup"]
    PROVE  Inv'
<1> USE DEF IInv
<1>1. /\ \A t \in Sessions \ {s} : mem'[t] = mem[t] /\ snap'[t] = snap[t]
      /\ \A r \in Rows : /\ snap'[s][r] = IF mem[s][r] # NoRow THEN NoRow ELSE row[r]
                         /\ mem'[s][r] = IF mem[s][r] # NoRow THEN mem[s][r] ELSE row[r]
  BY ReadFacts
<1>2. \A r \in Rows : mem[s][r].pair = NoPair
  BY DEF Inv, Quiet
<1>3. \A r \in Rows : ~New(s, r)'
  BY <1>1, <1>2 DEF New
<1>4. \A t \in Sessions \ {s} : phase'[t] = phase[t]
  BY DEF TypeOK
<1>5. phase'[s] \in {"match", "cleanup"}
  BY DEF TypeOK
<1>6. Quiet'
  BY <1>1, <1>4, <1>5 DEF Inv, Quiet
<1>7. Few({}) /\ {} \in SUBSET Rows
  BY DEF Few
<1>8. \A q \in Rows : mem'[s][q].pair \in {NoPair, row[q].pair, mem[s][q].pair}
  BY <1>1
<1> QED
  BY <1>1, <1>3, <1>6, <1>7, <1>8, HoldKeeps

\* detect_transfer_pairs up to its loop.
LEMMA StartMatchingKeeps ==
    ASSUME IInv, NEW s \in Sessions, StartMatching(s), UNCHANGED row,
           phase[s] \in {"idle", "insert"}, job' \in [Sessions -> Jobs]
    PROVE  IInv'
<1> USE DEF IInv
<1>1. /\ Read(s)
      /\ phase' = [phase EXCEPT ![s] = "match"]
      /\ todo' = [todo EXCEPT ![s] = DebitsToMatch(mem'[s], Candidates(s))]
  BY DEF StartMatching
<1>2. Inv'
  BY <1>1, ReadKeeps
<1>3. /\ \A t \in Sessions \ {s} : mem'[t] = mem[t] /\ phase'[t] = phase[t] /\ todo'[t] = todo[t]
      /\ snap' \in [Sessions -> [Rows -> Row]] /\ mem' \in [Sessions -> [Rows -> Row]]
  BY <1>1, ReadFacts DEF TypeOK
<1>4. phase'[s] = "match" /\ todo'[s] \subseteq {r \in Rows : mem'[s][r] # NoRow}
  BY <1>1 DEF TypeOK, DebitsToMatch
<1>5. TypeOK'
  BY <1>1, <1>3, <1>4 DEF TypeOK, Phases, DebitsToMatch
<1>6. Visiting'
  BY <1>3, <1>4 DEF Visiting
<1> QED
  BY <1>2, <1>5, <1>6

\* sync_connection and handle_oauth_callback once the feed is through.
LEMMA EndInsertsKeeps ==
    ASSUME IInv, NEW s \in Sessions, EndInserts(s)
    PROVE  IInv'
<1> USE DEF IInv
<1>1. phase[s] = "insert" /\ row' = row /\ job' = job
  BY DEF EndInserts
<1>2. CASE job[s] = "sync" /\ Candidates(s) = {}
  <2>1. Read(s) /\ phase' = [phase EXCEPT ![s] = "cleanup"] /\ todo' = todo
    BY <1>2 DEF EndInserts
  <2>2. Inv'
    BY <1>1, <2>1, ReadKeeps
  <2>3. /\ \A t \in Sessions \ {s} : mem'[t] = mem[t] /\ phase'[t] = phase[t]
        /\ snap' \in [Sessions -> [Rows -> Row]] /\ mem' \in [Sessions -> [Rows -> Row]]
    BY <2>1, ReadFacts DEF TypeOK
  <2>4. TypeOK'
    BY <1>1, <2>1, <2>3 DEF TypeOK, Phases
  <2>5. Visiting'
    BY <1>1, <2>1, <2>3 DEF Visiting
  <2> QED
    BY <2>2, <2>4, <2>5
<1>3. CASE ~(job[s] = "sync" /\ Candidates(s) = {})
  <2>1. StartMatching(s)
    BY <1>3 DEF EndInserts
  <2>2. job' \in [Sessions -> Jobs]
    BY <1>1 DEF TypeOK
  <2> QED
    BY <1>1, <2>1, <2>2, StartMatchingKeeps
<1> QED
  BY <1>2, <1>3

\* POST /transfers/detect.
LEMMA DetectAllKeeps ==
    ASSUME IInv, NEW s \in Sessions, DetectAll(s)
    PROVE  IInv'
<1>1. phase[s] = "idle" /\ StartMatching(s) /\ row' = row /\ job' = [job EXCEPT ![s] = "detect"]
  BY DEF DetectAll
<1>2. job' \in [Sessions -> Jobs]
  BY <1>1 DEF IInv, TypeOK, Jobs
<1> QED
  BY <1>1, <1>2, StartMatchingKeeps

\* One turn of the loop of detect_transfer_pairs gives a fresh id to two rows.
LEMMA MatchDebitKeeps ==
    ASSUME IInv, NEW s \in Sessions, MatchDebit(s)
    PROVE  IInv'
<1> USE DEF IInv
<1>1. /\ phase[s] = "match" /\ row' = row /\ phase' = phase /\ job' = job /\ snap' = snap
  BY DEF MatchDebit
<1>2. PICK d \in todo[s] :
         /\ todo' = [todo EXCEPT ![s] = @ \ {d}]
         /\ \/ /\ Partners(s, d) = {}
               /\ UNCHANGED mem
            \/ \E c \in Closest(s, d), p \in FreshPairs :
                  mem' = [mem EXCEPT ![s][d].pair = p, ![s][c].pair = p]
  BY DEF MatchDebit
<1>3. d \in Rows /\ mem[s][d] # NoRow
  BY <1>2 DEF TypeOK, Visiting
<1>4. CASE UNCHANGED mem
  <2>1. TypeOK'
    BY <1>1, <1>2, <1>4 DEF TypeOK
  <2>2. Visiting' /\ Quiet'
    BY <1>1, <1>2, <1>4 DEF Visiting, Inv, Quiet, TypeOK
  <2>3. Few({}) /\ {} \in SUBSET Rows
    BY DEF Few
  <2>4. \A r \in Rows : New(s, r)' => New(s, r) /\ mem'[s][r].pair = mem[s][r].pair
    BY <1>1, <1>4 DEF New
  <2>5. \A q \in Rows : mem'[s][q].pair \in {NoPair, row[q].pair, mem[s][q].pair}
    BY <1>4
  <2>6. \A t \in Sessions \ {s} : mem'[t] = mem[t] /\ snap'[t] = snap[t]
    BY <1>1, <1>4
  <2>7. Inv'
    BY <1>1, <2>2, <2>3, <2>4, <2>5, <2>6, HoldKeeps
  <2> QED
    BY <2>1, <2>2, <2>7
<1>5. CASE \E c \in Closest(s, d), p \in FreshPairs :
              mem' = [mem EXCEPT ![s][d].pair = p, ![s][c].pair = p]
  <2>1. PICK c \in Closest(s, d), p \in FreshPairs :
           mem' = [mem EXCEPT ![s][d].pair = p, ![s][c].pair = p]
    BY <1>5
  <2>2. c \in Rows /\ mem[s][c] # NoRow /\ p \in Pairs
    BY <2>1 DEF Closest, Partners, Unpaired, FreshPairs
  <2> DEFINE m == [mem[s] EXCEPT ![d].pair = p, ![c].pair = p]
  <2>3. mem \in [Sessions -> [Rows -> Row]] /\ mem[s] \in [Rows -> Row]
    BY DEF TypeOK
  <2>4. mem' = [mem EXCEPT ![s] = m]
    BY <1>3, <2>1, <2>2, <2>3
  <2>5. \A r \in Rows : m[r] = IF r \in {d, c} THEN [mem[s][r] EXCEPT !.pair = p] ELSE mem[s][r]
    BY <1>3, <2>2, <2>3
  <2>6. /\ m \in [Rows -> Row]
        /\ \A r \in Rows : m[r].pair = IF r \in {d, c} THEN p ELSE mem[s][r].pair
        /\ \A r \in Rows : mem[s][r] # NoRow => m[r] # NoRow
    <3>1. ASSUME NEW r \in Rows
          PROVE  /\ m[r] \in Row
                 /\ m[r].pair = IF r \in {d, c} THEN p ELSE mem[s][r].pair
                 /\ mem[s][r] # NoRow => m[r] # NoRow
      <4> HIDE DEF m
      <4>1. CASE r \in {d, c}
        <5>1. mem[s][r] \in Row /\ mem[s][r] # NoRow /\ m[r] = [mem[s][r] EXCEPT !.pair = p]
          BY <1>3, <2>2, <2>3, <2>5, <4>1
        <5> QED
          BY <2>2, <4>1, <5>1, SetPair
      <4>2. CASE r \notin {d, c}
        BY <2>3, <2>5, <4>2
      <4> QED
        BY <4>1, <4>2
    <3>2. m \in [Rows -> Row]
      BY <2>3, <3>1
    <3> QED
      BY <3>1, <3>2
  <2> HIDE DEF m
  <2>7. /\ mem'[s] = m
        /\ \A t \in Sessions \ {s} : mem'[t] = mem[t]
        /\ mem' \in [Sessions -> [Rows -> Row]]
    BY <2>3, <2>4, <2>6
  <2>8. TypeOK'
    BY <1>1, <1>2, <2>7 DEF TypeOK
  <2>9. Visiting'
    <3>1. \A t \in Sessions : todo'[t] \subseteq todo[t]
      BY <1>2 DEF TypeOK
    <3> QED
      BY <1>1, <2>6, <2>7, <3>1 DEF Visiting, TypeOK
  <2>10. Quiet'
    BY <1>1, <2>7 DEF Inv, Quiet
  <2>11. Few({d, c}) /\ {d, c} \in SUBSET Rows
    BY <1>3, <2>2 DEF Few
  <2>12. \A r \in Rows : New(s, r)' =>
            \/ New(s, r) /\ mem'[s][r].pair = mem[s][r].pair
            \/ r \in {d, c} /\ mem'[s][r].pair \in FreshPairs
    <3> SUFFICES ASSUME NEW r \in Rows, New(s, r)', r \notin {d, c}
                 PROVE  New(s, r) /\ mem'[s][r].pair = mem[s][r].pair
      BY <2>1, <2>6, <2>7
    <3>1. m[r] = mem[s][r]
      BY <2>5
    <3> QED
      BY <1>1, <2>7, <3>1 DEF New
  <2>13. \A q \in Rows : \/ mem'[s][q].pair \in {NoPair, row[q].pair, mem[s][q].pair}
                         \/ mem'[s][q].pair \in FreshPairs
    BY <2>1, <2>6, <2>7
  <2>14. Inv'
    BY <1>1, <2>7, <2>10, <2>11, <2>12, <2>13, HoldKeeps
  <2> QED
    BY <2>8, <2>9, <2>14
<1> QED
  BY <1>2, <1>4, <1>5

\* A session that has only to commit what it has changed.
LEMMA ReadyKeeps ==
    ASSUME IInv, NEW s \in Sessions, NEW m \in [Rows -> Row], Ready(s, snap[s], m),
           phase[s] \in {"match", "cleanup"}, todo[s] = {},
           UNCHANGED <<row, job, todo>>,
           \A r \in Rows : m[r] \in {NoRow, mem[s][r]}
    PROVE  IInv'
<1> USE DEF IInv
<1>1. /\ snap' = [snap EXCEPT ![s] = Differing(snap[s], m)]
      /\ mem' = [mem EXCEPT ![s] = Differing(m, snap[s])]
      /\ phase' = [phase EXCEPT ![s] = "commit"]
  BY DEF Ready
<1>2. TypeOK'
  <2>1. Differing(snap[s], m) \in [Rows -> Row] /\ Differing(m, snap[s]) \in [Rows -> Row]
    BY DifferingType DEF TypeOK
  <2> QED
    BY <1>1, <2>1 DEF TypeOK, Phases
<1>3. /\ \A t \in Sessions \ {s} : mem'[t] = mem[t] /\ snap'[t] = snap[t] /\ phase'[t] = phase[t]
      /\ \A r \in Rows : /\ mem'[s][r] = IF m[r] = snap[s][r] THEN NoRow ELSE m[r]
                         /\ snap'[s][r] = IF snap[s][r] = m[r] THEN NoRow ELSE snap[s][r]
      /\ phase'[s] = "commit"
  BY <1>1 DEF TypeOK, Differing
<1>4. Quiet'
  BY <1>3 DEF Quiet, Inv
<1>5. Visiting'
  BY <1>3 DEF Visiting
<1>6. Few({}) /\ {} \in SUBSET Rows
  BY DEF Few
<1>7. \A r \in Rows : New(s, r)' => New(s, r) /\ mem'[s][r].pair = mem[s][r].pair
  <2> SUFFICES ASSUME NEW r \in Rows, New(s, r)'
               PROVE  New(s, r) /\ mem'[s][r].pair = mem[s][r].pair
    OBVIOUS
  <2>1. mem'[s][r] = mem[s][r] /\ snap'[s][r] = snap[s][r]
    BY <1>3 DEF New
  <2> QED
    BY <2>1 DEF New
<1>8. \A q \in Rows : mem'[s][q].pair \in {NoPair, row[q].pair, mem[s][q].pair}
  BY <1>3, NoRowFacts
<1>9. Inv'
  BY <1>3, <1>4, <1>6, <1>7, <1>8, HoldKeeps
<1> QED
  BY <1>2, <1>5, <1>9

\* The end of that loop.
LEMMA EndMatchingKeeps ==
    ASSUME IInv, NEW s \in Sessions, EndMatching(s)
    PROVE  IInv'
<1> USE DEF IInv
<1>1. phase[s] = "match" /\ todo[s] = {} /\ row' = row /\ job' = job /\ todo' = todo
  BY DEF EndMatching
<1>2. CASE job[s] = "sync"
  <2>1. phase' = [phase EXCEPT ![s] = "cleanup"] /\ snap' = snap /\ mem' = mem
    BY <1>2 DEF EndMatching
  <2>2. TypeOK'
    BY <1>1, <2>1 DEF TypeOK, Phases
  <2>3. Visiting' /\ Quiet'
    BY <1>1, <2>1 DEF TypeOK, Visiting, Inv, Quiet
  <2>4. \A t \in Sessions : \A r \in Rows : New(t, r)' = New(t, r)
    BY <2>1 DEF New
  <2>5. Few({}) /\ {} \in SUBSET Rows
    BY DEF Few
  <2>6. \A q \in Rows : mem'[s][q].pair \in {NoPair, row[q].pair, mem[s][q].pair}
    BY <2>1
  <2>7. Inv'
    BY <1>1, <2>1, <2>3, <2>4, <2>5, <2>6, HoldKeeps
  <2> QED
    BY <2>2, <2>3, <2>7
<1>3. CASE job[s] # "sync"
  <2>1. Ready(s, snap[s], mem[s])
    BY <1>3 DEF EndMatching
  <2>2. mem[s] \in [Rows -> Row]
    BY DEF TypeOK
  <2> QED
    BY <1>1, <2>1, <2>2, ReadyKeeps
<1> QED
  BY <1>2, <1>3

\* _cleanup_phantom_duplicates drops rows from what the session holds.
LEMMA CleanupPhantomsKeeps ==
    ASSUME IInv, NEW s \in Sessions, CleanupPhantoms(s)
    PROVE  IInv'
<1> USE DEF IInv
<1> DEFINE m == [r \in Rows |-> IF r \in Phantoms(s) THEN NoRow ELSE mem[s][r]]
<1>1. phase[s] = "cleanup" /\ Ready(s, snap[s], m) /\ UNCHANGED <<row, job, todo>>
  BY DEF CleanupPhantoms
<1>2. m \in [Rows -> Row] /\ \A r \in Rows : m[r] \in {NoRow, mem[s][r]}
  BY NoRowFacts DEF TypeOK
<1>3. todo[s] = {}
  BY <1>1 DEF Visiting
<1> HIDE DEF m
<1> QED
  BY <1>1, <1>2, <1>3, ReadyKeeps

\* An UPDATE that has matched no row: the session is rolled back.
LEMMA FailKeeps ==
    ASSUME IInv, NEW s \in Sessions, Fail(s)
    PROVE  IInv'
<1> USE DEF IInv
<1>1. Close(s) /\ row' = row
  BY DEF Fail
<1>2. /\ \A t \in Sessions \ {s} : mem'[t] = mem[t] /\ snap'[t] = snap[t] /\ phase'[t] = phase[t]
      /\ mem'[s] = NoRows /\ snap'[s] = NoRows /\ todo'[s] = {}
      /\ \A t \in Sessions \ {s} : todo'[t] = todo[t]
      /\ phase' \in [Sessions -> Phases] /\ job' \in [Sessions -> Jobs]
      /\ snap' \in [Sessions -> [Rows -> Row]] /\ mem' \in [Sessions -> [Rows -> Row]]
      /\ todo' \in [Sessions -> SUBSET Rows]
  BY <1>1, CloseFacts
<1>3. TypeOK'
  BY <1>1, <1>2 DEF TypeOK
<1>4. \A r \in Rows : mem'[s][r] = NoRow /\ snap'[s][r] = NoRow
  BY <1>2 DEF NoRows
<1>5. Quiet'
  BY <1>2, <1>4, NoRowFacts DEF Inv, Quiet
<1>6. Visiting'
  BY <1>2 DEF Visiting
<1>7. \A r \in Rows : ~New(s, r)'
  BY <1>4 DEF New
<1>8. Few({}) /\ {} \in SUBSET Rows
  BY DEF Few
<1>9. \A q \in Rows : mem'[s][q].pair \in {NoPair, row[q].pair, mem[s][q].pair}
  BY <1>4, NoRowFacts
<1>10. Inv'
  BY <1>1, <1>2, <1>5, <1>7, <1>8, <1>9, HoldKeeps
<1> QED
  BY <1>3, <1>6, <1>10

-----------------------------------------------------------------------------
(* Single statements on the table *)

\* Rows added without an id, or removed.
LEMMA TableKeeps ==
    ASSUME IInv, row' \in [Rows -> Row], UNCHANGED <<phase, job, snap, mem, todo>>,
           \A r \in Rows : row'[r].pair \in {NoPair, row[r].pair}
    PROVE  IInv'
<1> USE DEF IInv, Inv
<1>1. TypeOK' /\ Visiting' /\ Quiet'
  BY DEF TypeOK, Visiting, Quiet
<1>2. \A s \in Sessions : \A r \in Rows : New(s, r)' = New(s, r)
  BY DEF New
<1>3. Exclusive'
  <2> SUFFICES ASSUME NEW s \in Sessions, NEW r \in Rows, New(s, r), NEW q \in Rows
               PROVE  /\ row'[q].pair # mem[s][r].pair
                      /\ \A t \in Sessions \ {s} : mem[t][q].pair # mem[s][r].pair
    BY <1>2 DEF Exclusive
  <2>1. mem[s][r].pair # NoPair
    BY DEF New
  <2>2. /\ row[q].pair # mem[s][r].pair
        /\ \A t \in Sessions \ {s} : mem[t][q].pair # mem[s][r].pair
    BY DEF Exclusive
  <2> QED
    BY <2>1, <2>2
<1>4. TwoNew'
  BY <1>2 DEF TwoNew
<1>5. AtMostTwoLegs'
  BY DEF AtMostTwoLegs, Partner
<1> QED
  BY <1>1, <1>3, <1>4, <1>5

\* create_transaction and import_transactions.
LEMMA AddRowKeeps ==
    ASSUME IInv, AddRow
    PROVE  IInv'
<1>1. PICK r \in FreshRows, src \in Entered, a \in Accounts, t \in Types, d \in Days, n \in Amounts :
         row' = [row EXCEPT ![r] = Enter(src, a, t, d, n)]
  BY DEF AddRow
<1>2. Enter(src, a, t, d, n) \in Row /\ Enter(src, a, t, d, n).pair = NoPair
  BY PairsAssumption, NewRow
<1>3. row \in [Rows -> Row] /\ UNCHANGED <<phase, job, snap, mem, todo>>
  BY DEF IInv, TypeOK, AddRow
<1>4. row' \in [Rows -> Row] /\ \A q \in Rows : row'[q].pair \in {NoPair, row[q].pair}
  BY <1>1, <1>2, <1>3
<1> QED
  BY <1>3, <1>4, TableKeeps

\* delete_import_log, delete_account and delete_connection.
LEMMA BulkKeeps ==
    ASSUME IInv, Bulk
    PROVE  IInv'
<1>1. /\ UNCHANGED <<phase, job, snap, mem, todo>>
      /\ \/ row' = [r \in Rows |-> IF row[r].source = "import" THEN NoRow ELSE row[r]]
         \/ \E a \in Accounts : row' = [r \in Rows |-> IF row[r].account = a THEN NoRow ELSE row[r]]
  BY DEF Bulk, UndoImport, DeleteAccount
<1>2. row' \in [Rows -> Row] /\ \A r \in Rows : row'[r].pair \in {NoPair, row[r].pair}
  BY <1>1, NoRowFacts DEF IInv, TypeOK
<1> QED
  BY <1>1, <1>2, TableKeeps

-----------------------------------------------------------------------------
(* The theorems *)

\* The empty table satisfies the inductive invariant.
LEMMA InitIInv == Init => IInv
<1> SUFFICES ASSUME Init PROVE IInv
  OBVIOUS
<1>1. TypeOK
  BY NoRowsType DEF Init, TypeOK, Phases, Jobs
<1>2. \A s \in Sessions : \A r \in Rows : ~New(s, r)
  BY DEF Init, New, NoRows
<1>3. Quiet /\ Visiting
  BY NoRowFacts DEF Init, Quiet, Visiting, NoRows
<1>4. AtMostTwoLegs
  BY NoRowFacts DEF Init, AtMostTwoLegs, Partner, NoRows
<1> QED
  BY <1>1, <1>2, <1>3, <1>4 DEF IInv, Inv, Exclusive, TwoNew

\* Every step preserves the inductive invariant, one case per action.
LEMMA NextIInv == IInv /\ [Next]_vars => IInv'
<1> SUFFICES ASSUME IInv, [Next]_vars PROVE IInv'
  OBVIOUS
<1>1. CASE UNCHANGED vars
  <2>1. row' = row /\ phase' = phase /\ job' = job /\ snap' = snap /\ mem' = mem /\ todo' = todo
    BY <1>1 DEF vars
  <2>2. row' \in [Rows -> Row] /\ \A r \in Rows : row'[r].pair \in {NoPair, row[r].pair}
    BY <2>1 DEF IInv, TypeOK
  <2> QED
    BY <2>1, <2>2, TableKeeps
<1>2. CASE AddRow
  BY <1>2, AddRowKeeps
<1>3. CASE Bulk
  BY <1>3, BulkKeeps
<1>4. ASSUME NEW s \in Sessions, UserRequest(s) \/ FlipType(s)
      PROVE  IInv'
  BY <1>4, LinkKeeps, CreateTransferKeeps, CreateCounterpartKeeps, UnlinkKeeps, EditDateKeeps,
     MoveKeeps, DeleteKeeps, FlipTypeKeeps DEF UserRequest
<1>5. ASSUME NEW s \in Sessions, BankTask(s)
      PROVE  IInv'
  BY <1>5, StartSyncKeeps, InsertChargeKeeps, EndInsertsKeeps, CleanupPhantomsKeeps DEF BankTask, Jobs
<1>6. ASSUME NEW s \in Sessions, Detection(s)
      PROVE  IInv'
  BY <1>6, DetectAllKeeps, MatchDebitKeeps, EndMatchingKeeps DEF Detection
<1>7. ASSUME NEW s \in Sessions, Commit(s) \/ Fail(s)
      PROVE  IInv'
  BY <1>7, CommitKeeps, FailKeeps
<1> QED
  BY <1>1, <1>2, <1>3, <1>4, <1>5, <1>6, <1>7 DEF Next

\* Requests, tasks and bulk deletions keep the table, and what each session
\* holds of it, in their types (every handler of TransferPairs).
THEOREM TypeCorrect == Spec => []TypeOK
<1>1. IInv => TypeOK
  BY DEF IInv
<1> QED
  BY <1>1, InitIInv, NextIInv, PTL DEF Spec

\* However many requests overlap, no transfer_pair_id is ever on three rows:
\* link, counterpart, transfer, detection and what they race with.
THEOREM TwoLegs == Spec => []AtMostTwoLegs
<1>1. IInv => AtMostTwoLegs
  BY DEF IInv, Inv
<1> QED
  BY <1>1, InitIInv, NextIInv, PTL DEF Spec

-----------------------------------------------------------------------------
(* What a detection finds *)

\* The debits a detection has visited have taken a credit or there is none.
Looked(s) ==
    phase[s] = "match" => \A d \in Unpaired(s, "debit") \ todo[s] : Partners(s, d) = {}

\* A sync that detects has inserted rows, and what it pairs has one of them.
NewOnly(s) ==
    job[s] = "sync" => PairsNew(s) /\ (phase[s] = "match" => Candidates(s) # {})

Detected(s) == Looked(s) /\ NewOnly(s)

Untouched(t) == /\ phase'[t] = phase[t] /\ job'[t] = job[t] /\ todo'[t] = todo[t]
                /\ snap'[t] = snap[t] /\ mem'[t] = mem[t]

LEMMA UntouchedDetected ==
    ASSUME NEW t \in Sessions, Untouched(t), Detected(t)
    PROVE  Detected(t)'
<1> USE DEF Untouched
<1>1. /\ Candidates(t)' = Candidates(t)
      /\ Unpaired(t, "debit")' = Unpaired(t, "debit")
      /\ \A d \in Rows : Partners(t, d)' = Partners(t, d)
  BY DEF Candidates, Unpaired, Partners
<1>2. PairsNew(t)' = PairsNew(t)
  BY <1>1 DEF PairsNew
<1>3. Unpaired(t, "debit") \subseteq Rows
  BY DEF Unpaired
<1> QED
  BY <1>1, <1>2, <1>3 DEF Detected, Looked, NewOnly

\* A session works on its own copies.
LEMMA OthersUntouched ==
    ASSUME TypeOK, NEW s \in Sessions,
           \/ UserRequest(s) \/ FlipType(s) \/ BankTask(s) \/ Detection(s)
           \/ Commit(s) \/ Fail(s)
    PROVE  \A t \in Sessions \ {s} : Untouched(t)
<1> USE DEF TypeOK, Untouched
<1>1. ASSUME NEW old, NEW m, Ready(s, old, m), todo' = todo,
             job' = job \/ job' = [job EXCEPT ![s] = "request"]
      PROVE  \A t \in Sessions \ {s} : Untouched(t)
  BY <1>1 DEF Ready
<1>2. CASE UserRequest(s) \/ FlipType(s)
  <2>1. \E m : Request(s, m)
    BY <1>2 DEF UserRequest, Link, CreateTransfer, CreateCounterpart, Unlink, EditDate, Move,
                Delete, FlipType
  <2> QED
    BY <1>1, <2>1 DEF Request
<1>3. ASSUME StartMatching(s), job' = job \/ job' = [job EXCEPT ![s] = "detect"]
      PROVE  \A t \in Sessions \ {s} : Untouched(t)
  BY <1>3 DEF StartMatching, Read
<1>4. CASE BankTask(s)
  <2>1. CASE StartSync(s, "sync") \/ StartSync(s, "connect") \/ InsertCharge(s)
    BY <2>1 DEF StartSync, InsertCharge
  <2>2. CASE EndInserts(s)
    BY <1>3, <2>2 DEF EndInserts, Read
  <2>3. CASE CleanupPhantoms(s)
    BY <1>1, <2>3 DEF CleanupPhantoms
  <2> QED
    BY <1>4, <2>1, <2>2, <2>3 DEF BankTask
<1>5. CASE Detection(s)
  <2>1. CASE DetectAll(s)
    BY <1>3, <2>1 DEF DetectAll
  <2>2. CASE MatchDebit(s)
    BY <2>2 DEF MatchDebit
  <2>3. CASE EndMatching(s)
    BY <1>1, <2>3 DEF EndMatching
  <2> QED
    BY <1>5, <2>1, <2>2, <2>3 DEF Detection
<1>6. CASE Commit(s) \/ Fail(s)
  BY <1>6 DEF Commit, Fail, Close
<1> QED
  BY <1>2, <1>4, <1>5, <1>6

\* What a session holds after its queries: the rows it has inserted, and the
\* committed ones as they are.
LEMMA ReadDetected ==
    ASSUME IInv, NEW s \in Sessions, Read(s), phase[s] = "insert"
    PROVE  PairsNew(s)' /\ Candidates(s) \subseteq Candidates(s)'
<1>1. \A r \in Rows : /\ snap'[s][r] = IF mem[s][r] # NoRow THEN NoRow ELSE row[r]
                      /\ mem'[s][r] = IF mem[s][r] # NoRow THEN mem[s][r] ELSE row[r]
  BY DEF Read, IInv, TypeOK
<1>2. \A r \in Rows : mem[s][r].pair = NoPair
  BY DEF IInv, Inv, Quiet
<1>3. \A r \in Rows : mem'[s][r].pair # NoPair => snap'[s][r] = mem'[s][r]
  BY <1>1, <1>2
<1> QED
  BY <1>1, <1>3 DEF PairsNew, Candidates

LEMMA StartMatchingLooked ==
    ASSUME IInv, NEW s \in Sessions, StartMatching(s)
    PROVE  Looked(s)'
<1>1. todo'[s] = DebitsToMatch(mem'[s], Candidates(s))
  BY DEF StartMatching, IInv, TypeOK
<1>2. Unpaired(s, "debit")' = todo'[s]
  BY <1>1 DEF Unpaired, DebitsToMatch
<1> QED
  BY <1>2 DEF Looked

\* One turn of the loop: the debit finds nothing, or it and a credit get an id.
LEMMA MatchFacts ==
    ASSUME IInv, NEW s \in Sessions, MatchDebit(s)
    PROVE  /\ phase'[s] = phase[s] /\ job'[s] = job[s] /\ snap'[s] = snap[s]
           /\ \E d \in todo[s] :
                /\ d \in Rows /\ mem[s][d] # NoRow
                /\ todo'[s] = todo[s] \ {d}
                /\ \/ Partners(s, d) = {} /\ mem'[s] = mem[s]
                   \/ \E c \in Partners(s, d), p \in FreshPairs : \A r \in Rows :
                         /\ r \in {d, c} => mem'[s][r] # NoRow /\ mem'[s][r].pair = p
                         /\ r \notin {d, c} => mem'[s][r] = mem[s][r]
<1> USE DEF IInv
<1>1. /\ phase[s] = "match" /\ phase' = phase /\ job' = job /\ snap' = snap
  BY DEF MatchDebit
<1>2. PICK d \in todo[s] :
         /\ todo' = [todo EXCEPT ![s] = @ \ {d}]
         /\ \/ /\ Partners(s, d) = {}
               /\ UNCHANGED mem
            \/ \E c \in Closest(s, d), p \in FreshPairs :
                  mem' = [mem EXCEPT ![s][d].pair = p, ![s][c].pair = p]
  BY DEF MatchDebit
<1>3. d \in Rows /\ mem[s][d] # NoRow /\ todo'[s] = todo[s] \ {d}
  BY <1>2 DEF TypeOK, Visiting
<1>4. CASE \E c \in Closest(s, d), p \in FreshPairs :
              mem' = [mem EXCEPT ![s][d].pair = p, ![s][c].pair = p]
  <2>1. PICK c \in Closest(s, d), p \in FreshPairs :
           mem' = [mem EXCEPT ![s][d].pair = p, ![s][c].pair = p]
    BY <1>4
  <2>2. c \in Partners(s, d) /\ c \in Rows /\ mem[s][c] # NoRow /\ p \in Pairs
    BY <2>1 DEF Closest, Partners, Unpaired, FreshPairs
  <2>3. mem \in [Sessions -> [Rows -> Row]]
    BY DEF TypeOK
  <2>4. \A r \in Rows : mem'[s][r] = IF r \in {d, c} THEN [mem[s][r] EXCEPT !.pair = p]
                                                   ELSE mem[s][r]
    BY <1>3, <2>1, <2>2, <2>3
  <2>5. ASSUME NEW r \in {d, c} PROVE mem'[s][r] # NoRow /\ mem'[s][r].pair = p
    <3>1. r \in Rows /\ mem[s][r] # NoRow /\ mem[s][r] \in Row
      BY <1>3, <2>2, <2>3
    <3>2. mem'[s][r] = [mem[s][r] EXCEPT !.pair = p]
      BY <2>4, <3>1
    <3>3. p \in Pairs \cup {NoPair}
      BY <2>2
    <3>4. mem'[s][r] \in Row \ {NoRow} /\ mem'[s][r].pair = p
      BY <3>1, <3>2, <3>3, SetPair
    <3> QED
      BY <3>4
  <2>6. \A r \in Rows : /\ r \in {d, c} => mem'[s][r] # NoRow /\ mem'[s][r].pair = p
                        /\ r \notin {d, c} => mem'[s][r] = mem[s][r]
    BY <2>4, <2>5
  <2>7. \E c2 \in Partners(s, d), p2 \in FreshPairs : \A r \in Rows :
           /\ r \in {d, c2} => mem'[s][r] # NoRow /\ mem'[s][r].pair = p2
           /\ r \notin {d, c2} => mem'[s][r] = mem[s][r]
    BY <2>1, <2>2, <2>6
  <2> QED
    BY <1>1, <1>3, <2>7
<1>5. CASE Partners(s, d) = {} /\ UNCHANGED mem
  BY <1>1, <1>3, <1>5
<1> QED
  BY <1>2, <1>4, <1>5

LEMMA MatchDetected ==
    ASSUME IInv, NEW s \in Sessions, MatchDebit(s), Detected(s)
    PROVE  Detected(s)'
<1>1. phase'[s] = phase[s] /\ job'[s] = job[s] /\ snap'[s] = snap[s]
  BY MatchFacts
<1>2. PICK d \in todo[s] :
         /\ d \in Rows /\ mem[s][d] # NoRow
         /\ todo'[s] = todo[s] \ {d}
         /\ \/ Partners(s, d) = {} /\ mem'[s] = mem[s]
            \/ \E c \in Partners(s, d), p \in FreshPairs : \A r \in Rows :
                  /\ r \in {d, c} => mem'[s][r] # NoRow /\ mem'[s][r].pair = p
                  /\ r \notin {d, c} => mem'[s][r] = mem[s][r]
  BY MatchFacts
<1>3. phase[s] = "match"
  BY DEF MatchDebit
<1>4. CASE Partners(s, d) = {} /\ mem'[s] = mem[s]
  <2>1. /\ Candidates(s)' = Candidates(s)
        /\ Unpaired(s, "debit")' = Unpaired(s, "debit")
        /\ \A e \in Rows : Partners(s, e)' = Partners(s, e)
    BY <1>1, <1>4 DEF Candidates, Unpaired, Partners
  <2>2. Looked(s)'
    BY <1>2, <1>3, <1>4, <2>1 DEF Detected, Looked, Unpaired
  <2>3. NewOnly(s)'
    BY <1>1, <1>4, <2>1 DEF Detected, NewOnly, PairsNew
  <2> QED
    BY <2>2, <2>3 DEF Detected
<1>5. CASE \E c \in Partners(s, d), p \in FreshPairs : \A r \in Rows :
              /\ r \in {d, c} => mem'[s][r] # NoRow /\ mem'[s][r].pair = p
              /\ r \notin {d, c} => mem'[s][r] = mem[s][r]
  <2>1. PICK c \in Partners(s, d), p \in FreshPairs : \A r \in Rows :
              /\ r \in {d, c} => mem'[s][r] # NoRow /\ mem'[s][r].pair = p
              /\ r \notin {d, c} => mem'[s][r] = mem[s][r]
    BY <1>5
  <2>2. /\ c \in Rows /\ mem[s][c] # NoRow
        /\ p # NoPair /\ \A r \in Rows : mem[s][r].pair # p
        /\ (Candidates(s) # {} /\ d \notin Candidates(s)) => c \in Candidates(s)
    BY PairsAssumption DEF Partners, Unpaired, FreshPairs
  <2>3. Candidates(s)' = Candidates(s)
    BY <1>1, <1>2, <2>1, <2>2 DEF Candidates
  <2>4. ASSUME NEW t \in Types
        PROVE  /\ Unpaired(s, t)' \subseteq Unpaired(s, t) \ {d, c}
               /\ \A r \in Unpaired(s, t)' : mem'[s][r] = mem[s][r]
    BY <2>1, <2>2 DEF Unpaired
  <2>5. \A e \in Unpaired(s, "debit")' : Partners(s, e)' \subseteq Partners(s, e)
    BY <2>3, <2>4 DEF Partners, Types
  <2>6. Looked(s)'
    BY <1>2, <1>3, <2>4, <2>5 DEF Detected, Looked, Types
  <2>7. ASSUME job[s] = "sync" PROVE PairsNew(s)'
    <3> SUFFICES ASSUME NEW x \in Rows, NEW y \in Rows, x # y,
                        mem'[s][x].pair # NoPair, mem'[s][x].pair = mem'[s][y].pair
                 PROVE  \/ x \in Candidates(s) \/ y \in Candidates(s)
                        \/ snap[s][x].pair = mem'[s][x].pair
      BY <1>1, <2>3 DEF PairsNew
    <3>1. CASE x \in {d, c}
      <4>1. y \in {d, c}
        BY <2>1, <2>2, <3>1
      <4> QED
        BY <1>3, <2>2, <2>7, <3>1, <4>1 DEF Detected, NewOnly
    <3>2. CASE x \notin {d, c}
      <4>1. y \notin {d, c}
        BY <2>1, <2>2, <3>2
      <4> QED
        BY <2>1, <2>7, <3>2, <4>1 DEF Detected, NewOnly, PairsNew
    <3> QED
      BY <3>1, <3>2
  <2>8. NewOnly(s)'
    BY <1>1, <1>3, <2>3, <2>7 DEF Detected, NewOnly
  <2> QED
    BY <2>6, <2>8 DEF Detected
<1> QED
  BY <1>2, <1>4, <1>5

\* Dropping phantoms and what has not changed pairs nothing.
LEMMA CleanupDetected ==
    ASSUME IInv, NEW s \in Sessions, CleanupPhantoms(s), Detected(s)
    PROVE  Detected(s)'
<1> DEFINE m == [r \in Rows |-> IF r \in Phantoms(s) THEN NoRow ELSE mem[s][r]]
<1>1. Ready(s, snap[s], m) /\ job' = job
  BY DEF CleanupPhantoms
<1>2. \A r \in Rows : /\ mem'[s][r] = IF m[r] = snap[s][r] THEN NoRow ELSE m[r]
                      /\ snap'[s][r] = IF snap[s][r] = m[r] THEN NoRow ELSE snap[s][r]
                      /\ m[r] \in {NoRow, mem[s][r]}
  BY <1>1 DEF Ready, Differing, IInv, TypeOK
<1>3. phase'[s] = "commit"
  BY <1>1 DEF Ready, IInv, TypeOK
<1> HIDE DEF m
<1>4. ASSUME job[s] = "sync" PROVE PairsNew(s)'
  <2> SUFFICES ASSUME NEW x \in Rows, NEW y \in Rows, x # y,
                      mem'[s][x].pair # NoPair, mem'[s][x].pair = mem'[s][y].pair
               PROVE  \/ x \in Candidates(s)' \/ y \in Candidates(s)'
                      \/ snap'[s][x].pair = mem'[s][x].pair
    BY DEF PairsNew
  <2>1. ASSUME NEW r \in Rows, mem'[s][r].pair # NoPair
        PROVE  /\ mem'[s][r] = mem[s][r] /\ mem'[s][r] # NoRow
               /\ snap'[s][r] = snap[s][r]
    BY <1>2, <2>1, NoRowFacts
  <2>2. PairsNew(s)
    BY <1>4 DEF Detected, NewOnly
  <2>3. \/ x \in Candidates(s) \/ y \in Candidates(s) \/ snap[s][x].pair = mem[s][x].pair
    BY <2>1, <2>2 DEF PairsNew
  <2> QED
    BY <2>1, <2>3 DEF Candidates
<1> QED
  BY <1>1, <1>3, <1>4 DEF Detected, Looked, NewOnly

\* Whatever a session does, what it has detected is right.
LEMMA SessionDetected ==
    ASSUME IInv, NEW s \in Sessions, Detected(s), Quiet',
           \/ UserRequest(s) \/ FlipType(s) \/ BankTask(s) \/ Detection(s)
           \/ Commit(s) \/ Fail(s)
    PROVE  Detected(s)'
<1> USE DEF IInv, Detected
<1>1. CASE UserRequest(s) \/ FlipType(s)
  <2>1. \E m : Request(s, m)
    BY <1>1 DEF UserRequest, Link, CreateTransfer, CreateCounterpart, Unlink, EditDate, Move,
                Delete, FlipType
  <2>2. phase'[s] = "commit" /\ job'[s] = "request"
    BY <2>1 DEF Request, Ready, TypeOK
  <2> QED
    BY <2>2 DEF Looked, NewOnly
<1>2. CASE StartSync(s, "sync") \/ StartSync(s, "connect") \/ InsertCharge(s)
  <2>1. phase'[s] = "insert"
    BY <1>2 DEF StartSync, InsertCharge, TypeOK
  <2>2. \A r \in Rows : mem'[s][r].pair = NoPair
    BY <2>1 DEF Quiet
  <2> QED
    BY <2>1, <2>2 DEF Looked, NewOnly, PairsNew
<1>3. CASE EndInserts(s)
  <2>1. Read(s) /\ phase[s] = "insert" /\ job' = job
    BY <1>3 DEF EndInserts, StartMatching
  <2>2. PairsNew(s)' /\ Candidates(s) \subseteq Candidates(s)'
    BY <2>1, ReadDetected
  <2>3. CASE job[s] = "sync" /\ Candidates(s) = {}
    <3>1. phase'[s] = "cleanup"
      BY <1>3, <2>3 DEF EndInserts, TypeOK
    <3> QED
      BY <2>2, <3>1 DEF Looked, NewOnly
  <2>4. CASE ~(job[s] = "sync" /\ Candidates(s) = {})
    <3>1. StartMatching(s)
      BY <1>3, <2>4 DEF EndInserts
    <3>2. Looked(s)'
      BY <3>1, StartMatchingLooked
    <3> QED
      BY <2>1, <2>2, <2>4, <3>2 DEF NewOnly
  <2> QED
    BY <2>3, <2>4
<1>4. CASE CleanupPhantoms(s)
  BY <1>4, CleanupDetected
<1>5. CASE DetectAll(s)
  <2>1. StartMatching(s) /\ job'[s] = "detect"
    BY <1>5 DEF DetectAll, TypeOK
  <2> QED
    BY <2>1, StartMatchingLooked DEF NewOnly
<1>6. CASE MatchDebit(s)
  BY <1>6, MatchDetected
<1>7. CASE EndMatching(s)
  <2>1. CASE job[s] = "sync"
    <3>1. phase'[s] = "cleanup" /\ snap' = snap /\ mem' = mem
      BY <1>7, <2>1 DEF EndMatching, TypeOK
    <3>2. PairsNew(s)' = PairsNew(s)
      BY <3>1 DEF PairsNew, Candidates
    <3> QED
      BY <2>1, <3>1, <3>2 DEF Looked, NewOnly
  <2>2. CASE job[s] # "sync"
    <3>1. phase'[s] = "commit" /\ job'[s] = job[s]
      BY <1>7, <2>2 DEF EndMatching, Ready, TypeOK
    <3> QED
      BY <2>2, <3>1 DEF Looked, NewOnly
  <2> QED
    BY <2>1, <2>2
<1>8. CASE Commit(s) \/ Fail(s)
  <2>1. phase'[s] = "idle" /\ job'[s] = "none"
    BY <1>8 DEF Commit, Fail, Close, TypeOK
  <2> QED
    BY <2>1 DEF Looked, NewOnly
<1> QED
  BY <1>1, <1>2, <1>3, <1>4, <1>5, <1>6, <1>7, <1>8 DEF BankTask, Detection

LEMMA NextDetected ==
    ASSUME IInv, [Next]_vars, \A s \in Sessions : Detected(s)
    PROVE  \A s \in Sessions : Detected(s)'
<1>1. IInv'
  BY NextIInv
<1>2. CASE UNCHANGED <<phase, job, snap, mem, todo>>
  BY <1>2, UntouchedDetected DEF Untouched
<1>3. ASSUME NEW s \in Sessions,
             \/ UserRequest(s) \/ FlipType(s) \/ BankTask(s) \/ Detection(s)
             \/ Commit(s) \/ Fail(s)
      PROVE  \A t \in Sessions : Detected(t)'
  <2>1. Detected(s)'
    BY <1>1, <1>3, SessionDetected DEF IInv, Inv
  <2>2. \A t \in Sessions \ {s} : Untouched(t)
    BY <1>3, OthersUntouched DEF IInv
  <2> QED
    BY <2>1, <2>2, UntouchedDetected
<1>4. CASE AddRow \/ Bulk
  BY <1>2, <1>4 DEF AddRow, Bulk, UndoImport, DeleteAccount
<1> QED
  BY <1>2, <1>3, <1>4 DEF Next, vars

\* When a detection is through, no debit and credit that could be a transfer
\* are left, and a sync pairs nothing that was there before it, whatever runs
\* at the same time (detect_transfer_pairs and sync_connection).
THEOREM DetectionRight == Spec => []DetectionFaithful
<1> DEFINE DInv == IInv /\ \A s \in Sessions : Detected(s)
<1>1. Init => DInv
  <2> SUFFICES ASSUME Init PROVE DInv
    OBVIOUS
  <2>1. \A s \in Sessions : phase[s] = "idle" /\ job[s] = "none"
    BY DEF Init
  <2> QED
    BY <2>1, InitIInv DEF Detected, Looked, NewOnly
<1>2. DInv /\ [Next]_vars => DInv'
  BY NextIInv, NextDetected
<1>3. DInv => DetectionFaithful
  BY DEF Detected, Looked, NewOnly, DetectionFaithful, DetectionExhausts, SyncPairsNew
<1> HIDE DEF DInv
<1> QED
  BY <1>1, <1>2, <1>3, PTL DEF Spec

-----------------------------------------------------------------------------
(* Requests that run one at a time.  When they overlap a leg can be left    *)
(* alone, see TransferPairs: only AtMostTwoLegs survives, proved above.     *)

(* Tables *)

\* a and b carry one transfer_pair_id in table T.
MateIn(T, a, b) == a # b /\ T[a].pair # NoPair /\ T[a].pair = T[b].pair

\* Two rows that can be the legs of a transfer.
Fit(x, y) == x.type # y.type /\ x.account # y.account

\* Every row of table T that carries a transfer_pair_id has exactly one other
\* leg, of the other type and in another account.
Good(T) ==
    \A a \in Rows : T[a].pair # NoPair =>
       \E b \in Rows : /\ MateIn(T, a, b) /\ Fit(T[a], T[b])
                       /\ \A c \in Rows : MateIn(T, a, c) => c = b

\* From table T to table U no couple is separated, or none is joined.
Joins(T, U) == \A r \in Rows : T[r].pair # NoPair => U[r].pair = T[r].pair
Separates(T, U) == \A r \in Rows : U[r].pair # NoPair => T[r].pair = U[r].pair

\* No request changes where a row comes from, or its amount.
Same(T, U) == \A r \in Rows : (T[r] # NoRow /\ U[r] # NoRow) =>
                 U[r].source = T[r].source /\ U[r].amount = T[r].amount

\* The table as session s leaves it.
Outcome(s) == [r \in Rows |-> Written(s, r)]

\* What a session that works alone holds.
Serial(s) ==
    /\ phase[s] = "idle" => \A r \in Rows : mem[s][r] = NoRow
    /\ phase[s] = "insert" => \A r \in Rows : mem[s][r] # NoRow => row[r] = NoRow
    /\ phase[s] = "match" => todo[s] \subseteq Unpaired(s, "debit")
    /\ phase[s] \in {"match", "cleanup"} =>
          /\ \A r \in Rows : snap[s][r] = row[r]
          /\ Good(mem[s]) /\ Joins(row, mem[s]) /\ Same(row, mem[s])
    /\ phase[s] = "commit" =>
          /\ Good(Outcome(s))
          /\ Joins(row, Outcome(s)) \/ Separates(row, Outcome(s))

SerialInv == Good(row) /\ \A s \in Sessions : Serial(s)

\* Tables that agree on the columns of every paired row are good together.
LEMMA SameGood ==
    ASSUME NEW T, NEW U, Good(T),
           \A r \in Rows : /\ U[r].pair = T[r].pair
                           /\ T[r].pair # NoPair => /\ U[r].type = T[r].type
                                                    /\ U[r].account = T[r].account
    PROVE  Good(U) /\ Joins(T, U)
  BY DEF Good, MateIn, Fit, Joins

\* Two free rows of opposite types in two accounts get an id nobody has.
LEMMA JoinGood ==
    ASSUME NEW T, NEW U, Good(T), NEW a \in Rows, NEW b \in Rows, a # b, NEW p, p # NoPair,
           \A r \in Rows : T[r].pair # p,
           T[a].pair = NoPair, T[b].pair = NoPair, U[a].pair = p, U[b].pair = p,
           Fit(U[a], U[b]), \A r \in Rows \ {a, b} : U[r] = T[r]
    PROVE  Good(U) /\ Joins(T, U)
<1>1. Joins(T, U)
  BY DEF Joins
<1>2. ASSUME NEW x \in Rows, U[x].pair # NoPair
      PROVE  \E y \in Rows : /\ MateIn(U, x, y) /\ Fit(U[x], U[y])
                             /\ \A z \in Rows : MateIn(U, x, z) => z = y
  <2>1. CASE x = a
    <3>1. MateIn(U, a, b) /\ \A z \in Rows : MateIn(U, a, z) => z = b
      BY DEF MateIn
    <3> QED
      BY <2>1, <3>1
  <2>2. CASE x = b
    <3>1. MateIn(U, b, a) /\ \A z \in Rows : MateIn(U, b, z) => z = a
      BY DEF MateIn
    <3>2. Fit(U[b], U[a])
      BY DEF Fit
    <3> QED
      BY <2>2, <3>1, <3>2
  <2>3. CASE x \notin {a, b}
    <3>1. U[x] = T[x] /\ T[x].pair # NoPair /\ T[x].pair # p
      BY <1>2, <2>3
    <3>2. PICK y \in Rows : /\ MateIn(T, x, y) /\ Fit(T[x], T[y])
                            /\ \A z \in Rows : MateIn(T, x, z) => z = y
      BY <3>1 DEF Good
    <3>3. y \notin {a, b} /\ U[y] = T[y]
      BY <3>1, <3>2 DEF MateIn
    <3>4. \A z \in Rows : MateIn(U, x, z) => MateIn(T, x, z)
      BY <3>1 DEF MateIn
    <3>5. MateIn(U, x, y) /\ Fit(U[x], U[y])
      BY <3>1, <3>2, <3>3 DEF MateIn
    <3> QED
      BY <3>2, <3>4, <3>5
  <2> QED
    BY <2>1, <2>2, <2>3
<1> QED
  BY <1>1, <1>2 DEF Good

\* Rows leave their transfers, each with its other leg.
LEMMA DropGood ==
    ASSUME NEW T, NEW U, Good(T), NEW S \in SUBSET Rows,
           \A r \in S : U[r].pair = NoPair, \A r \in Rows \ S : U[r] = T[r],
           \A x \in S, y \in Rows : MateIn(T, x, y) => y \in S
    PROVE  Good(U) /\ Separates(T, U)
<1>1. \A x \in Rows : U[x].pair # NoPair => x \notin S /\ U[x] = T[x]
  OBVIOUS
<1>2. ASSUME NEW x \in Rows, U[x].pair # NoPair
      PROVE  \E y \in Rows : /\ MateIn(U, x, y) /\ Fit(U[x], U[y])
                             /\ \A z \in Rows : MateIn(U, x, z) => z = y
  <2>1. PICK y \in Rows : /\ MateIn(T, x, y) /\ Fit(T[x], T[y])
                          /\ \A z \in Rows : MateIn(T, x, z) => z = y
    BY <1>1, <1>2 DEF Good
  <2>2. y \notin S
    BY <1>1, <1>2, <2>1 DEF MateIn
  <2>3. \A z \in Rows : MateIn(U, x, z) => MateIn(T, x, z)
    BY <1>1, <1>2 DEF MateIn
  <2>4. MateIn(U, x, y) /\ Fit(U[x], U[y])
    BY <1>1, <1>2, <2>1, <2>2 DEF MateIn
  <2> QED
    BY <2>1, <2>3, <2>4
<1> QED
  BY <1>1, <1>2 DEF Good, Separates

-----------------------------------------------------------------------------
(* What a session commits *)

\* An UPDATE of a row nobody else has touched writes it as the session holds it.
LEMMA UpdateWhole ==
    ASSUME NEW x \in Row, x # NoRow, NEW y \in Row, y # NoRow,
           y.source = x.source, y.amount = x.amount
    PROVE  Update(x, x, y) = y
  BY DEF Update, Row

\* A session that has made m of the committed rows will write m.
LEMMA ReadyOutcome ==
    ASSUME TypeOK, NEW s \in Sessions, NEW old, NEW m \in [Rows -> Row], Ready(s, old, m),
           \A r \in Rows : old[r] = row[r], Same(row, m), row' = row
    PROVE  \A r \in Rows : Outcome(s)'[r] = m[r]
<1> SUFFICES ASSUME NEW r \in Rows PROVE Outcome(s)'[r] = m[r]
  OBVIOUS
<1>1. /\ snap'[s][r] = IF row[r] = m[r] THEN NoRow ELSE row[r]
      /\ mem'[s][r] = IF m[r] = row[r] THEN NoRow ELSE m[r]
  BY DEF Ready, Differing, TypeOK
<1>2. row[r] \in Row /\ m[r] \in Row
  BY DEF TypeOK
<1>3. Outcome(s)'[r] = Written(s, r)'
  BY DEF Outcome
<1>4. CASE row[r] = m[r] \/ row[r] = NoRow \/ m[r] = NoRow
  BY <1>1, <1>3, <1>4 DEF Written
<1>5. CASE row[r] # m[r] /\ row[r] # NoRow /\ m[r] # NoRow
  <2>1. Written(s, r)' = Update(row[r], row[r], m[r])
    BY <1>1, <1>5 DEF Written
  <2> QED
    BY <1>2, <1>3, <1>5, <2>1, UpdateWhole DEF Same
<1> QED
  BY <1>4, <1>5

\* So it is good if m is.
LEMMA ReadySerial ==
    ASSUME TypeOK, NEW s \in Sessions, NEW old, NEW m \in [Rows -> Row], Ready(s, old, m),
           \A r \in Rows : old[r] = row[r], Same(row, m), row' = row,
           Good(m), Joins(row, m) \/ Separates(row, m)
    PROVE  Serial(s)'
<1>1. \A r \in Rows : Outcome(s)'[r] = m[r]
  BY ReadyOutcome
<1>2. phase'[s] = "commit"
  BY DEF Ready, TypeOK
<1>3. Good(Outcome(s))'
  BY <1>1 DEF Good, MateIn, Fit
<1>4. Joins(row, Outcome(s))' \/ Separates(row, Outcome(s))'
  BY <1>1 DEF Joins, Separates
<1> QED
  BY <1>2, <1>3, <1>4 DEF Serial

\* A request that makes of the committed rows a good table.
LEMMA RequestSerial ==
    ASSUME TypeOK, NEW s \in Sessions, NEW m \in [Rows -> Row], Request(s, m),
           Same(row, m), Good(m), Joins(row, m) \/ Separates(row, m)
    PROVE  Serial(s)'
  BY ReadySerial DEF Request

-----------------------------------------------------------------------------
(* Requests *)

\* link_existing_as_transfer joins two free rows.
LEMMA LinkSerial ==
    ASSUME IInv, Good(row), NEW s \in Sessions, Link(s)
    PROVE  Serial(s)'
<1>1. PICK a \in Rows, b \in Rows, p \in FreshPairs :
         CanLink(a, b) /\ Request(s, [row EXCEPT ![a].pair = p, ![b].pair = p])
  BY DEF Link
<1> DEFINE m == [row EXCEPT ![a].pair = p, ![b].pair = p]
<1>2. row \in [Rows -> Row] /\ p \in Pairs /\ TypeOK
  BY <1>1 DEF IInv, TypeOK, FreshPairs
<1>3. /\ a # b /\ row[a] # NoRow /\ row[b] # NoRow
      /\ row[a].pair = NoPair /\ row[b].pair = NoPair /\ Fit(row[a], row[b])
  BY <1>1 DEF CanLink, Fit
<1>4. \A r \in Rows : m[r] = IF r \in {a, b} THEN [row[r] EXCEPT !.pair = p] ELSE row[r]
  BY <1>2, <1>3
<1>5. ASSUME NEW r \in {a, b}
      PROVE  /\ m[r] \in Row /\ m[r].pair = p /\ m[r].type = row[r].type
             /\ m[r].account = row[r].account /\ m[r].source = row[r].source
             /\ m[r].amount = row[r].amount
  <2>1. m[r] = [row[r] EXCEPT !.pair = p] /\ row[r] \in Row /\ row[r] # NoRow
    BY <1>2, <1>3, <1>4
  <2> HIDE DEF m
  <2>2. m[r] \in Row /\ m[r].pair = p /\ m[r].type = row[r].type
    BY <1>2, <2>1, SetPair
  <2> QED
    BY <2>1, <2>2 DEF Row
<1>6. Request(s, m)
  BY <1>1
<1>7. m \in [Rows -> Row]
  BY <1>2, <1>4, <1>5
<1> HIDE DEF m
<1>8. Same(row, m)
  BY <1>4, <1>5 DEF Same
<1>9. Good(m) /\ Joins(row, m)
  <2>1. p # NoPair /\ \A r \in Rows : row[r].pair # p
    BY <1>2, PairsAssumption DEF FreshPairs
  <2>2. Fit(m[a], m[b])
    BY <1>3, <1>5 DEF Fit
  <2>3. \A r \in Rows \ {a, b} : m[r] = row[r]
    BY <1>4
  <2>4. m[a].pair = p /\ m[b].pair = p
    BY <1>5
  <2> QED
    BY <1>3, <2>1, <2>2, <2>3, <2>4, JoinGood
<1> QED
  BY <1>2, <1>6, <1>7, <1>8, <1>9, RequestSerial

\* create_transfer joins two rows it inserts.
LEMMA CreateTransferSerial ==
    ASSUME IInv, Good(row), NEW s \in Sessions, CreateTransfer(s)
    PROVE  Serial(s)'
<1>1. PICK a \in FreshRows, b \in FreshRows, from \in Accounts, to \in Accounts,
           d \in Days, n \in Amounts, p \in FreshPairs :
         /\ a # b /\ from # to
         /\ Request(s, [row EXCEPT ![a] = [Enter("manual", from, "debit", d, n) EXCEPT !.pair = p],
                                   ![b] = [Enter("manual", to, "credit", d, n) EXCEPT !.pair = p]])
  BY DEF CreateTransfer
<1> DEFINE x == [Enter("manual", from, "debit", d, n) EXCEPT !.pair = p]
           y == [Enter("manual", to, "credit", d, n) EXCEPT !.pair = p]
           m == [row EXCEPT ![a] = x, ![b] = y]
<1>2. /\ row \in [Rows -> Row] /\ a \in Rows /\ b \in Rows /\ p \in Pairs /\ TypeOK
      /\ row[a] = NoRow /\ row[b] = NoRow
  BY <1>1 DEF IInv, TypeOK, FreshRows, FreshPairs
<1>3. /\ x \in Row /\ x.pair = p /\ y \in Row /\ y.pair = p /\ Fit(x, y)
  BY <1>1, <1>2 DEF Enter, Row, Fit, Types
<1> HIDE DEF x, y
<1>4. \A r \in Rows : m[r] = IF r = b THEN y ELSE IF r = a THEN x ELSE row[r]
  BY <1>1, <1>2
<1>5. m \in [Rows -> Row]
  BY <1>2, <1>3, <1>4
<1>6. Request(s, m)
  BY <1>1 DEF x, y
<1> HIDE DEF m
<1>7. Same(row, m)
  BY <1>2, <1>4 DEF Same
<1>8. Good(m) /\ Joins(row, m)
  <2>1. p # NoPair /\ \A r \in Rows : row[r].pair # p
    BY <1>2, PairsAssumption DEF FreshPairs
  <2>2. m[a] = x /\ m[b] = y /\ \A r \in Rows \ {a, b} : m[r] = row[r]
    BY <1>1, <1>2, <1>4
  <2>3. row[a].pair = NoPair /\ row[b].pair = NoPair
    BY <1>2, NoRowFacts
  <2> QED
    BY <1>1, <1>2, <1>3, <2>1, <2>2, <2>3, JoinGood
<1> QED
  BY <1>2, <1>5, <1>6, <1>7, <1>8, RequestSerial

\* create_transfer_counterpart joins a free row and the one it inserts.
LEMMA CreateCounterpartSerial ==
    ASSUME IInv, Good(row), NEW s \in Sessions, CreateCounterpart(s)
    PROVE  Serial(s)'
<1>1. PICK a \in Rows, b \in FreshRows, to \in Accounts, p \in FreshPairs :
         /\ row[a] # NoRow /\ row[a].pair = NoPair /\ row[a].account # to
         /\ Request(s, [row EXCEPT ![a].pair = p,
                                   ![b] = [Enter("manual", to, Opposite(row[a].type), row[a].day,
                                                 row[a].amount) EXCEPT !.pair = p]])
  BY DEF CreateCounterpart
<1> DEFINE x == [row[a] EXCEPT !.pair = p]
           y == [Enter("manual", to, Opposite(row[a].type), row[a].day, row[a].amount)
                   EXCEPT !.pair = p]
           m == [row EXCEPT ![a].pair = p, ![b] = y]
<1>2. /\ row \in [Rows -> Row] /\ b \in Rows /\ p \in Pairs /\ TypeOK
      /\ row[b] = NoRow /\ a # b /\ row[a] \in Row
  BY <1>1 DEF IInv, TypeOK, FreshRows, FreshPairs
<1>3. /\ x \in Row /\ x.pair = p /\ x.type = row[a].type /\ x.account = row[a].account
      /\ x.source = row[a].source /\ x.amount = row[a].amount
  BY <1>1, <1>2 DEF Row
<1>4. y \in Row /\ y.pair = p /\ y.type = Opposite(row[a].type) /\ y.account = to
  <2>1. row[a].day \in Days /\ row[a].amount \in Amounts /\ Opposite(row[a].type) \in Types
    BY <1>1, <1>2, RowColumns DEF Opposite, Types
  <2> QED
    BY <1>2, <2>1 DEF Enter, Row
<1>5. m = [row EXCEPT ![a] = x, ![b] = y]
  BY <1>2
<1>6. Request(s, m)
  BY <1>1
<1> HIDE DEF x, y, m
<1>7. m[a] = x /\ m[b] = y /\ \A r \in Rows \ {a, b} : m[r] = row[r]
  BY <1>2, <1>5
<1>8. m \in [Rows -> Row]
  BY <1>2, <1>3, <1>4, <1>5
<1>9. Same(row, m)
  BY <1>2, <1>3, <1>7 DEF Same
<1>10. Good(m) /\ Joins(row, m)
  <2>1. p # NoPair /\ \A r \in Rows : row[r].pair # p
    BY <1>2, PairsAssumption DEF FreshPairs
  <2>2. row[b].pair = NoPair
    BY <1>2, NoRowFacts
  <2>3. Fit(x, y)
    BY <1>1, <1>3, <1>4 DEF Fit, Opposite
  <2> QED
    BY <1>1, <1>2, <1>3, <1>4, <1>7, <2>1, <2>2, <2>3, JoinGood
<1> QED
  BY <1>2, <1>6, <1>8, <1>9, <1>10, RequestSerial

\* unlink_transfer_pair separates a couple.
LEMMA UnlinkSerial ==
    ASSUME IInv, Good(row), NEW s \in Sessions, Unlink(s)
    PROVE  Serial(s)'
<1>1. PICK p \in Pairs :
         Request(s, [r \in Rows |-> IF row[r].pair = p THEN [row[r] EXCEPT !.pair = NoPair]
                                    ELSE row[r]])
  BY DEF Unlink
<1> DEFINE m == [r \in Rows |-> IF row[r].pair = p THEN [row[r] EXCEPT !.pair = NoPair]
                                ELSE row[r]]
           S == {r \in Rows : row[r].pair = p}
<1>2. ASSUME NEW r \in S
      PROVE  /\ m[r] \in Row /\ m[r].pair = NoPair
             /\ m[r].source = row[r].source /\ m[r].amount = row[r].amount
  <2>1. row[r] \in Row /\ row[r] # NoRow /\ m[r] = [row[r] EXCEPT !.pair = NoPair]
    BY PairsAssumption, NoRowFacts, RowsTyped
  <2> HIDE DEF m
  <2> QED
    BY <2>1 DEF Row
<1>3. \A r \in Rows \ S : m[r] = row[r]
  OBVIOUS
<1>4. m \in [Rows -> Row]
  BY <1>2, <1>3, RowsTyped
<1>5. Request(s, m)
  BY <1>1
<1> HIDE DEF m
<1>6. Same(row, m)
  BY <1>2, <1>3 DEF Same
<1>7. Good(m) /\ Separates(row, m)
  <2>1. \A x \in S, y \in Rows : MateIn(row, x, y) => y \in S
    BY DEF MateIn
  <2> QED
    BY <1>2, <1>3, <2>1, DropGood
<1> QED
  BY <1>4, <1>5, <1>6, <1>7, RequestSerial DEF IInv

\* update_transaction with a date moves no leg.
LEMMA EditDateSerial ==
    ASSUME IInv, Good(row), NEW s \in Sessions, EditDate(s)
    PROVE  Serial(s)'
<1>1. PICK a \in Rows, d \in Days :
         /\ row[a] # NoRow
         /\ Request(s, [r \in Rows |-> IF r = a \/ r \in PairedWith(a)
                                       THEN [row[r] EXCEPT !.day = d] ELSE row[r]])
  BY DEF EditDate
<1> DEFINE m == [r \in Rows |-> IF r = a \/ r \in PairedWith(a)
                                THEN [row[r] EXCEPT !.day = d] ELSE row[r]]
<1>2. ASSUME NEW r \in Rows
      PROVE  /\ m[r] \in Row /\ m[r].pair = row[r].pair /\ m[r].type = row[r].type
             /\ m[r].account = row[r].account /\ m[r].source = row[r].source
             /\ m[r].amount = row[r].amount
  <2>1. CASE r = a \/ r \in PairedWith(a)
    <3>1. row[r] \in Row /\ row[r] # NoRow
      BY <1>1, <2>1, RowsTyped, NoRowFacts DEF PairedWith
    <3>2. m[r] = [row[r] EXCEPT !.day = d]
      BY <2>1
    <3> HIDE DEF m
    <3> QED
      BY <3>1, <3>2 DEF Row
  <2>2. CASE ~(r = a \/ r \in PairedWith(a))
    BY <2>2, RowsTyped
  <2> QED
    BY <2>1, <2>2
<1>3. m \in [Rows -> Row]
  BY <1>2
<1>4. Request(s, m)
  BY <1>1
<1> HIDE DEF m
<1>5. Same(row, m) /\ Good(m) /\ Joins(row, m)
  BY <1>2, SameGood DEF Same
<1> QED
  BY <1>3, <1>4, <1>5, RequestSerial DEF IInv

\* Nor does an edit of the account, which looks at the account of the other leg.
LEMMA MoveSerial ==
    ASSUME IInv, Good(row), NEW s \in Sessions, Move(s)
    PROVE  Serial(s)'
<1>1. PICK a \in Rows, to \in Accounts :
         CanMove(a, to) /\ Request(s, [row EXCEPT ![a].account = to])
  BY DEF Move
<1> DEFINE m == [row EXCEPT ![a].account = to]
<1>2. row \in [Rows -> Row] /\ TypeOK
  BY DEF IInv, TypeOK
<1>3. \A r \in Rows \ {a} : m[r] = row[r]
  BY <1>2
<1>4. /\ m[a] \in Row /\ m[a].pair = row[a].pair /\ m[a].type = row[a].type
      /\ m[a].account = to /\ m[a].source = row[a].source /\ m[a].amount = row[a].amount
  <2>1. row[a] \in Row /\ row[a] # NoRow /\ m[a] = [row[a] EXCEPT !.account = to]
    BY <1>1, <1>2 DEF CanMove
  <2> HIDE DEF m
  <2> QED
    BY <2>1 DEF Row
<1>5. m \in [Rows -> Row]
  BY <1>2, <1>3, <1>4
<1>6. Request(s, m)
  BY <1>1
<1> HIDE DEF m
<1>7. Same(row, m) /\ Joins(row, m)
  BY <1>3, <1>4 DEF Same, Joins
<1>8. Good(m)
  <2>1. ASSUME NEW x \in Rows, m[x].pair # NoPair
        PROVE  \E y \in Rows : /\ MateIn(m, x, y) /\ Fit(m[x], m[y])
                               /\ \A z \in Rows : MateIn(m, x, z) => z = y
    <3>1. \A r \in Rows : m[r].pair = row[r].pair /\ m[r].type = row[r].type
      BY <1>3, <1>4
    <3>2. PICK y \in Rows : /\ MateIn(row, x, y) /\ Fit(row[x], row[y])
                            /\ \A z \in Rows : MateIn(row, x, z) => z = y
      BY <2>1, <3>1 DEF Good
    <3>3. MateIn(m, x, y) /\ \A z \in Rows : MateIn(m, x, z) => z = y
      BY <3>1, <3>2 DEF MateIn
    <3>4. CASE x = a
      <4>1. row[y].account # to
        BY <1>1, <3>2, <3>4 DEF CanMove, PairedWith, MateIn
      <4> QED
        BY <1>3, <1>4, <3>1, <3>2, <3>3, <3>4, <4>1 DEF Fit, MateIn
    <3>5. CASE y = a
      <4>1. row[x].account # to
        BY <1>1, <3>2, <3>5 DEF CanMove, PairedWith, MateIn
      <4> QED
        BY <1>3, <1>4, <3>1, <3>2, <3>3, <3>5, <4>1 DEF Fit, MateIn
    <3>6. CASE x # a /\ y # a
      BY <1>3, <3>2, <3>3, <3>6
    <3> QED
      BY <3>4, <3>5, <3>6
  <2> QED
    BY <2>1 DEF Good
<1> QED
  BY <1>2, <1>5, <1>6, <1>7, <1>8, RequestSerial

\* delete_transaction takes both legs.
LEMMA DeleteSerial ==
    ASSUME IInv, Good(row), NEW s \in Sessions, Delete(s)
    PROVE  Serial(s)'
<1>1. PICK a \in Rows :
         Request(s, [r \in Rows |-> IF r = a \/ r \in PairedWith(a) THEN NoRow ELSE row[r]])
  BY DEF Delete
<1> DEFINE m == [r \in Rows |-> IF r = a \/ r \in PairedWith(a) THEN NoRow ELSE row[r]]
           S == {a} \cup PairedWith(a)
<1>2. /\ S \subseteq Rows /\ \A r \in S : m[r] = NoRow
      /\ \A r \in Rows \ S : m[r] = row[r]
  BY DEF PairedWith
<1>3. m \in [Rows -> Row]
  BY RowsTyped, NoRowFacts
<1>4. Request(s, m)
  BY <1>1
<1> HIDE DEF m
<1>5. Same(row, m)
  BY <1>2 DEF Same
<1>6. Good(m) /\ Separates(row, m)
  <2>1. \A x \in S, y \in Rows : MateIn(row, x, y) => y \in S
    BY DEF MateIn, PairedWith
  <2>2. \A r \in S : m[r].pair = NoPair
    BY <1>2, NoRowFacts
  <2> HIDE DEF S
  <2> QED
    BY <1>2, <2>1, <2>2, DropGood
<1> QED
  BY <1>3, <1>4, <1>5, <1>6, RequestSerial DEF IInv

-----------------------------------------------------------------------------
(* Sync and detection *)

\* What a session that has inserted rows holds after its queries.
LEMMA ReadSerial ==
    ASSUME IInv, Good(row), NEW s \in Sessions, Read(s),
           \A r \in Rows : mem[s][r] # NoRow => row[r] = NoRow,
           \A r \in Rows : mem[s][r].pair = NoPair
    PROVE  /\ \A r \in Rows : snap'[s][r] = row[r]
           /\ Good(mem'[s]) /\ Joins(row, mem'[s]) /\ Same(row, mem'[s])
<1>1. \A r \in Rows : /\ snap'[s][r] = row[r]
                      /\ mem'[s][r] = IF mem[s][r] # NoRow THEN mem[s][r] ELSE row[r]
  BY ReadFacts DEF IInv
<1>2. \A r \in Rows : mem'[s][r].pair = row[r].pair /\ (mem'[s][r] = row[r] \/ row[r] = NoRow)
  BY <1>1, NoRowFacts
<1>3. Same(row, mem'[s])
  BY <1>2 DEF Same
<1>4. Good(mem'[s]) /\ Joins(row, mem'[s])
  BY <1>2, NoRowFacts, SameGood
<1> QED
  BY <1>1, <1>3, <1>4

\* The loop starts with free debits.
LEMMA StartMatchingSerial ==
    ASSUME IInv, Good(row), NEW s \in Sessions, StartMatching(s), row' = row,
           \A r \in Rows : mem[s][r] # NoRow => row[r] = NoRow,
           \A r \in Rows : mem[s][r].pair = NoPair
    PROVE  Serial(s)'
<1>1. /\ \A r \in Rows : snap'[s][r] = row[r]
      /\ Good(mem'[s]) /\ Joins(row, mem'[s]) /\ Same(row, mem'[s])
  BY ReadSerial DEF StartMatching
<1>2. phase'[s] = "match" /\ todo'[s] = DebitsToMatch(mem'[s], Candidates(s))
  BY DEF StartMatching, IInv, TypeOK
<1>3. todo'[s] \subseteq Unpaired(s, "debit")'
  BY <1>2 DEF Unpaired, DebitsToMatch
<1> QED
  BY <1>1, <1>2, <1>3 DEF Serial

\* sync_connection and handle_oauth_callback, up to the loop.
LEMMA InsertsSerial ==
    ASSUME IInv, SerialInv, NEW s \in Sessions,
           \/ StartSync(s, "sync") \/ StartSync(s, "connect") \/ InsertCharge(s)
           \/ EndInserts(s) \/ DetectAll(s)
    PROVE  Serial(s)'
<1> USE DEF IInv
<1>1. Good(row) /\ Serial(s)
  BY DEF SerialInv
<1>2. CASE StartSync(s, "sync") \/ StartSync(s, "connect")
  <2>1. phase[s] = "idle" /\ phase'[s] = "insert" /\ mem' = mem /\ row' = row
    BY <1>2 DEF StartSync, TypeOK
  <2> QED
    BY <1>1, <2>1 DEF Serial
<1>3. CASE InsertCharge(s)
  <2>1. phase[s] = "insert" /\ phase' = phase /\ row' = row
    BY <1>3 DEF InsertCharge
  <2>2. \A r \in Rows : mem'[s][r] = mem[s][r] \/ r \in FreshRows
    BY <1>3 DEF InsertCharge, TypeOK
  <2> QED
    BY <1>1, <2>1, <2>2 DEF Serial, FreshRows
<1>4. ASSUME phase[s] \in {"insert", "idle"}
      PROVE  \A r \in Rows : (mem[s][r] # NoRow => row[r] = NoRow) /\ mem[s][r].pair = NoPair
  BY <1>1, <1>4 DEF Serial, Inv, Quiet
<1>5. CASE EndInserts(s)
  <2>1. phase[s] = "insert" /\ row' = row
    BY <1>5 DEF EndInserts
  <2>2. CASE StartMatching(s)
    BY <1>1, <1>4, <2>1, <2>2, StartMatchingSerial
  <2>3. CASE Read(s) /\ phase' = [phase EXCEPT ![s] = "cleanup"]
    <3>1. phase'[s] = "cleanup"
      BY <2>3 DEF TypeOK
    <3>2. /\ \A r \in Rows : snap'[s][r] = row[r]
          /\ Good(mem'[s]) /\ Joins(row, mem'[s]) /\ Same(row, mem'[s])
      BY <1>1, <1>4, <2>1, <2>3, ReadSerial
    <3> QED
      BY <2>1, <3>1, <3>2 DEF Serial
  <2> QED
    BY <1>5, <2>2, <2>3 DEF EndInserts
<1>6. CASE DetectAll(s)
  BY <1>1, <1>4, <1>6, StartMatchingSerial DEF DetectAll
<1> QED
  BY <1>2, <1>3, <1>5, <1>6

\* A turn of the loop joins a free debit and a free credit of another account.
LEMMA MatchSerial ==
    ASSUME IInv, SerialInv, NEW s \in Sessions, MatchDebit(s)
    PROVE  Serial(s)'
<1> USE DEF IInv
<1>1. Good(row) /\ Serial(s)
  BY DEF SerialInv
<1>2. PICK d \in todo[s] :
         /\ todo' = [todo EXCEPT ![s] = @ \ {d}]
         /\ \/ UNCHANGED mem
            \/ \E c \in Closest(s, d), p \in FreshPairs :
                  mem' = [mem EXCEPT ![s][d].pair = p, ![s][c].pair = p]
  BY DEF MatchDebit
<1>3. /\ phase[s] = "match" /\ phase' = phase /\ row' = row /\ snap' = snap
      /\ todo'[s] = todo[s] \ {d} /\ d \in Unpaired(s, "debit")
  BY <1>1, <1>2 DEF MatchDebit, Serial, TypeOK
<1>4. CASE UNCHANGED mem
  <2>1. Unpaired(s, "debit")' = Unpaired(s, "debit")
    BY <1>4 DEF Unpaired
  <2> QED
    BY <1>1, <1>3, <1>4, <2>1 DEF Serial
<1>5. CASE \E c \in Closest(s, d), p \in FreshPairs :
              mem' = [mem EXCEPT ![s][d].pair = p, ![s][c].pair = p]
  <2>1. PICK c \in Closest(s, d), p \in FreshPairs :
           mem' = [mem EXCEPT ![s][d].pair = p, ![s][c].pair = p]
    BY <1>5
  <2>2. /\ c \in Unpaired(s, "credit") /\ mem[s][d].account # mem[s][c].account
        /\ p \in Pairs /\ p # NoPair /\ \A r \in Rows : mem[s][r].pair # p
    BY <2>1, PairsAssumption DEF Closest, Partners, Mates, FreshPairs
  <2>3. /\ c \in Rows /\ d \in Rows /\ c # d
        /\ mem[s][c] # NoRow /\ mem[s][d] # NoRow
        /\ mem[s][c].pair = NoPair /\ mem[s][d].pair = NoPair
        /\ mem[s][d].type = "debit" /\ mem[s][c].type = "credit"
    BY <1>3, <2>2 DEF Unpaired
  <2>4. mem \in [Sessions -> [Rows -> Row]]
    BY DEF TypeOK
  <2>5. \A r \in Rows : mem'[s][r] = IF r \in {d, c} THEN [mem[s][r] EXCEPT !.pair = p]
                                                   ELSE mem[s][r]
    BY <2>1, <2>3, <2>4
  <2>6. ASSUME NEW r \in {d, c}
        PROVE  /\ mem'[s][r].pair = p /\ mem'[s][r].type = mem[s][r].type
               /\ mem'[s][r].account = mem[s][r].account
               /\ mem'[s][r].source = mem[s][r].source
               /\ mem'[s][r].amount = mem[s][r].amount
    <3>1. mem'[s][r] = [mem[s][r] EXCEPT !.pair = p] /\ mem[s][r] \in Row /\ mem[s][r] # NoRow
      BY <2>3, <2>4, <2>5
    <3> QED
      BY <3>1 DEF Row
  <2>7. Good(mem'[s]) /\ Joins(mem[s], mem'[s])
    <3>1. Fit(mem'[s][d], mem'[s][c])
      BY <2>2, <2>3, <2>6 DEF Fit
    <3>2. \A r \in Rows \ {d, c} : mem'[s][r] = mem[s][r]
      BY <2>5
    <3>3. Good(mem[s])
      BY <1>1, <1>3 DEF Serial
    <3>4. mem'[s][d].pair = p /\ mem'[s][c].pair = p
      BY <2>6
    <3> QED
      BY <2>2, <2>3, <3>1, <3>2, <3>3, <3>4, JoinGood
  <2>8. Joins(row, mem'[s]) /\ Same(row, mem'[s])
    <3>1. Joins(row, mem[s]) /\ Same(row, mem[s])
      BY <1>1, <1>3 DEF Serial
    <3>2. Joins(row, mem'[s])
      BY <2>7, <3>1 DEF Joins
    <3>3. \A r \in Rows : /\ mem'[s][r].source = mem[s][r].source
                          /\ mem'[s][r].amount = mem[s][r].amount
                          /\ mem'[s][r] # NoRow => mem[s][r] # NoRow
      BY <2>3, <2>5, <2>6
    <3> QED
      BY <3>1, <3>2, <3>3 DEF Same
  <2>9. todo'[s] \subseteq Unpaired(s, "debit")'
    <3>1. ASSUME NEW e \in todo'[s] PROVE e \in Unpaired(s, "debit")'
      <4>1. e \in Unpaired(s, "debit") /\ e # d
        BY <1>1, <1>3, <3>1 DEF Serial
      <4>2. e # c
        BY <2>3, <4>1 DEF Unpaired
      <4> QED
        BY <2>5, <4>1, <4>2 DEF Unpaired
    <3> QED
      BY <3>1
  <2> QED
    BY <1>1, <1>3, <2>7, <2>8, <2>9 DEF Serial
<1> QED
  BY <1>2, <1>4, <1>5

\* The loop ends and the phantoms go: none of them is in a transfer.
LEMMA EndsSerial ==
    ASSUME IInv, SerialInv, NEW s \in Sessions, EndMatching(s) \/ CleanupPhantoms(s)
    PROVE  Serial(s)'
<1> USE DEF IInv
<1>1. Good(row) /\ Serial(s) /\ mem[s] \in [Rows -> Row] /\ row' = row
  BY DEF SerialInv, TypeOK, EndMatching, CleanupPhantoms
<1>2. phase[s] \in {"match", "cleanup"}
  BY DEF EndMatching, CleanupPhantoms
<1>3. /\ \A r \in Rows : snap[s][r] = row[r]
      /\ Good(mem[s]) /\ Joins(row, mem[s]) /\ Same(row, mem[s])
  BY <1>1, <1>2 DEF Serial
<1>4. CASE EndMatching(s) /\ job[s] = "sync"
  <2>1. phase'[s] = "cleanup" /\ snap' = snap /\ mem' = mem
    BY <1>4 DEF EndMatching, TypeOK
  <2> QED
    BY <1>1, <1>3, <2>1 DEF Serial
<1>5. CASE EndMatching(s) /\ job[s] # "sync"
  <2>1. Ready(s, snap[s], mem[s])
    BY <1>5 DEF EndMatching
  <2> QED
    BY <1>1, <1>3, <2>1, ReadySerial
<1>6. CASE CleanupPhantoms(s)
  <2> DEFINE m == [r \in Rows |-> IF r \in Phantoms(s) THEN NoRow ELSE mem[s][r]]
  <2>1. Ready(s, snap[s], m)
    BY <1>6 DEF CleanupPhantoms
  <2>2. \A r \in Rows : m[r].pair = mem[s][r].pair /\ m[r] \in {NoRow, mem[s][r]}
    BY NoRowFacts DEF Phantoms
  <2>3. \A r \in Rows : m[r].pair # NoPair => m[r] = mem[s][r]
    BY <2>2, NoRowFacts
  <2>4. m \in [Rows -> Row]
    BY <1>1, NoRowFacts
  <2> HIDE DEF m
  <2>5. Good(m) /\ Joins(mem[s], m)
    BY <1>3, <2>2, <2>3, SameGood
  <2>6. Joins(row, m) /\ Same(row, m)
    BY <1>3, <2>2, <2>5 DEF Joins, Same
  <2> QED
    BY <1>1, <1>3, <2>1, <2>4, <2>5, <2>6, ReadySerial
<1> QED
  BY <1>4, <1>5, <1>6

-----------------------------------------------------------------------------
(* Every step *)

LEMMA InitSerial == Init => SerialInv
<1> SUFFICES ASSUME Init PROVE SerialInv
  OBVIOUS
<1>1. \A r \in Rows : row[r].pair = NoPair
  BY NoRowFacts DEF Init, NoRows
<1>2. \A s \in Sessions : phase[s] = "idle" /\ \A r \in Rows : mem[s][r] = NoRow
  BY DEF Init, NoRows
<1> QED
  BY <1>1, <1>2 DEF SerialInv, Serial, Good

\* A session that works while the others are idle.
LEMMA SessionSerial ==
    ASSUME IInv, SerialInv, NEW s \in Sessions, Alone(s),
           UserRequest(s) \/ BankTask(s) \/ Detection(s) \/ Commit(s)
    PROVE  SerialInv' /\ (row' = row \/ Joins(row, row') \/ Separates(row, row'))
<1>1. \A t \in Sessions \ {s} : Serial(t)'
  <2>1. \A t \in Sessions \ {s} : Untouched(t)
    BY OthersUntouched DEF IInv
  <2> QED
    BY <2>1 DEF Alone, Untouched, SerialInv, Serial
<1>2. CASE Commit(s)
  <2>1. phase[s] = "commit" /\ Close(s) /\ row' = Outcome(s)
    BY <1>2 DEF Commit, Outcome
  <2>2. Good(row') /\ (Joins(row, row') \/ Separates(row, row'))
    BY <2>1 DEF SerialInv, Serial
  <2>3. phase'[s] = "idle" /\ \A r \in Rows : mem'[s][r] = NoRow
    BY <2>1 DEF Close, NoRows, IInv, TypeOK
  <2>4. Serial(s)'
    BY <2>3 DEF Serial
  <2>5. Good(row)'
    BY <2>2 DEF Good, MateIn, Fit
  <2> QED
    BY <1>1, <2>2, <2>4, <2>5 DEF SerialInv
<1>3. CASE UserRequest(s) \/ BankTask(s) \/ Detection(s)
  <2>1. row' = row
    <3>1. CASE UserRequest(s)
      <4>1. \E m : Request(s, m)
        BY <3>1 DEF UserRequest, Link, CreateTransfer, CreateCounterpart, Unlink, EditDate,
                    Move, Delete
      <4> QED
        BY <4>1 DEF Request
    <3> QED
      BY <1>3, <3>1 DEF BankTask, Detection, StartSync, InsertCharge, EndInserts,
                        CleanupPhantoms, DetectAll, MatchDebit, EndMatching
  <2>2. Serial(s)'
    <3>1. Good(row)
      BY DEF SerialInv
    <3>2. CASE UserRequest(s)
      BY <3>1, <3>2, LinkSerial, CreateTransferSerial, CreateCounterpartSerial, UnlinkSerial,
         EditDateSerial, MoveSerial, DeleteSerial DEF UserRequest
    <3>3. CASE BankTask(s) \/ Detection(s)
      BY <3>3, InsertsSerial, MatchSerial, EndsSerial DEF BankTask, Detection
    <3> QED
      BY <1>3, <3>2, <3>3
  <2>3. Good(row)'
    BY <2>1 DEF SerialInv, Good, MateIn, Fit
  <2> QED
    BY <1>1, <2>1, <2>2, <2>3 DEF SerialInv
<1> QED
  BY <1>2, <1>3

LEMMA NextSerial ==
    ASSUME IInv, SerialInv, [NextAlone]_vars
    PROVE  IInv' /\ SerialInv' /\ (row' = row \/ Joins(row, row') \/ Separates(row, row'))
<1>1. IInv'
  BY NextIInv DEF NextAlone, Next
<1>2. CASE UNCHANGED vars
  <2>1. SerialInv' = SerialInv
    BY <1>2 DEF vars, SerialInv, Serial, Good, MateIn, Fit, Joins, Separates, Same, Outcome,
                Written, Unpaired
  <2> QED
    BY <1>1, <1>2, <2>1 DEF vars
<1>3. CASE AddRow /\ \A s \in Sessions : phase[s] = "idle"
  <2>1. PICK q \in FreshRows, src \in Entered, a \in Accounts, t \in Types, d \in Days,
             n \in Amounts : row' = [row EXCEPT ![q] = Enter(src, a, t, d, n)]
    BY <1>3 DEF AddRow
  <2>2. /\ q \in Rows /\ row[q] = NoRow /\ row \in [Rows -> Row] /\ src \in {"manual", "import"}
        /\ phase' = phase /\ mem' = mem
    BY <1>3, <2>1, PairsAssumption DEF AddRow, FreshRows, IInv, TypeOK
  <2>3. \A r \in Rows : row'[r].pair = row[r].pair /\ (row'[r] = row[r] \/ row[r].pair = NoPair)
    BY <2>1, <2>2, NewRow, NoRowFacts
  <2>4. Good(row) /\ \A s \in Sessions : Serial(s)
    BY DEF SerialInv
  <2>5. Good(row') /\ Joins(row, row')
    BY <2>3, <2>4, SameGood
  <2>6. Good(row)'
    BY <2>5 DEF Good, MateIn, Fit
  <2>7. \A s \in Sessions : Serial(s)'
    BY <1>3, <2>2, <2>4 DEF Serial
  <2> QED
    BY <1>1, <2>5, <2>6, <2>7 DEF SerialInv
<1>4. CASE \E s \in Sessions :
              Alone(s) /\ (UserRequest(s) \/ BankTask(s) \/ Detection(s) \/ Commit(s))
  BY <1>1, <1>4, SessionSerial
<1> QED
  BY <1>2, <1>3, <1>4 DEF NextAlone

\* The three filters agree about any typed table.
LEMMA OffersAgree == ASSUME row \in [Rows -> Row] PROVE OffersStand
<1> SUFFICES ASSUME NEW a \in Rows, NEW b \in Rows
             PROVE  /\ b \in Offered(a) => CanLink(a, b) /\ a \in Offered(b)
                    /\ (CanLink(a, b) /\ Mates(row[a], row[b])) => b \in Offered(a)
  BY DEF OffersStand
<1>1. ASSUME NEW r \in Rows, row[r] # NoRow
      PROVE  row[r].type \in {"debit", "credit"} /\ row[r].day \in Nat
  BY <1>1, PairsAssumption DEF Row, Types
<1>2. row[a] # NoRow /\ row[b] # NoRow =>
         /\ Gap(row[a], row[b]) \in Nat /\ Gap(row[a], row[b]) = Gap(row[b], row[a])
         /\ (row[b].type = Opposite(row[a].type) <=> row[a].type # row[b].type)
         /\ (row[a].type = Opposite(row[b].type) <=> row[a].type # row[b].type)
  BY <1>1 DEF Gap, Opposite
<1>3. b \in Offered(a) => CanLink(a, b) /\ a \in Offered(b)
  BY <1>2 DEF Offered, CanLink
<1>4. CanLink(a, b) /\ Mates(row[a], row[b]) => b \in Offered(a)
  BY <1>2 DEF Offered, CanLink, Mates, Tolerance, HandDays
<1> QED
  BY <1>3, <1>4

\* A good table is what the property asks for.
LEMMA GoodComplete ==
    ASSUME Good(row), AtMostTwoLegs, row \in [Rows -> Row]
    PROVE  PairsComplete
<1>1. NoLoneLeg
  BY DEF Good, MateIn, NoLoneLeg, Partner
<1>2. OpposingLegs /\ DistinctAccounts
  BY DEF Good, MateIn, Fit, OpposingLegs, DistinctAccounts, Partner
<1> QED
  BY <1>1, <1>2, OffersAgree DEF PairsComplete

\* One request at a time, a row that carries a transfer_pair_id always has
\* exactly one other leg, of the other type and in another account, whatever is
\* linked, detected, edited, unlinked and deleted.
THEOREM TransfersComplete == SerialSpec => []PairsComplete
<1>1. Init => IInv /\ SerialInv
  BY InitIInv, InitSerial
<1>2. (IInv /\ SerialInv) /\ [NextAlone]_vars => (IInv /\ SerialInv)'
  BY NextSerial
<1>3. IInv /\ SerialInv => PairsComplete
  BY GoodComplete DEF SerialInv, IInv, Inv, TypeOK
<1> QED
  BY <1>1, <1>2, <1>3, PTL DEF SerialSpec

-----------------------------------------------------------------------------
(* The couples are a matching *)

\* The rows of table T that carry p, and the couples of T.
Carriers(T, p) == {r \in Rows : T[r].pair = p}
CouplesOf(T) == {Carriers(T, p) : p \in {T[r].pair : r \in Rows} \ {NoPair}}

\* The couples of a good table have two legs each.
LEMMA CoupleLegs ==
    ASSUME NEW T, Good(T), NEW a \in Rows, T[a].pair # NoPair
    PROVE  \E b \in Rows : a # b /\ Carriers(T, T[a].pair) = {a, b} /\ T[b].pair = T[a].pair
<1>1. PICK b \in Rows : MateIn(T, a, b) /\ \A c \in Rows : MateIn(T, a, c) => c = b
  BY DEF Good
<1> QED
  BY <1>1 DEF MateIn, Carriers

\* A couple has exactly two rows.
LEMMA TwoOf ==
    ASSUME NEW a, NEW b, a # b
    PROVE  Cardinality({a, b}) = 2
<1>1. IsFiniteSet({a}) /\ Cardinality({a}) = 1
  BY FS_Singleton
<1>2. Cardinality({a} \cup {b}) = 2
  BY <1>1, FS_AddElement
<1>3. {a} \cup {b} = {a, b}
  OBVIOUS
<1> QED
  BY <1>2, <1>3

\* The couples of a good table are disjoint.
LEMMA GoodMatching ==
    ASSUME NEW T, Good(T)
    PROVE  M!IsMatching(CouplesOf(T))
<1>1. ASSUME NEW C \in CouplesOf(T) PROVE C \subseteq Rows /\ Cardinality(C) = 2
  <2>1. PICK a \in Rows : T[a].pair # NoPair /\ C = Carriers(T, T[a].pair)
    BY DEF CouplesOf
  <2>2. PICK b \in Rows : a # b /\ C = {a, b}
    BY <2>1, CoupleLegs
  <2> QED
    BY <2>2, TwoOf
<1>2. ASSUME NEW C \in CouplesOf(T), NEW D \in CouplesOf(T), NEW x \in C, x \in D
      PROVE  C = D
  <2>1. C = Carriers(T, T[x].pair)
    BY DEF CouplesOf, Carriers
  <2>2. D = Carriers(T, T[x].pair)
    BY <1>2 DEF CouplesOf, Carriers
  <2> QED
    BY <2>1, <2>2
<1>3. \A C, D \in CouplesOf(T) : C # D => C \cap D = {}
  BY <1>2
<1>4. \A C : M!Cardinality(C) = Cardinality(C)
  BY DEF M!Cardinality, Cardinality
<1> QED
  BY <1>1, <1>3, <1>4 DEF M!IsMatching

\* A table that separates nothing keeps the couples, and the new ones are made
\* of rows that were free.
LEMMA JoinsCouples ==
    ASSUME NEW T, NEW U, Good(T), Good(U), Joins(T, U)
    PROVE  /\ CouplesOf(T) \subseteq CouplesOf(U)
           /\ \A D \in CouplesOf(U) \ CouplesOf(T) : D \subseteq Rows \ M!Legs(CouplesOf(T))
<1>1. ASSUME NEW a \in Rows, T[a].pair # NoPair
      PROVE  Carriers(U, T[a].pair) = Carriers(T, T[a].pair) /\ U[a].pair = T[a].pair
  <2>1. PICK b \in Rows : a # b /\ Carriers(T, T[a].pair) = {a, b} /\ T[b].pair = T[a].pair
    BY <1>1, CoupleLegs
  <2>2. U[a].pair = T[a].pair /\ U[b].pair = T[a].pair
    BY <1>1, <2>1 DEF Joins
  <2>3. PICK c \in Rows : a # c /\ Carriers(U, U[a].pair) = {a, c}
    BY <1>1, <2>2, CoupleLegs
  <2>4. b \in Carriers(U, U[a].pair)
    BY <2>2 DEF Carriers
  <2> QED
    BY <2>1, <2>2, <2>3, <2>4
<1>2. CouplesOf(T) \subseteq CouplesOf(U)
  <2> SUFFICES ASSUME NEW C \in CouplesOf(T) PROVE C \in CouplesOf(U)
    OBVIOUS
  <2>1. PICK a \in Rows : T[a].pair # NoPair /\ C = Carriers(T, T[a].pair)
    BY DEF CouplesOf
  <2>2. C = Carriers(U, U[a].pair) /\ U[a].pair # NoPair
    BY <1>1, <2>1
  <2> QED
    BY <2>2 DEF CouplesOf
<1>3. ASSUME NEW D \in CouplesOf(U), D \notin CouplesOf(T), NEW r \in D
      PROVE  r \in Rows /\ r \notin M!Legs(CouplesOf(T))
  <2>1. r \in Rows /\ D = Carriers(U, U[r].pair)
    BY DEF CouplesOf, Carriers
  <2> SUFFICES ASSUME r \in M!Legs(CouplesOf(T)) PROVE FALSE
    BY <2>1
  <2>2. PICK C \in CouplesOf(T) : r \in C
    BY DEF M!Legs
  <2>3. T[r].pair # NoPair /\ C = Carriers(T, T[r].pair)
    BY <2>2 DEF CouplesOf, Carriers
  <2> QED
    BY <1>1, <1>3, <2>1, <2>2, <2>3
<1> QED
  BY <1>2, <1>3

\* Every commit that changes the couples joins free rows or separates couples:
\* no step moves a leg from one transfer to another (detect_transfer_pairs,
\* link_existing_as_transfer, unlink_transfer_pair and the deletions, against
\* what module Matching promises).
THEOREM TransfersMatch == SerialSpec => KeepsMatching
<1> DEFINE SInv == IInv /\ SerialInv
<1>1. Init => SInv /\ Couples = {}
  <2> SUFFICES ASSUME Init PROVE SInv /\ Couples = {}
    OBVIOUS
  <2>1. \A r \in Rows : row[r].pair = NoPair
    BY NoRowFacts DEF Init, NoRows
  <2>2. Couples = {}
    BY <2>1 DEF Couples
  <2> QED
    BY <2>2, InitIInv, InitSerial
<1>2. SInv /\ [NextAlone]_vars => SInv'
  BY NextSerial
<1>3. ASSUME SInv, [NextAlone]_vars
      PROVE  [M!Next]_Couples
  <2>1. Good(row) /\ Good(row')
    <3>1. SerialInv /\ SerialInv'
      BY <1>2, <1>3
    <3>2. Good(row) /\ Good(row)'
      BY <3>1 DEF SerialInv
    <3> QED
      BY <3>2 DEF Good, MateIn, Fit
  <2>2. Couples = CouplesOf(row) /\ Couples' = CouplesOf(row')
    BY DEF Couples, CouplesOf, Carriers
  <2>3. row' = row \/ Joins(row, row') \/ Separates(row, row')
    BY <1>3, NextSerial
  <2>4. CASE row' = row
    BY <2>2, <2>4
  <2>5. CASE Joins(row, row')
    <3> DEFINE new == Couples' \ Couples
    <3>1. Couples \subseteq Couples' /\ \A D \in new : D \subseteq Rows \ M!Legs(Couples)
      BY <2>1, <2>2, <2>5, JoinsCouples
    <3>2. Couples' = Couples \cup new /\ new \in SUBSET (SUBSET (Rows \ M!Legs(Couples)))
      BY <3>1
    <3>3. M!IsMatching(Couples')
      BY <2>1, <2>2, GoodMatching
    <3> QED
      BY <3>2, <3>3 DEF M!Next, M!Join
  <2>6. CASE Separates(row, row')
    <3> DEFINE old == Couples \ Couples'
    <3>1. Joins(row', row)
      BY <2>6 DEF Joins, Separates
    <3>2. Couples' \subseteq Couples
      BY <2>1, <2>2, <3>1, JoinsCouples
    <3>3. Couples' = Couples \ old /\ old \in SUBSET Couples
      BY <3>2
    <3> QED
      BY <3>3 DEF M!Next, M!Separate
  <2> QED
    BY <2>3, <2>4, <2>5, <2>6
<1> HIDE DEF SInv
<1> QED
  BY <1>1, <1>2, <1>3, PTL DEF SerialSpec, KeepsMatching, M!Spec, M!Init
=============================================================================
