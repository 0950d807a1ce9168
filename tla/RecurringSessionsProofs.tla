------------------------- MODULE RecurringSessionsProofs -------------------------
(***************************************************************************)
(* Proofs about RecurringSessions for any number of sessions, bills and    *)
(* rows: types, and that no interleaving of sessions loses an occurrence.  *)
(***************************************************************************)
EXTENDS RecurringSessions, TLAPS

-----------------------------------------------------------------------------
(* The inductive invariant *)

\* A session past its first query knows what it works on.
AtWork ==
    \A s \in Sessions :
       /\ phase[s] \in {"match", "unmatched"} => charge[s] \in Charges
       /\ phase[s] \in {"loop", "absent", "stamp"} => cur[s] \in Bills

\* A session that rewrites a committed row leaves it linked, to the same
\* occurrence.
Faithful ==
    \A s \in Sessions : \A r \in Rows :
       (write[s][r] # NoRow /\ row[r] # NoRow) =>
          /\ write[s][r].linked
          /\ write[s][r].bill = row[r].bill
          /\ write[s][r].occ = row[r].occ

\* A row that is not committed has one writer.
OneWriter ==
    \A r \in Rows : row[r] = NoRow =>
       \A s, t \in Sessions :
          (write[s][r] # NoRow /\ write[t][r] # NoRow) => s = t

\* Behind the pointer a session has in hand, every occurrence has a row among
\* those it sees.
SeenStands ==
    \A s \in Sessions : \A b \in loaded[s] : \A o \in 1 .. (seen[s][b] - 1) :
       \E r \in Rows : Stands(View(s)[r], b, o)

\* A placeholder that waits for its amount stands, though the pointer in hand
\* has not moved past it.
InHand ==
    \A s \in Sessions : phase[s] = "stamp" =>
       \E r \in Rows : Stands(View(s)[r], cur[s], seen[s][cur[s]])

\* What a session locks, is about to flush, has still to do or is at is among
\* the bills it has loaded; one that has not begun, or a sync before it inserts,
\* has loaded none.
Held ==
    \A s \in Sessions :
       /\ \A b \in Bills : lock[b] = s => b \in loaded[s]
       /\ dirty[s] \subseteq loaded[s]
       /\ todo[s] \subseteq loaded[s]
       /\ phase[s] \in {"loop", "absent", "stamp"} => cur[s] \in loaded[s]
       /\ phase[s] \in {"idle", "match", "unmatched"} => loaded[s] = {}

IInv == /\ TypeOK
        /\ AtWork
        /\ Held
        /\ InHand
        /\ Faithful
        /\ OneWriter
        /\ SeenStands
        /\ NothingLost

-----------------------------------------------------------------------------
(* Rows and views *)

\* The empty row is typed and linked to nothing.
LEMMA NoRowIsRow == NoRow \in Row /\ ~NoRow.linked
  BY FeedAssumption DEF NoRow, Row

\* A session sees rows of their type.
LEMMA ViewType ==
    ASSUME TypeOK, NEW s \in Sessions
    PROVE  View(s) \in [Rows -> Row]
  BY DEF TypeOK, View

\* A committed row that stands for an occurrence does so in every view.
LEMMA ViewKeeps ==
    ASSUME TypeOK, Faithful, NEW s \in Sessions, NEW r \in Rows, NEW b, NEW o,
           Stands(row[r], b, o)
    PROVE  Stands(View(s)[r], b, o)
<1>1. row[r] # NoRow
  BY NoRowIsRow DEF Stands
<1>2. CASE write[s][r] = NoRow
  BY <1>2 DEF View
<1>3. CASE write[s][r] # NoRow
  BY <1>1, <1>3 DEF View, Faithful, Stands
<1> QED
  BY <1>2, <1>3

\* One row written by one session.
LEMMA PutView ==
    ASSUME TypeOK, NEW s \in Sessions, NEW r \in Rows, NEW x \in Row,
           Put(s, r, x), UNCHANGED row, x # NoRow
    PROVE  /\ write' \in [Sessions -> [Rows -> Row]]
           /\ View(s)'[r] = x
           /\ \A q \in Rows \ {r} : View(s)'[q] = View(s)[q]
           /\ \A t \in Sessions \ {s} : View(t)' = View(t)
           /\ write'[s][r] = x
           /\ \A q \in Rows \ {r} : write'[s][q] = write[s][q]
           /\ \A t \in Sessions \ {s} : write'[t] = write[t]
<1>1. write \in [Sessions -> [Rows -> Row]]
  BY DEF TypeOK
<1>2. /\ write' \in [Sessions -> [Rows -> Row]]
      /\ write'[s][r] = x
      /\ \A q \in Rows \ {r} : write'[s][q] = write[s][q]
      /\ \A t \in Sessions \ {s} : write'[t] = write[t]
  BY <1>1 DEF Put
<1> QED
  BY <1>1, <1>2 DEF View

\* Closing a session touches what no other session sees.
LEMMA CloseView ==
    ASSUME TypeOK, NEW s \in Sessions, Close(s)
    PROVE  /\ write'[s] = NoRows
           /\ \A t \in Sessions \ {s} : write'[t] = write[t]
           /\ loaded'[s] = {}
           /\ \A t \in Sessions \ {s} : loaded'[t] = loaded[t] /\ seen'[t] = seen[t]
  BY DEF Close, TypeOK

\* A closed session is typed again.
LEMMA CloseType ==
    ASSUME TypeOK, AtWork, NEW s \in Sessions, Close(s),
           row' \in [Rows -> Row], pointer' \in [Bills -> Nat \ {0}], aborts' \in Nat
    PROVE  TypeOK' /\ AtWork'
<1>1. NoRows \in [Rows -> Row]
  BY NoRowIsRow DEF NoRows
<1>2. /\ lock' \in [Bills -> Sessions \cup {Nobody}]
      /\ phase' \in [Sessions -> Phases]
      /\ cutoff' \in [Sessions -> Nat]
      /\ charge' \in [Sessions -> Charges \cup {NoCharge}]
  BY DEF Close, Released, TypeOK, Phases
<1>3. /\ todo' \in [Sessions -> SUBSET Bills]
      /\ cur' \in [Sessions -> Bills \cup {Nobody}]
      /\ loaded' \in [Sessions -> SUBSET Bills]
      /\ dirty' \in [Sessions -> SUBSET Bills]
  BY DEF Close, TypeOK
<1>4. seen' \in [Sessions -> [Bills -> Nat \ {0}]]
  <2>1. [b \in Bills |-> 1] \in [Bills -> Nat \ {0}]
    OBVIOUS
  <2> QED
    BY <2>1 DEF Close, TypeOK
<1>5. write' \in [Sessions -> [Rows -> Row]]
  BY <1>1 DEF Close, TypeOK
<1>6. TypeOK'
  BY <1>2, <1>3, <1>4, <1>5 DEF TypeOK
<1>7. AtWork'
  <2> SUFFICES ASSUME NEW t \in Sessions
               PROVE  /\ phase'[t] \in {"match", "unmatched"} => charge'[t] \in Charges
                      /\ phase'[t] \in {"loop", "absent", "stamp"} => cur'[t] \in Bills
    BY DEF AtWork
  <2>1. CASE t = s
    BY <2>1 DEF Close, TypeOK
  <2>2. CASE t # s
    BY <2>2 DEF Close, TypeOK, AtWork
  <2> QED
    BY <2>1, <2>2
<1> QED
  BY <1>6, <1>7

\* A session writes a fresh row, or leaves the row it rewrites linked to its
\* occurrence: nothing that stood in any view falls.
LEMMA PutKeeps ==
    ASSUME IInv, NEW s \in Sessions, NEW r \in Rows, NEW x \in Row,
           Put(s, r, x), UNCHANGED <<row, pointer>>, x # NoRow,
           \/ r \in Fresh
           \/ /\ View(s)[r] # NoRow
              /\ x.linked
              /\ x.bill = View(s)[r].bill
              /\ x.occ = View(s)[r].occ
    PROVE  /\ Faithful' /\ OneWriter' /\ NothingLost'
           /\ \A t \in Sessions : \A q \in Rows : \A b, o :
                 Stands(View(t)[q], b, o) => Stands(View(t)'[q], b, o)
<1> USE DEF IInv
<1>1. /\ View(s)'[r] = x
      /\ \A q \in Rows \ {r} : View(s)'[q] = View(s)[q]
      /\ \A t \in Sessions \ {s} : View(t)' = View(t)
      /\ write'[s][r] = x
      /\ \A q \in Rows \ {r} : write'[s][q] = write[s][q]
      /\ \A t \in Sessions \ {s} : write'[t] = write[t]
  BY PutView
<1>2. NothingLost'
  BY DEF NothingLost
<1>3. CASE r \in Fresh
  <2>1. row[r] = NoRow /\ View(s)[r] = NoRow /\ \A t \in Sessions : write[t][r] = NoRow
    BY <1>3 DEF Fresh, Unused, View
  <2>2. Faithful'
    BY <1>1, <2>1 DEF Faithful
  <2>3. OneWriter'
    BY <1>1, <2>1 DEF OneWriter
  <2>4. ASSUME NEW t \in Sessions, NEW q \in Rows, NEW b, NEW o, Stands(View(t)[q], b, o)
        PROVE  Stands(View(t)'[q], b, o)
    <3>1. t # s \/ q # r
      BY <2>1, <2>4, NoRowIsRow DEF Stands
    <3> QED
      BY <1>1, <2>4, <3>1
  <2> QED
    BY <1>2, <2>2, <2>3, <2>4
<1>4. CASE /\ View(s)[r] # NoRow
           /\ x.linked
           /\ x.bill = View(s)[r].bill
           /\ x.occ = View(s)[r].occ
  <2>1. ASSUME NEW t \in Sessions, NEW q \in Rows, write'[t][q] # NoRow, row[q] # NoRow
        PROVE  /\ write'[t][q].linked
               /\ write'[t][q].bill = row[q].bill
               /\ write'[t][q].occ = row[q].occ
    <3>1. CASE t = s /\ q = r
      BY <1>1, <1>4, <2>1, <3>1 DEF View, Faithful
    <3>2. CASE ~(t = s /\ q = r)
      <4>1. write'[t][q] = write[t][q]
        BY <1>1, <3>2
      <4> QED
        BY <2>1, <4>1 DEF Faithful
    <3> QED
      BY <3>1, <3>2
  <2>2. Faithful'
    BY <2>1 DEF Faithful
  <2>3. ASSUME NEW q \in Rows, row[q] = NoRow, NEW t \in Sessions, NEW u \in Sessions,
               write'[t][q] # NoRow, write'[u][q] # NoRow
        PROVE  t = u
    <3>1. row[r] = NoRow => write[s][r] # NoRow
      BY <1>4 DEF View
    <3>2. write[t][q] # NoRow /\ write[u][q] # NoRow
      BY <1>1, <2>3, <3>1
    <3> QED
      BY <2>3, <3>2 DEF OneWriter
  <2>4. OneWriter'
    BY <2>3 DEF OneWriter
  <2>5. ASSUME NEW t \in Sessions, NEW q \in Rows, NEW b, NEW o, Stands(View(t)[q], b, o)
        PROVE  Stands(View(t)'[q], b, o)
    <3>1. CASE t = s /\ q = r
      BY <1>1, <1>4, <2>5, <3>1 DEF Stands
    <3>2. CASE ~(t = s /\ q = r)
      BY <1>1, <2>5, <3>2
    <3> QED
      BY <3>1, <3>2
  <2> QED
    BY <1>2, <2>2, <2>4, <2>5
<1> QED
  BY <1>3, <1>4

\* What a session has in hand stands on when nothing that stood in its view
\* falls.
LEMMA InHandKeeps ==
    ASSUME InHand,
           \A t \in Sessions : phase'[t] = "stamp" =>
              phase[t] = "stamp" /\ cur'[t] = cur[t] /\ seen'[t] = seen[t],
           \A t \in Sessions : phase'[t] = "stamp" => \A q \in Rows : \A b, o :
              Stands(View(t)[q], b, o) => Stands(View(t)'[q], b, o)
    PROVE  InHand'
<1> SUFFICES ASSUME NEW t \in Sessions, phase'[t] = "stamp"
             PROVE  \E r \in Rows : Stands(View(t)'[r], cur'[t], seen'[t][cur'[t]])
  BY DEF InHand
<1>1. PICK r \in Rows : Stands(View(t)[r], cur[t], seen[t][cur[t]])
  BY DEF InHand
<1> QED
  BY <1>1

\* A closed session holds nothing.
LEMMA CloseHeld ==
    ASSUME TypeOK, Held, NEW s \in Sessions, Close(s)
    PROVE  Held'
<1>1. Nobody \notin Sessions
  BY SessionsAssumption
<1>2. ASSUME NEW t \in Sessions, NEW b \in Bills, lock'[b] = t
      PROVE  b \in loaded'[t]
  <2>1. lock[b] = t /\ t # s
    BY <1>1, <1>2 DEF Close, Released, TypeOK
  <2> QED
    BY <2>1, CloseView DEF Held
<1>3. ASSUME NEW t \in Sessions
      PROVE  /\ dirty'[t] \subseteq loaded'[t]
             /\ todo'[t] \subseteq loaded'[t]
             /\ phase'[t] \in {"loop", "absent", "stamp"} => cur'[t] \in loaded'[t]
             /\ phase'[t] \in {"idle", "match", "unmatched"} => loaded'[t] = {}
  <2>1. CASE t = s
    BY <2>1 DEF Close, TypeOK
  <2>2. CASE t # s
    BY <2>2 DEF Close, TypeOK, Held
  <2> QED
    BY <2>1, <2>2
<1> QED
  BY <1>2, <1>3 DEF Held

-----------------------------------------------------------------------------
(* The steps *)

\* An account with no rows and bills at their first occurrence.
LEMMA InitIInv == Init => IInv
<1> SUFFICES ASSUME Init PROVE IInv
  OBVIOUS
<1> USE DEF Init
<1>1. NoRows \in [Rows -> Row] /\ \A r \in Rows : ~NoRows[r].linked
  BY NoRowIsRow DEF NoRows
<1>2. TypeOK
  BY <1>1 DEF TypeOK, Phases
<1>3. AtWork
  BY DEF AtWork
<1>4. Faithful /\ OneWriter
  BY DEF Faithful, OneWriter, NoRows
<1>5. SeenStands
  BY DEF SeenStands
<1>6. NothingLost
  BY DEF NothingLost
<1>7. Held /\ InHand
  BY SessionsAssumption DEF Held, InHand
<1> QED
  BY <1>2, <1>3, <1>4, <1>5, <1>6, <1>7 DEF IInv

\* Rolled back: nothing of the session remains.
LEMMA CloseKeeps ==
    ASSUME IInv, NEW s \in Sessions, Close(s), UNCHANGED <<row, pointer>>, aborts' \in Nat
    PROVE  IInv'
<1> USE DEF IInv
<1>1. TypeOK' /\ AtWork'
  <2>1. row' \in [Rows -> Row] /\ pointer' \in [Bills -> Nat \ {0}]
    BY DEF TypeOK
  <2> QED
    BY <2>1, CloseType
<1>2. /\ write'[s] = NoRows
      /\ \A t \in Sessions \ {s} : write'[t] = write[t]
      /\ loaded'[s] = {}
      /\ \A t \in Sessions \ {s} : loaded'[t] = loaded[t] /\ seen'[t] = seen[t]
  BY CloseView
<1>3. Faithful'
  BY <1>2 DEF Faithful, NoRows
<1>4. OneWriter'
  BY <1>2 DEF OneWriter, NoRows
<1>5. SeenStands'
  <2> SUFFICES ASSUME NEW t \in Sessions, NEW b \in loaded'[t], NEW o \in 1 .. (seen'[t][b] - 1)
               PROVE  \E r \in Rows : Stands(View(t)'[r], b, o)
    BY DEF SeenStands
  <2>1. t # s
    BY <1>2
  <2>2. View(t)' = View(t)
    BY <1>2, <2>1 DEF View
  <2> QED
    BY <1>2, <2>1, <2>2 DEF SeenStands
<1>6. NothingLost'
  BY DEF NothingLost
<1>7. InHand'
  <2>1. \A t \in Sessions : phase'[t] = "stamp" =>
           /\ t # s /\ phase[t] = "stamp" /\ cur'[t] = cur[t] /\ seen'[t] = seen[t]
    BY DEF Close, TypeOK
  <2>2. \A t \in Sessions : t # s => View(t)' = View(t)
    BY <1>2 DEF View
  <2> QED
    BY <2>1, <2>2, InHandKeeps
<1>8. Held'
  BY CloseHeld
<1> QED
  BY <1>1, <1>3, <1>4, <1>5, <1>6, <1>7, <1>8

\* Published: what the session saw stand now stands for everybody, and the
\* pointers it writes are ones its rows back.
LEMMA PublishKeeps ==
    ASSUME IInv, NEW s \in Sessions,
           row' = View(s),
           write'[s] = NoRows, \A t \in Sessions \ {s} : write'[t] = write[t],
           \A b \in Bills : pointer'[b] = pointer[b] \/ (b \in loaded[s] /\ pointer'[b] = seen[s][b])
    PROVE  /\ Faithful' /\ OneWriter' /\ NothingLost'
           /\ \A t \in Sessions : \A q \in Rows : \A b, o :
                 Stands(View(t)[q], b, o) => Stands(View(t)'[q], b, o)
<1> USE DEF IInv
<1>1. \A r \in Rows : row'[r] = IF write[s][r] # NoRow THEN write[s][r] ELSE row[r]
  BY DEF View
<1>2. ASSUME NEW r \in Rows, NEW b, NEW o, Stands(row[r], b, o)
      PROVE  Stands(row'[r], b, o)
  BY <1>2, ViewKeeps
<1>3. Faithful'
  <2> SUFFICES ASSUME NEW t \in Sessions, NEW r \in Rows,
                      write'[t][r] # NoRow, row'[r] # NoRow
               PROVE  /\ write'[t][r].linked
                      /\ write'[t][r].bill = row'[r].bill
                      /\ write'[t][r].occ = row'[r].occ
    BY DEF Faithful
  <2>1. t # s /\ write'[t][r] = write[t][r]
    BY DEF NoRows
  <2>2. row[r] # NoRow
    BY <1>1, <2>1 DEF OneWriter
  <2> QED
    BY <1>1, <2>1, <2>2 DEF Faithful
<1>4. OneWriter'
  <2> SUFFICES ASSUME NEW r \in Rows, row'[r] = NoRow, NEW t \in Sessions, NEW u \in Sessions,
                      write'[t][r] # NoRow, write'[u][r] # NoRow
               PROVE  t = u
    BY DEF OneWriter
  <2>1. row[r] = NoRow
    BY <1>1
  <2>2. write[t][r] # NoRow /\ write[u][r] # NoRow
    BY DEF NoRows
  <2> QED
    BY <2>1, <2>2 DEF OneWriter
<1>5. NothingLost'
  <2> SUFFICES ASSUME NEW b \in Bills, NEW o \in 1 .. (pointer'[b] - 1)
               PROVE  \E r \in Rows : Stands(row'[r], b, o)
    BY DEF NothingLost
  <2>1. CASE b \in loaded[s] /\ pointer'[b] = seen[s][b]
    BY <2>1 DEF SeenStands
  <2>2. CASE pointer'[b] = pointer[b]
    <3>1. PICK r \in Rows : Stands(row[r], b, o)
      BY <2>2 DEF NothingLost
    <3> QED
      BY <1>2, <3>1
  <2> QED
    BY <2>1, <2>2
<1>6. ASSUME NEW t \in Sessions, NEW q \in Rows, NEW b, NEW o, Stands(View(t)[q], b, o)
      PROVE  Stands(View(t)'[q], b, o)
  <2>1. CASE t = s
    <3>1. View(s)'[q] = row'[q]
      BY DEF View, NoRows
    <3> QED
      BY <1>6, <2>1, <3>1
  <2>2. CASE t # s /\ write[t][q] # NoRow
    BY <1>6, <2>2 DEF View
  <2>3. CASE t # s /\ write[t][q] = NoRow
    <3>1. View(t)[q] = row[q] /\ View(t)'[q] = row'[q]
      BY <2>3 DEF View
    <3> QED
      BY <1>2, <1>6, <3>1
  <2> QED
    BY <2>1, <2>2, <2>3
<1> QED
  BY <1>3, <1>4, <1>5, <1>6

\* The session ends, and its writes stand.
LEMMA CommitKeeps ==
    ASSUME IInv, NEW s \in Sessions, Commit(s)
    PROVE  IInv'
<1> USE DEF IInv
<1> Close(s) /\ row' = View(s)
  BY DEF Commit
<1>1. TypeOK' /\ AtWork'
  <2>1. row' \in [Rows -> Row]
    BY ViewType
  <2>2. pointer' \in [Bills -> Nat \ {0}]
    BY DEF Commit, TypeOK
  <2>3. aborts' \in Nat
    BY DEF Commit, TypeOK
  <2> QED
    BY <2>1, <2>2, <2>3, CloseType
<1>2. /\ write'[s] = NoRows
      /\ \A t \in Sessions \ {s} : write'[t] = write[t]
      /\ loaded'[s] = {}
      /\ \A t \in Sessions \ {s} : loaded'[t] = loaded[t] /\ seen'[t] = seen[t]
  BY CloseView
<1>3. \A b \in Bills : pointer'[b] = pointer[b] \/ (b \in loaded[s] /\ pointer'[b] = seen[s][b])
  BY DEF Commit
<1>4. /\ Faithful' /\ OneWriter' /\ NothingLost'
      /\ \A t \in Sessions : \A q \in Rows : \A b, o :
            Stands(View(t)[q], b, o) => Stands(View(t)'[q], b, o)
  BY <1>2, <1>3, PublishKeeps
<1>5. SeenStands'
  <2> SUFFICES ASSUME NEW t \in Sessions, NEW b \in loaded'[t], NEW o \in 1 .. (seen'[t][b] - 1)
               PROVE  \E r \in Rows : Stands(View(t)'[r], b, o)
    BY DEF SeenStands
  <2>1. PICK r \in Rows : Stands(View(t)[r], b, o)
    BY <1>2 DEF SeenStands
  <2> QED
    BY <1>4, <2>1
<1>6. InHand'
  <2>1. \A t \in Sessions : phase'[t] = "stamp" =>
           phase[t] = "stamp" /\ cur'[t] = cur[t] /\ seen'[t] = seen[t]
    BY DEF Close, TypeOK
  <2> QED
    BY <1>4, <2>1, InHandKeeps
<1>7. Held'
  BY CloseHeld
<1> QED
  BY <1>1, <1>4, <1>5, <1>6, <1>7

\* The due bills come into the session with the pointers that are committed.
LEMMA LoadKeeps ==
    ASSUME IInv, NEW g \in Sessions, NEW upTo \in Occurrences, Load(g, upTo)
    PROVE  IInv'
<1> USE DEF IInv
<1>1. TypeOK'
  BY DEF TypeOK, Load, Phases, Occurrences
<1>2. AtWork'
  BY DEF AtWork, TypeOK, Load
<1>3. Faithful' /\ OneWriter' /\ NothingLost'
  BY DEF Faithful, OneWriter, NothingLost, Load
<1>4. SeenStands'
  <2> SUFFICES ASSUME NEW t \in Sessions, NEW b \in loaded'[t], NEW o \in 1 .. (seen'[t][b] - 1)
               PROVE  \E r \in Rows : Stands(View(t)'[r], b, o)
    BY DEF SeenStands
  <2>1. View(t)' = View(t)
    BY DEF View, Load
  <2>2. CASE t = g
    <3>1. b \in Bills /\ seen'[t] = pointer
      BY <2>2 DEF Load, TypeOK
    <3>2. PICK r \in Rows : Stands(row[r], b, o)
      BY <3>1 DEF NothingLost
    <3> QED
      BY <2>1, <3>2, ViewKeeps
  <2>3. CASE t # g
    <3>1. loaded'[t] = loaded[t] /\ seen'[t] = seen[t]
      BY <2>3 DEF Load, TypeOK
    <3> QED
      BY <2>1, <3>1 DEF SeenStands
  <2> QED
    BY <2>2, <2>3
<1>5. Held'
  <2>1. \A b \in Bills : lock[b] # g
    BY DEF Held, Load
  <2>2. dirty[g] = {}
    BY DEF Held, Load
  <2>3. ASSUME NEW t \in Sessions
        PROVE  /\ \A b \in Bills : lock'[b] = t => b \in loaded'[t]
               /\ dirty'[t] \subseteq loaded'[t]
               /\ todo'[t] \subseteq loaded'[t]
               /\ phase'[t] \in {"loop", "absent", "stamp"} => cur'[t] \in loaded'[t]
               /\ phase'[t] \in {"idle", "match", "unmatched"} => loaded'[t] = {}
    <3>1. CASE t = g
      BY <2>1, <2>2, <3>1 DEF Load, TypeOK
    <3>2. CASE t # g
      BY <3>2 DEF Held, Load, TypeOK
    <3> QED
      BY <3>1, <3>2
  <2> QED
    BY <2>3 DEF Held
<1>6. InHand'
  <2>1. \A t \in Sessions : phase'[t] = "stamp" =>
           phase[t] = "stamp" /\ cur'[t] = cur[t] /\ seen'[t] = seen[t]
    BY DEF Load, TypeOK
  <2>2. \A t \in Sessions : View(t)' = View(t)
    BY DEF View, Load
  <2> QED
    BY <2>1, <2>2, InHandKeeps
<1> QED
  BY <1>1, <1>2, <1>3, <1>4, <1>5, <1>6

\* Steps that neither write a row nor move a pointer.
LEMMA QueryKeeps ==
    ASSUME IInv, UNCHANGED <<row, pointer, write, seen, loaded>>,
           \A t \in Sessions : phase'[t] = "stamp" =>
              phase[t] = "stamp" /\ cur'[t] = cur[t]
    PROVE  Faithful' /\ OneWriter' /\ SeenStands' /\ NothingLost' /\ InHand'
<1>1. \A t \in Sessions : View(t)' = View(t)
  BY DEF View
<1>2. InHand'
  BY <1>1, InHandKeeps DEF IInv
<1> QED
  BY <1>1, <1>2 DEF IInv, Faithful, OneWriter, SeenStands, NothingLost

\* Going on to the next bill changes nothing that stands.
LEMMA NextBillKeeps ==
    ASSUME IInv, NEW g \in Sessions, NextBill(g)
    PROVE  IInv'
<1>1. TypeOK'
  BY DEF IInv, TypeOK, NextBill, Phases
<1>2. AtWork'
  BY DEF IInv, AtWork, TypeOK, NextBill
<1>3. UNCHANGED <<row, pointer, write, seen, loaded>>
  BY DEF NextBill
<1>4. \A t \in Sessions : phase'[t] = "stamp" => phase[t] = "stamp" /\ cur'[t] = cur[t]
  BY DEF IInv, TypeOK, NextBill
<1>5. Held'
  BY DEF IInv, TypeOK, NextBill, Held
<1> QED
  BY <1>1, <1>2, <1>3, <1>4, <1>5, QueryKeeps DEF IInv

\* StepOver keeps the types, and moves only the bill in hand.
LEMMA StepOverSeen ==
    ASSUME TypeOK, AtWork, NEW g \in Sessions, StepOver(g)
    PROVE  /\ seen' \in [Sessions -> [Bills -> Nat \ {0}]]
           /\ phase' \in [Sessions -> Phases]
           /\ \A t \in Sessions \ {g} : seen'[t] = seen[t] /\ phase'[t] = phase[t]
           /\ phase'[g] \in {"loop", "next", "commit"}
           /\ \A b \in Bills : seen'[g][b] = IF b = cur[g] THEN seen[g][b] + 1 ELSE seen[g][b]
<1>1. seen' = [seen EXCEPT ![g][cur[g]] = @ + 1]
  BY DEF StepOver
<1>2. seen \in [Sessions -> [Bills -> Nat \ {0}]] /\ phase \in [Sessions -> Phases]
  BY DEF TypeOK
<1>3. seen' \in [Sessions -> [Bills -> Nat \ {0}]]
  <2>1. [seen[g] EXCEPT ![cur[g]] = seen[g][cur[g]] + 1] \in [Bills -> Nat \ {0}]
    <3>1. CASE cur[g] \in Bills
      BY <1>2, <3>1
    <3>2. CASE cur[g] \notin Bills
      BY <1>2, <3>2
    <3> QED
      BY <3>1, <3>2
  <2>2. seen' = [seen EXCEPT ![g] = [seen[g] EXCEPT ![cur[g]] = seen[g][cur[g]] + 1]]
    BY <1>1, <1>2
  <2> QED
    BY <1>2, <2>1, <2>2
<1>4. \A b \in Bills : seen'[g][b] = IF b = cur[g] THEN seen[g][b] + 1 ELSE seen[g][b]
  BY <1>1, <1>2
<1>5. \A t \in Sessions \ {g} : seen'[t] = seen[t]
  BY <1>1, <1>2
<1>6. \E p \in {"loop", "next", "commit"} : phase' = [phase EXCEPT ![g] = p]
  BY DEF StepOver
<1> QED
  BY <1>2, <1>3, <1>4, <1>5, <1>6 DEF Phases

\* A session whose pointer in hand has moved, its rows and locks as they were.
LEMMA SteppedOver ==
    ASSUME TypeOK, AtWork, Held, NEW g \in Sessions,
           cur[g] \in Bills, cur[g] \in loaded[g],
           phase[g] \in {"loop", "absent", "stamp"},
           seen' \in [Sessions -> [Bills -> Nat \ {0}]],
           phase' \in [Sessions -> Phases],
           \A t \in Sessions \ {g} : phase'[t] = phase[t],
           phase'[g] \in {"loop", "next", "commit"},
           dirty' = [dirty EXCEPT ![g] = {cur[g]}],
           write' \in [Sessions -> [Rows -> Row]],
           UNCHANGED <<row, pointer, lock, loaded>>,
           UNCHANGED <<cutoff, charge, todo, cur, aborts>>
    PROVE  TypeOK' /\ AtWork' /\ Held'
<1>1. dirty' \in [Sessions -> SUBSET Bills]
  <2>1. dirty \in [Sessions -> SUBSET Bills] /\ {cur[g]} \in SUBSET Bills
    BY DEF TypeOK
  <2> QED
    BY <2>1
<1>2. TypeOK'
  BY <1>1 DEF TypeOK
<1>3. AtWork'
  BY DEF AtWork
<1>4. Held'
  BY <1>1 DEF Held, TypeOK
<1> QED
  BY <1>2, <1>3, <1>4

\* The pointer in hand moves past an occurrence that stands in its session's
\* view.
LEMMA SeenMoves ==
    ASSUME TypeOK, SeenStands, NEW g \in Sessions, NEW r \in Rows,
           Stands(View(g)'[r], cur[g], seen[g][cur[g]]),
           \A t \in Sessions : loaded'[t] \subseteq loaded[t],
           \A t \in Sessions \ {g} : seen'[t] = seen[t],
           \A b \in Bills : seen'[g][b] = IF b = cur[g] THEN seen[g][b] + 1 ELSE seen[g][b],
           \A t \in Sessions : \A q \in Rows : \A b, o :
              Stands(View(t)[q], b, o) => Stands(View(t)'[q], b, o)
    PROVE  SeenStands'
<1> SUFFICES ASSUME NEW t \in Sessions, NEW b \in loaded'[t], NEW o \in 1 .. (seen'[t][b] - 1)
             PROVE  \E q \in Rows : Stands(View(t)'[q], b, o)
  BY DEF SeenStands
<1>1. b \in Bills /\ b \in loaded[t] /\ seen[t][b] \in Nat
  BY DEF TypeOK
<1>2. CASE t = g /\ b = cur[g] /\ o = seen[g][b]
  BY <1>2
<1>3. CASE ~(t = g /\ b = cur[g] /\ o = seen[g][b])
  <2>1. t # g => seen'[t][b] = seen[t][b]
    OBVIOUS
  <2>2. t = g => seen'[t][b] = IF b = cur[g] THEN seen[t][b] + 1 ELSE seen[t][b]
    BY <1>1
  <2>3. o \in 1 .. (seen[t][b] - 1)
    BY <1>1, <1>3, <2>1, <2>2
  <2>4. PICK q \in Rows : Stands(View(t)[q], b, o)
    BY <1>1, <2>3 DEF SeenStands
  <2> QED
    BY <2>4
<1> QED
  BY <1>2, <1>3

\* A placeholder that is found backs the pointer that moves past it.
LEMMA LookForPlaceholderKeeps ==
    ASSUME IInv, NEW g \in Sessions, LookForPlaceholder(g)
    PROVE  IInv'
<1> USE DEF IInv
<1>1. cur[g] \in Bills
  BY DEF LookForPlaceholder, AtWork
<1>2. lock' \in [Bills -> Sessions \cup {Nobody}]
  BY DEF LookForPlaceholder, Flush, TypeOK
<1>3. dirty' \in [Sessions -> SUBSET Bills]
  <2>1. dirty' = [dirty EXCEPT ![g] = {cur[g]}] \/ dirty' = [dirty EXCEPT ![g] = {}]
    BY DEF LookForPlaceholder
  <2>2. dirty \in [Sessions -> SUBSET Bills] /\ {cur[g]} \in SUBSET Bills
    BY <1>1 DEF TypeOK
  <2> QED
    BY <2>1, <2>2
<1>4. UNCHANGED <<row, pointer, cutoff, charge, todo, cur, loaded, write, aborts>>
  BY DEF LookForPlaceholder
<1>7. /\ \A t \in Sessions : \A b \in Bills : lock'[b] = t => b \in loaded[t]
      /\ \A t \in Sessions \ {g} : dirty'[t] = dirty[t]
      /\ cur[g] \in loaded[g]
  BY DEF LookForPlaceholder, Flush, Held, TypeOK
<1>5. CASE PlaceholdersOf(g, cur[g], seen[g][cur[g]]) # {}
  <2>1. StepOver(g)
    BY <1>5 DEF LookForPlaceholder
  <2>2. /\ seen' \in [Sessions -> [Bills -> Nat \ {0}]]
        /\ phase' \in [Sessions -> Phases]
        /\ \A t \in Sessions \ {g} : seen'[t] = seen[t] /\ phase'[t] = phase[t]
        /\ phase'[g] \in {"loop", "next", "commit"}
        /\ \A b \in Bills : seen'[g][b] = IF b = cur[g] THEN seen[g][b] + 1 ELSE seen[g][b]
    BY <2>1, StepOverSeen
  <2>3. TypeOK'
    BY <1>2, <1>3, <1>4, <2>2 DEF TypeOK
  <2>4. AtWork'
    BY <1>1, <1>4, <2>2 DEF AtWork
  <2>5. \A t \in Sessions : View(t)' = View(t)
    BY <1>4 DEF View
  <2>6. Faithful' /\ OneWriter' /\ NothingLost'
    BY <1>4 DEF Faithful, OneWriter, NothingLost
  <2>7. SeenStands'
    <3>1. PICK r \in Rows : r \in PlaceholdersOf(g, cur[g], seen[g][cur[g]])
      BY <1>5 DEF PlaceholdersOf
    <3>2. Stands(View(g)'[r], cur[g], seen[g][cur[g]])
      BY <2>5, <3>1 DEF PlaceholdersOf, Stands
    <3> QED
      BY <1>4, <2>2, <2>5, <3>2, SeenMoves
  <2>8. InHand'
    <3>1. \A t \in Sessions : phase'[t] = "stamp" =>
             phase[t] = "stamp" /\ cur'[t] = cur[t] /\ seen'[t] = seen[t]
      BY <1>4, <2>2
    <3> QED
      BY <2>5, <3>1, InHandKeeps
  <2>9. dirty'[g] \subseteq loaded'[g]
    BY <1>4, <1>5 DEF LookForPlaceholder, Held, TypeOK
  <2>10. Held'
    BY <1>4, <1>7, <2>2, <2>9 DEF Held
  <2> QED
    BY <2>3, <2>4, <2>6, <2>7, <2>8, <2>10
<1>6. CASE PlaceholdersOf(g, cur[g], seen[g][cur[g]]) = {}
  <2>1. phase' = [phase EXCEPT ![g] = "absent"] /\ UNCHANGED seen
    BY <1>6 DEF LookForPlaceholder
  <2>2. TypeOK'
    BY <1>2, <1>3, <1>4, <2>1 DEF TypeOK, Phases
  <2>3. AtWork'
    BY <1>1, <1>4, <2>1 DEF AtWork, TypeOK
  <2>4. \A t \in Sessions : phase'[t] = "stamp" => phase[t] = "stamp" /\ cur'[t] = cur[t]
    BY <1>4, <2>1 DEF TypeOK
  <2>5. dirty'[g] = {}
    BY <1>6 DEF LookForPlaceholder, TypeOK
  <2>6. Held'
    BY <1>4, <1>7, <2>1, <2>5 DEF Held, TypeOK
  <2> QED
    BY <1>4, <2>1, <2>2, <2>3, <2>4, <2>6, QueryKeeps
<1> QED
  BY <1>5, <1>6

\* A row written for the occurrence in hand: a charge that is linked moves the
\* pointer past it, a placeholder first gets its amount.
LEMMA MaterialiseKeeps ==
    ASSUME IInv, NEW g \in Sessions, Materialise(g)
    PROVE  IInv'
<1> USE DEF IInv
<1> DEFINE b0 == cur[g]
           o0 == seen[g][b0]
           Written(r, x) == /\ Put(g, r, x)
                            /\ x # NoRow
                            /\ Stands(x, b0, o0)
                            /\ \/ r \in Fresh
                               \/ /\ View(g)[r] # NoRow
                                  /\ x.linked
                                  /\ x.bill = View(g)[r].bill
                                  /\ x.occ = View(g)[r].occ
           Linked == StepOver(g) /\ dirty' = [dirty EXCEPT ![g] = {b0}]
           Placed == phase' = [phase EXCEPT ![g] = "stamp"] /\ UNCHANGED <<seen, dirty>>
<1>1. /\ phase[g] = "absent"
      /\ UNCHANGED <<row, pointer, lock, cutoff, charge, todo, cur, loaded, aborts>>
  BY DEF Materialise
<1>2. b0 \in Bills /\ o0 \in Nat /\ b0 \in loaded[g]
  BY <1>1 DEF AtWork, TypeOK, Held
<1>3. \E r \in Rows : \E x \in Row : Written(r, x) /\ (Linked \/ Placed)
  <2>1. CASE UnlinkedCharges(g, b0, o0) # {}
    <3>1. PICK r \in UnlinkedCharges(g, b0, o0) :
             Put(g, r, [View(g)[r] EXCEPT !.linked = TRUE])
      BY <2>1 DEF Materialise
    <3> DEFINE x == [View(g)[r] EXCEPT !.linked = TRUE]
    <3>2. r \in Rows /\ View(g)[r] \in Row
      BY <3>1, ViewType DEF UnlinkedCharges
    <3>3. /\ View(g)[r].source = "sync"
          /\ View(g)[r].bill = b0
          /\ View(g)[r].occ = o0
      BY <3>1 DEF UnlinkedCharges
    <3>4. /\ x \in Row
          /\ x.linked = TRUE
          /\ x.source = View(g)[r].source
          /\ x.bill = View(g)[r].bill
          /\ x.occ = View(g)[r].occ
      BY <3>2 DEF Row
    <3>5. x # NoRow /\ View(g)[r] # NoRow
      BY <3>3, <3>4 DEF NoRow
    <3>6. Stands(x, b0, o0)
      BY <3>3, <3>4 DEF Stands
    <3>7. Linked
      BY <2>1 DEF Materialise
    <3> HIDE DEF x, Linked, Placed
    <3> QED
      BY <3>1, <3>2, <3>4, <3>5, <3>6, <3>7 DEF x
  <2>2. CASE UnlinkedCharges(g, b0, o0) = {}
    <3> DEFINE x == [source |-> "recurring", bill |-> b0, occ |-> o0,
                     ext |-> NoCharge, linked |-> TRUE]
    <3>1. PICK r \in Fresh : Put(g, r, x)
      BY <2>2 DEF Materialise
    <3>2. x \in Row /\ x # NoRow /\ Stands(x, b0, o0)
      BY <1>2 DEF Row, NoRow, Stands
    <3>3. r \in Rows
      BY DEF Fresh, Unused
    <3>4. Placed
      BY <2>2 DEF Materialise
    <3> HIDE DEF x, Linked, Placed
    <3> QED
      BY <3>1, <3>2, <3>3, <3>4
  <2> QED
    BY <2>1, <2>2
<1> HIDE DEF Written, Linked, Placed
<1>4. PICK r \in Rows : \E x \in Row : Written(r, x) /\ (Linked \/ Placed)
  BY <1>3, Zenon
<1>5. PICK x \in Row : Written(r, x) /\ (Linked \/ Placed)
  BY <1>4, Zenon
<1>6. Put(g, r, x) /\ x # NoRow /\ Stands(x, b0, o0)
  BY <1>5 DEF Written
<1>7. write' \in [Sessions -> [Rows -> Row]] /\ View(g)'[r] = x
  BY <1>1, <1>6, PutView
<1>8. /\ Faithful' /\ OneWriter' /\ NothingLost'
      /\ \A t \in Sessions : \A q \in Rows : \A b, o :
            Stands(View(t)[q], b, o) => Stands(View(t)'[q], b, o)
  <2>1. UNCHANGED <<row, pointer>>
    BY <1>1
  <2>2. \/ r \in Fresh
        \/ /\ View(g)[r] # NoRow
           /\ x.linked
           /\ x.bill = View(g)[r].bill
           /\ x.occ = View(g)[r].occ
    BY <1>5 DEF Written
  <2> QED
    BY <1>6, <2>1, <2>2, PutKeeps, Zenon
<1>9. CASE Linked
  <2>1. StepOver(g) /\ dirty' = [dirty EXCEPT ![g] = {b0}]
    BY <1>9 DEF Linked
  <2>2. /\ seen' \in [Sessions -> [Bills -> Nat \ {0}]]
        /\ phase' \in [Sessions -> Phases]
        /\ \A t \in Sessions \ {g} : seen'[t] = seen[t] /\ phase'[t] = phase[t]
        /\ phase'[g] \in {"loop", "next", "commit"}
        /\ \A b \in Bills : seen'[g][b] = IF b = cur[g] THEN seen[g][b] + 1 ELSE seen[g][b]
    BY <2>1, StepOverSeen
  <2>3. TypeOK' /\ AtWork' /\ Held'
    BY <1>1, <1>2, <1>7, <2>1, <2>2, SteppedOver
  <2>4. SeenStands'
    BY <1>1, <1>2, <1>6, <1>7, <1>8, <2>2, SeenMoves
  <2>5. InHand'
    <3>1. \A t \in Sessions : phase'[t] = "stamp" =>
             phase[t] = "stamp" /\ cur'[t] = cur[t] /\ seen'[t] = seen[t]
      BY <1>1, <2>2
    <3> QED
      BY <1>8, <3>1, InHandKeeps
  <2> QED
    BY <1>8, <2>3, <2>4, <2>5
<1>10. CASE Placed
  <2>1. phase' = [phase EXCEPT ![g] = "stamp"] /\ UNCHANGED <<seen, dirty>>
    BY <1>10 DEF Placed
  <2>2. TypeOK'
    BY <1>1, <1>7, <2>1 DEF TypeOK, Phases
  <2>3. AtWork' /\ Held'
    BY <1>1, <1>2, <2>1 DEF AtWork, Held, TypeOK
  <2>4. SeenStands'
    <3> SUFFICES ASSUME NEW t \in Sessions, NEW b \in loaded'[t], NEW o \in 1 .. (seen'[t][b] - 1)
                 PROVE  \E q \in Rows : Stands(View(t)'[q], b, o)
      BY DEF SeenStands
    <3>1. PICK q \in Rows : Stands(View(t)[q], b, o)
      BY <1>1, <2>1 DEF SeenStands
    <3> QED
      BY <1>8, <3>1
  <2>5. ASSUME NEW t \in Sessions, phase'[t] = "stamp"
        PROVE  \E q \in Rows : Stands(View(t)'[q], cur'[t], seen'[t][cur'[t]])
    <3>1. CASE t = g
      BY <1>1, <1>6, <1>7, <2>1, <3>1
    <3>2. CASE t # g
      <4>1. PICK q \in Rows : Stands(View(t)[q], cur[t], seen[t][cur[t]])
        BY <2>1, <2>5, <3>2 DEF InHand, TypeOK
      <4> QED
        BY <1>1, <1>8, <2>1, <4>1
    <3> QED
      BY <3>1, <3>2
  <2>6. InHand'
    BY <2>5 DEF InHand
  <2> QED
    BY <1>8, <2>2, <2>3, <2>4, <2>6
<1> QED
  BY <1>5, <1>9, <1>10

\* The amount is stamped and the pointer moves past the placeholder, whether or
\* not the fetch of a rate has committed what the session has flushed.
LEMMA StampKeeps ==
    ASSUME IInv, NEW g \in Sessions, Stamp(g)
    PROVE  IInv'
<1> USE DEF IInv
<1> DEFINE b0 == cur[g]
           o0 == seen[g][b0]
<1>1. /\ phase[g] = "stamp"
      /\ StepOver(g)
      /\ dirty' = [dirty EXCEPT ![g] = {b0}]
      /\ UNCHANGED <<cutoff, charge, todo, cur, aborts>>
  BY DEF Stamp
<1>2. b0 \in Bills /\ o0 \in Nat /\ b0 \in loaded[g]
  BY <1>1 DEF AtWork, TypeOK, Held
<1>3. /\ seen' \in [Sessions -> [Bills -> Nat \ {0}]]
      /\ phase' \in [Sessions -> Phases]
      /\ \A t \in Sessions \ {g} : seen'[t] = seen[t] /\ phase'[t] = phase[t]
      /\ phase'[g] \in {"loop", "next", "commit"}
      /\ \A b \in Bills : seen'[g][b] = IF b = cur[g] THEN seen[g][b] + 1 ELSE seen[g][b]
  BY <1>1, StepOverSeen
<1>4. PICK r \in Rows : Stands(View(g)[r], b0, o0)
  BY <1>1 DEF InHand
<1>5. CASE UNCHANGED <<row, pointer, lock, loaded, write>>
  <2>1. \A t \in Sessions : View(t)' = View(t)
    BY <1>5 DEF View
  <2>2. write' \in [Sessions -> [Rows -> Row]] /\ UNCHANGED <<row, pointer, lock, loaded>>
    BY <1>5 DEF TypeOK
  <2>3. TypeOK' /\ AtWork' /\ Held'
    BY <1>1, <1>2, <1>3, <2>2, SteppedOver
  <2>4. Faithful' /\ OneWriter' /\ NothingLost'
    BY <1>5 DEF Faithful, OneWriter, NothingLost
  <2>5. /\ Stands(View(g)'[r], b0, o0)
        /\ \A t \in Sessions : \A q \in Rows : \A b, o :
              Stands(View(t)[q], b, o) => Stands(View(t)'[q], b, o)
    BY <1>4, <2>1
  <2>6. SeenStands'
    BY <1>2, <1>3, <1>5, <2>5, SeenMoves
  <2>7. InHand'
    <3>1. \A t \in Sessions : phase'[t] = "stamp" =>
             phase[t] = "stamp" /\ cur'[t] = cur[t] /\ seen'[t] = seen[t]
      BY <1>1, <1>3
    <3> QED
      BY <2>5, <3>1, InHandKeeps
  <2> QED
    BY <2>3, <2>4, <2>6, <2>7
<1>6. CASE CommitMidway(g)
  <2>1. /\ row' = View(g)
        /\ write'[g] = NoRows
        /\ \A t \in Sessions \ {g} : write'[t] = write[t]
        /\ loaded'[g] = todo[g] \cup {b0}
        /\ \A t \in Sessions \ {g} : loaded'[t] = loaded[t]
    BY <1>6 DEF CommitMidway, TypeOK
  <2>2. \A b \in Bills : pointer'[b] = pointer[b] \/ (b \in loaded[g] /\ pointer'[b] = seen[g][b])
    BY <1>6 DEF CommitMidway, Held
  <2>3. /\ Faithful' /\ OneWriter' /\ NothingLost'
        /\ \A t \in Sessions : \A q \in Rows : \A b, o :
              Stands(View(t)[q], b, o) => Stands(View(t)'[q], b, o)
    BY <2>1, <2>2, PublishKeeps
  <2>4. \A t \in Sessions : loaded'[t] \subseteq loaded[t]
    BY <1>2, <2>1 DEF Held
  <2>5. SeenStands'
    BY <1>2, <1>3, <1>4, <2>3, <2>4, SeenMoves
  <2>6. TypeOK'
    <3>1. NoRows \in [Rows -> Row]
      BY NoRowIsRow DEF NoRows
    <3>2. row' \in [Rows -> Row] /\ write' \in [Sessions -> [Rows -> Row]]
      BY <1>6, <3>1, ViewType DEF CommitMidway, TypeOK
    <3>3. pointer' \in [Bills -> Nat \ {0}] /\ lock' \in [Bills -> Sessions \cup {Nobody}]
      BY <1>6 DEF CommitMidway, Released, TypeOK
    <3>4. loaded' \in [Sessions -> SUBSET Bills]
      BY <1>2, <1>6 DEF CommitMidway, TypeOK
    <3>5. dirty' \in [Sessions -> SUBSET Bills]
      BY <1>1, <1>2 DEF TypeOK
    <3> QED
      BY <1>1, <1>3, <3>2, <3>3, <3>4, <3>5 DEF TypeOK
  <2>7. AtWork'
    BY <1>1, <1>2, <1>3 DEF AtWork
  <2>8. ASSUME NEW t \in Sessions
        PROVE  /\ \A b \in Bills : lock'[b] = t => b \in loaded'[t]
               /\ dirty'[t] \subseteq loaded'[t]
               /\ todo'[t] \subseteq loaded'[t]
               /\ phase'[t] \in {"loop", "absent", "stamp"} => cur'[t] \in loaded'[t]
               /\ phase'[t] \in {"idle", "match", "unmatched"} => loaded'[t] = {}
    <3>1. \A b \in Bills : lock'[b] = IF lock[b] = g THEN Nobody ELSE lock[b]
      BY <1>6 DEF CommitMidway, Released
    <3>2. CASE t = g
      <4>1. \A b \in Bills : lock'[b] # g
        BY <3>1, SessionsAssumption
      <4>2. dirty'[g] = {b0} /\ todo'[g] = todo[g] /\ cur'[g] = b0
        BY <1>1 DEF TypeOK
      <4> QED
        BY <1>3, <2>1, <3>2, <4>1, <4>2
    <3>3. CASE t # g
      BY <1>1, <1>3, <2>1, <3>1, <3>3, SessionsAssumption DEF Held, TypeOK
    <3> QED
      BY <3>2, <3>3
  <2>9. Held'
    BY <2>8 DEF Held
  <2>10. InHand'
    <3>1. \A t \in Sessions : phase'[t] = "stamp" =>
             phase[t] = "stamp" /\ cur'[t] = cur[t] /\ seen'[t] = seen[t]
      BY <1>1, <1>3
    <3> QED
      BY <2>3, <3>1, InHandKeeps
  <2> QED
    BY <2>3, <2>5, <2>6, <2>7, <2>9, <2>10
<1> QED
  BY <1>5, <1>6 DEF Stamp

\* A sync takes up a charge nobody has.
LEMMA SyncChargeKeeps ==
    ASSUME IInv, NEW y \in Sessions, NEW c \in Charges, SyncCharge(y, c)
    PROVE  IInv'
<1>1. TypeOK'
  BY DEF IInv, TypeOK, SyncCharge, Phases
<1>2. AtWork'
  BY DEF IInv, AtWork, TypeOK, SyncCharge
<1>3. UNCHANGED <<row, pointer, write, seen, loaded>>
  BY DEF SyncCharge
<1>4. \A t \in Sessions : phase'[t] = "stamp" => phase[t] = "stamp" /\ cur'[t] = cur[t]
  BY DEF IInv, TypeOK, SyncCharge
<1>5. Held'
  BY DEF IInv, TypeOK, SyncCharge, Held
<1> QED
  BY <1>1, <1>2, <1>3, <1>4, <1>5, QueryKeeps DEF IInv

\* The charge takes over the placeholder: the occurrence stands on.
LEMMA MergeKeeps ==
    ASSUME IInv, NEW y \in Sessions, MergeIntoPlaceholder(y)
    PROVE  IInv'
<1> USE DEF IInv
<1> DEFINE c == charge[y]
           candidates == {r \in PlaceholdersOf(y, Fulfils[c].bill, Fulfils[c].occ) :
                             View(y)[r].ext = NoCharge}
<1>1. c \in Charges /\ phase[y] = "match"
  BY DEF MergeIntoPlaceholder, AtWork
<1>2. UNCHANGED <<row, pointer, lock, cutoff, charge, todo, cur, seen, loaded, dirty, aborts>>
  BY DEF MergeIntoPlaceholder
<1>3. CASE candidates = {}
  <2>1. phase' = [phase EXCEPT ![y] = "unmatched"] /\ UNCHANGED write
    BY <1>3 DEF MergeIntoPlaceholder
  <2>2. TypeOK'
    BY <1>2, <2>1 DEF TypeOK, Phases
  <2>3. AtWork'
    BY <1>1, <1>2, <2>1 DEF AtWork, TypeOK
  <2>4. \A t \in Sessions : phase'[t] = "stamp" => phase[t] = "stamp" /\ cur'[t] = cur[t]
    BY <1>2, <2>1 DEF TypeOK
  <2>5. Held'
    BY <1>1, <1>2, <2>1 DEF Held, TypeOK
  <2> QED
    BY <1>2, <2>1, <2>2, <2>3, <2>4, <2>5, QueryKeeps
<1>4. CASE candidates # {}
  <2>1. PICK r \in candidates :
           /\ Put(y, r, [View(y)[r] EXCEPT !.source = "sync", !.ext = c])
           /\ phase' = [phase EXCEPT ![y] = "commit"]
    BY <1>4 DEF MergeIntoPlaceholder
  <2> DEFINE x == [View(y)[r] EXCEPT !.source = "sync", !.ext = c]
  <2>2. /\ r \in Rows
        /\ View(y)[r] \in Row
        /\ View(y)[r].source = "recurring"
        /\ View(y)[r].linked
    BY <2>1, ViewType DEF PlaceholdersOf
  <2>3. /\ x \in Row
        /\ x.source = "sync"
        /\ x.linked = View(y)[r].linked
        /\ x.bill = View(y)[r].bill
        /\ x.occ = View(y)[r].occ
    BY <1>1, <2>2 DEF Row
  <2>4. x # NoRow /\ View(y)[r] # NoRow
    <3>1. NoRow.source = "none"
      BY DEF NoRow
    <3>2. x.source # "none" /\ View(y)[r].source # "none"
      BY <2>2, <2>3
    <3> QED
      BY <3>1, <3>2, Zenon
  <2>5. x.linked
    BY <2>2, <2>3, Zenon
  <2>6. Put(y, r, x)
    BY <2>1
  <2> HIDE DEF x
  <2>7. UNCHANGED <<row, pointer>>
    BY <1>2
  <2>8. write' \in [Sessions -> [Rows -> Row]]
    BY <2>2, <2>3, <2>4, <2>6, <2>7, PutView
  <2>9. /\ Faithful' /\ OneWriter' /\ NothingLost'
        /\ \A t \in Sessions : \A q \in Rows : \A b, o :
              Stands(View(t)[q], b, o) => Stands(View(t)'[q], b, o)
    BY <2>2, <2>3, <2>4, <2>5, <2>6, <2>7, PutKeeps, Zenon
  <2>10. TypeOK'
    BY <1>2, <2>1, <2>8 DEF TypeOK, Phases
  <2>11. AtWork'
    BY <1>2, <2>1 DEF AtWork, TypeOK
  <2>12. SeenStands'
    <3> SUFFICES ASSUME NEW t \in Sessions, NEW b \in loaded'[t], NEW o \in 1 .. (seen'[t][b] - 1)
                 PROVE  \E q \in Rows : Stands(View(t)'[q], b, o)
      BY DEF SeenStands
    <3>1. PICK q \in Rows : Stands(View(t)[q], b, o)
      BY <1>2 DEF SeenStands
    <3> QED
      BY <2>9, <3>1
  <2>13. InHand'
    <3>1. \A t \in Sessions : phase'[t] = "stamp" =>
             phase[t] = "stamp" /\ cur'[t] = cur[t] /\ seen'[t] = seen[t]
      BY <1>2, <2>1 DEF TypeOK
    <3> QED
      BY <2>9, <3>1, InHandKeeps
  <2>14. Held'
    BY <1>2, <2>1 DEF Held, TypeOK
  <2> QED
    BY <2>9, <2>10, <2>11, <2>12, <2>13, <2>14
<1> QED
  BY <1>3, <1>4

\* The charge is a row of its own; when the bill expects it, it is linked and
\* the bill's new pointer is backed by it.
LEMMA InsertKeeps ==
    ASSUME IInv, NEW y \in Sessions, InsertCharge(y)
    PROVE  IInv'
<1> USE DEF IInv
<1> DEFINE c == charge[y]
           b0 == Fulfils[c].bill
           o0 == Fulfils[c].occ
           x == [source |-> "sync", bill |-> b0, occ |-> o0, ext |-> c,
                 linked |-> pointer[b0] = o0]
<1>1. c \in Charges /\ b0 \in Bills /\ o0 \in Nat \ {0}
  BY FeedAssumption DEF InsertCharge, AtWork, Occurrences
<1>2. PICK r \in Fresh : Put(y, r, x)
  BY DEF InsertCharge
<1>3. /\ phase' = [phase EXCEPT ![y] = "commit"]
      /\ UNCHANGED <<row, pointer, lock, cutoff, charge, todo, cur, aborts>>
      /\ pointer[b0] = o0 =>
            /\ loaded' = [loaded EXCEPT ![y] = {b0}]
            /\ dirty' = [dirty EXCEPT ![y] = {b0}]
            /\ seen' = [seen EXCEPT ![y] = [pointer EXCEPT ![b0] = o0 + 1]]
      /\ pointer[b0] # o0 => UNCHANGED <<loaded, dirty, seen>>
  BY DEF InsertCharge
<1>4. /\ x \in Row
      /\ x # NoRow
      /\ pointer[b0] = o0 => Stands(x, b0, o0)
  <2>1. (pointer[b0] = o0) \in BOOLEAN
    BY Zenon
  <2>2. x \in Row
    BY <1>1, <2>1 DEF Row
  <2>3. x # NoRow
    BY DEF NoRow
  <2>4. x.linked = (pointer[b0] = o0) /\ x.bill = b0 /\ x.occ = o0
    BY Zenon
  <2> QED
    BY <2>2, <2>3, <2>4, Zenon DEF Stands
<1> HIDE DEF x
<1>5. r \in Rows /\ row[r] = NoRow
  BY DEF Fresh, Unused
<1>6. write' \in [Sessions -> [Rows -> Row]] /\ View(y)'[r] = x
  BY <1>2, <1>3, <1>4, <1>5, PutView
<1>7. /\ Faithful' /\ OneWriter' /\ NothingLost'
      /\ \A t \in Sessions : \A q \in Rows : \A b, o :
            Stands(View(t)[q], b, o) => Stands(View(t)'[q], b, o)
  <2>1. UNCHANGED <<row, pointer>>
    BY <1>3
  <2> QED
    BY <1>2, <1>4, <1>5, <2>1, PutKeeps, Zenon
<1>8. TypeOK'
  <2>1. [pointer EXCEPT ![b0] = o0 + 1] \in [Bills -> Nat \ {0}]
    BY <1>1 DEF TypeOK
  <2>2. CASE pointer[b0] = o0
    <3>1. seen' \in [Sessions -> [Bills -> Nat \ {0}]]
      BY <1>3, <2>1, <2>2 DEF TypeOK
    <3>2. loaded' \in [Sessions -> SUBSET Bills] /\ dirty' \in [Sessions -> SUBSET Bills]
      <4>1. {b0} \in SUBSET Bills
        BY <1>1
      <4>2. loaded \in [Sessions -> SUBSET Bills] /\ dirty \in [Sessions -> SUBSET Bills]
        BY DEF TypeOK
      <4>3. loaded' = [loaded EXCEPT ![y] = {b0}] /\ dirty' = [dirty EXCEPT ![y] = {b0}]
        BY <1>3, <2>2
      <4> QED
        BY <4>1, <4>2, <4>3
    <3> QED
      BY <1>3, <1>6, <3>1, <3>2 DEF TypeOK, Phases
  <2>3. CASE pointer[b0] # o0
    BY <1>3, <1>6, <2>3 DEF TypeOK, Phases
  <2> QED
    BY <2>2, <2>3
<1>9. AtWork'
  BY <1>3 DEF AtWork, TypeOK
<1>10. SeenStands'
  <2> SUFFICES ASSUME NEW t \in Sessions, NEW b \in loaded'[t], NEW o \in 1 .. (seen'[t][b] - 1)
               PROVE  \E q \in Rows : Stands(View(t)'[q], b, o)
    BY DEF SeenStands
  <2>1. CASE t = y /\ pointer[b0] = o0
    <3>1. b = b0 /\ seen'[t][b] = o0 + 1
      BY <1>1, <1>3, <2>1 DEF TypeOK
    <3>2. CASE o = o0
      BY <1>4, <1>5, <1>6, <2>1, <3>1, <3>2
    <3>3. CASE o # o0
      <4>1. o \in 1 .. (pointer[b0] - 1)
        BY <1>1, <2>1, <3>1, <3>3
      <4>2. PICK q \in Rows : Stands(row[q], b, o)
        BY <1>1, <3>1, <4>1 DEF NothingLost
      <4>3. Stands(View(y)[q], b, o)
        BY <4>2, ViewKeeps
      <4> QED
        BY <1>7, <2>1, <4>3
    <3> QED
      BY <3>2, <3>3
  <2>2. CASE ~(t = y /\ pointer[b0] = o0)
    <3>1. loaded'[t] = loaded[t] /\ seen'[t] = seen[t]
      BY <1>3, <2>2 DEF TypeOK
    <3>2. PICK q \in Rows : Stands(View(t)[q], b, o)
      BY <3>1 DEF SeenStands
    <3> QED
      BY <1>7, <3>2
  <2> QED
    BY <2>1, <2>2
<1>11. InHand'
  <2>1. \A t \in Sessions : phase'[t] = "stamp" =>
           /\ t # y /\ phase[t] = "stamp" /\ cur'[t] = cur[t]
           /\ pointer[b0] = o0 => seen'[t] = seen[t]
    BY <1>3 DEF TypeOK
  <2>2. \A t \in Sessions : phase'[t] = "stamp" =>
           phase[t] = "stamp" /\ cur'[t] = cur[t] /\ seen'[t] = seen[t]
    BY <1>3, <2>1
  <2> QED
    BY <1>7, <2>2, InHandKeeps
<1>12. Held'
  <2>1. phase[y] = "unmatched" /\ loaded[y] = {} /\ dirty[y] = {} /\ todo[y] = {}
    BY DEF InsertCharge, Held
  <2>2. \A b \in Bills : lock[b] # y
    BY <2>1 DEF Held
  <2>3. dirty'[y] \subseteq loaded'[y]
    BY <1>3, <2>1 DEF TypeOK
  <2>4. \A t \in Sessions \ {y} : loaded'[t] = loaded[t] /\ dirty'[t] = dirty[t]
    BY <1>3 DEF TypeOK
  <2> QED
    BY <1>3, <2>1, <2>2, <2>3, <2>4 DEF Held, TypeOK
<1> QED
  BY <1>7, <1>8, <1>9, <1>10, <1>11, <1>12

-----------------------------------------------------------------------------
(* Every step, every behaviour *)

\* Every step of every session keeps the invariant.
LEMMA NextIInv == IInv /\ [Next]_vars => IInv'
<1> SUFFICES ASSUME IInv, [Next]_vars PROVE IInv'
  OBVIOUS
<1>1. CASE UNCHANGED vars
  <2>1. \A t \in Sessions : View(t)' = View(t)
    BY <1>1 DEF View, vars
  <2>2. TypeOK' /\ AtWork' /\ Held'
    BY <1>1 DEF vars, IInv, TypeOK, AtWork, Held
  <2>3. InHand' /\ Faithful' /\ OneWriter'
    BY <1>1, <2>1 DEF vars, IInv, InHand, Faithful, OneWriter
  <2>4. SeenStands' /\ NothingLost'
    BY <1>1, <2>1 DEF vars, IInv, SeenStands, NothingLost
  <2> QED
    BY <2>2, <2>3, <2>4 DEF IInv
<1>2. ASSUME NEW s \in Sessions, Begin(s) PROVE IInv'
  BY <1>2, LoadKeeps, SyncChargeKeeps DEF Begin
<1>3. ASSUME NEW s \in Sessions, Continue(s) PROVE IInv'
  BY <1>3, NextBillKeeps, LookForPlaceholderKeeps, MaterialiseKeeps, StampKeeps,
     MergeKeeps, InsertKeeps, CommitKeeps DEF Continue
<1>4. ASSUME NEW s \in Sessions, Abort(s) PROVE IInv'
  <2>1. Close(s) /\ UNCHANGED <<row, pointer>> /\ aborts' \in Nat
    BY <1>4 DEF Abort, database, IInv, TypeOK
  <2> QED
    BY <2>1, CloseKeeps
<1>5. ASSUME NEW s \in Sessions, BreakDeadlock(s) PROVE IInv'
  <2>1. Close(s) /\ UNCHANGED <<row, pointer>> /\ aborts' \in Nat
    BY <1>5 DEF BreakDeadlock, IInv, TypeOK
  <2> QED
    BY <2>1, CloseKeeps
<1> QED
  BY <1>1, <1>2, <1>3, <1>4, <1>5 DEF Next

\* The invariant holds in every reachable state.
THEOREM Invariant == Spec => []IInv
  BY InitIInv, NextIInv, PTL DEF Spec

\* Every query, flush, commit, rollback and deadlock victim keeps the rows, the
\* pointers and the sessions in their types.
THEOREM TypeCorrect == Spec => []TypeOK
<1>1. IInv => TypeOK
  BY DEF IInv
<1> QED
  BY <1>1, Invariant, PTL

\* However sessions interleave and whichever of them are rolled back, the
\* committed pointer is never past an occurrence without a committed row
\* (generate_pending commits rows and next_occurrence together).
THEOREM NothingIsLost == Spec => []NothingLost
<1>1. IInv => NothingLost
  BY DEF IInv
<1> QED
  BY <1>1, Invariant, PTL
=============================================================================
