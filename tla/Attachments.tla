---------------------------- MODULE Attachments ----------------------------
(***************************************************************************)
(* Receipts: a file in the storage and a row that names it.  The two are   *)
(* written one after the other without a common transaction: an upload     *)
(* writes the file first, a deletion, of the attachment or of what owns    *)
(* its transaction, removes the file first, and some deletions leave it.   *)
(* Requests interleave and a process may stop between the two.  The page   *)
(* shows one receipt at a time, fetched on a click.                        *)
(***************************************************************************)
EXTENDS Naturals, FiniteSets

CONSTANTS
    Txs,         \* transactions: two of them, at first
    MaxPerTx,    \* storage_max_attachments_per_transaction
    MaxFlight,   \* bound: requests at the same time
    MaxEdits     \* bound: requests

(* What the constants must be; the modules of the runs assume it.           *)
AttachmentsAssumption ==
    MaxPerTx \in Nat \ {0} /\ MaxFlight \in Nat /\ MaxEdits \in Nat

VARIABLES
    txs,         \* transactions that exist
    legs,        \* they are the legs of one transfer
    recs,        \* rows of transaction_attachments
    files,       \* storage keys with a file
    leftover,    \* history: those whose row went, or is to go, without them
    jobs,        \* requests between two of their steps
    cut,         \* kinds of requests that were cut or overtaken after the first
    crossed,     \* something was committed while another request was open
    reconciled,  \* two transactions were made one
    page,        \* receipt shown, last one clicked, downloads on their way
    edits

vars == <<txs, legs, recs, files, leftover, jobs, cut, crossed, reconciled, page, edits>>

Init ==
    /\ txs = Txs /\ legs \in BOOLEAN
    /\ recs = {} /\ files = {} /\ leftover = {} /\ jobs = {}
    /\ cut = {} /\ crossed = FALSE /\ reconciled = FALSE
    /\ page = [shown |-> 0, last |-> 0, asked |-> {}]
    /\ edits = 0
-----------------------------------------------------------------------------
Of(t) == {r \in recs : r.tx = t}
KeysOf(S) == {r.key : r \in S}

MayUpload(t) == Cardinality(Of(t)) < MaxPerTx

Bounded == edits < MaxEdits /\ edits' = edits + 1
Open(j) == Cardinality(jobs) < MaxFlight /\ jobs' = jobs \cup {j}
Close(j) == jobs' = jobs \ {j} /\ crossed' = (crossed \/ jobs' # {})
-----------------------------------------------------------------------------
(* upload_attachment: the checks, the file, the row.                        *)
Upload(t) ==
    /\ Bounded
    /\ t \in txs /\ MayUpload(t)
    /\ Open([kind |-> "upload", at |-> "checked", txs |-> {t}, keys |-> {edits + 1}])
    /\ UNCHANGED <<txs, legs, recs, files, leftover, cut, crossed, reconciled, page>>

Store(j) ==
    /\ j.kind = "upload" /\ j.at = "checked"
    /\ files' = files \cup j.keys
    /\ jobs' = (jobs \ {j}) \cup {[j EXCEPT !.at = "stored"]}
    /\ UNCHANGED <<txs, legs, recs, leftover, cut, crossed, reconciled, page, edits>>

(* The row refuses a transaction that is gone; the file stays.              *)
Record(j) ==
    /\ j.kind = "upload" /\ j.at = "stored"
    /\ recs' = recs \cup {[key |-> k, tx |-> t, name |-> "own"] : k \in j.keys, t \in j.txs \cap txs}
    /\ Close(j)
    /\ UNCHANGED <<txs, legs, files, leftover, cut, reconciled, page, edits>>

(* delete_attachment: the file, then the row; a file that is gone is no     *)
(* obstacle (local_storage.py).                                             *)
RemoveFile(r) ==
    /\ Bounded
    /\ files' = files \ {r.key} /\ leftover' = leftover \ {r.key}
    /\ Open([kind |-> "remove", at |-> "removed", txs |-> {}, keys |-> {r.key}])
    /\ UNCHANGED <<txs, legs, recs, cut, crossed, reconciled, page>>

RemoveRecord(j) ==
    /\ j.kind = "remove"
    /\ recs' = {r \in recs : r.key \notin j.keys}
    /\ page' = IF page.shown \in j.keys THEN [page EXCEPT !.shown = 0] ELSE page
    /\ Close(j)
    /\ UNCHANGED <<txs, legs, files, leftover, cut, reconciled, edits>>

PurgeLeaving(S) ==                   \* fault: no cleanup_attachment_files
    /\ Bounded
    /\ Open([kind |-> "purge", at |-> "removed", txs |-> S,
             keys |-> KeysOf({r \in recs : r.tx \in S})])
    /\ UNCHANGED <<txs, legs, recs, files, leftover, cut, crossed, reconciled, page>>

(* cleanup_attachment_files, before the transactions S go: a file that the  *)
(* storage fails to remove is passed over.                                  *)
Purge(S) ==
    LET doomed == KeysOf({r \in recs : r.tx \in S}) IN
    /\ Bounded
    /\ Open([kind |-> "purge", at |-> "removed", txs |-> S, keys |-> doomed])
    /\ \E kept \in SUBSET (doomed \cap files) :
          files' = files \ (doomed \ kept) /\ leftover' = (leftover \ doomed) \cup kept
    /\ UNCHANGED <<txs, legs, recs, cut, crossed, reconciled, page>>

(* delete_transaction takes the other leg of a transfer along.              *)
DeleteTransaction(t) == t \in txs /\ Purge(IF legs THEN txs ELSE {t})

(* delete_import_log and delete_account: all of theirs.                     *)
DeleteOwner(S) == S # {} /\ S \subseteq txs /\ Purge(S)

(* The rows of the transactions cascade.                                    *)
PurgeRecords(j) ==
    /\ j.kind = "purge"
    /\ txs' = txs \ j.txs
    /\ recs' = {r \in recs : r.tx \notin j.txs}
    /\ Close(j)
    /\ UNCHANGED <<legs, files, leftover, cut, reconciled, page, edits>>

(* The deletion of a connection or of a user, and what a sync clears away:  *)
(* in one commit the rows cascade, and nobody looks at the files.           *)
Cascade(S) ==
    /\ Bounded
    /\ S # {} /\ S \subseteq txs
    /\ txs' = txs \ S
    /\ recs' = {r \in recs : r.tx \notin S}
    /\ leftover' = leftover \cup (files \cap KeysOf({r \in recs : r.tx \in S}))
    /\ crossed' = (crossed \/ jobs # {})
    /\ UNCHANGED <<legs, files, jobs, cut, reconciled, page>>

CanReconcile(s, a) == ~legs /\ s # a /\ {s, a} \subseteq txs

(* reconcile_transactions: the survivor takes the receipts over before the  *)
(* other transaction is deleted, in one commit.                             *)
Reconcile(s, a) ==
    /\ Bounded
    /\ CanReconcile(s, a)
    /\ recs' = {IF r.tx = a THEN [r EXCEPT !.tx = s] ELSE r : r \in recs}
    /\ txs' = txs \ {a} /\ reconciled' = TRUE
    /\ cut' = IF \E j \in jobs : j.kind = "purge" THEN cut \cup {"purge"} ELSE cut
    /\ crossed' = (crossed \/ jobs # {})
    /\ UNCHANGED <<legs, files, leftover, jobs, page>>

Rename(r) ==
    /\ Bounded
    /\ r.name = "own"
    /\ recs' = (recs \ {r}) \cup {[r EXCEPT !.name = "given"]}
    /\ crossed' = (crossed \/ jobs # {})
    /\ UNCHANGED <<txs, legs, files, leftover, jobs, cut, reconciled, page>>

Crash(j) ==
    /\ jobs' = jobs \ {j}
    /\ cut' = IF j.at = "checked" THEN cut ELSE cut \cup {j.kind}
    /\ UNCHANGED <<txs, legs, recs, files, leftover, crossed, reconciled, page, edits>>
-----------------------------------------------------------------------------
(* handlePreview: a click on the receipt that is shown closes it.           *)
Click(r) ==
    /\ Bounded
    /\ page' = IF page.shown = r.key THEN [page EXCEPT !.shown = 0]
               ELSE [page EXCEPT !.last = r.key, !.asked = @ \cup {r.key}]
    /\ UNCHANGED <<txs, legs, recs, files, leftover, jobs, cut, crossed, reconciled>>

(* A download that was overtaken by a click is thrown away.                 *)
Arrive(k) ==
    /\ page' = [page EXCEPT !.asked = @ \ {k},
                            !.shown = IF k \in files /\ k = page.last THEN k ELSE @]
    /\ UNCHANGED <<txs, legs, recs, files, leftover, jobs, cut, crossed, reconciled, edits>>

Next ==
    \/ \E t \in Txs : Upload(t) \/ DeleteTransaction(t)
    \/ \E S \in SUBSET Txs : DeleteOwner(S) \/ Cascade(S)
    \/ \E j \in jobs : Store(j) \/ Record(j) \/ RemoveRecord(j) \/ PurgeRecords(j) \/ Crash(j)
    \/ \E r \in recs : RemoveFile(r) \/ Rename(r) \/ Click(r)
    \/ \E s, a \in Txs : Reconcile(s, a)
    \/ \E k \in page.asked : Arrive(k)

Spec == Init /\ [][Next]_vars
-----------------------------------------------------------------------------
Keys == 1..MaxEdits
Kinds == {"upload", "remove", "purge"}

TypeOK ==
    /\ txs \subseteq Txs /\ legs \in BOOLEAN
    /\ recs \subseteq [key : Keys, tx : txs, name : {"own", "given"}]
    /\ \A r, o \in recs : r.key = o.key => r = o
    /\ leftover \subseteq files /\ files \subseteq Keys
    /\ jobs \subseteq [kind : Kinds, at : {"checked", "stored", "removed"},
                       txs : SUBSET Txs, keys : SUBSET Keys]
    /\ cut \subseteq Kinds /\ {crossed, reconciled} \subseteq BOOLEAN
    /\ page.shown \in {0} \cup Keys /\ page.last \in {0} \cup Keys /\ page.asked \subseteq Keys
    /\ edits \in 0..MaxEdits

(* A receipt that is listed can be opened: its file is there, whatever      *)
(* uploads are cut and however transactions are merged, unless a deletion   *)
(* has taken the file and not yet, or never, the row.                       *)
RecordHasFile ==
    \A r \in recs : \/ r.key \in files
                    \/ \E j \in jobs : j.kind # "upload" /\ r.key \in j.keys
                    \/ cut \cap {"remove", "purge"} # {}

(* Nothing else is left behind: requests one after the other, none of them  *)
(* cut, leave the storage with the files of the rows, those the storage     *)
(* failed to remove, those of cascades, and no other.                       *)
NoOrphans == jobs = {} /\ ~crossed /\ cut = {} => files \ leftover = KeysOf(recs)

(* A transaction has no more receipts than the settings allow, unless       *)
(* uploads crossed or two transactions were made one.                       *)
WithinLimit == crossed \/ reconciled \/ \A t \in Txs : Cardinality(Of(t)) <= MaxPerTx

(* What is shown is what was clicked last, in whatever order the downloads  *)
(* arrive (transaction-attachments.tsx:315), unless its file was not found. *)
ShownIsLast == page.asked = {} => page.shown \in {0, page.last} \/ page.last \notin files
=============================================================================
