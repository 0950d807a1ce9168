------------------------------- MODULE MCHome -------------------------------
(* What surrounds the ledger of a family: the household itself, the alerts *)
(* it gets, the proposals of its agents and the notifications its phones   *)
(* post; and the transfers of rows that several requests are at.  The five *)
(* keep their own tables and meet only in the rows they read, so a         *)
(* behaviour follows one of them.                                          *)
EXTENDS Alerts

CONSTANTS u1, u2, pix, smudged,
          Users, Workspaces, Founder, Joiner, MaxFlight, MaxHouseholdEdits,
          Ids, Home, Other, Chat, Tab, Kinds, MaxProposalEdits,
          Owner, Secured, CaptureKeys, Senders, Accounts, MaxCaptureEdits,
          MaxRequests

VARIABLES story,
    known, active, admins, made, archived, personal, manager, role, rows, request, raced,
    where, plan, filed, taken, prop, writes, asked, stored, card, marked, requests,
    goesBy, account, captured, inFlight, crossed,
    legs, stage, job, snap, mem, todo

H == INSTANCE Household WITH Spaces <- Workspaces, First <- Founder, Second <- Joiner,
        MaxEdits <- MaxHouseholdEdits
P == INSTANCE Proposals WITH rec <- plan, MaxEdits <- MaxProposalEdits
C == INSTANCE Capture WITH rows <- captured, Users <- {u1, u2}, Keys <- CaptureKeys,
        MaxEdits <- MaxCaptureEdits,
        MovesOf <- [k \in CaptureKeys |->
            [told |-> "credit", last4 |-> 1, time |-> IF k = smudged THEN "unreadable" ELSE "read",
             said |-> IF k = pix THEN "pix" ELSE "nothing"]]
F == INSTANCE TransferPairs WITH row <- legs, phase <- stage, Rows <- 1 .. 3,
        Accounts <- {1, 2}, Connected <- {1}, NoAccount <- 0, Days <- {0}, Amounts <- {1}, Entered <- {"import"},
        Pairs <- 1 .. 3, NoPair <- 0, Sessions <- {1, 2}

ASSUME HomeAssumption ==
    /\ H!HouseholdAssumption /\ AlertsAssumption
    /\ P!ProposalsAssumption /\ C!CaptureAssumption /\ F!PairsAssumption

household == <<known, active, admins, made, archived, personal, manager, role, rows,
               request, raced>>
alerts == <<today, tx, bill, rec, status, run, sent, twice>>
proposals == <<where, plan, filed, taken, prop, writes, asked, stored, card, marked, requests>>
capture == <<goesBy, account, captured, inFlight, crossed>>
transfers == <<legs, stage, job, snap, mem, todo>>
homeVars == <<story, edits, household, alerts, proposals, capture, transfers>>

\* An import has left a debit and a credit that make a transfer, and it may have left
\* a third row that could take the place of either.
Debit == F!Enter("import", 1, "debit", 0, 1)
Credit == F!Enter("import", 2, "credit", 0, 1)
Statements == {<<Debit, Credit, third>> : third \in {F!NoRow, Debit, Credit}}

HomeInit ==
    /\ story \in {"household", "alerts", "proposals", "capture", "transfers"}
    /\ H!Init /\ Init /\ P!Init /\ C!Init
    /\ story # "alerts" => bill = 0
    /\ story # "proposals" => taken = {}
    /\ story # "capture" => goesBy = {u1, u2}
    /\ legs \in IF story = "transfers" THEN Statements ELSE {F!NoRows}
    /\ stage = [s \in {1, 2} |-> "idle"] /\ job = [s \in {1, 2} |-> "none"]
    /\ snap = [s \in {1, 2} |-> F!NoRows] /\ mem = [s \in {1, 2} |-> F!NoRows]
    /\ todo = [s \in {1, 2} |-> {}]

HouseholdNext ==
    story = "household" /\ H!Next /\ UNCHANGED <<story, alerts, proposals, capture, transfers>>
AlertsNext ==
    story = "alerts" /\ Next /\ UNCHANGED <<story, household, proposals, capture, transfers>>
ProposalsNext ==
    story = "proposals" /\ P!Next /\ UNCHANGED <<story, household, alerts, capture, transfers>>
CaptureNext ==
    story = "capture" /\ C!Next /\ UNCHANGED <<story, household, alerts, proposals, transfers>>

\* What begins: a request, a new row or a deletion in bulk (bound: MaxRequests).
TransfersBegin == \/ \E s \in {1, 2} : stage[s] = "idle" /\ stage'[s] # "idle"
                  \/ stage' = stage /\ legs' # legs
TransfersNext ==
    /\ story = "transfers" /\ F!NextTyped
    /\ edits' = IF TransfersBegin THEN edits + 1 ELSE edits
    /\ edits' <= MaxRequests
    /\ UNCHANGED <<story, household, alerts, proposals, capture>>

HomeNext ==
    HouseholdNext \/ AlertsNext \/ ProposalsNext \/ CaptureNext \/ TransfersNext

HourlyTask ==
    story = "alerts" /\ HourlyStep /\ UNCHANGED <<story, household, proposals, capture, transfers>>

HomeSpec == HomeInit /\ [][HomeNext]_homeVars /\ WF_homeVars(HourlyTask)

-----------------------------------------------------------------------------
(* The installation keeps an active administrator and a workspace an owner  *)
(* or a manager, who archives a workspace has another, and the deletion of  *)
(* a user leaves the rows of the others.                                    *)
HouseholdGoverned ==
    /\ [](story = "household" => H!TypeOK)
    /\ []H!AdminRemains
    /\ [][H!GovernedStep]_homeVars
    /\ [][H!ArchiveStep]_homeVars
    /\ [][H!RowsStep]_homeVars

(* What is due is announced in the end, and an alert for something settled  *)
(* or gone is dismissed in the end.                                         *)
AlertsFire ==
    /\ [](story = "alerts" => TypeOK)
    /\ story = "alerts" => TriggersFire
    /\ story = "alerts" => StaleDismissed

(* Agents write nothing that was not asked for, a card marked as applied    *)
(* was, an entry is in the workspace of its account, and a proposal leaves  *)
(* later edits of other fields alone.                                       *)
ProposalsKept ==
    /\ [](story = "proposals" => P!TypeOK)
    /\ [](P!OnlyAsked /\ P!CardTruth /\ P!LandsWithAccount)
    /\ [][P!LabelStep]_homeVars

(* A notification has one row, the webhook opens no second account for an   *)
(* application, and a purchase lands on its card, a payment on a checking   *)
(* account.                                                                 *)
CapturedOnce ==
    /\ [](story = "capture" => C!TypeOK)
    /\ []C!OneRowEach
    /\ [][C!OpeningStep]_homeVars
    /\ [][C!LandingStep]_homeVars

(* While two requests are at the same rows, rows are entered and others go  *)
(* in bulk, no transfer_pair_id is on three rows, the two that carry one    *)
(* are a debit and a credit, and a detection pairs no two old rows.         *)
AtMostTwoLegs ==
    story = "transfers" => /\ F!TypeOK
                           /\ F!AtMostTwoLegs
                           /\ F!OpposingLegs
                           /\ F!DetectionFaithful
=============================================================================
