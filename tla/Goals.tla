------------------------------- MODULE Goals -------------------------------
(***************************************************************************)
(* One savings goal: what it tracks, how far it is, what the page says of  *)
(* the pace, while days pass, money comes and goes, and what it tracks is  *)
(* deleted.  goal_service.py and goals.tsx.  Months have MonthDays days,   *)
(* amounts are in cents of one currency.                                   *)
(***************************************************************************)
EXTENDS Integers

CONSTANTS
  Spaces, First,   \* workspaces, the goal's
  Targets,         \* target amounts
  Sums,            \* amounts earned and spent
  Dates,           \* target dates, Never for none
  MonthDays,       \* days of a month
  MaxDay,          \* bound: days
  MaxEdits         \* bound: requests

(* What the constants must be; the modules of the runs assume it.           *)
GoalsAssumption ==
  /\ First \in Spaces /\ Spaces \subseteq Nat \ {0}
  /\ Targets \cup Sums \subseteq Nat \ {0}
  /\ Dates \subseteq Nat /\ MonthDays \in Nat \ {0} /\ MaxDay \in Nat \ {0} /\ MaxEdits \in Nat

VARIABLES
  today,
  goal,    \* the row of goals
  alive,   \* accounts, assets and wallets that exist; a workspace has one of each
  worth,   \* balance of each account, value of each asset
  paid,    \* history: months in which the user put aside what the page said
  strayed, \* history: money or the goal changed otherwise since it was set
  edits

vars == <<today, goal, alive, worth, paid, strayed, edits>>

Never == 0
Nothing == 0
Kinds == {"account", "asset", "asset_group"}
Tracking == Kinds \cup {"manual", "net_worth"}
NoLinks == [k \in Kinds |-> Nothing]
NoGoal == [tracking |-> "none", link |-> NoLinks, current |-> 0, initial |-> 0,
           target |-> 0, start |-> Never, by |-> Never]
Goal == [tracking : Tracking \cup {"none"}, link : [Kinds -> Spaces \cup {Nothing}],
         current : Nat, initial : Nat, target : Nat, start : Nat,
         by : Dates \cup {Never}]

Month(day) == (day - 1) \div MonthDays
Bounded == edits < MaxEdits /\ edits' = edits + 1
-----------------------------------------------------------------------------
(* What the goal reads, _resolve_current_amount: a wallet holds the         *)
(* workspace's asset, a link that is gone falls back on the stored amount.  *)
Linked(g) == g.tracking \in Kinds /\ g.link[g.tracking] # Nothing
Part(g) == IF g.tracking = "account" THEN "account" ELSE "asset"
Held(g) ==
  IF Linked(g) THEN worth[<<Part(g), g.link[g.tracking]>>]
  ELSE IF g.tracking = "net_worth" THEN worth[<<"account", First>>] + worth[<<"asset", First>>]
  ELSE g.current

RoundHalfEven(total, n) ==
  LET q == total \div n
      r == total % n
  IN  IF 2 * r > n \/ (2 * r = n /\ q % 2 = 1) THEN q + 1 ELSE q

\* Seeded fault for MonthsLeft: the month of the date is counted too.
MonthsLeftInclusive(day, by) == Month(by) - Month(day) + 1

MonthsLeft(day, by) == IF Month(by) = Month(day) THEN 1 ELSE Month(by) - Month(day)

(* _compute_monthly_contribution                                            *)
Contribution(g, current, day) ==
  IF day >= g.by \/ current >= g.target THEN 0
  ELSE RoundHalfEven(g.target - current, MonthsLeft(day, g.by))

\* What should have been saved, times the days of the plan.
Expected(needed, g, day) == needed * (day - g.start)

(* _compute_on_track of a goal with a date; differences times the days.     *)
OnTrack(g, current, day) ==
  LET days == g.by - g.start
      needed == g.target - g.initial
      ahead == days * (current - g.initial) - Expected(needed, g, day)
  IN  CASE current >= g.target -> "achieved"
        [] current < g.target /\ day > g.by -> "overdue"
        [] OTHER ->
             IF days <= 0 THEN "on_track"
             ELSE IF needed <= 0 THEN "achieved"
             ELSE IF 10 * ahead >= needed * days THEN "ahead"
             ELSE IF 20 * ahead >= -(needed * days) THEN "on_track"
             ELSE "behind"
-----------------------------------------------------------------------------
Init ==
  /\ today = 1 /\ goal = NoGoal /\ edits = 0
  /\ alive = Kinds \X Spaces
  /\ worth = [s \in {"account", "asset"} \X Spaces |-> 0]
  /\ paid = {} /\ strayed = FALSE

(* _ensure_goal_link_scope; no link passes.                                 *)
InScope(kind, space) ==
  space # Nothing => space = First /\ <<kind, space>> \in alive

(* _clear_inactive_tracking_links                                           *)
Kept(link, tracking) == [k \in Kinds |-> IF k = tracking THEN link[k] ELSE Nothing]

(* create_goal: the amount held is the baseline.  A request may name any    *)
(* one thing, of the tracked kind or not.                                   *)
CreateGoal(tracking, kind, space, target, current, by) ==
  LET g == [tracking |-> tracking, link |-> Kept([NoLinks EXCEPT ![kind] = space], tracking),
            current |-> current, initial |-> 0, target |-> target,
            start |-> today, by |-> by]
  IN
  /\ Bounded
  /\ goal = NoGoal /\ InScope(kind, space)
  /\ goal' = [g EXCEPT !.initial = Held(g)]
  /\ paid' = {} /\ strayed' = FALSE
  /\ UNCHANGED <<today, alive, worth>>

(* update_goal: the baseline and the start stay.                            *)
UpdateGoal(tracking, kind, space, target, by) ==
  /\ Bounded
  /\ goal # NoGoal /\ InScope(kind, space)
  /\ goal' = [goal EXCEPT !.tracking = tracking, !.target = target, !.by = by,
                          !.link = Kept([goal.link EXCEPT ![kind] = space], tracking)]
  /\ strayed' = TRUE
  /\ UNCHANGED <<today, alive, worth, paid>>

DeleteGoal ==
  /\ Bounded
  /\ goal # NoGoal /\ goal' = NoGoal
  /\ UNCHANGED <<today, alive, worth, paid, strayed>>

(* An account goes with its rows, a wallet leaves its asset; the link is    *)
(* set to null.  An asset that a goal names refuses (foreign key).          *)
DeleteTracked(kind, space) ==
  /\ Bounded
  /\ <<kind, space>> \in alive
  /\ kind = "asset" => goal.link["asset"] # space
  /\ alive' = alive \ {<<kind, space>>}
  /\ goal' = IF goal.link[kind] = space THEN [goal EXCEPT !.link[kind] = Nothing] ELSE goal
  /\ worth' = [s \in DOMAIN worth |-> IF s = <<kind, space>> THEN 0 ELSE worth[s]]
  /\ strayed' = TRUE
  /\ UNCHANGED <<today, paid>>

(* Money comes or goes where it may count for the goal.                     *)
Move(kind, space, sum) ==
  /\ Bounded
  /\ <<kind, space>> \in alive
  /\ worth' = [worth EXCEPT ![<<kind, space>>] = @ + sum]
  /\ worth'[<<kind, space>>] >= 0
  /\ strayed' = TRUE
  /\ UNCHANGED <<today, goal, alive, paid>>

(* The user puts aside what the page says, once a month, where it counts.   *)
PutAside ==
  LET sum == Contribution(goal, Held(goal), today)
      source == <<IF Linked(goal) THEN Part(goal) ELSE "account", First>>
  IN
  /\ Bounded
  /\ goal # NoGoal /\ goal.by # Never /\ today < goal.by
  /\ Month(today) \notin paid
  /\ \/ /\ ~Linked(goal) /\ goal.tracking # "net_worth"
        /\ goal' = [goal EXCEPT !.current = @ + sum] /\ worth' = worth
     \/ /\ Linked(goal) \/ goal.tracking = "net_worth"
        /\ source \in alive
        /\ goal' = goal /\ worth' = [worth EXCEPT ![source] = @ + sum]
  /\ paid' = paid \cup {Month(today)}
  /\ UNCHANGED <<today, alive, strayed>>

DayPasses ==
  /\ today < MaxDay /\ today' = today + 1
  /\ UNCHANGED <<goal, alive, worth, paid, strayed, edits>>

Next ==
  \/ \E t \in Tracking, k \in Kinds, s \in Spaces \cup {Nothing}, x \in Targets,
        d \in Dates :
        \/ \E c \in {0} \cup Sums : CreateGoal(t, k, s, x, c, d)
        \/ UpdateGoal(t, k, s, x, d)
  \/ DeleteGoal \/ PutAside \/ DayPasses
  \/ \E k \in Kinds, s \in Spaces : DeleteTracked(k, s)
  \/ \E k \in {"account", "asset"}, s \in Spaces, x \in Sums :
        Move(k, s, x) \/ Move(k, s, -x)

Spec == Init /\ [][Next]_vars
-----------------------------------------------------------------------------
(* The row of a goal, and worth only of what exists.                        *)
TypeOK ==
  /\ today \in 1 .. MaxDay /\ edits \in 0 .. MaxEdits /\ strayed \in BOOLEAN
  /\ alive \subseteq Kinds \X Spaces
  /\ worth \in [{"account", "asset"} \X Spaces -> Nat]
  /\ goal \in Goal /\ goal.start <= today

(* A goal names at most the one thing it tracks, which exists and is of its *)
(* own workspace, whatever is retyped, moved to another kind or deleted     *)
(* (goal_service.py:109-133).                                               *)
TracksItsOwn ==
  \A k \in Kinds : goal.link[k] # Nothing =>
      k = goal.tracking /\ goal.link[k] = First /\ <<k, First>> \in alive

Rank == [achieved |-> 4, ahead |-> 3, on_track |-> 2, behind |-> 1, overdue |-> 0]

(* A day on which nothing changes never makes the verdict better            *)
(* (goal_service.py:160-197).                                               *)
PaceStep ==
  today' # today /\ goal.by # Never =>
      Rank[OnTrack(goal', Held(goal'), today')] <= Rank[OnTrack(goal, Held(goal), today)]
NoGainByWaiting == [][PaceStep]_vars

(* Who puts aside each month what the page says then has the target when    *)
(* the date comes (goal_service.py:142-157).                                *)
SavingReaches ==
  LET due == Month(goal.start) ..
               (IF Month(goal.by) = Month(goal.start) THEN Month(goal.by) ELSE Month(goal.by) - 1)
  IN  goal.by > goal.start /\ today >= goal.by /\ ~strayed /\ due \subseteq paid
        => Held(goal) >= goal.target

(* Not so, and not run: a goal changed to track another account keeps the   *)
(* baseline of the first (goal_service.py:304-306), so on its first day it  *)
(* can be behind.                                                           *)
FreshIsOnTrack ==
  goal.by > today /\ goal.start = today => OnTrack(goal, Held(goal), today) # "behind"

(* Not so, and not run: a goal begun above its target and spent since is    *)
(* "achieved" while less than the target is there (goal_service.py:184).    *)
AchievedIsReached ==
  goal.by # Never /\ OnTrack(goal, Held(goal), today) = "achieved" => Held(goal) >= goal.target
=============================================================================
