------------------------------- MODULE Rules -------------------------------
(***************************************************************************)
(* Categorisation rules, with the categories and payees they name, in the  *)
(* workspaces of one user: rule_service.py, rule_engine.py, api/rules.py,  *)
(* category_service.py, payee_service.py.  A rule has one condition and    *)
(* the four kinds of action; rules run in the order of (priority, id), an  *)
(* id is a random uuid, and each sees what the ones before it changed.     *)
(* A rule keeps the ids of its category and payee when these are deleted:  *)
(* writing one into a row then breaks a foreign key.                       *)
(***************************************************************************)
EXTENDS Naturals, FiniteSets, SequencesExt

CONSTANTS
    Spaces,     \* workspaces of the user, the smallest is the first one
    RowIds, RuleIds, CatIds, PayeeIds,
    ByHand,     \* payees the user made; those a sync or an import made have no mapping
    CatNames, RuleNames,
    Conditions, \* [reads : {"description", "notes", "payee"}, value : ...]
    Actions,    \* what rules are made to do, see Action
    Priorities,
    Marks,      \* descriptions
    Words,      \* notes; "tag" is the one rules append
    FirstCats,  \* categories of the beginning, as a function of CatIds
    Pack,       \* rules of a rule pack, in the form of an exported file
    Universal,  \* the default rules, in that form
    MaxChanges    \* bound: requests

None == "none"
NoCat == [ws |-> 0, name |-> None]
NoRow == [ws |-> 0]
NoRule == [ws |-> 0]
Cat == [ws : Spaces, name : CatNames]
Action == [sets : BOOLEAN, payee : PayeeIds \cup {None}, tag : BOOLEAN, hide : BOOLEAN]
FileRule == [name : RuleNames, on : Conditions, does : Action, cat : CatNames \cup {None},
             prio : Priorities, active : BOOLEAN]
Row == [ws : Spaces, mark : Marks, cat : CatIds \cup {None}, payee : PayeeIds \cup {None},
        notes : SUBSET Words, hidden : BOOLEAN,
        chosen : CatIds \cup {None}, given : PayeeIds \cup {None}]

ASSUME RulesAssumption ==
    /\ Spaces \subseteq Nat \ {0} /\ Spaces # {} /\ RuleIds \subseteq Nat /\ Priorities \subseteq Nat
    /\ FirstCats \in [CatIds -> Cat \cup {NoCat}]
    /\ Actions \subseteq Action /\ Pack \cup Universal \subseteq FileRule /\ IsFiniteSet(RuleIds)
    /\ IsFiniteSet(CatIds) /\ None \notin CatNames /\ ByHand \subseteq PayeeIds
    /\ \A x, y \in Pack : x.name = y.name => x = y
    /\ \A x, y \in Universal : x.name = y.name => x = y
    /\ "tag" \in Words /\ MaxChanges \in Nat

VARIABLES
    cats,       \* categories
    payees,     \* payees there are
    target,     \* payee_mappings: target_id of each mapping row, None if there is none
    rules,      \* rules
    txns,       \* transactions; chosen, given: history, what the user last set
    file,       \* the last exported file
    changes       \* counts MaxChanges

rulesVars == <<cats, payees, target, rules, txns, file, changes>>

Allowed == changes < MaxChanges /\ changes' = changes + 1
First == CHOOSE w \in Spaces : \A v \in Spaces : w <= v

RulesInit ==
    /\ cats = FirstCats
    /\ payees = PayeeIds
    /\ target = [p \in PayeeIds |-> IF p \in ByHand THEN p ELSE None]
    /\ rules = [i \in RuleIds |-> NoRule]
    /\ txns = [r \in RowIds |-> NoRow]
    /\ file = {}
    /\ changes = 0

CatsOf(w) == {c \in CatIds : cats[c].ws = w}
RulesOf(w) == {i \in RuleIds : rules[i].ws = w}
RowsOf(w) == {r \in RowIds : txns[r].ws = w}
Named(some, n) == {c \in some : cats[c].name = n}

-----------------------------------------------------------------------------
(* The engine: what a rule does to a row. *)

Matches(rule, row) ==
    CASE rule.on.reads = "description" -> row.mark = rule.on.value
      [] rule.on.reads = "notes" -> rule.on.value \in row.notes
      [] rule.on.reads = "payee" -> row.payee = rule.on.value

(* apply_rule_actions; done.set is category_already_set. *)
Apply(rule, done) ==
    LET decides == rule.cat # None /\ ~done.set
        row == done.row
    IN  [done EXCEPT
          !.row.cat = IF decides THEN rule.cat ELSE row.cat,
          !.row.payee = IF rule.does.payee # None THEN rule.does.payee ELSE row.payee,
          !.row.notes = IF rule.does.tag THEN row.notes \cup {"tag"} ELSE row.notes,
          !.row.hidden = row.hidden \/ rule.does.hide,
          !.row.given = IF rule.does.payee # None THEN rule.does.payee ELSE row.given,
          !.set = done.set \/ decides]

Before(i, j) ==
    \/ rules[i].prio < rules[j].prio
    \/ rules[i].prio = rules[j].prio /\ i < j

Ordered(w) ==
    LET some == {i \in RulesOf(w) : rules[i].active}
    IN  CHOOSE s \in Bijection(1..Cardinality(some), some) :
            \A m, n \in DOMAIN s : m < n => Before(s[m], s[n])

ResetAlways(done) ==                    \* fault: every match starts from scratch
    [done EXCEPT !.row.cat = None, !.row.notes = {}, !.row.chosen = None, !.matched = TRUE]

(* The first match of apply_all_rules takes category and notes.             *)
Reset(done) ==
    IF done.matched THEN done
    ELSE [done EXCEPT !.row.cat = None, !.row.notes = {}, !.row.chosen = None, !.matched = TRUE]

Ran(done, i) == IF Matches(rules[i], done.row) THEN Apply(rules[i], Reset(done)) ELSE done

AllRan(done) == FoldLeft(Ran, done, Ordered(done.row.ws))

(* apply_rules_to_transaction, which takes nothing.                         *)
Categorised(row, set) == AllRan([row |-> row, set |-> set, matched |-> TRUE]).row

(* One row of apply_all_rules.                                              *)
Reapplied(row) == AllRan([row |-> row, set |-> FALSE, matched |-> FALSE]).row

AllReapplied(w) == [r \in RowIds |-> IF txns[r].ws = w THEN Reapplied(txns[r]) ELSE txns[r]]

(* One row of apply_single_rule, which keeps a category. *)
Single(rule, row) ==
    IF Matches(rule, row)
    THEN Apply(rule, [row |-> row, set |-> row.cat # None, matched |-> TRUE]).row
    ELSE row

(* The foreign keys of a row; a statement that breaks one rolls back. *)
Sound(row) ==
    /\ row.cat # None => cats[row.cat] # NoCat
    /\ row.payee # None => row.payee \in payees

Committed(new) ==
    IF \A r \in RowIds : new[r] # NoRow => Sound(new[r]) THEN new ELSE txns

-----------------------------------------------------------------------------
(* Transactions. *)

(* create_transaction runs the rules only when no category is given; the    *)
(* import runs them always, and keeps their category out of a line that     *)
(* must stay uncategorised; the sync is an import without category.         *)
AddRow(w) ==
    /\ Allowed
    /\ \E r \in RowIds, m \in Marks, c \in CatsOf(w) \cup {None}, p \in payees \cup {None} :
          LET row == [ws |-> w, mark |-> m, cat |-> c, payee |-> p, notes |-> {},
                      hidden |-> FALSE, chosen |-> c, given |-> p]
          IN  /\ txns[r] = NoRow
              /\ \E new \in {IF c = None THEN Categorised(row, FALSE) ELSE row,
                             Categorised(row, c # None), Categorised(row, TRUE)} :
                    /\ Sound(new)
                    /\ txns' = [txns EXCEPT ![r] = new]
    /\ UNCHANGED <<cats, payees, target, rules, file>>

(* bulk_update_category, and update_transaction with a category. *)
SetCategory(w) ==
    /\ Allowed
    /\ \E some \in SUBSET RowsOf(w) \ {{}}, c \in CatsOf(w) \cup {None} :
          txns' = [r \in RowIds |-> IF r \in some THEN [txns[r] EXCEPT !.cat = c, !.chosen = c]
                                    ELSE txns[r]]
    /\ UNCHANGED <<cats, payees, target, rules, file>>

(* update_transaction with notes. *)
TypeNotes(r) ==
    /\ Allowed
    /\ txns[r] # NoRow
    /\ \E notes \in SUBSET Words : txns' = [txns EXCEPT ![r].notes = notes]
    /\ UNCHANGED <<cats, payees, target, rules, file>>

(* bulk_add_tags and bulk_remove_tags: on the rows that are of the          *)
(* workspace, and without a look at the rules.                              *)
Retagged(some, notes(_)) ==
    txns' = [r \in RowIds |-> IF r \in some THEN [txns[r] EXCEPT !.notes = notes(@)] ELSE txns[r]]

AddTags(w) ==
    /\ Allowed
    /\ \E some \in SUBSET RowsOf(w) \ {{}}, tags \in SUBSET Words \ {{}} :
          Retagged(some, LAMBDA notes : notes \cup tags)
    /\ UNCHANGED <<cats, payees, target, rules, file>>

RemoveTags(w) ==
    /\ Allowed
    /\ \E some \in SUBSET RowsOf(w) \ {{}}, tags \in SUBSET Words \ {{}} :
          Retagged(some, LAMBDA notes : notes \ tags)
    /\ UNCHANGED <<cats, payees, target, rules, file>>

-----------------------------------------------------------------------------
(* Rules. *)

NameFree(w, n) == \A j \in RulesOf(w) : rules[j].name # n

(* The first commit stores the rule, the second one its effect on history. *)
Store(i, rule, applies) ==
    /\ rules' = [rules EXCEPT ![i] = rule]
    /\ txns' = IF applies /\ rule.active
               THEN Committed([r \in RowIds |-> IF txns[r].ws = rule.ws THEN Single(rule, txns[r])
                                                ELSE txns[r]])
               ELSE txns

CreateRule(w) ==
    /\ Allowed
    /\ \E i \in RuleIds, n \in RuleNames, on \in Conditions, does \in Actions, prio \in Priorities,
          c \in CatsOf(w) \cup {None} :
          /\ rules[i] = NoRule
          /\ NameFree(w, n)
          /\ c # None <=> does.sets
          /\ Store(i, [ws |-> w, name |-> n, on |-> on, does |-> does, cat |-> c, prio |-> prio,
                       active |-> TRUE], TRUE)
    /\ UNCHANGED <<cats, payees, target, file>>

(* update_rule: a new name must be free in the workspace.                   *)
Revised(i) ==
    {[rules[i] EXCEPT !.on = on] : on \in Conditions}
    \cup {[rules[i] EXCEPT !.prio = prio] : prio \in Priorities}
    \cup {[rules[i] EXCEPT !.name = n] : n \in {n \in RuleNames : NameFree(rules[i].ws, n)}}
    \cup {[rules[i] EXCEPT !.active = ~@]}

(* Only a changed condition is applied to history. *)
UpdateRule(i) ==
    /\ Allowed
    /\ rules[i] # NoRule
    /\ \E rule \in Revised(i) \ {rules[i]} : Store(i, rule, rule.on # rules[i].on)
    /\ UNCHANGED <<cats, payees, target, file>>

DeleteRule(i) ==
    /\ Allowed
    /\ rules[i] # NoRule
    /\ rules' = [rules EXCEPT ![i] = NoRule]
    /\ UNCHANGED <<cats, payees, target, txns, file>>

ApplyAll(w) ==
    /\ Allowed
    /\ txns' = Committed(AllReapplied(w))
    /\ UNCHANGED <<cats, payees, target, rules, file>>

(* export_rules decides the category's name, and drops the action when the   *)
(* category is not one of the workspace.                                    *)
ExportedActive(i) ==                    \* fault: is_active is not in the file
    LET c == rules[i].cat
        there == c # None /\ c \in CatsOf(rules[i].ws)
    IN  [name |-> rules[i].name, on |-> rules[i].on, does |-> [rules[i].does EXCEPT !.sets = there],
         cat |-> IF there THEN cats[c].name ELSE None, prio |-> rules[i].prio, active |-> TRUE]

Exported(i) ==
    LET c == rules[i].cat
        there == c # None /\ c \in CatsOf(rules[i].ws)
    IN  [name |-> rules[i].name, on |-> rules[i].on, does |-> [rules[i].does EXCEPT !.sets = there],
         cat |-> IF there THEN cats[c].name ELSE None, prio |-> rules[i].prio,
         active |-> rules[i].active]

Export(w) ==
    /\ RulesOf(w) # {}
    /\ file' = {Exported(i) : i \in RulesOf(w)}
    /\ UNCHANGED <<cats, payees, target, rules, txns, changes>>

(* A rule is made from a line of a file if its category is found by name;   *)
(* of two categories with one name the query's last one wins, any of them.  *)
Usable(lines, some) == {x \in lines : x.cat = None \/ Named(some, x.cat) # {}}

Drawn(x, w, c) == [ws |-> w, name |-> x.name, on |-> x.on, does |-> x.does, cat |-> c,
                  prio |-> x.prio, active |-> x.active]

Picks(lines, some) ==
    {f \in [lines -> CatIds \cup {None}] :
        \A x \in lines : IF x.cat = None THEN f[x] = None ELSE f[x] \in Named(some, x.cat)}

Added(base, lines, w, some) ==
    {[i \in RuleIds |-> IF \E x \in lines : at[x] = i
                        THEN LET x == CHOOSE y \in lines : at[y] = i IN Drawn(x, w, f[x])
                        ELSE base[i]] :
        f \in Picks(lines, some),
        at \in {g \in [lines -> {i \in RuleIds : base[i] = NoRule}] :
                   \A x, y \in lines : g[x] = g[y] => x = y}}

Cleared(w, lines) ==
    IF lines = {} THEN rules ELSE [i \in RuleIds |-> IF i \in RulesOf(w) THEN NoRule ELSE rules[i]]

(* import_rules; without overwrite only into a workspace without rules. *)
Import(w) ==
    /\ Allowed
    /\ file # {}
    /\ LET lines == Usable(file, CatsOf(w))
       IN  rules' \in Added(Cleared(w, lines), lines, w, CatsOf(w))
    /\ UNCHANGED <<cats, payees, target, txns, file>>

(* create_default_rules: a new workspace gets the default rules whose       *)
(* category is among its own; here, before anything else happens in it.     *)
SeedRules(w) ==
    /\ Allowed
    /\ changes = 0
    /\ rules' \in Added(rules, Usable(Universal, CatsOf(w)), w, CatsOf(w))
    /\ UNCHANGED <<cats, payees, target, txns, file>>

(* install_rule_pack: the rule, stamped on insert, belongs to the FIRST     *)
(* workspace; its category is found among those of all of them.  (Creating  *)
(* the categories the user has nowhere is CreateCategory in the first one.) *)
Missing(lines) == {x \in lines : \A i \in RuleIds : rules[i] # NoRule => rules[i].name # x.name}

InstallPack ==
    /\ Allowed
    /\ LET all == UNION {CatsOf(w) : w \in Spaces}
       IN  rules' \in Added(rules, Missing(Usable(Pack, all)), First, all)
    /\ UNCHANGED <<cats, payees, target, txns, file>>

-----------------------------------------------------------------------------
(* Categories and payees. *)

CreateCategory(w) ==
    /\ Allowed
    /\ \E c \in CatIds, n \in CatNames :
          cats[c] = NoCat /\ cats' = [cats EXCEPT ![c] = [ws |-> w, name |-> n]]
    /\ UNCHANGED <<payees, target, rules, txns, file>>

RenameCategory(c) ==
    /\ Allowed
    /\ cats[c] # NoCat
    /\ \E n \in CatNames \ {cats[c].name} : cats' = [cats EXCEPT ![c].name = n]
    /\ UNCHANGED <<payees, target, rules, txns, file>>

(* The rows' foreign key refuses one in use; no key protects the rules. *)
DeleteCategory(c) ==
    /\ Allowed
    /\ cats[c] # NoCat
    /\ \A r \in RowIds : txns[r] # NoRow => txns[r].cat # c
    /\ cats' = [cats EXCEPT ![c] = NoCat]
    /\ UNCHANGED <<payees, target, rules, txns, file>>

(* SET NULL on the rows, and the mappings that point to it go. *)
DeletePayee(p) ==
    /\ Allowed
    /\ p \in payees
    /\ payees' = payees \ {p}
    /\ target' = [q \in PayeeIds |-> IF target[q] = p THEN None ELSE target[q]]
    /\ txns' = [r \in RowIds |-> IF txns[r] # NoRow /\ txns[r].payee = p
                                 THEN [txns[r] EXCEPT !.payee = None] ELSE txns[r]]
    /\ UNCHANGED <<cats, rules, file>>

Reassigned(sources, to) ==
    [r \in RowIds |-> IF txns[r] # NoRow /\ txns[r].payee \in sources
                      THEN [txns[r] EXCEPT !.payee = to] ELSE txns[r]]

MergePayees(to) ==
    /\ Allowed
    /\ to \in payees
    /\ \E sources \in SUBSET (payees \ {to}) \ {{}} :
          /\ payees' = payees \ sources
          /\ target' = [q \in PayeeIds |-> IF target[q] \in sources THEN to ELSE target[q]]
          /\ txns' = Reassigned(sources, to)
    /\ UNCHANGED <<cats, rules, file>>

RulesNext ==
    \/ \E w \in Spaces : \/ AddRow(w) \/ SetCategory(w) \/ AddTags(w) \/ RemoveTags(w)
                         \/ SeedRules(w) \/ CreateRule(w) \/ ApplyAll(w) \/ Export(w) \/ Import(w)
                         \/ CreateCategory(w)
    \/ \E r \in RowIds : TypeNotes(r)
    \/ \E i \in RuleIds : UpdateRule(i) \/ DeleteRule(i)
    \/ InstallPack
    \/ \E c \in CatIds : RenameCategory(c) \/ DeleteCategory(c)
    \/ \E p \in PayeeIds : DeletePayee(p) \/ MergePayees(p)

RulesSpec == RulesInit /\ [][RulesNext]_rulesVars
-----------------------------------------------------------------------------
RulesTypeOK ==
    /\ cats \in [CatIds -> Cat \cup {NoCat}]
    /\ payees \subseteq PayeeIds
    /\ target \in [PayeeIds -> PayeeIds \cup {None}]
    /\ \A i \in RuleIds : rules[i] # NoRule =>
          /\ rules[i].ws \in Spaces /\ rules[i].cat \in CatIds \cup {None}
          /\ \A j \in RulesOf(rules[i].ws) : rules[j].name = rules[i].name => j = i
    /\ txns \in [RowIds -> Row \cup {NoRow}]
    /\ file \subseteq FileRule
    /\ changes \in 0..MaxChanges

(* A category the user set stays until the user reapplies the rules:        *)
(* "creating a rule never silently overwrites manual categorizations"       *)
(* (rule_service.py:985), nor does changing one, importing or installing.   *)
HandKept ==
    \A r \in RowIds : txns[r] # NoRow /\ txns[r].chosen # None => txns[r].cat = txns[r].chosen

(* The rule that decides, from its definition: the matching one with a      *)
(* category that is first in (priority, id).                                *)
Deciding(row) ==
    {i \in RulesOf(row.ws) :
        /\ rules[i].active /\ rules[i].cat # None /\ Matches(rules[i], row)
        /\ \A j \in RulesOf(row.ws) \ {i} :
              rules[j].active /\ rules[j].cat # None /\ Matches(rules[j], row) => Before(i, j)}

Touched(row) == \E i \in RulesOf(row.ws) : rules[i].active /\ Matches(rules[i], row)

(* A new row and a reapplied one get the category of the deciding rule,     *)
(* whatever else the rules do, when none of them reads what rules write     *)
(* (rule_engine.py:84, rule_service.py:1041).                               *)
PriorityDecides ==
    \A r \in RowIds : txns[r] # NoRow =>
        LET row == txns[r]
            fresh == [row EXCEPT !.cat = None]
        IN  (\A i \in RulesOf(row.ws) : rules[i].on.reads = "description") =>
            /\ \A i \in Deciding(row) : /\ Reapplied(row).cat = rules[i].cat
                                        /\ Categorised(fresh, FALSE).cat = rules[i].cat
            /\ Deciding(row) = {} => Reapplied(row).cat = IF Touched(row) THEN None ELSE row.cat

(* A workspace loses its last rule only when the user deletes it: an import *)
(* of which nothing can be used removes nothing (rule_service.py:853).      *)
NeverEmptied ==
    \A w \in Spaces : RulesOf(w) # {} /\ RulesOf(w)' = {} =>
        \E i \in RulesOf(w) : DeleteRule(i)

(* The export holds the whole of a rule: importing it back over the         *)
(* workspace's rules treats every row as they do, if no two rules share a   *)
(* priority (the ids that break the tie are new) and the categories are     *)
(* there, each with a name of its own (rule_service.py:762-864).            *)
Behaviour(row) == <<Reapplied(row), Categorised([row EXCEPT !.cat = None], FALSE)>>

Comparable(w) ==
    /\ \A i, j \in RulesOf(w) : rules[i].prio = rules[j].prio => i = j
    /\ \A i \in RulesOf(w) : rules[i].cat # None =>
          rules[i].cat \in CatsOf(w) /\ Cardinality(Named(CatsOf(w), cats[rules[i].cat].name)) = 1

RoundTrip ==
    \A w \in Spaces :
        file = {Exported(i) : i \in RulesOf(w)} /\ Comparable(w) /\ Import(w) =>
            \A r \in RowsOf(w) : Behaviour(txns[r])' = Behaviour(txns[r])

(* A row is where the merges took the payee it was given: at that payee as  *)
(* long as he is there and, of one made by hand, where the record of the    *)
(* merges says, which follows a merge of merged payees.  A payee a sync or  *)
(* an import made has no record to follow (payee_service.py:94-99, 180-227). *)
MergesFollowed ==
    \A r \in RowIds : txns[r] # NoRow /\ txns[r].given # None =>
        /\ txns[r].given \in payees => txns[r].payee = txns[r].given
        /\ txns[r].given \in ByHand => txns[r].payee = target[txns[r].given]

(* What rules and merges decide, and what the user decides over them.       *)
RulesDecide == RulesTypeOK /\ HandKept /\ PriorityDecides /\ MergesFollowed

(* Rules survive being exported and imported, whole or not at all.          *)
RulesTravel == [][NeverEmptied]_rulesVars /\ [][RoundTrip]_rulesVars

(* "Category/notes are reset before re-applying, so results are             *)
(* idempotent." (tests/test_new_rules_api.py:277)                           *)
ReapplyIdempotent ==
    \A r \in RowIds : txns[r] # NoRow => Reapplied(Reapplied(txns[r])) = Reapplied(txns[r])

(* A rule's category is one of its workspace (rule_service.py:536-538).     *)
RulesStayInWorkspace ==
    \A i \in RuleIds : rules[i] # NoRule /\ rules[i].cat # None /\ cats[rules[i].cat] # NoCat =>
        cats[rules[i].cat].ws = rules[i].ws
=============================================================================
