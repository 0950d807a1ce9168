------------------------------ MODULE MCRules ------------------------------
(* Two rules and a row over two workspaces with a category each.            *)
EXTENDS Rules
TwoConditions == {[reads |-> "description", value |-> "shop"], [reads |-> "notes", value |-> "tag"]}
TwoActions == {[sets |-> TRUE, payee |-> None, tag |-> FALSE, hide |-> FALSE],
               [sets |-> FALSE, payee |-> "p", tag |-> TRUE, hide |-> TRUE]}
OneEach == [c \in CatIds |-> IF c = "food" THEN [ws |-> 1, name |-> "Food"]
                             ELSE IF c = "home" THEN [ws |-> 2, name |-> "Home"] ELSE NoCat]
OnePack == {[name |-> "R", on |-> [reads |-> "description", value |-> "shop"],
             does |-> [sets |-> TRUE, payee |-> None, tag |-> FALSE, hide |-> FALSE],
             cat |-> "Home", prio |-> 1, active |-> TRUE]}
OneDefault == {[x EXCEPT !.name = "S", !.cat = "Food"] : x \in OnePack}
=============================================================================
