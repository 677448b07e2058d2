---------------------------- MODULE MCRulesRepo -----------------------------
(* Instances of RulesRepo for TLC. *)
EXTENDS RulesRepo, TLC

(* A blank priority with conditions, a high one without; the catch-all is   *)
(* given conditions.                                                        *)
AnyForms ==
    {[name |-> n, pri |-> p, enabled |-> TRUE, op |-> IF p = Blank THEN "AND" ELSE "none",
      acts |-> {"other"}] : n \in Names, p \in {Blank, 2}}
    \cup {[name |-> CatchAll, pri |-> Blank, enabled |-> TRUE, op |-> "AND", acts |-> {"other"}]}

(* Rules that all have conditions. *)
FullForms ==
    {[name |-> n, pri |-> Blank, enabled |-> TRUE, op |-> "AND", acts |-> {"other"}] :
        n \in Names}

(* Two forms at once submit anything; the others only rules with conditions. *)
FormsOf(C) == IF C \subseteq Web THEN AnyForms ELSE FullForms

(* Two forms; a form with enable_rule; the MCP tools; a form with an import *)
(* and a tick.                                                              *)
AllSetups ==
    {Web, Mcp} \cup {{w} \cup Enablers : w \in Web}
    \cup {{w} \cup Importers \cup Ticks : w \in Web}

(* Names and requests of a kind are interchangeable. *)
Symmetry == Permutations(Names) \cup Permutations(Web)
=============================================================================
