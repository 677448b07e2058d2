------------------------------- MODULE MCRules ------------------------------
(***************************************************************************)
(* Instances for TLC of the rule store and of the matcher, which share no  *)
(* state: Match works on a list in memory.  In a behaviour one of the two  *)
(* runs, and the other rests as it began.                                  *)
(***************************************************************************)
EXTENDS MCRulesRepo, MCRulesEngine

VARIABLE running

allVars == <<running, storeVars, vars>>

RulesInit ==
    /\ running \in {"store", "match"}
    /\ Init /\ StoreInit
    /\ running # "match" => rules = <<>>
    /\ running # "store" => clients = Web

InStore(A) == running = "store" /\ A /\ UNCHANGED <<running, vars>>
InMatch(A) == running = "match" /\ A /\ UNCHANGED <<running, storeVars>>

RulesNext == InStore(StoreNext) \/ InMatch(Next)

RulesSpec == RulesInit /\ [][RulesNext]_allVars
=============================================================================
