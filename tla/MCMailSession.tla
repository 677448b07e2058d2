--------------------------- MODULE MCMailSession ----------------------------
(* Instances of MailSession for TLC. *)
EXTENDS MailSession, TLC

CONSTANTS Dest  \* a folder other than Source and Trash

Act(t) == [type |-> t, dest |-> Dest]
Rule(acts) == [err |-> FALSE, match |-> TRUE, acts |-> acts]
NoMatch == [err |-> FALSE, match |-> FALSE, acts |-> <<>>]
MatchError == [err |-> TRUE, match |-> FALSE, acts |-> <<>>]

(* Rules that move mail out before or after another action, a rule that     *)
(* leaves it where it is, no match and an error.                            *)
AllOutcomes == {Rule(<<Act("mark_as_read"), Act("move_to_folder")>>),
                Rule(<<Act("effect"), Act("delete"), Act("mark_as_unread")>>),
                Rule(<<Act("forward"), Act("mark_as_unread")>>),
                NoMatch, MatchError}

(* One rule that moves and one that does not: the least that can go astray. *)
FewOutcomes == {Rule(<<Act("move_to_folder"), Act("mark_as_read")>>),
                Rule(<<Act("mark_as_read")>>)}

MoveOrError == {Rule(<<Act("move_to_folder")>>), MatchError}

(* Messages are interchangeable: Init gives them every order. *)
Symmetry == Permutations(Messages)
=============================================================================
