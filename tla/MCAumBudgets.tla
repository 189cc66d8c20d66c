--------------------------- MODULE MCAumBudgets ---------------------------
EXTENDS AumBudgets

CONSTANTS dept, div, team, ann, wr1, wr2, bo1, bo2

(* Where the person is: in the team, or directly in the department. *)
HomeTeam == ann :> team
HomeDept == ann :> dept

Gateway(reg, par) == [reg |-> reg, par |-> par, ovr |-> <<>>, tier |-> 1]

StartTeam == Gateway((dept :> 2) @@ (team :> 1), team :> dept)
StartUnit == Gateway(dept :> 2, <<>>)
StartUnits == Gateway((dept :> 1) @@ (div :> 2), <<>>)
StartCatalog == Gateway((dept :> 1) @@ (div :> 1) @@ (team :> 1), team :> dept)

Sym == Permutations(Writers) \cup Permutations(BoostIds)
===========================================================================
