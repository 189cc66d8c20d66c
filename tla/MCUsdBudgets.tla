---------------------------- MODULE MCUsdBudgets ----------------------------
EXTENDS UsdBudgets

CONSTANTS dept, team, ann, svc, dir, known, odd

HomeTeam == ann :> team
Item(amount) == [amount |-> amount, period |-> "month"]
Teamed == [reg |-> (dept :> 0) @@ (team :> 0), par |-> team :> dept,
           mode |-> (dept :> "strict") @@ (team :> "strict"), other |-> FALSE]
Split == [Teamed EXCEPT !.par = <<>>]
Priced == [book |-> {known}, items |-> <<>>]
Personal == [book |-> {known},
             items |-> (<<"organization", dept>> :> Item(2)) @@ (<<"user", ann>> :> [amount |-> 1, period |-> "day"])]
MCStarts == {[gov |-> Teamed, doc |-> Personal], [gov |-> Split, doc |-> Priced]}
=============================================================================
