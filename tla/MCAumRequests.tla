--------------------------- MODULE MCAumRequests ---------------------------
EXTENDS AumRequests

CONSTANTS dept, div, team, ann, root, boss, lead, gd, gt, ha, hb

HomeTeam == ann :> team
Roles == (root :> "admin") @@ (boss :> "manager") @@ (lead :> "manager")
Tokens == (root :> {}) @@ (boss :> {gd}) @@ (lead :> {gt})
Teamed == [reg |-> (dept :> 2) @@ (team :> 1), par |-> team :> dept, ovr |-> <<>>, tier |-> 1]
Grouped == (dept :> gd) @@ (team :> gt)
(* No request yet, or one for the team or for the person in it. *)
Pending(t, parent) == [state |-> "pending", target |-> t, limit |-> 2, requester |-> lead,
                       approver |-> parent, version |-> 1]
NoneOrPending == [RequestIds -> {NoRequest, Pending(team, dept), Pending(ann, team)}]
Sym == Permutations(Handlers)
============================================================================
