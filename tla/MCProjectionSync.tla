-------------------------- MODULE MCProjectionSync --------------------------
(* Values for the model-checking runs of ProjectionSync. *)
EXTENDS ProjectionSync, TLC

SubjectIsFirst == [r \in UserRuns |-> CHOOSE u \in Users : TRUE]
NoSkew == [r \in Runs |-> 0]
(* The operator's clock is a full margin ahead of the runner's. *)
MarginAhead == [r \in Runs |-> IF r \in SnapshotRuns THEN Margin ELSE 0]

Entry(tier, aged) == [tier |-> tier, aged |-> aged]
(* Nobody; everybody standard; everybody standard with an old expiresAt.   *)
EmptyOrFull ==
    {Entry(Nobody, {}), Entry([u \in Users |-> "standard"], {}),
     Entry([u \in Users |-> "standard"], Users)}
(* Any membership; nobody is premium; everybody is standard.               *)
AnyMembers == [Tiers -> SUBSET Users]
StandardOnly == {[t \in Tiers |-> IF t = "standard" THEN m ELSE {}] : m \in SUBSET Users}
AllStandard == {[t \in Tiers |-> IF t = "standard" THEN Users ELSE {}]}
EmptyOrEverybody == {Entry(Nobody, {}), Entry([u \in Users |-> "standard"], {})}
Everybody == {Entry([u \in Users |-> "standard"], {})}
=============================================================================
