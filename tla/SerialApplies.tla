--------------------------- MODULE SerialApplies ---------------------------
(***************************************************************************)
(* What the projection apply lock promises its callers, without saying     *)
(* how: every run has at most one tenure, tenures do not overlap, a run    *)
(* writes only inside its tenure, and no tenure begins while another run   *)
(* is in the middle of a write.  A run whose tenure ended never writes     *)
(* again.                                                                  *)
(*                                                                         *)
(* ApplyLock implements this module with a lease document in Cosmos DB;    *)
(* ProjectionSync implements it while it reads, plans and writes records.  *)
(***************************************************************************)
EXTENDS FiniteSets

CONSTANT Runs   \* executions of sync/src/apply-projection.mjs

VARIABLES
    tenure,     \* tenure[r]: "new" before the lock, "in" while r owns it, "out" for good
    writing     \* the runs with a batch of writes under way

serialVars == <<tenure, writing>>

SerialTypeOK ==
    /\ tenure \in [Runs -> {"new", "in", "out"}]
    /\ writing \subseteq Runs

Init ==
    /\ tenure = [r \in Runs |-> "new"]
    /\ writing = {}

(* r takes the lock, free or lapsed.  A lapsed owner is out for good, and  *)
(* it must not be writing at this moment.                                  *)
Enter(r) ==
    /\ tenure[r] = "new"
    /\ \A s \in Runs : tenure[s] = "in" => s \notin writing
    /\ tenure' = [s \in Runs |-> IF s = r THEN "in"
                                 ELSE IF tenure[s] = "in" THEN "out"
                                 ELSE tenure[s]]
    /\ UNCHANGED writing

BeginWrite(r) ==
    /\ tenure[r] = "in"
    /\ writing' = writing \cup {r}
    /\ UNCHANGED tenure

EndWrite(r) ==
    /\ r \in writing
    /\ writing' = writing \ {r}
    /\ UNCHANGED tenure

(* r releases the lock, or gives up before it ever had it. *)
Leave(r) ==
    /\ tenure[r] # "out"
    /\ r \notin writing
    /\ tenure' = [tenure EXCEPT ![r] = "out"]
    /\ UNCHANGED writing

Next == \E r \in Runs : Enter(r) \/ BeginWrite(r) \/ EndWrite(r) \/ Leave(r)

Spec == Init /\ [][Next]_serialVars

(* A run writes only inside its tenure, tenures do not overlap, and so no  *)
(* two runs of apply-projection.mjs write at the same time.                *)
OneTenure == \A r, s \in Runs : tenure[r] = "in" /\ tenure[s] = "in" => r = s
WritersInside == \A r \in writing : tenure[r] = "in"
OneWriter == \A r, s \in writing : r = s
SerialInv == SerialTypeOK /\ OneTenure /\ WritersInside
=============================================================================
