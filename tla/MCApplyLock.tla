---------------------------- MODULE MCApplyLock ----------------------------
(* Values for the model-checking runs of ApplyLock. *)
EXTENDS ApplyLock, TLC

NoSkew == [r \in Runs |-> 0]

(* One run's clock is MaxSkew ahead of all the others. *)
OneFast == LET fast == CHOOSE r \in Runs : TRUE
           IN  [r \in Runs |-> IF r = fast THEN MaxSkew ELSE 0]

(* Runs with equal clocks are interchangeable. *)
RunSymmetry == {s \in Permutations(Runs) : \A r \in Runs : Skew[s[r]] = Skew[r]}
=============================================================================
