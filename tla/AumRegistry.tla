---------------------------- MODULE AumRegistry ----------------------------
(***************************************************************************)
(* The budget configuration of the gateway as the AUM service reads it     *)
(* (service/aum/aum_service/registry.py): units with monthly budgets, the  *)
(* parents of teams, daily overrides of people, and the rule that children *)
(* fit into what their parent has.  Pure operators on one configuration.   *)
(***************************************************************************)
EXTENDS Integers, FiniteSetsExt, TLC

CONSTANTS
    Units,      \* ids a catalog may name
    Users,      \* people with a known unit
    NoUnit,     \* the parent of a top-level unit
    Home,       \* Home[u]: the unit bu-members puts person u in
    OrgLimit,   \* quota-org
    Days        \* days a daily override reserves, 31 in the code

ASSUME RegistryConstants ==
    /\ Units \cap Users = {} /\ NoUnit \notin Units \cup Users
    /\ Home \in [Users -> Units]
    /\ OrgLimit \in Nat /\ Days \in Nat \ {0}

(* A configuration: reg is bu-registry (units of the catalog and their     *)
(* TokensPerMonth, 0 for none), par is bu-parents, ovr quota-overrides,    *)
(* tier the higher of quota-standard and quota-premium.                    *)
Catalog(c) == DOMAIN c.reg
Targets(c) == Catalog(c) \cup Users
ParentIn(c, t) ==
    IF t \in Users THEN Home[t]
    ELSE IF t \in DOMAIN c.par THEN c.par[t] ELSE NoUnit

IsMap(f, S, T) == DOMAIN f \subseteq S /\ f \in [DOMAIN f -> T]
IsConfig(c) ==
    /\ c = [reg |-> c.reg, par |-> c.par, ovr |-> c.ovr, tier |-> c.tier]
    /\ IsMap(c.reg, Units, Nat) /\ IsMap(c.par, Units, Units) /\ IsMap(c.ovr, Users, Nat) /\ c.tier \in Nat

(* Config.current_limit; 0 is a person without an override *)
Limit(c, t) ==
    IF t \in Catalog(c) THEN c.reg[t]
    ELSE IF t \in DOMAIN c.ovr THEN c.ovr[t] ELSE 0

(* Config.__init__ raises invalid_configuration unless *)
Parses(c) ==
    /\ \A x \in DOMAIN c.par :
        /\ x \in Catalog(c) /\ c.par[x] \in Catalog(c) /\ x # c.par[x]
        /\ c.par[x] \notin DOMAIN c.par
    /\ \A u \in Users : Home[u] \in Catalog(c)

Children(c, p) == {t \in Targets(c) : ParentIn(c, t) = p}
Weight(c, t) == IF t \in Users THEN Days * Limit(c, t) ELSE Limit(c, t)
Allocated(c, S) == MapThenSumSet(LAMBDA t : Weight(c, t), S)
Ceiling(c, p) == IF p = NoUnit THEN OrgLimit ELSE c.reg[p]

(* Mutant: the target's own children are not counted. *)
FitsAboveOnly(c, t, amount) ==
    LET p == ParentIn(c, t)
        candidate == IF t \in Users THEN Days * amount ELSE amount
    IN Ceiling(c, p) > 0 /\ candidate + Allocated(c, Children(c, p) \ {t}) <= Ceiling(c, p)

(* validate_headroom: amount fits beside t's siblings under its parent,    *)
(* and t's own children fit under amount.                                  *)
Fits(c, t, amount) ==
    LET p == ParentIn(c, t)
        candidate == IF t \in Users THEN Days * amount ELSE amount
    IN  /\ Ceiling(c, p) > 0
        /\ candidate + Allocated(c, Children(c, p) \ {t}) <= Ceiling(c, p)
        /\ Allocated(c, Children(c, t)) <= amount

(* An entry of a table, added or replaced. *)
Assigned(f, x, v) == [y \in DOMAIN f \cup {x} |-> IF y = x THEN v ELSE f[y]]

(* The named value that holds t's limit. *)
KeyOf(t) == IF t \in Users THEN "ovr" ELSE "reg"

(* budget_changes: the one named value that holds t's limit, rewritten     *)
Changed(c, t, amount) ==
    IF t \notin Users THEN [c.reg EXCEPT ![t] = amount]
    ELSE IF amount = 0
         THEN [u \in DOMAIN c.ovr \ {t} |-> c.ovr[u]]
         ELSE Assigned(c.ovr, t, amount)

With(c, key, value) == [c EXCEPT ![key] = value]
WithLimit(c, t, amount) == With(c, KeyOf(t), Changed(c, t, amount))

(* A cleared override is checked as the default of the higher tier.        *)
AmountForCheck(c, amount) == IF amount = 0 THEN c.tier ELSE amount

(* Every allocation fits: no unit's children and people reserve more than  *)
(* the unit has, and the top-level units no more than the organisation.    *)
Balanced(c) ==
    \A p \in Catalog(c) \cup {NoUnit} :
        LET a == Allocated(c, Children(c, p)) IN a > 0 => a <= Ceiling(c, p)
=============================================================================
