----------------------------- MODULE AumBudgets -----------------------------
(***************************************************************************)
(* The writers of the AUM service (service/aum/aum_service): budget edits, *)
(* boosts, their expiry by the minute timer, and the catalog, tier and     *)
(* manager settings.  A writer takes the gateway-wide blob lease, reads    *)
(* the configuration, checks the change against it and writes the named    *)
(* values one by one with If-Match, each read back; a failure rolls the    *)
(* written ones back in reverse order.  Other tools edit the same named    *)
(* values without the lease, and the lease may be lost on the way.         *)
(*                                                                         *)
(* A check_lease and the call it guards are two steps, and so are a call   *)
(* and its effect.  Time is only what a boost needs: it becomes due.       *)
(***************************************************************************)
EXTENDS AumRegistry, Sequences, FiniteSets

CONSTANTS
    Writers,        \* handler invocations, at most one request each at a time
    NoWriter,
    BoostIds,       \* bound: the boosts of one behaviour
    NoBoost,
    Amounts,        \* limits a request or another tool may ask for
    Kinds,          \* kinds of requests: subset of the kinds below
    Start,          \* the configuration the gateway starts with
    PutFailures,    \* what a put without an answer may have done: subset of
                    \* {"nothing", "landed", "later"}
    SlowCalls,      \* whether a call may outlast the lease it was sent under
    MaxRequests,    \* bound: requests that were admitted
    MaxFaults,      \* bound: failed calls, crashes, lost leases
    MaxEdits        \* bound: edits by other tools

ASSUME AumConstants ==
    /\ NoWriter \notin Writers /\ NoBoost \notin BoostIds
    /\ Amounts \subseteq Nat
    /\ IsConfig(Start)

VARIABLES
    gw,         \* the named values, as a configuration
    boosts,     \* the boosts table
    managers,   \* units with a manager group in the managers table
    due,        \* boosts whose expires_at has passed
    lease,      \* who holds the blob lease
    valid,      \* valid[w]: what check_lease of w finds
    at,         \* at[w]: where writer w is
    job,        \* job[w]: what w is doing
    late,       \* calls nobody waits for any more, still to take effect
    spent       \* the bounds used up: requests, faults, edits; slow once a call outlasted its lease

aumVars == <<gw, boosts, managers, due, lease, valid, at, job, late, spent>>

Keys == {"reg", "par", "ovr", "tier"}
Nothing == [reg |-> <<>>, par |-> <<>>, ovr |-> <<>>, tier |-> 1]
NoJob == [kind |-> "none", target |-> NoUnit, amount |-> 0, boost |-> NoBoost,
          todo |-> <<>>, done |-> <<>>, snap |-> Nothing, fresh |-> {}]
NoRecord == [state |-> "none", target |-> NoUnit, limit |-> 0, previous |-> 0]

(* Phases in which a call is under way.  "asking" is the end of a put that *)
(* was answered without a value: the put asks for it.                      *)
Calling == {"recording", "mapping", "revoking", "putting", "asking", "storing", "restoring"}
Phases == {"idle", "checking", "verifying", "rolling"} \cup Calling

Live(b) == boosts[b].state \in {"pending", "active"}
Boosting(t) == {b \in BoostIds : Live(b) /\ boosts[b].target = t}

AumTypeOK ==
    /\ IsConfig(gw)
    /\ boosts \in [BoostIds -> [state : {"none", "pending", "active", "expired", "superseded"},
                                target : Units \cup Users \cup {NoUnit}, limit : Nat, previous : Nat]]
    /\ managers \subseteq Units /\ due \subseteq BoostIds
    /\ lease \in Writers \cup {NoWriter} /\ valid \in [Writers -> BOOLEAN]
    /\ at \in [Writers -> Phases]
    /\ \A w \in Writers : job[w].fresh \subseteq Keys /\ IsConfig(job[w].snap)
    /\ \A l \in late : l.key \in Keys

Init ==
    /\ gw = Start
    /\ boosts = [b \in BoostIds |-> NoRecord]
    /\ managers = {}
    /\ due = {}
    /\ lease = NoWriter
    /\ valid = [w \in Writers |-> FALSE]
    /\ at = [w \in Writers |-> "idle"]
    /\ job = [w \in Writers |-> NoJob]
    /\ late = {}
    /\ spent = [requests |-> 0, faults |-> 0, edits |-> 0, slow |-> 0]

-----------------------------------------------------------------------------
Goto(w, p) == at' = [at EXCEPT ![w] = p]
Spend(what) == spent' = [spent EXCEPT ![what] = @ + 1]
Fault == spent.faults < MaxFaults /\ Spend("faults")

(* The named value key becomes value.  Nobody but w knows its ETag now, and *)
(* late calls on it will be refused.                                       *)
Land(key, value, jobs) ==
    /\ gw' = With(gw, key, value)
    /\ late' = {l \in late : l.key # key}
    /\ job' = jobs
Forgetting(w, key) == [x \in Writers |->
    IF x = w THEN job[x] ELSE [job[x] EXCEPT !.fresh = @ \ {key}]]

(* The handler returns: its lease is released, if it is still its own.     *)
Finish(w) ==
    /\ Goto(w, "idle")
    /\ valid' = [valid EXCEPT ![w] = FALSE]
    /\ lease' = IF lease = w THEN NoWriter ELSE lease

(* ------------------------- checks before a write ------------------------ *)
(* Mutant: the parent's own boost is not looked through. *)
PlanAcceptedUnderBoost(t, amount, restoring) ==
    /\ Fits(gw, t, AmountForCheck(gw, amount))
    /\ restoring \/ Boosting(t) = {}

(* plan_budget: headroom under the limits in force, no edit of a boosted   *)
(* target, and headroom under the parent's limit after its boost.          *)
PlanAccepted(t, amount, restoring) ==
    LET check == AmountForCheck(gw, amount)
        p == ParentIn(gw, t)
    IN  /\ Fits(gw, t, check)
        /\ restoring \/
            /\ Boosting(t) = {}
            /\ p = NoUnit \/ \A b \in Boosting(p) :
                Fits(WithLimit(gw, p, boosts[b].previous), t, check)

(* What a boost must exceed: the limit, or a person's tier.                *)
Baseline(t) == IF t \in Users /\ Limit(gw, t) = 0 THEN gw.tier ELSE Limit(gw, t)

(* Mutant: the catalog's headroom is not checked again. *)
CatalogAcceptedUnchecked(c) ==
    /\ \A x \in Catalog(gw) :
        (x \notin Catalog(c) \/ ParentIn(c, x) # ParentIn(gw, x)) => Boosting(x) = {}
    /\ Parses(c)

(* config_changes(catalog): rows are the new catalog and its parents       *)
CatalogAccepted(c) ==
    /\ \A x \in Catalog(gw) :
        (x \notin Catalog(c) \/ ParentIn(c, x) # ParentIn(gw, x)) => Boosting(x) = {}
    /\ Parses(c)
    /\ \A x \in Catalog(c) : c.reg[x] > 0 => Fits(c, x, c.reg[x])

(* ------------------------------- requests ------------------------------- *)
(* Mutant: a busy lease does not stop a writer. *)
BeginWithoutLease(w, phase, kind, target, amount, boost, todo) ==
    /\ at[w] = "idle"
    /\ Parses(gw)
    /\ lease' = w
    /\ valid' = [valid EXCEPT ![w] = TRUE]
    /\ Goto(w, phase)
    /\ job' = [job EXCEPT ![w] = [NoJob EXCEPT
            !.kind = kind, !.target = target, !.amount = amount, !.boost = boost,
            !.todo = todo, !.snap = gw]]
    /\ UNCHANGED <<gw, boosts, managers, due, late>>

(* store.lease() and prepare(): the lease is free, the configuration is    *)
(* well formed, and it becomes the snapshot the change is applied against. *)
Begin(w, phase, kind, target, amount, boost, todo) ==
    /\ at[w] = "idle"
    /\ lease = NoWriter
    /\ Parses(gw)
    /\ lease' = w
    /\ valid' = [valid EXCEPT ![w] = TRUE]
    /\ Goto(w, phase)
    /\ job' = [job EXCEPT ![w] = [NoJob EXCEPT
            !.kind = kind, !.target = target, !.amount = amount, !.boost = boost,
            !.todo = todo, !.snap = gw]]
    /\ UNCHANGED <<gw, boosts, managers, due, late>>

Admitted(kind) ==
    /\ kind \in Kinds
    /\ spent.requests < MaxRequests /\ Spend("requests")

WriteLimit(t, amount) == <<[key |-> KeyOf(t), value |-> Changed(gw, t, amount)]>>

SetBudget(w) ==
    \E t \in Targets(gw), amount \in Amounts \cup {0} :
        /\ amount = 0 => t \in Users
        /\ PlanAccepted(t, amount, FALSE)
        /\ Begin(w, "checking", "set", t, amount, NoBoost, WriteLimit(t, amount))
        /\ Admitted("set")

UnusedBoosts == {b \in BoostIds : boosts[b] = NoRecord /\ \A w \in Writers : job[w].boost # b}

(* boost(): expires_at is any time in the next 31 days *)
Boost(w) ==
    \E t \in Targets(gw), amount \in Amounts :
        /\ PlanAccepted(t, amount, FALSE)
        /\ Baseline(t) > 0 /\ amount > Baseline(t)
        /\ \E b \in UnusedBoosts :
            Begin(w, "recording", "boost", t, amount, b, WriteLimit(t, amount))
        /\ Admitted("boost")

(* Mutant: any boost that is due is marked as expired, nothing is restored. *)
ExpireWithoutRestore(w) ==
    \E b \in due :
        /\ Live(b) /\ boosts[b].target \in Targets(gw)
        /\ Begin(w, "checking", "expired", boosts[b].target, 0, b, <<>>)
        /\ UNCHANGED spent

(* Mutant: the timer looks at active records only. *)
ExpireActiveOnly(w) ==
    \E b \in due :
        LET t == boosts[b].target
            current == Limit(gw, t)
            previous == boosts[b].previous
        IN  /\ boosts[b].state = "active" /\ t \in Targets(gw)
            /\ current = boosts[b].limit => PlanAccepted(t, previous, TRUE)
            /\ Begin(w, "checking",
                     IF current \in {boosts[b].limit, previous} THEN "expired" ELSE "superseded",
                     t, previous, b,
                     IF current = boosts[b].limit THEN WriteLimit(t, previous) ELSE <<>>)
            /\ UNCHANGED spent

(* expire() of the minute timer: the value is put back when it still is    *)
(* the boosted one, and left alone when somebody else changed it.          *)
Expire(w) ==
    \E b \in due :
        LET t == boosts[b].target
            current == Limit(gw, t)
            previous == boosts[b].previous
        IN  /\ Live(b) /\ Parses(gw) /\ t \in Targets(gw)
            /\ current = boosts[b].limit => PlanAccepted(t, previous, TRUE)
            /\ Begin(w, "checking",
                     IF current \in {boosts[b].limit, previous} THEN "expired" ELSE "superseded",
                     t, previous, b,
                     IF current = boosts[b].limit THEN WriteLimit(t, previous) ELSE <<>>)
            /\ UNCHANGED spent

(* configure(catalog) with rows that add, remove or move one unit; manager *)
(* groups of removed units are revoked first.                              *)
Rows(S, parents) ==
    [gw EXCEPT !.reg = [x \in S |-> IF x \in Catalog(gw) THEN gw.reg[x] ELSE 0], !.par = parents]
Writes(c) == <<[key |-> "reg", value |-> c.reg], [key |-> "par", value |-> c.par]>>
Unparented(x) == [y \in DOMAIN gw.par \ {x} |-> gw.par[y]]
Under(x, p) == IF p = NoUnit THEN Unparented(x) ELSE Assigned(gw.par, x, p)

AddUnit(w) ==
    \E x \in Units \ Catalog(gw), p \in Catalog(gw) \cup {NoUnit} :
        LET c == Rows(Catalog(gw) \cup {x}, Under(x, p))
        IN  /\ CatalogAccepted(c)
            /\ Begin(w, "checking", "add", x, 0, NoBoost, Writes(c))
            /\ Admitted("add")

MoveUnit(w) ==
    \E x \in Catalog(gw), p \in Catalog(gw) \cup {NoUnit} :
        LET c == Rows(Catalog(gw), Under(x, p))
        IN  /\ c # gw
            /\ CatalogAccepted(c)
            /\ Begin(w, "checking", "move", x, 0, NoBoost, Writes(c))
            /\ Admitted("move")

(* Mutant: the manager group of a removed unit stays. *)
RemoveUnitUnrevoked(w) ==
    \E x \in Catalog(gw) :
        LET c == Rows(Catalog(gw) \ {x}, Unparented(x))
        IN  /\ CatalogAccepted(c)
            /\ Begin(w, "checking", "remove", x, 0, NoBoost, Writes(c))
            /\ Admitted("remove")

RemoveUnit(w) ==
    \E x \in Catalog(gw) :
        LET c == Rows(Catalog(gw) \ {x}, Unparented(x))
        IN  /\ CatalogAccepted(c)
            /\ Begin(w, IF x \in managers THEN "revoking" ELSE "checking",
                     "remove", x, 0, NoBoost, Writes(c))
            /\ Admitted("remove")

(* configure(tier) checks no headroom *)
SetTier(w) ==
    \E amount \in Amounts :
        /\ Begin(w, "checking", "tier", NoUnit, amount, NoBoost, <<[key |-> "tier", value |-> amount]>>)
        /\ Admitted("tier")

(* configure(manager): amount 1 for a group, 0 for null *)
SetManager(w) ==
    \E x \in Catalog(gw), group \in {0, 1} :
        /\ Begin(w, "mapping", "manager", x, group, NoBoost, <<>>)
        /\ Admitted("manager")

(* --------------------------- table storage calls ------------------------ *)
RecordBoost(w) ==
    /\ at[w] = "recording"
    /\ boosts' = [boosts EXCEPT ![job[w].boost] =
            [state |-> "pending", target |-> job[w].target, limit |-> job[w].amount,
             previous |-> Limit(job[w].snap, job[w].target)]]
    /\ Goto(w, "checking")
    /\ UNCHANGED <<gw, managers, due, lease, valid, job, late, spent>>

MapManager(w) ==
    /\ at[w] = "mapping"
    /\ managers' = IF job[w].amount = 1 THEN managers \cup {job[w].target} ELSE managers \ {job[w].target}
    /\ Finish(w)
    /\ job' = [job EXCEPT ![w] = NoJob]
    /\ UNCHANGED <<gw, boosts, due, late, spent>>

RevokeManager(w) ==
    /\ at[w] = "revoking"
    /\ managers' = managers \ {job[w].target}
    /\ Goto(w, "checking")
    /\ UNCHANGED <<gw, boosts, due, lease, valid, job, late, spent>>

(* ----------------------------- apply_values ----------------------------- *)
ThisWrite(w) == Head(job[w].todo)
Rest(w) == Tail(job[w].todo)

(* Compensation: whatever was written and verified or only written.        *)
FailJob(w) ==
    /\ IF job[w].done = <<>>
       THEN Finish(w) /\ job' = [job EXCEPT ![w] = NoJob]
       ELSE Goto(w, "rolling") /\ UNCHANGED <<lease, valid, job>>
    /\ UNCHANGED <<gw, boosts, managers, due, late>>

(* check_lease, get, compare with the snapshot; a value that is right      *)
(* already is skipped.  The list that made the snapshot carries no ETag    *)
(* here, the weaker of the two cases the code accepts.                     *)
Compare(w) ==
    /\ at[w] = "checking" /\ job[w].todo # <<>>
    /\ valid[w] /\ gw[ThisWrite(w).key] = job[w].snap[ThisWrite(w).key]
    /\ IF gw[ThisWrite(w).key] = ThisWrite(w).value
       THEN job' = [job EXCEPT ![w].todo = Rest(w)] /\ UNCHANGED at
       ELSE job' = [job EXCEPT ![w].fresh = @ \cup {ThisWrite(w).key}] /\ Goto(w, "putting")
    /\ UNCHANGED <<gw, boosts, managers, due, lease, valid, late, spent>>

CompareFails(w) ==
    /\ at[w] = "checking"
    /\ \/ ~valid[w]
       \/ job[w].todo # <<>> /\ gw[ThisWrite(w).key] # job[w].snap[ThisWrite(w).key]
    /\ FailJob(w)
    /\ UNCHANGED spent

(* A put returns a value and its ETag; the receipt keeps the ETag, so the   *)
(* model keeps the value that goes with it.                                *)
(* The put takes effect, and its answer carries the ETag of what it wrote. *)
PutLands(w) ==
    /\ at[w] = "putting" /\ ThisWrite(w).key \in job[w].fresh
    /\ Land(ThisWrite(w).key, ThisWrite(w).value,
            [Forgetting(w, ThisWrite(w).key) EXCEPT ![w].done = Append(@, ThisWrite(w))])
    /\ Goto(w, "verifying")
    /\ UNCHANGED <<boosts, managers, due, lease, valid, spent>>

(* It takes effect, and the answer is an operation to poll or has no ETag: *)
(* the put gets the value before it returns.                               *)
PutAsks(w) ==
    /\ at[w] = "putting" /\ ThisWrite(w).key \in job[w].fresh
    /\ Land(ThisWrite(w).key, ThisWrite(w).value,
            [Forgetting(w, ThisWrite(w).key) EXCEPT ![w].fresh = @ \ {ThisWrite(w).key}])
    /\ Goto(w, "asking")
    /\ UNCHANGED <<boosts, managers, due, lease, valid, spent>>

(* That get finds the value and the ETag of now, whosever they are.        *)
Asks(w) ==
    /\ at[w] = "asking"
    /\ job' = [job EXCEPT ![w].fresh = @ \cup {ThisWrite(w).key},
                          ![w].done = Append(@, [ThisWrite(w) EXCEPT !.value = gw[ThisWrite(w).key]])]
    /\ Goto(w, "verifying")
    /\ UNCHANGED <<gw, boosts, managers, due, lease, valid, late, spent>>

PutRefused(w) ==
    /\ at[w] = "putting" /\ ThisWrite(w).key \notin job[w].fresh
    /\ FailJob(w)
    /\ UNCHANGED spent

(* The put failed without an answer: it took effect, or did not, or will.  *)
(* A receipt is kept only for an answer.                                   *)
PutErrors(w) ==
    /\ at[w] = "putting"
    /\ Fault
    /\ IF job[w].done = <<>>
       THEN Finish(w)
       ELSE Goto(w, "rolling") /\ UNCHANGED <<lease, valid>>
    /\ LET key == ThisWrite(w).key
           after == IF job[w].done = <<>> THEN NoJob ELSE [job[w] EXCEPT !.fresh = @ \ {key}]
       IN \/ /\ "nothing" \in PutFailures
             /\ job' = [job EXCEPT ![w] = after] /\ UNCHANGED <<gw, late>>
          \/ /\ "landed" \in PutFailures /\ key \in job[w].fresh
             /\ Land(key, ThisWrite(w).value, [Forgetting(w, key) EXCEPT ![w] = after])
          \/ /\ "later" \in PutFailures /\ key \in job[w].fresh
             /\ late' = late \cup {ThisWrite(w)}
             /\ job' = [job EXCEPT ![w] = after] /\ UNCHANGED gw
    /\ UNCHANGED <<boosts, managers, due>>

(* check_lease, get, compare value and ETag with the answer of the put     *)
ReadBack(w) ==
    /\ at[w] = "verifying"
    /\ valid[w] /\ ThisWrite(w).key \in job[w].fresh /\ gw[ThisWrite(w).key] = ThisWrite(w).value
    /\ job' = [job EXCEPT ![w].todo = Rest(w)]
    /\ Goto(w, "checking")
    /\ UNCHANGED <<gw, boosts, managers, due, lease, valid, late, spent>>

ReadBackFails(w) ==
    /\ at[w] = "verifying"
    /\ \/ ~valid[w]
       \/ ThisWrite(w).key \notin job[w].fresh
       \/ gw[ThisWrite(w).key] # ThisWrite(w).value
    /\ FailJob(w)
    /\ UNCHANGED spent

(* A get fails, while the lease is held or at the end of a put: there is   *)
(* no receipt for that put, what was written before is taken back.         *)
GetFails(w) ==
    /\ \/ at[w] = "asking" /\ "landed" \in PutFailures
       \/ at[w] \in {"checking", "verifying"} /\ valid[w]
    /\ Fault
    /\ FailJob(w)

(* Every value is written, or none had to be: the last check_lease.        *)
Applied(w) ==
    /\ at[w] = "checking" /\ job[w].todo = <<>>
    /\ valid[w]
    /\ IF job[w].kind \in {"boost", "expired", "superseded"}
       THEN Goto(w, "storing") /\ UNCHANGED <<lease, valid, job>>
       ELSE Finish(w) /\ job' = [job EXCEPT ![w] = NoJob]
    /\ UNCHANGED <<gw, boosts, managers, due, late, spent>>

(* The boost record follows the values. *)
StoreOutcome(w) ==
    /\ at[w] = "storing"
    /\ boosts' = [boosts EXCEPT ![job[w].boost].state =
            IF job[w].kind = "boost" THEN "active" ELSE job[w].kind]
    /\ Finish(w)
    /\ job' = [job EXCEPT ![w] = NoJob]
    /\ UNCHANGED <<gw, managers, due, late, spent>>

(* ------------------------------- rollback ------------------------------- *)
Receipt(w) == job[w].done[Len(job[w].done)]

(* The receipt is dealt with; a key that could not be restored is reported *)
(* as rollback_failed and left to an administrator.                        *)
NextReceipt(w, jobs) ==
    LET left == SubSeq(job[w].done, 1, Len(job[w].done) - 1)
    IN IF left = <<>>
       THEN Finish(w) /\ job' = [jobs EXCEPT ![w] = NoJob]
       ELSE /\ Goto(w, "rolling")
            /\ job' = [jobs EXCEPT ![w].done = left]
            /\ UNCHANGED <<lease, valid>>

StartRestore(w) ==
    /\ at[w] = "rolling" /\ valid[w]
    /\ Goto(w, "restoring")
    /\ UNCHANGED <<gw, boosts, managers, due, lease, valid, job, late, spent>>

SkipRestore(w) ==
    /\ at[w] = "rolling" /\ ~valid[w]
    /\ NextReceipt(w, job)
    /\ UNCHANGED <<gw, boosts, managers, due, late, spent>>

(* Mutant: the rollback writes whatever ETag the value has by now. *)
RestoreAnyETag(w) ==
    /\ at[w] = "restoring"
    /\ gw' = With(gw, Receipt(w).key, job[w].snap[Receipt(w).key])
    /\ late' = {l \in late : l.key # Receipt(w).key}
    /\ NextReceipt(w, Forgetting(w, Receipt(w).key))
    /\ UNCHANGED <<boosts, managers, due, spent>>

(* put of the previous value with the ETag of the receipt *)
RestoreLands(w) ==
    /\ at[w] = "restoring" /\ Receipt(w).key \in job[w].fresh
    /\ gw' = With(gw, Receipt(w).key, job[w].snap[Receipt(w).key])
    /\ late' = {l \in late : l.key # Receipt(w).key}
    /\ NextReceipt(w, Forgetting(w, Receipt(w).key))
    /\ UNCHANGED <<boosts, managers, due, spent>>

RestoreRefused(w) ==
    /\ at[w] = "restoring" /\ Receipt(w).key \notin job[w].fresh
    /\ NextReceipt(w, job)
    /\ UNCHANGED <<gw, boosts, managers, due, late, spent>>

(* ---------------------- failures and the surroundings ------------------- *)
(* A table call or a restoring put fails without having had its effect.    *)
CallFails(w) ==
    /\ at[w] \in Calling \ {"putting", "asking"}
    /\ Fault
    /\ IF at[w] = "restoring" THEN NextReceipt(w, job)
       ELSE Finish(w) /\ job' = [job EXCEPT ![w] = NoJob]
    /\ UNCHANGED <<gw, boosts, managers, due, late>>

(* The process dies; the blob lease stays until it expires. *)
Crash(w) ==
    /\ at[w] # "idle"
    /\ Fault
    /\ Goto(w, "idle")
    /\ valid' = [valid EXCEPT ![w] = FALSE]
    /\ job' = [job EXCEPT ![w] = NoJob]
    /\ \/ UNCHANGED late
       \/ /\ "later" \in PutFailures /\ at[w] = "putting" /\ ThisWrite(w).key \in job[w].fresh
          /\ late' = late \cup {ThisWrite(w)}
    /\ UNCHANGED <<gw, boosts, managers, due, lease>>

LateLands ==
    \E l \in late :
        /\ Land(l.key, l.value, Forgetting(NoWriter, l.key))
        /\ spent' = [spent EXCEPT !.slow = 1]
        /\ UNCHANGED <<boosts, managers, due, lease, valid, at>>

(* A renewal failed or the local deadline passed: check_lease refuses from *)
(* now on.  The deadline is 5 seconds before the lease ends at the blob.   *)
LoseLease(w) ==
    /\ at[w] # "idle" /\ valid[w]
    /\ Fault
    /\ valid' = [valid EXCEPT ![w] = FALSE]
    /\ UNCHANGED <<gw, boosts, managers, due, lease, at, job, late>>

LeaseExpires ==
    /\ lease # NoWriter /\ ~valid[lease]
    /\ SlowCalls \/ at[lease] \notin Calling
    /\ lease' = NoWriter
    /\ spent' = IF at[lease] \in Calling THEN [spent EXCEPT !.slow = 1] ELSE spent
    /\ UNCHANGED <<gw, boosts, managers, due, valid, at, job, late>>

BoostDue(b) ==
    /\ Live(b) /\ b \notin due
    /\ due' = due \cup {b}
    /\ UNCHANGED <<gw, boosts, managers, lease, valid, at, job, late, spent>>

(* Another tool sets a limit; it knows nothing of the lease or of boosts.  *)
ExternalEdit ==
    \E t \in Targets(gw), amount \in Amounts :
        /\ spent.edits < MaxEdits /\ Spend("edits")
        /\ Land(KeyOf(t), Changed(gw, t, amount), Forgetting(NoWriter, KeyOf(t)))
        /\ UNCHANGED <<boosts, managers, due, lease, valid, at>>

-----------------------------------------------------------------------------
Request(w) ==
    /\ Parses(gw)
    /\ \/ SetBudget(w) \/ Boost(w) \/ AddUnit(w) \/ MoveUnit(w) \/ RemoveUnit(w)
       \/ SetTier(w) \/ SetManager(w)

(* What a handler does next while everything answers. *)
Work(w) ==
    \/ RecordBoost(w) \/ MapManager(w) \/ RevokeManager(w)
    \/ Compare(w) \/ CompareFails(w) \/ PutLands(w) \/ PutAsks(w) \/ Asks(w) \/ PutRefused(w)
    \/ ReadBack(w) \/ ReadBackFails(w) \/ Applied(w) \/ StoreOutcome(w)
    \/ StartRestore(w) \/ SkipRestore(w) \/ RestoreLands(w) \/ RestoreRefused(w)

Failure(w) == PutErrors(w) \/ GetFails(w) \/ CallFails(w) \/ Crash(w) \/ LoseLease(w)

Next ==
    \/ \E w \in Writers : Request(w) \/ Expire(w) \/ Work(w) \/ Failure(w)
    \/ LateLands \/ LeaseExpires \/ ExternalEdit
    \/ \E b \in BoostIds : BoostDue(b)

Spec == Init /\ [][Next]_aumVars

(* Handlers go on while they live, a lost lease ends at the blob, and the  *)
(* timer fires every minute.  Nobody has to make a request.                *)
Fairness ==
    /\ \A w \in Writers : WF_aumVars(Work(w))
    /\ WF_aumVars(LeaseExpires)
    /\ WF_aumVars(\E w \in Writers : Expire(w))

FairSpec == Spec /\ Fairness

-----------------------------------------------------------------------------
(* No other tool has written, no call has outlasted its lease. *)
Undisturbed == spent.edits = 0 /\ spent.slow = 0

(* Children and people never reserve more than their parent has            *)
(* (docs/adr/0023-aum-service.md: headroom is an allocation constraint),   *)
(* whatever writers interleave and whichever boosts are in force; as long  *)
(* as only the service writes and its calls end within their lease.        *)
HeadroomHolds == Undisturbed => Balanced(gw)

(* A boost can always end: whatever was allocated meanwhile, the limit it  *)
(* has to go back to still fits (docs/AUM-SERVICE.md: do not allocate      *)
(* permanent child budgets into temporary parent headroom).                *)
RestoreAlwaysFits ==
    \A b \in BoostIds : Live(b) /\ Limit(gw, boosts[b].target) = boosts[b].limit
        => Fits(gw, boosts[b].target, AmountForCheck(gw, boosts[b].previous))

(* Once a boost is recorded as expired, nothing that was under way for it   *)
(* brings its limit back; only another change of the same budget can       *)
(* (comment in boost: a write with an uncertain outcome must remain        *)
(* visible to the timer).                                                  *)
BoostStaysOver ==
    [][\A b \in BoostIds :
        LET t == boosts[b].target
            back == /\ boosts[b].state = "expired"
                    /\ Limit(gw, t) # boosts[b].limit /\ Limit(gw', t) = boosts[b].limit
        IN back => \E w \in Writers : job[w].target = t /\ job[w].boost # b]_aumVars

(* A unit that is not in the catalog has no manager group that a later     *)
(* unit of the same id would inherit (comment in configure).               *)
NoGrantWithoutUnit == Undisturbed => managers \subseteq Catalog(gw)

Restores(w) == at[w] = "restoring" /\ gw' # gw /\ at'[w] # "restoring"

(* The service overwrites only what it was shown: when a write takes        *)
(* effect, the value is the one the writer compared; when a rollback does, *)
(* it is the one that came with the answer of its put.  That one may be    *)
(* another tool's when the put had to ask, and the rollback then undoes a  *)
(* later write (README, Known disagreements).                              *)
NothingUnseenOverwritten ==
    [][\A w \in Writers :
        /\ at[w] = "putting" /\ at'[w] \in {"asking", "verifying"}
            => gw[ThisWrite(w).key] = job[w].snap[ThisWrite(w).key]
        /\ Restores(w) => gw[Receipt(w).key] = Receipt(w).value]_aumVars

(* A boost that is due ends, whatever failed on the way. *)
BoostEnds == \A b \in BoostIds : (b \in due /\ Live(b)) ~> ~Live(b)

(* Limits as the ledger sees them: under a boost that is in force, the     *)
(* permanent limit is the one the record will restore.                     *)
InForce(t) == {b \in Boosting(t) : Limit(gw, t) = boosts[b].limit}
permanentLimit == [t \in Units \cup Users |->
    IF t \notin Targets(gw) THEN 0
    ELSE IF InForce(t) = {} THEN Limit(gw, t)
    ELSE boosts[CHOOSE b \in InForce(t) : TRUE].previous]
boostedLimit == [t \in Units \cup Users |->
    IF InForce(t) = {} THEN NoBoost ELSE Limit(gw, t)]

Ledger == INSTANCE BudgetLedger WITH
    Budgets <- Units \cup Users, None <- NoBoost,
    permanent <- permanentLimit, boosted <- boostedLimit

(* The leased, conditional, compensated writes implement the ledger: a     *)
(* boost that ends leaves exactly the limit it started from.               *)
ImplementsLedger == Ledger!Spec
=============================================================================
