------------------------------ MODULE UsdBudgets ------------------------------
(***************************************************************************)
(* Dollar budgets.  The document usd-budgets holds what administrators     *)
(* decide; a reconciler prices the usage ledger and writes what it found   *)
(* to usd-budget-state with an expiry; the gateway admits a request by     *)
(* that state alone, and refuses when it is stale (usd_budgets.py,         *)
(* usd_reconcile.py, usd_service.py, usd_command.py, infra/policy.xml).    *)
(* Time is a number of ticks; an instant n is the beginning of tick n.     *)
(* Callers and audit records are in AumRequests.                           *)
(***************************************************************************)
EXTENDS AumRegistry

CONSTANTS
    Services,       \* handlers of the AUM service: the timer and requests
    Directs,        \* runs of usd_command.py, which hold no lease
    NoHandler,
    Models,         \* deployments the ledger names
    Amounts,        \* dollars a budget may have
    Modes,          \* subset of {"strict", "allowance", "notify"}
    Percent,        \* the percentage of mode "allowance"
    DayLength, MonthLength,
    Freshness,      \* ticks a state is valid for, 900 seconds
    MaxAge,         \* ticks a state may be valid for, by the gateway's own bound
    Tolerance,      \* ticks a state may be stamped ahead of the gateway's clock
    Skew,           \* how far a direct run's clock may be ahead
    Delay,          \* ticks until a row of the ledger can be queried
    Starts,         \* [gov, doc]: what a behaviour may start with
    MaxClock, MaxRows,  \* bounds
    MaxChanges,     \* bound: edits of dollars and moves of the catalog together
    MaxFaults

Scopes == ({"organization", "department"} \X Units) \cup ({"user"} \X Users)
IsDocument(d) ==
    /\ d = [book |-> d.book, items |-> d.items] /\ d.book \subseteq Models
    /\ IsMap(d.items, Scopes, [amount : Nat, period : {"day", "month"}])

ASSUME UsdConstants ==
    /\ Services \cap Directs = {}
    /\ {Percent, Freshness, MaxAge, Tolerance, Skew, Delay, MaxClock} \subseteq Nat
    /\ {DayLength, MonthLength} \subseteq Nat \ {0}
    /\ Amounts \subseteq Nat
    /\ \A start \in Starts : IsDocument(start.doc)

VARIABLES
    clock,
    ledger,     \* rows [tick, user, model] of one token each
    gov,        \* bu-registry (reg), bu-parents (par), bu-modes (mode), turnstile-integration (other)
    doc,        \* usd-budgets: [book, items]; items maps <<kind, id>> to [amount, period]
    state,      \* usd-budget-state
    current,    \* {<<h, key>>: key has not been written since h read or wrote it}
    lease, valid, at, job, spent    \* as in AumBudgets

usdVars == <<clock, ledger, gov, doc, state, current, lease, valid, at, job, spent>>

Handlers == Services \cup Directs
Keys == {"usd-budgets", "usd-budget-state"}
NoState == [policy |-> <<>>, asof |-> -1, until |-> -1, items |-> <<>>]
(* got: the value that came with the answer of the put, whose ETag is kept *)
NoJob == [key |-> "none", now |-> 0, new |-> NoState, old |-> NoState, got |-> NoState, gov |-> <<>>, doc |-> <<>>]
Phases == {"idle", "reading", "querying", "checking", "comparing", "putting", "asking", "confirming", "restoring"}
(* Phases in which a call that writes is under way; "asking" is the end of *)
(* a put whose answer had no value.                                        *)
Calling == {"putting", "asking", "restoring"}

UsdTypeOK ==
    /\ clock \in 0..MaxClock
    /\ \A r \in ledger : r.tick \in 0..clock /\ r.user \in Users /\ r.model \in Models
    /\ Parses(gov) /\ gov.mode \in [Catalog(gov) -> Modes]
    /\ IsDocument(doc)
    /\ \A s \in DOMAIN doc.items : s[1] # "user" => doc.items[s].period = "month"
    /\ state.until = state.asof + Freshness \/ state = NoState
    /\ current \subseteq Handlers \X Keys
    /\ lease \in Services \cup {NoHandler} /\ valid \in [Services -> BOOLEAN]
    /\ at \in [Handlers -> Phases]

Init ==
    /\ clock = 0 /\ ledger = {}
    /\ \E start \in Starts : gov = start.gov /\ doc = start.doc
    /\ state = NoState
    /\ current = {}
    /\ lease = NoHandler
    /\ valid = [h \in Services |-> FALSE]
    /\ at = [h \in Handlers |-> "idle"]
    /\ job = [h \in Handlers |-> NoJob]
    /\ spent = [edits |-> 0, moves |-> 0, faults |-> 0]

-----------------------------------------------------------------------------
(* ------------------------ what a snapshot decides ------------------------ *)
KindOf(c, x) == IF x \in Users THEN "user" ELSE IF x \in DOMAIN c.par THEN "department" ELSE "organization"
ScopeOf(c, x) == <<KindOf(c, x), x>>

(* require_target *)
Known(c, s) == s[1] = "user" \/ (s[2] \in Catalog(c) /\ s = ScopeOf(c, s[2]))

(* bounds: the day or the month that holds an instant *)
Length(period) == IF period = "day" THEN DayLength ELSE MonthLength
From(now, period) == now - (now % Length(period))
Until(now, period) == From(now, period) + Length(period)

(* The rows calculate_state counts for s; a person's unit is bu-members'.  *)
Counted(c, s, rows, from, now) ==
    {r \in rows :
        /\ from <= r.tick /\ r.tick < now
        /\ s[2] \in {r.user, Home[r.user], ParentIn(c, Home[r.user])}}

ModeOf(c, s) == IF s[1] = "user" THEN "strict" ELSE c.mode[s[2]]

(* Reached: the observed dollars stop the scope.                        *)
Reached(c, s, amount, dollars) ==
    IF ModeOf(c, s) = "allowance" THEN dollars * 100 > amount * (100 + Percent) ELSE dollars >= amount

Status(c, s, amount, dollars, unpriced) ==
    CASE ModeOf(c, s) = "notify" -> "notice"
      [] ModeOf(c, s) # "notify" /\ unpriced -> "unpriced"
      [] ModeOf(c, s) # "notify" /\ ~unpriced /\ Reached(c, s, amount, dollars) -> "stop"
      [] OTHER -> IF dollars >= amount THEN "notice" ELSE "allow"

(* The price book knows a model, by one of its names, or it does not; what *)
(* it knows costs a dollar a row.                                          *)
Unpriced(d, rows) == {r \in rows : r.model \notin d.book}
Dollars(d, rows) == Cardinality(rows \ Unpriced(d, rows))

(* Mutant: every row of the ledger counts, whatever its month. *)
DecidedOverAll(c, d, rows, now, s) ==
    LET counted == Counted(c, s, rows, 0, now)
    IN  [status |-> Status(c, s, d.items[s].amount, Dollars(d, counted), Unpriced(d, counted) # {}),
         start |-> From(now, d.items[s].period), end |-> Until(now, d.items[s].period)]

Decided(c, d, rows, now, s) ==
    LET counted == Counted(c, s, rows, From(now, d.items[s].period), now)
    IN  [status |-> Status(c, s, d.items[s].amount, Dollars(d, counted), Unpriced(d, counted) # {}),
         start |-> From(now, d.items[s].period), end |-> Until(now, d.items[s].period)]

(* policy_revision, the hash the gateway computes too *)
Policy(c, d) == <<d, c.mode, c.par>>
Source(c, d) == <<Policy(c, d), c.other>>

(* Mutant: the source revision is published for the gateway to compare. *)
CalculateStateOfSource(c, d, rows, now) ==
    [policy |-> Source(c, d), asof |-> now, until |-> now + Freshness,
     items |-> [s \in DOMAIN d.items |-> Decided(c, d, rows, now, s)]]

CalculateState(c, d, rows, now) ==
    [policy |-> Policy(c, d), asof |-> now, until |-> now + Freshness,
     items |-> [s \in DOMAIN d.items |-> Decided(c, d, rows, now, s)]]

(* ------------------------------ allocations ----------------------------- *)
Above(c, x) == IF ParentIn(c, x) = NoUnit THEN {} ELSE {ParentIn(c, x)} \cup
                  (IF ParentIn(c, ParentIn(c, x)) = NoUnit THEN {} ELSE {ParentIn(c, ParentIn(c, x))})
Cost(item) == item.amount * (IF item.period = "day" THEN Days ELSE 1)

(* Mutant: only the direct parent is looked at. *)
HeadroomOfParent(c, items) ==
    \A p \in {q \in Catalog(c) : ScopeOf(c, q) \in DOMAIN items} :
        MapThenSumSet(LAMBDA s : Cost(items[s]), {s \in DOMAIN items : ParentIn(c, s[2]) = p})
            <= items[ScopeOf(c, p)].amount

(* headroom: an item counts for the nearest unit above it that has a budget*)
Headroom(c, items) ==
    LET Budgeted(x) == {p \in Above(c, x) : ScopeOf(c, p) \in DOMAIN items}
        Nearest(x) == {p \in Budgeted(x) : \A q \in Budgeted(x) : q = p \/ q \in Above(c, p)}
    IN  \A p \in {q \in Catalog(c) : ScopeOf(c, q) \in DOMAIN items} :
            MapThenSumSet(LAMBDA s : Cost(items[s]), {s \in DOMAIN items : p \in Nearest(s[2])})
                <= items[ScopeOf(c, p)].amount

-----------------------------------------------------------------------------
(* ------------------------------ the gateway ----------------------------- *)
(* The policy's usdDecision for a person; open, stop (403) or stale (503).  *)
Enforced(u) ==
    {s \in {ScopeOf(gov, x) : x \in {u} \cup {Home[u]} \cup Above(gov, Home[u])} :
        s \in DOMAIN doc.items /\ ModeOf(gov, s) # "notify"}

(* Mutant: a state does not expire. *)
StaleByPolicy(u) ==
    \/ state = NoState \/ state.policy # Policy(gov, doc)
    \/ state.asof > clock + Tolerance \/ state.until > state.asof + MaxAge
    \/ \E s \in Enforced(u) : clock < state.items[s].start \/ clock >= state.items[s].end

Stale(u) ==
    \/ state = NoState \/ state.policy # Policy(gov, doc) \/ clock >= state.until
    \/ state.asof > clock + Tolerance \/ state.until > state.asof + MaxAge
    \/ \E s \in Enforced(u) : clock < state.items[s].start \/ clock >= state.items[s].end

Decision(u) ==
    IF Enforced(u) = {} THEN "open"
    ELSE IF Stale(u) THEN "stale"
    ELSE IF \E s \in Enforced(u) : state.items[s].status \in {"stop", "unpriced"} THEN "stop" ELSE "open"

(* Usage of the last tick, which no state could count, is left out: a      *)
(* bound, as MaxRows is.                                                   *)
Use(u) ==
    \E m \in Models :
        /\ Cardinality(ledger) < MaxRows /\ clock < MaxClock
        /\ Decision(u) = "open"
        /\ [tick |-> clock, user |-> u, model |-> m] \notin ledger
        /\ ledger' = ledger \cup {[tick |-> clock, user |-> u, model |-> m]}
        /\ UNCHANGED <<clock, gov, doc, state, current, lease, valid, at, job, spent>>

Tick ==
    /\ clock < MaxClock
    /\ clock' = clock + 1
    /\ UNCHANGED <<ledger, gov, doc, state, current, lease, valid, at, job, spent>>

-----------------------------------------------------------------------------
(* ------------------------------ one handler ------------------------------ *)
Goto(h, phase) == at' = [at EXCEPT ![h] = phase]
Holding(h) == h \in Directs \/ valid[h]     \* check_lease; a direct run's does nothing
Fault == spent.faults < MaxFaults /\ spent' = [spent EXCEPT !.faults = @ + 1]

Acquire(h) ==
    IF h \in Directs THEN UNCHANGED <<lease, valid>>
    ELSE lease = NoHandler /\ lease' = h /\ valid' = [valid EXCEPT ![h] = TRUE]

Finish(h) ==
    /\ Goto(h, "idle")
    /\ job' = [job EXCEPT ![h] = NoJob]
    /\ current' = {c \in current : c[1] # h}
    /\ valid' = [s \in Services |-> valid[s] /\ s # h]
    /\ lease' = IF lease = h THEN NoHandler ELSE lease

(* A write of key ends every other handler's claim to know its value.      *)
Supersede(h, key) == current' = {c \in current : c[2] # key \/ c[1] = h}

(* service.clock(), or the clock of the machine the command runs on, is    *)
(* read before anything else.                                              *)
Begin(h) ==
    /\ at[h] = "idle" /\ Acquire(h)
    /\ \E now \in clock..(IF h \in Directs /\ clock + Skew <= MaxClock THEN clock + Skew ELSE clock) :
        job' = [job EXCEPT ![h] = [NoJob EXCEPT !.now = now]]
    /\ Goto(h, "reading")
    /\ UNCHANGED <<clock, ledger, gov, doc, state, current, spent>>

Read(h) ==
    /\ at[h] = "reading"
    /\ IF gov.other \/ doc.items = <<>>
       THEN Finish(h)
       ELSE /\ job' = [job EXCEPT ![h].gov = gov, ![h].doc = doc, ![h].old = state]
            /\ current' = current \cup {<<h, "usd-budget-state">>}
            /\ Goto(h, "querying")
            /\ UNCHANGED <<lease, valid>>
    /\ UNCHANGED <<clock, ledger, gov, doc, state, spent>>

(* Mutant: the run does not look at when the stored state was made. *)
QueryOlder(h) ==
    /\ at[h] = "querying"
    /\ \E late \in SUBSET {r \in ledger : r.tick + Delay >= clock} :
        IF \A s \in DOMAIN job[h].doc.items : Known(job[h].gov, s)
        THEN /\ Goto(h, "checking")
             /\ job' = [job EXCEPT ![h].key = "usd-budget-state",
                    ![h].new = CalculateState(job[h].gov, job[h].doc, ledger \ late, job[h].now)]
             /\ UNCHANGED <<current, lease, valid>>
        ELSE Finish(h)
    /\ UNCHANGED <<clock, ledger, gov, doc, state, spent>>

(* analytics.query: rows before now, except those that are still on their  *)
(* way; calculate_state; and the stored state must not be a later one.     *)
Query(h) ==
    /\ at[h] = "querying"
    /\ \E late \in SUBSET {r \in ledger : r.tick + Delay >= clock} :
        IF (\A s \in DOMAIN job[h].doc.items : Known(job[h].gov, s)) /\ job[h].old.asof <= job[h].now
        THEN /\ Goto(h, "checking")
             /\ job' = [job EXCEPT ![h].key = "usd-budget-state",
                    ![h].new = CalculateState(job[h].gov, job[h].doc, ledger \ late, job[h].now)]
             /\ UNCHANGED <<current, lease, valid>>
        ELSE Finish(h)
    /\ UNCHANGED <<clock, ledger, gov, doc, state, spent>>

(* The lease, the authority and the source revision once more; a state     *)
(* that says the same is not written.                                      *)
Recheck(h) ==
    /\ at[h] = "checking"
    /\ IF Holding(h) /\ ~gov.other /\ Source(gov, doc) = Source(job[h].gov, job[h].doc) /\ job[h].new # job[h].old
       THEN /\ job' = [job EXCEPT ![h].gov = <<>>, ![h].doc = <<>>]
            /\ Goto(h, "comparing")
            /\ UNCHANGED <<current, lease, valid>>
       ELSE Finish(h)
    /\ UNCHANGED <<clock, ledger, gov, doc, state, spent>>

(* PUT and DELETE usd-budgets, PUT usd-price-book: lease, prepare and the  *)
(* checks on what was read; new is the document that will be written.      *)
MayPlan(h) ==
    /\ at[h] = "idle" /\ h \in Services /\ lease = NoHandler /\ ~gov.other
    /\ spent.edits + spent.moves < MaxChanges

Plan(h, new) ==
    /\ Acquire(h) /\ new # doc
    /\ spent' = [spent EXCEPT !.edits = @ + 1]
    /\ job' = [job EXCEPT ![h] = [NoJob EXCEPT !.key = "usd-budgets", !.new = new, !.old = doc]]
    /\ current' = current \cup {<<h, "usd-budgets">>}
    /\ Goto(h, "comparing")
    /\ UNCHANGED <<clock, ledger, gov, doc, state>>

SetBudget(h) ==
    /\ MayPlan(h)
    /\ \E s \in Scopes, amount \in Amounts \cup {0}, period \in {"day", "month"} :
        LET items == IF amount = 0 THEN [t \in DOMAIN doc.items \ {s} |-> doc.items[t]]
                     ELSE Assigned(doc.items, s, [amount |-> amount, period |-> period])
        IN  /\ doc.book # {} /\ Known(gov, s)
            /\ period = "day" => s[1] = "user" /\ amount # 0
            /\ Headroom(gov, items)
            /\ \A t \in DOMAIN items : Known(gov, t)
            /\ Plan(h, [doc EXCEPT !.items = items])

(* validate_price_book: a rate for one model at least *)
Books == SUBSET Models \ {{}}

(* Budgets that are set pin the price book. *)
SetBook(h) ==
    /\ MayPlan(h) /\ doc.items = <<>>
    /\ \E book \in Books : Plan(h, [doc EXCEPT !.book = book])

(* --------------------------- apply_values -------------------------------- *)
Knows(h) == <<h, job[h].key>> \in current

Compare(h) ==
    /\ at[h] = "comparing"
    /\ IF Holding(h) /\ Knows(h)
       THEN Goto(h, "putting") /\ UNCHANGED <<current, lease, valid, job>>
       ELSE Finish(h)
    /\ UNCHANGED <<clock, ledger, gov, doc, state, spent>>

Write(h, value) ==
    /\ doc' = IF job[h].key = "usd-budgets" THEN value ELSE doc
    /\ state' = IF job[h].key = "usd-budget-state" THEN value ELSE state

ValueNow(h) == IF job[h].key = "usd-budgets" THEN doc ELSE state

(* The put takes effect, and its answer carries the ETag of what it wrote. *)
Put(h) ==
    /\ at[h] = "putting" /\ Knows(h)
    /\ Write(h, job[h].new) /\ Supersede(h, job[h].key)
    /\ job' = [job EXCEPT ![h].got = job[h].new]
    /\ Goto(h, "confirming")
    /\ UNCHANGED <<clock, ledger, gov, lease, valid, spent>>

(* It takes effect, and the answer is an operation to poll or has no ETag: *)
(* the put gets the value before it returns.                               *)
PutAsks(h) ==
    /\ at[h] = "putting" /\ Knows(h)
    /\ Write(h, job[h].new)
    /\ current' = {c \in current : c[2] # job[h].key}
    /\ Goto(h, "asking")
    /\ UNCHANGED <<clock, ledger, gov, lease, valid, job, spent>>

(* That get finds the value and the ETag of now, whosever they are.        *)
Asks(h) ==
    /\ at[h] = "asking"
    /\ job' = [job EXCEPT ![h].got = ValueNow(h)]
    /\ current' = current \cup {<<h, job[h].key>>}
    /\ Goto(h, "confirming")
    /\ UNCHANGED <<clock, ledger, gov, doc, state, lease, valid, spent>>

(* 412, or an error; without an answer, or when the get at the end of the  *)
(* put fails, the write may have happened, and nothing is restored.        *)
PutFails(h) ==
    /\ \/ /\ at[h] = "putting" /\ ~Knows(h)
          /\ UNCHANGED <<doc, state, spent>> /\ Finish(h)
       \/ /\ at[h] \in {"putting", "asking"} /\ Fault
          /\ UNCHANGED <<doc, state>> /\ Finish(h)
       \/ /\ at[h] = "putting" /\ Knows(h) /\ Fault /\ Write(h, job[h].new)
          /\ current' = {c \in current : c[1] # h /\ c[2] # job[h].key}
          /\ Goto(h, "idle") /\ job' = [job EXCEPT ![h] = NoJob]
          /\ valid' = [s \in Services |-> valid[s] /\ s # h]
          /\ lease' = IF lease = h THEN NoHandler ELSE lease
    /\ UNCHANGED <<clock, ledger, gov>>

(* The lease and the read-back; what cannot be confirmed is taken back as  *)
(* long as the lease is held.                                              *)
Confirm(h) ==
    /\ at[h] = "confirming"
    /\ IF Holding(h) /\ ~(Knows(h) /\ ValueNow(h) = job[h].new)
       THEN Goto(h, "restoring") /\ UNCHANGED <<current, lease, valid, job>>
       ELSE Finish(h)
    /\ UNCHANGED <<clock, ledger, gov, doc, state, spent>>

ConfirmFails(h) ==
    /\ at[h] = "confirming" /\ Fault
    /\ Goto(h, "restoring")
    /\ UNCHANGED <<clock, ledger, gov, doc, state, current, lease, valid, job>>

Restore(h) ==
    /\ at[h] = "restoring"
    /\ IF Holding(h) /\ Knows(h)
       THEN /\ Write(h, job[h].old)
            /\ current' = {c \in current : c[1] # h /\ c[2] # job[h].key}
       ELSE UNCHANGED <<doc, state>> /\ current' = {c \in current : c[1] # h}
    /\ Goto(h, "idle") /\ job' = [job EXCEPT ![h] = NoJob]
    /\ valid' = [s \in Services |-> valid[s] /\ s # h]
    /\ lease' = IF lease = h THEN NoHandler ELSE lease
    /\ UNCHANGED <<clock, ledger, gov, spent>>

-----------------------------------------------------------------------------
(* ------------------------- the world around them ------------------------- *)
(* An error of a read, or the process ends; its lease is only let expire.  *)
Stop(h) ==
    /\ at[h] # "idle" /\ Fault
    /\ Goto(h, "idle")
    /\ job' = [job EXCEPT ![h] = NoJob]
    /\ current' = {c \in current : c[1] # h}
    /\ valid' = [s \in Services |-> valid[s] /\ s # h]
    /\ UNCHANGED <<clock, ledger, gov, doc, state, lease>>

LoseLease(h) ==
    /\ h \in Services /\ valid[h] /\ Fault
    /\ valid' = [valid EXCEPT ![h] = FALSE]
    /\ UNCHANGED <<clock, ledger, gov, doc, state, current, lease, at, job>>

(* No call outlasts the lease it was sent under. *)
LeaseExpires ==
    /\ lease # NoHandler /\ ~valid[lease] /\ at[lease] \notin Calling
    /\ lease' = NoHandler
    /\ UNCHANGED <<clock, ledger, gov, doc, state, current, valid, at, job, spent>>

(* The AUM service writes the catalog and the modes under the same lease   *)
(* (service.py configure); dollars are not looked at.                      *)
Govern(c) ==
    /\ lease = NoHandler /\ ~gov.other
    /\ spent.edits + spent.moves < MaxChanges /\ spent' = [spent EXCEPT !.moves = @ + 1]
    /\ c # gov /\ Parses(c) /\ gov' = c
    /\ UNCHANGED <<clock, ledger, doc, state, current, lease, valid, at, job>>

SetMode == \E x \in Catalog(gov), m \in Modes : Govern([gov EXCEPT !.mode[x] = m])

MoveUnit ==
    \E x \in Catalog(gov), p \in Catalog(gov) \cup {NoUnit} :
        Govern([gov EXCEPT !.par = IF p = NoUnit THEN [y \in DOMAIN @ \ {x} |-> @[y]] ELSE Assigned(@, x, p)])

RemoveUnit ==
    \E x \in Catalog(gov) :
        LET Without(f) == [y \in DOMAIN f \ {x} |-> f[y]]
        IN  Govern([gov EXCEPT !.reg = Without(@), !.par = Without(@), !.mode = Without(@)])

(* Turnstile takes the gateway over. *)
HandOver ==
    /\ spent.edits + spent.moves < MaxChanges /\ spent' = [spent EXCEPT !.moves = @ + 1]
    /\ ~gov.other /\ gov' = [gov EXCEPT !.other = TRUE]
    /\ UNCHANGED <<clock, ledger, doc, state, current, lease, valid, at, job>>

Work(h) ==
    \/ Read(h) \/ Query(h) \/ Recheck(h) \/ Compare(h)
    \/ Put(h) \/ PutAsks(h) \/ Asks(h) \/ PutFails(h) \/ Confirm(h) \/ Restore(h)

Next ==
    \/ \E h \in Handlers : \/ Begin(h) \/ Work(h) \/ ConfirmFails(h) \/ Stop(h) \/ LoseLease(h)
                           \/ SetBudget(h) \/ SetBook(h)
    \/ \E u \in Users : Use(u)
    \/ Tick \/ LeaseExpires \/ SetMode \/ MoveUnit \/ RemoveUnit \/ HandOver

Spec == Init /\ [][Next]_usdVars

(* The timer fires every five minutes, a handler of the service that runs  *)
(* goes on, a lease nobody renews ends at the blob: as long as one of them *)
(* can, one of them happens.  Time passes (a clock that ran ahead is       *)
(* caught up with).  Nobody has to spend, to edit or to run the command.   *)
Fairness ==
    /\ WF_usdVars(Tick)
    /\ WF_usdVars(LeaseExpires \/ \E h \in Services : Begin(h) \/ Work(h))

FairSpec == Spec /\ Fairness

-----------------------------------------------------------------------------
(* A person whose requests are admitted has not reached any dollar budget  *)
(* that is enforced on them now, by the usage older than a state may be    *)
(* (freshness, clock skew of a direct run, delay of the ledger): neither   *)
(* a rollover of the month, nor a new budget, mode or parent, nor a        *)
(* concurrent or late reconciliation lets old figures admit.               *)
ServedWithinBudget ==
    \A u \in Users : Decision(u) = "open" =>
        \A s \in Enforced(u) :
            LET rows == Counted(gov, s, ledger, From(clock, doc.items[s].period), clock - Freshness - Skew - Delay + 1)
            IN  /\ Unpriced(doc, rows) = {}
                /\ ~Reached(gov, s, doc.items[s].amount, Cardinality(rows))

(* A refusal is due: some budget enforced on the person now is reached in  *)
(* its current window, or holds usage that has no price, the tick that has *)
(* begun included: a state stamped ahead may have counted it.              *)
StopsAreDue ==
    \A u \in Users : Decision(u) = "stop" =>
        \E s \in Enforced(u) :
            LET rows == Counted(gov, s, ledger, From(clock, doc.items[s].period), clock + 1)
            IN  \/ Unpriced(doc, rows) # {}
                \/ Reached(gov, s, doc.items[s].amount, Cardinality(rows))

(* Dollars promised below a unit fit into its own, whatever mixture of     *)
(* teams and people they are promised to: take any scopes below it of      *)
(* which none is above another.  It holds as long as no unit is moved.     *)
AllocationsFit ==
    spent.moves = 0 =>
        \A p \in {q \in Catalog(gov) : ScopeOf(gov, q) \in DOMAIN doc.items} :
            \A S \in SUBSET {s \in DOMAIN doc.items : p \in Above(gov, s[2])} :
                (\A s, t \in S : s[2] \notin Above(gov, t[2])) =>
                    MapThenSumSet(LAMBDA s : Cost(doc.items[s]), S) <= doc.items[ScopeOf(gov, p)].amount

(* A stored state only gives way to a later one, except that a run takes   *)
(* back the state that came with the answer of its own put.  That is what  *)
(* it wrote, unless the put had to ask: then it may be a newer state of    *)
(* another run (README, Known disagreements).                              *)
NewerStateKept ==
    [][state'.asof >= state.asof \/ \E h \in Handlers : at[h] = "restoring" /\ state = job[h].got]_usdVars

ItemsInCatalog == \A s \in DOMAIN doc.items : Known(gov, s)

(* The gateway comes back: while every dollar budget names a scope of the  *)
(* catalog and no other authority has taken over, nobody is refused for a  *)
(* stale state for ever, whatever failed before.                           *)
Refreshes == \A u \in Users : []<>(Decision(u) # "stale" \/ ~ItemsInCatalog \/ gov.other)
=============================================================================
