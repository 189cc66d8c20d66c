--------------------------- MODULE UsdBudgetsProofs ---------------------------
(***************************************************************************)
(* Proofs about UsdBudgets for all catalogs, ledgers, budgets, clocks and  *)
(* handlers: what the gateway decides by a stored state is what the ledger *)
(* says, up to the age a state may have.                                   *)
(***************************************************************************)
EXTENDS UsdBudgets, FiniteSetTheorems, TLAPS

-----------------------------------------------------------------------------
(* Two instants in one day, or in one month, have the same beginning.      *)
LEMMA SameWindow ==
    ASSUME NEW L \in Nat \ {0}, NEW now \in Nat, NEW t \in Nat,
           now - (now % L) <= t, t < now - (now % L) + L
    PROVE  t - (t % L) = now - (now % L)
  <1> DEFINE q == now \div L
             p == t \div L
  <1>1. q \in Int /\ p \in Int /\ now % L \in 0..L-1 /\ t % L \in 0..L-1
    BY SMT
  <1>2. now = L * q + (now % L) /\ t = L * p + (t % L)
    BY SMT
  <1>3. L * q <= t /\ t < L * q + L /\ L * p <= t /\ t < L * p + L
    BY <1>1, <1>2
  <1> HIDE DEF p, q
  <1>4. p = q
    <2>1. L * (p - q) < L /\ L * (q - p) < L
      BY <1>1, <1>3
    <2>2. ASSUME NEW d \in Int, L * d < L PROVE d < 1
      BY <2>2
    <2>3. QED
      BY <1>1, <2>1, <2>2
  <1>5. QED
    BY <1>1, <1>2, <1>4

LEMMA DocumentShape ==
    ASSUME NEW d, IsDocument(d), NEW items
    PROVE  /\ [d EXCEPT !.items = items] = [book |-> d.book, items |-> items]
           /\ [d EXCEPT !.book = items] = [book |-> items, items |-> d.items]
  BY DEF IsDocument

(* More usage reaches what less usage reaches. *)
LEMMA ReachedMore ==
    ASSUME NEW c, NEW s, NEW amount \in Nat, NEW less \in Nat, NEW more \in Nat, less <= more,
           Reached(c, s, amount, less)
    PROVE  Reached(c, s, amount, more)
  BY UsdConstants DEF Reached
-----------------------------------------------------------------------------
(* The inductive invariant.                                                *)
(* A state was calculated from rows of the ledger, at an instant no later  *)
(* than the latest clock, and saw every row that could be queried then:    *)
(* by a time and what was used by that time.                               *)
DecidedBy(policy, rows, now, s) ==
    Decided([mode |-> policy[2], par |-> policy[3]], policy[1], rows, now, s)

HonestAt(st, time, usage) ==
    \/ st = NoState
    \/ /\ st.asof \in Nat /\ st.asof <= time + Skew /\ st.until = st.asof + Freshness
       /\ DOMAIN st.items = DOMAIN st.policy[1].items
       /\ \E rows \in SUBSET usage :
            /\ \A r \in usage : r.tick + Delay + Skew < st.asof => r \in rows
            /\ \A s \in DOMAIN st.items : st.items[s] = DecidedBy(st.policy, rows, st.asof, s)

Honest(st) == HonestAt(st, clock, ledger)

(* h's ETag of the stored state is the one the gateway has. *)
Stored(h) == <<h, "usd-budget-state">> \in current

Fields == {"key", "now", "new", "old", "got", "gov", "doc"}
Writing == {"checking", "comparing", "putting", "asking", "confirming", "restoring"}

(* A handler that writes a budget document. *)
WritesBudgets(h) ==
    /\ job[h].key = "usd-budgets" /\ at[h] # "checking"
    /\ IsDocument(job[h].new) /\ IsDocument(job[h].old)

(* A reconciler: what it writes is no older than what it read, and while   *)
(* its ETag is good, what is stored is what it read, and after its put     *)
(* what the answer of the put told.                                        *)
WritesState(h) ==
    /\ job[h].key = "usd-budget-state" /\ Honest(job[h].new) /\ Honest(job[h].old)
    /\ job[h].old.asof <= job[h].new.asof
    /\ Stored(h) => state = IF at[h] \in {"confirming", "restoring"} THEN job[h].got ELSE job[h].old

JobInv(h) ==
    /\ DOMAIN job[h] = Fields
    /\ at[h] \in {"reading", "querying"} => job[h].now \in Nat /\ job[h].now <= clock + Skew
    /\ at[h] = "querying" => Honest(job[h].old) /\ (Stored(h) => state = job[h].old)
    /\ at[h] \in Writing => WritesBudgets(h) \/ WritesState(h)

World ==
    /\ clock \in Nat /\ IsFiniteSet(ledger)
    /\ \A r \in ledger : r.tick \in 0..clock
    /\ at = [h \in Handlers |-> at[h]] /\ job = [h \in Handlers |-> job[h]]
    /\ IsDocument(doc) /\ Honest(state)

UsdInv == World /\ \A h \in Handlers : JobInv(h)

-----------------------------------------------------------------------------
(* What a decision rests on. *)

(* A decision depends on what the policy revision covers, and nothing else. *)
LEMMA SamePolicy ==
    ASSUME NEW c, NEW d, NEW s, NEW rows, NEW now
    PROVE  DecidedBy(Policy(c, d), rows, now, s) = Decided(c, d, rows, now, s)
  <1> DEFINE w == [mode |-> c.mode, par |-> c.par]
  <1>1. ModeOf(w, s) = ModeOf(c, s) /\ \A x : ParentIn(w, x) = ParentIn(c, x)
    BY DEF ModeOf, ParentIn
  <1>2. \A a, b, e, m : Counted(w, a, b, e, m) = Counted(c, a, b, e, m)
    BY <1>1 DEF Counted
  <1>3. \A a, e, m : Status(w, s, a, e, m) = Status(c, s, a, e, m)
    BY <1>1 DEF Status, Reached
  <1>4. Policy(c, d)[1] = d /\ [mode |-> Policy(c, d)[2], par |-> Policy(c, d)[3]] = w
    BY DEF Policy
  <1> HIDE DEF w
  <1>5. QED
    BY <1>2, <1>3, <1>4 DEF DecidedBy, Decided

(* The window a decision is about is the current one. *)
LEMMA DecisionRests ==
    ASSUME UsdInv, NEW u \in Users, ~Stale(u), NEW s \in Enforced(u)
    PROVE  /\ s \in DOMAIN doc.items /\ doc.items[s].amount \in Nat /\ ModeOf(gov, s) # "notify"
           /\ state.asof \in Nat /\ state.asof <= clock + Tolerance /\ clock < state.asof + Freshness
           /\ \E rows \in SUBSET ledger :
                /\ \A r \in ledger : r.tick + Delay + Skew < state.asof => r \in rows
                /\ LET counted == Counted(gov, s, rows, From(clock, doc.items[s].period), state.asof)
                   IN  state.items[s].status = Status(gov, s, doc.items[s].amount, Dollars(doc, counted),
                                                      Unpriced(doc, counted) # {})
  <1>1. s \in DOMAIN doc.items /\ ModeOf(gov, s) # "notify"
    BY DEF Enforced
  <1>2. doc.items[s] \in [amount : Nat, period : {"day", "month"}]
    BY <1>1 DEF UsdInv, World, IsDocument, IsMap
  <1>3. /\ state # NoState /\ state.policy = Policy(gov, doc)
        /\ ~(clock >= state.until) /\ ~(state.asof > clock + Tolerance)
        /\ ~(clock < state.items[s].start) /\ ~(clock >= state.items[s].end)
    BY DEF Stale
  <1>4. /\ state.asof \in Nat /\ state.until = state.asof + Freshness
        /\ DOMAIN state.items = DOMAIN doc.items /\ clock \in Nat
    BY <1>3 DEF UsdInv, World, Honest, HonestAt, Policy
  <1>5. PICK rows \in SUBSET ledger :
           /\ \A r \in ledger : r.tick + Delay + Skew < state.asof => r \in rows
           /\ state.items[s] = Decided(gov, doc, rows, state.asof, s)
    BY <1>1, <1>3, <1>4, SamePolicy DEF UsdInv, World, Honest, HonestAt
  <1>6. state.asof <= clock + Tolerance /\ clock < state.asof + Freshness
    BY <1>3, <1>4, UsdConstants
  <1> DEFINE period == doc.items[s].period
  <1>7. From(clock, period) = From(state.asof, period)
    <2>1. Length(period) \in Nat \ {0}
      BY UsdConstants DEF Length
    <2>2. state.items[s].start = From(state.asof, period) /\ state.items[s].end = Until(state.asof, period)
      BY <1>5 DEF Decided
    <2>3. From(state.asof, period) <= clock /\ clock < From(state.asof, period) + Length(period)
      <3>1. From(state.asof, period) \in Int
        BY <1>4, <2>1 DEF From
      <3>2. QED
        BY <1>3, <1>4, <2>1, <2>2, <3>1 DEF Until
    <2>4. QED
      BY <1>4, <2>1, <2>3, SameWindow DEF From
  <1>8. QED
    BY <1>1, <1>2, <1>4, <1>5, <1>6, <1>7 DEF Decided
LEMMA StatusMeans ==
    ASSUME NEW c, NEW s, NEW amount, NEW dollars, NEW unpriced \in BOOLEAN, ModeOf(c, s) # "notify"
    PROVE  /\ Status(c, s, amount, dollars, unpriced) = "unpriced" => unpriced
           /\ Status(c, s, amount, dollars, unpriced) = "stop" => Reached(c, s, amount, dollars)
           /\ Status(c, s, amount, dollars, unpriced) \notin {"stop", "unpriced"}
                => ~unpriced /\ ~Reached(c, s, amount, dollars)
  <1>1. CASE unpriced
    <2>1. Status(c, s, amount, dollars, unpriced) = "unpriced"
      BY <1>1 DEF Status
    <2>2. QED
      BY <1>1, <2>1
  <1>2. CASE ~unpriced /\ Reached(c, s, amount, dollars)
    <2>1. Status(c, s, amount, dollars, unpriced) = "stop"
      BY <1>2 DEF Status
    <2>2. QED
      BY <1>2, <2>1
  <1>3. CASE ~unpriced /\ ~Reached(c, s, amount, dollars)
    <2>1. Status(c, s, amount, dollars, unpriced) \in {"notice", "allow"}
      BY <1>3 DEF Status
    <2>2. QED
      BY <1>3, <2>1
  <1>4. QED
    BY <1>1, <1>2, <1>3

(* Counting finitely many rows. *)
LEMMA RowsCount ==
    ASSUME NEW all, IsFiniteSet(all), NEW less \in SUBSET all
    PROVE  /\ IsFiniteSet(all) /\ IsFiniteSet(less)
           /\ Cardinality(less) \in Nat /\ Cardinality(all) \in Nat
           /\ Cardinality(less) <= Cardinality(all)
  BY FS_Subset, FS_CardinalityType

(* Whom the gateway admits has reached no budget by the usage that must    *)
(* have been counted.                                                      *)
LEMMA OpenIsWithin == UsdInv => ServedWithinBudget
  <1> SUFFICES ASSUME UsdInv, NEW u \in Users, Decision(u) = "open", NEW s \in Enforced(u)
               PROVE  LET rows == Counted(gov, s, ledger, From(clock, doc.items[s].period),
                                          clock - Freshness - Skew - Delay + 1)
                      IN  /\ Unpriced(doc, rows) = {}
                          /\ ~Reached(gov, s, doc.items[s].amount, Cardinality(rows))
    BY DEF ServedWithinBudget
  <1> DEFINE amount == doc.items[s].amount
             from == From(clock, doc.items[s].period)
             due == Counted(gov, s, ledger, from, clock - Freshness - Skew - Delay + 1)
  <1>1. ~Stale(u) /\ state.items[s].status \notin {"stop", "unpriced"}
    BY DEF Decision
  <1>2. /\ amount \in Nat /\ ModeOf(gov, s) # "notify"
        /\ state.asof \in Nat /\ clock < state.asof + Freshness
    BY <1>1, DecisionRests
  <1>3. PICK rows \in SUBSET ledger :
           /\ \A r \in ledger : r.tick + Delay + Skew < state.asof => r \in rows
           /\ LET counted == Counted(gov, s, rows, from, state.asof)
              IN  state.items[s].status = Status(gov, s, amount, Dollars(doc, counted),
                                                 Unpriced(doc, counted) # {})
    BY <1>1, DecisionRests
  <1> DEFINE counted == Counted(gov, s, rows, from, state.asof)
  <1>4. state.items[s].status = Status(gov, s, amount, Dollars(doc, counted), Unpriced(doc, counted) # {})
    BY <1>3
  <1>5. Unpriced(doc, counted) = {} /\ ~Reached(gov, s, amount, Dollars(doc, counted))
    BY <1>1, <1>2, <1>4, StatusMeans
  <1>6. due \subseteq counted
    <2> SUFFICES ASSUME NEW r \in due PROVE r \in counted
      OBVIOUS
    <2>1. /\ r \in ledger /\ from <= r.tick /\ r.tick < clock - Freshness - Skew - Delay + 1
          /\ s[2] \in {r.user, Home[r.user], ParentIn(gov, Home[r.user])}
      BY DEF Counted
    <2>2. r.tick \in Nat /\ clock \in Nat
      BY <2>1 DEF UsdInv, World
    <2>3. r.tick + Delay + Skew < state.asof /\ r.tick < state.asof
      BY <1>2, <2>1, <2>2, UsdConstants
    <2>4. QED
      BY <1>3, <2>1, <2>3 DEF Counted
  <1>7. /\ counted \subseteq ledger /\ IsFiniteSet(ledger)
        /\ Dollars(doc, counted) = Cardinality(counted)
    BY <1>5 DEF Counted, Dollars, UsdInv, World
  <1>8. /\ Cardinality(due) \in Nat /\ Cardinality(counted) \in Nat
        /\ Cardinality(due) <= Cardinality(counted)
    BY <1>6, <1>7, RowsCount
  <1>9. ~Reached(gov, s, amount, Cardinality(due))
    BY <1>2, <1>5, <1>7, <1>8, ReachedMore
  <1>10. Unpriced(doc, due) = {}
    BY <1>5, <1>6 DEF Unpriced
  <1>11. QED
    BY <1>9, <1>10

(* Whom the gateway stops has reached a budget, by what the ledger holds.  *)
LEMMA StopIsDue == UsdInv => StopsAreDue
  <1> SUFFICES ASSUME UsdInv, NEW u \in Users, Decision(u) = "stop"
               PROVE  \E s \in Enforced(u) :
                        LET rows == Counted(gov, s, ledger, From(clock, doc.items[s].period), clock + 1)
                        IN  \/ Unpriced(doc, rows) # {}
                            \/ Reached(gov, s, doc.items[s].amount, Cardinality(rows))
    BY DEF StopsAreDue
  <1>1. ~Stale(u) /\ \E s \in Enforced(u) : state.items[s].status \in {"stop", "unpriced"}
    BY DEF Decision
  <1>2. PICK s \in Enforced(u) : state.items[s].status \in {"stop", "unpriced"}
    BY <1>1
  <1> DEFINE amount == doc.items[s].amount
             from == From(clock, doc.items[s].period)
             spentNow == Counted(gov, s, ledger, from, clock + 1)
  <1>3. amount \in Nat /\ ModeOf(gov, s) # "notify" /\ state.asof \in Nat
    BY <1>1, DecisionRests
  <1>4. PICK rows \in SUBSET ledger :
           LET counted == Counted(gov, s, rows, from, state.asof)
           IN  state.items[s].status = Status(gov, s, amount, Dollars(doc, counted),
                                              Unpriced(doc, counted) # {})
    BY <1>1, DecisionRests
  <1> DEFINE counted == Counted(gov, s, rows, from, state.asof)
             priced == counted \ Unpriced(doc, counted)
  <1>5. state.items[s].status = Status(gov, s, amount, Dollars(doc, counted), Unpriced(doc, counted) # {})
    BY <1>4
  <1>6. Unpriced(doc, counted) # {} \/ Reached(gov, s, amount, Dollars(doc, counted))
    BY <1>2, <1>3, <1>5, StatusMeans
  <1>7. counted \subseteq spentNow
    <2>1. \A r \in ledger : r.tick \in Nat /\ clock \in Nat /\ r.tick < clock + 1
      BY DEF UsdInv, World
    <2>2. QED
      BY <1>3, <2>1 DEF Counted
  <1>8. spentNow \subseteq ledger /\ IsFiniteSet(ledger) /\ priced \subseteq spentNow
    BY <1>7 DEF Counted, UsdInv, World
  <1>9. /\ Cardinality(priced) \in Nat /\ Cardinality(spentNow) \in Nat
        /\ Cardinality(priced) <= Cardinality(spentNow)
    BY <1>8, RowsCount
  <1>10. Reached(gov, s, amount, Dollars(doc, counted)) => Reached(gov, s, amount, Cardinality(spentNow))
    BY <1>3, <1>9, ReachedMore DEF Dollars
  <1>11. Unpriced(doc, counted) # {} => Unpriced(doc, spentNow) # {}
    BY <1>7 DEF Unpriced
  <1>12. QED
    BY <1>6, <1>10, <1>11
-----------------------------------------------------------------------------
(* Time passes and usage is added, and what was honest stays so: a new row *)
(* is younger than any state must have seen.                               *)
LEMMA HonestLater ==
    ASSUME NEW time \in Nat, NEW later \in Nat, time <= later, NEW usage, NEW more,
           \A r \in usage : r.tick \in Nat, usage \subseteq more,
           \A r \in more \ usage : r.tick = time,
           NEW st, HonestAt(st, time, usage)
    PROVE  HonestAt(st, later, more)
  <1>1. CASE st = NoState
    BY <1>1 DEF HonestAt
  <1>2. CASE st # NoState
    <2>1. st.asof \in Nat /\ st.asof <= later + Skew
      BY <1>2, UsdConstants DEF HonestAt
    <2>2. PICK rows \in SUBSET usage :
             /\ \A r \in usage : r.tick + Delay + Skew < st.asof => r \in rows
             /\ \A s \in DOMAIN st.items : st.items[s] = DecidedBy(st.policy, rows, st.asof, s)
      BY <1>2 DEF HonestAt
    <2>3. rows \in SUBSET more
      BY <2>2
    <2>4. ASSUME NEW r \in more, r.tick + Delay + Skew < st.asof PROVE r \in rows
      <3>1. r \in usage
        BY <1>2, <2>4, UsdConstants DEF HonestAt
      <3>2. QED
        BY <2>2, <2>4, <3>1
    <2>5. QED
      BY <1>2, <2>1, <2>2, <2>3, <2>4 DEF HonestAt
  <1>3. QED
    BY <1>1, <1>2

LEMMA HonestInstants ==
    ASSUME UsdInv, NEW st, Honest(st)
    PROVE  st.asof \in Int
  BY DEF Honest, HonestAt, NoState

(* A handler that a step leaves alone: its ETag is lost whenever the        *)
(* stored state is replaced.                                               *)
Left(h) ==
    /\ job'[h] = job[h] /\ at'[h] = at[h]
    /\ Stored(h)' => Stored(h) /\ state' = state

LEMMA LeftAlone ==
    ASSUME NEW h \in Handlers, JobInv(h), Left(h), clock \in Nat, clock' \in Nat, clock <= clock',
           \A st : HonestAt(st, clock, ledger) => HonestAt(st, clock', ledger')
    PROVE  JobInv(h)'
  <1>1. at'[h] \in {"reading", "querying"} => job'[h].now \in Nat /\ job'[h].now <= clock' + Skew
    BY UsdConstants DEF JobInv, Left
  <1>2. at'[h] = "querying" => Honest(job[h].old)' /\ (Stored(h)' => state' = job'[h].old)
    BY DEF JobInv, Left, Honest
  <1>3. WritesBudgets(h) => WritesBudgets(h)'
    BY DEF WritesBudgets, Left
  <1>4. WritesState(h) => WritesState(h)'
    BY DEF WritesState, Left, Honest
  <1>5. QED
    BY <1>1, <1>2, <1>3, <1>4 DEF JobInv, Left

(* A handler whose request is over. *)
LEMMA Over ==
    ASSUME NEW h \in Handlers, job'[h] = NoJob, at'[h] = "idle"
    PROVE  JobInv(h)'
  BY DEF JobInv, NoJob, Fields, Writing
-----------------------------------------------------------------------------
(* One step of one handler.                                                *)
Stays(h) ==
    /\ \A x \in Handlers \ {h} : Left(x)
    /\ at' = [x \in Handlers |-> at'[x]] /\ job' = [x \in Handlers |-> job'[x]]
    /\ UNCHANGED <<clock, ledger>>

Handled(h) == Stays(h) /\ JobInv(h)' /\ IsDocument(doc') /\ HonestAt(state', clock, ledger)

(* A request ends, with or without giving up the lease. *)
LEMMA EndedStep ==
    ASSUME UsdInv, NEW h \in Handlers, Goto(h, "idle"), job' = [job EXCEPT ![h] = NoJob],
           current' \subseteq current, UNCHANGED <<clock, ledger, doc, state>>
    PROVE  Handled(h)
  <1>1. Stays(h) /\ job'[h] = NoJob /\ at'[h] = "idle"
    BY DEF UsdInv, World, Goto, Stays, Left, Stored
  <1>2. JobInv(h)'
    BY <1>1, Over
  <1>3. QED
    BY <1>1, <1>2 DEF UsdInv, World, Handled, Honest

LEMMA FinishStep ==
    ASSUME UsdInv, NEW h \in Handlers, Finish(h), UNCHANGED <<clock, ledger, doc, state>>
    PROVE  Handled(h)
  BY EndedStep DEF Finish

LEMMA BeginStep ==
    ASSUME UsdInv, NEW h \in Handlers, Begin(h)
    PROVE  Handled(h)
  <1>1. PICK now \in clock..(IF h \in Directs /\ clock + Skew <= MaxClock THEN clock + Skew ELSE clock) :
           job' = [job EXCEPT ![h] = [NoJob EXCEPT !.now = now]]
    BY DEF Begin
  <1>2. clock \in Nat /\ now \in Nat /\ now <= clock + Skew
    BY UsdConstants DEF UsdInv, World
  <1>3. /\ job'[h] = [NoJob EXCEPT !.now = now] /\ at'[h] = "reading"
        /\ Stays(h)
    BY <1>1 DEF UsdInv, World, Begin, Goto, Stays, Left, Stored
  <1>4. JobInv(h)'
    BY <1>2, <1>3 DEF JobInv, NoJob, Fields, Writing, Begin
  <1>5. QED
    BY <1>3, <1>4 DEF UsdInv, World, Handled, Begin, Honest

LEMMA ReadStep ==
    ASSUME UsdInv, NEW h \in Handlers, Read(h)
    PROVE  Handled(h)
  <1>1. CASE Finish(h)
    BY <1>1, FinishStep DEF Read
  <1>2. CASE /\ job' = [job EXCEPT ![h].gov = gov, ![h].doc = doc, ![h].old = state]
             /\ current' = current \cup {<<h, "usd-budget-state">>} /\ Goto(h, "querying")
    <2>1. DOMAIN job[h] = Fields /\ job[h].now \in Nat /\ job[h].now <= clock + Skew
      BY DEF UsdInv, JobInv, Read
    <2>2. /\ DOMAIN job'[h] = Fields /\ job'[h].now = job[h].now /\ job'[h].old = state
          /\ at'[h] = "querying"
      BY <1>2, <2>1 DEF UsdInv, World, Goto, Fields
    <2>3. Stays(h)
      BY <1>2 DEF UsdInv, World, Read, Goto, Stays, Left, Stored
    <2>4. JobInv(h)'
      BY <2>1, <2>2 DEF UsdInv, World, JobInv, Read, Writing, Honest
    <2>5. QED
      BY <2>3, <2>4 DEF UsdInv, World, Handled, Read, Honest
  <1>3. QED
    BY <1>1, <1>2 DEF Read

(* calculate_state over the rows that could be queried. *)
LEMMA CalculatedHonest ==
    ASSUME UsdInv, NEW c, NEW d, NEW now \in Nat, now <= clock + Skew,
           NEW late \in SUBSET {r \in ledger : r.tick + Delay >= clock}
    PROVE  Honest(CalculateState(c, d, ledger \ late, now))
  <1> DEFINE st == CalculateState(c, d, ledger \ late, now)
  <1>1. /\ st.asof = now /\ st.until = now + Freshness /\ st.policy = Policy(c, d)
        /\ st.items = [s \in DOMAIN d.items |-> Decided(c, d, ledger \ late, now, s)]
    BY DEF CalculateState
  <1>2. ASSUME NEW r \in ledger, r.tick + Delay + Skew < now PROVE r \in ledger \ late
    <2>1. r.tick \in Nat /\ clock \in Nat
      BY DEF UsdInv, World
    <2>2. ~(r.tick + Delay >= clock)
      BY <1>2, <2>1, UsdConstants
    <2>3. QED
      BY <2>2
  <1>3. \A s, rows : DecidedBy(Policy(c, d), rows, now, s) = Decided(c, d, rows, now, s)
    BY SamePolicy
  <1>4. Policy(c, d)[1] = d
    BY DEF Policy
  <1> HIDE DEF st
  <1>5. \A s \in DOMAIN st.items : st.items[s] = DecidedBy(st.policy, ledger \ late, st.asof, s)
    BY <1>1, <1>3
  <1>6. DOMAIN st.items = DOMAIN st.policy[1].items
    BY <1>1, <1>4
  <1>7. QED
    BY <1>1, <1>2, <1>5, <1>6 DEF Honest, HonestAt, st

LEMMA QueryStep ==
    ASSUME UsdInv, NEW h \in Handlers, Query(h)
    PROVE  Handled(h)
  <1>1. CASE Finish(h)
    BY <1>1, FinishStep DEF Query
  <1>2. CASE ~Finish(h)
    <2>1. PICK late \in SUBSET {r \in ledger : r.tick + Delay >= clock} :
             /\ job[h].old.asof <= job[h].now
             /\ job' = [job EXCEPT ![h].key = "usd-budget-state",
                    ![h].new = CalculateState(job[h].gov, job[h].doc, ledger \ late, job[h].now)]
             /\ Goto(h, "checking") /\ UNCHANGED current
      BY <1>2 DEF Query
    <2> DEFINE st == CalculateState(job[h].gov, job[h].doc, ledger \ late, job[h].now)
    <2>2. /\ DOMAIN job[h] = Fields /\ job[h].now \in Nat /\ job[h].now <= clock + Skew
          /\ Honest(job[h].old) /\ (Stored(h) => state = job[h].old)
      BY DEF UsdInv, JobInv, Query
    <2>3. Honest(st) /\ st.asof = job[h].now
      BY <2>2, CalculatedHonest DEF CalculateState
    <2> HIDE DEF st
    <2>4. job' = [job EXCEPT ![h].key = "usd-budget-state", ![h].new = st]
      BY <2>1 DEF st
    <2>5. /\ DOMAIN job'[h] = Fields /\ job'[h].key = "usd-budget-state" /\ job'[h].new = st
          /\ job'[h].old = job[h].old /\ at'[h] = "checking" /\ (Stored(h)' <=> Stored(h))
      <3>1. job'[h] = [job[h] EXCEPT !.key = "usd-budget-state", !.new = st]
        BY <2>4 DEF UsdInv, World
      <3>2. at'[h] = "checking" /\ (Stored(h)' <=> Stored(h))
        BY <2>1 DEF UsdInv, World, Goto, Stored
      <3>3. QED
        BY <2>2, <3>1, <3>2 DEF Fields
    <2>6. Stays(h)
      BY <2>1, <2>4 DEF UsdInv, World, Query, Goto, Stays, Left, Stored
    <2>7. WritesState(h)'
      BY <2>1, <2>2, <2>3, <2>5 DEF WritesState, Query, Honest
    <2>8. QED
      BY <2>5, <2>6, <2>7 DEF UsdInv, World, JobInv, Writing, Handled, Query, Honest
  <1>3. QED
    BY <1>1, <1>2
(* Compare and Confirm go on with what they have, Recheck with the state    *)
(* it calculated, or they end.                                             *)
LEMMA CheckStep ==
    ASSUME UsdInv, NEW h \in Handlers, Recheck(h) \/ Compare(h) \/ Confirm(h) \/ ConfirmFails(h)
    PROVE  Handled(h)
  <1>1. CASE Finish(h)
    BY <1>1, FinishStep DEF Recheck, Compare, Confirm, ConfirmFails, Finish
  <1>2. CASE ~Finish(h)
    <2>0. JobInv(h) /\ DOMAIN job[h] = Fields
      BY DEF UsdInv, JobInv
    <2>1. /\ UNCHANGED <<clock, ledger, doc, state, current>>
          /\ job' = job \/ job' = [job EXCEPT ![h].gov = <<>>, ![h].doc = <<>>]
          /\ \/ at[h] = "checking" /\ Goto(h, "comparing")
             \/ at[h] = "comparing" /\ Goto(h, "putting")
             \/ at[h] = "confirming" /\ Goto(h, "restoring")
      BY <1>2 DEF Recheck, Compare, Confirm, ConfirmFails
    <2>2. PICK p \in {"comparing", "putting", "restoring"} :
             Goto(h, p) /\ (p = "restoring" <=> at[h] = "confirming")
      BY <2>1
    <2>3. /\ Stays(h) /\ IsDocument(doc') /\ HonestAt(state', clock, ledger)
          /\ at'[h] = p /\ (Stored(h)' <=> Stored(h))
      BY <2>1, <2>2 DEF UsdInv, World, Goto, Stays, Left, Stored, Honest
    <2>4. at[h] \in {"checking", "comparing", "confirming"}
      BY <2>1
    <2>5. /\ DOMAIN job'[h] = Fields /\ job'[h].key = job[h].key /\ job'[h].new = job[h].new
          /\ job'[h].old = job[h].old /\ job'[h].got = job[h].got
      <3>1. job'[h] = job[h] \/ job'[h] = [job[h] EXCEPT !.gov = <<>>, !.doc = <<>>]
        BY <2>1 DEF UsdInv, World
      <3>2. QED
        BY <2>0, <3>1 DEF Fields
    <2>6. WritesBudgets(h) => WritesBudgets(h)'
      BY <2>2, <2>3, <2>5 DEF WritesBudgets
    <2>7. WritesState(h) => WritesState(h)'
      BY <2>1, <2>2, <2>3, <2>4, <2>5 DEF WritesState, Honest
    <2>8. JobInv(h)'
      BY <2>0, <2>2, <2>3, <2>4, <2>5, <2>6, <2>7 DEF JobInv, Writing
    <2>9. QED
      BY <2>3, <2>8 DEF Handled
  <1>3. QED
    BY <1>1, <1>2

(* What a write leaves in the gateway, whoever holds an ETag. *)
LEMMA WriteStep ==
    ASSUME UsdInv, NEW h \in Handlers, at[h] \in {"putting", "restoring"},
           NEW value \in {job[h].new, job[h].old}, Write(h, value),
           UNCHANGED <<clock, ledger>>
    PROVE  /\ IsDocument(doc') /\ HonestAt(state', clock, ledger)
           /\ state' = state \/ (job[h].key = "usd-budget-state" /\ state' = value)
  <1>1. WritesBudgets(h) \/ WritesState(h)
    BY DEF UsdInv, JobInv, Writing
  <1>2. CASE WritesBudgets(h)
    BY <1>2 DEF WritesBudgets, Write, UsdInv, World, Honest
  <1>3. CASE WritesState(h)
    BY <1>3 DEF WritesState, Write, UsdInv, World, Honest
  <1>4. QED
    BY <1>1, <1>2, <1>3

LEMMA PutStep ==
    ASSUME UsdInv, NEW h \in Handlers, Put(h)
    PROVE  Handled(h)
  <1>1. /\ IsDocument(doc') /\ HonestAt(state', clock, ledger)
        /\ state' = state \/ (job[h].key = "usd-budget-state" /\ state' = job[h].new)
    BY WriteStep DEF Put
  <1>2. at'[h] = "confirming" /\ UNCHANGED <<clock, ledger>> /\ at[h] = "putting" /\ JobInv(h)
    BY DEF UsdInv, World, Put, Goto
  <1>3. /\ DOMAIN job'[h] = Fields /\ job'[h].key = job[h].key /\ job'[h].new = job[h].new
        /\ job'[h].old = job[h].old /\ job'[h].got = job[h].new
    <2>1. DOMAIN job[h] = Fields /\ job'[h] = [job[h] EXCEPT !.got = job[h].new]
      BY <1>2 DEF UsdInv, World, JobInv, Put
    <2>2. QED
      BY <2>1 DEF Fields
  <1>4. Stays(h)
    BY <1>1 DEF UsdInv, World, Put, Goto, Stays, Left, Stored, Supersede
  <1>5. WritesBudgets(h) => WritesBudgets(h)'
    BY <1>2, <1>3 DEF WritesBudgets
  <1>6. WritesState(h) => WritesState(h)'
    <2>1. job[h].key = "usd-budget-state" => state' = job[h].new
      BY DEF Put, Write
    <2>2. QED
      BY <1>2, <1>3, <2>1 DEF WritesState, Honest
  <1>7. QED
    BY <1>1, <1>2, <1>3, <1>4, <1>5, <1>6 DEF Handled, JobInv, Writing

(* A put that will ask: nobody knows what is stored, its writer included.  *)
LEMMA PutAsksStep ==
    ASSUME UsdInv, NEW h \in Handlers, PutAsks(h)
    PROVE  Handled(h)
  <1>1. /\ IsDocument(doc') /\ HonestAt(state', clock, ledger)
        /\ state' = state \/ job[h].key = "usd-budget-state"
    BY WriteStep DEF PutAsks
  <1>2. /\ at'[h] = "asking" /\ job'[h] = job[h] /\ UNCHANGED <<clock, ledger>>
        /\ at[h] = "putting" /\ JobInv(h)
    BY DEF UsdInv, World, PutAsks, Goto
  <1>3. Stays(h)
    BY <1>1 DEF UsdInv, World, PutAsks, Goto, Stays, Left, Stored
  <1>4. job[h].key = "usd-budget-state" => ~Stored(h)'
    BY DEF PutAsks, Stored
  <1>5. WritesBudgets(h) => WritesBudgets(h)'
    BY <1>2 DEF WritesBudgets
  <1>6. WritesState(h) => WritesState(h)'
    BY <1>2, <1>4 DEF WritesState, Honest
  <1>7. QED
    BY <1>1, <1>2, <1>3, <1>5, <1>6 DEF Handled, JobInv, Writing

(* What is asked for comes with the ETag of what is stored.                *)
LEMMA AsksStep ==
    ASSUME UsdInv, NEW h \in Handlers, Asks(h)
    PROVE  Handled(h)
  <1>1. /\ at'[h] = "confirming" /\ UNCHANGED <<clock, ledger, doc, state>>
        /\ at[h] = "asking" /\ JobInv(h)
    BY DEF UsdInv, World, Asks, Goto
  <1>2. /\ DOMAIN job'[h] = Fields /\ job'[h].key = job[h].key /\ job'[h].new = job[h].new
        /\ job'[h].old = job[h].old /\ job'[h].got = ValueNow(h)
    <2>1. DOMAIN job[h] = Fields /\ job'[h] = [job[h] EXCEPT !.got = ValueNow(h)]
      BY <1>1 DEF UsdInv, World, JobInv, Asks
    <2>2. QED
      BY <2>1 DEF Fields
  <1>3. Stays(h)
    BY <1>1 DEF UsdInv, World, Asks, Goto, Stays, Left, Stored
  <1>4. WritesBudgets(h) => WritesBudgets(h)'
    BY <1>1, <1>2 DEF WritesBudgets
  <1>5. WritesState(h) => WritesState(h)'
    BY <1>1, <1>2 DEF WritesState, Honest, ValueNow
  <1>6. QED
    BY <1>1, <1>2, <1>3, <1>4, <1>5 DEF Handled, JobInv, Writing, UsdInv, World, Honest

(* A write after which nobody knows what is stored, and which ends the      *)
(* request.                                                                *)
LEMMA LastWriteStep ==
    ASSUME UsdInv, NEW h \in Handlers, at[h] \in {"putting", "restoring"},
           NEW value \in {job[h].new, job[h].old}, Write(h, value),
           current' = {c \in current : c[1] # h /\ c[2] # job[h].key},
           Goto(h, "idle"), job' = [job EXCEPT ![h] = NoJob], UNCHANGED <<clock, ledger>>
    PROVE  Handled(h)
  <1>1. /\ IsDocument(doc') /\ HonestAt(state', clock, ledger)
        /\ state' = state \/ job[h].key = "usd-budget-state"
    BY WriteStep
  <1>2. Stays(h) /\ job'[h] = NoJob /\ at'[h] = "idle"
    BY <1>1 DEF UsdInv, World, Goto, Stays, Left, Stored
  <1>3. QED
    BY <1>1, <1>2, Over DEF Handled

LEMMA PutFailsStep ==
    ASSUME UsdInv, NEW h \in Handlers, PutFails(h)
    PROVE  Handled(h)
  <1>1. CASE UNCHANGED <<doc, state>> /\ Finish(h)
    BY <1>1, FinishStep DEF PutFails
  <1>2. CASE ~(UNCHANGED <<doc, state>> /\ Finish(h))
    BY <1>2, LastWriteStep DEF PutFails
  <1>3. QED
    BY <1>1, <1>2

LEMMA RestoreStep ==
    ASSUME UsdInv, NEW h \in Handlers, Restore(h)
    PROVE  Handled(h)
  <1>1. CASE UNCHANGED <<doc, state>> /\ current' = {c \in current : c[1] # h}
    BY <1>1, EndedStep DEF Restore
  <1>2. CASE ~(UNCHANGED <<doc, state>> /\ current' = {c \in current : c[1] # h})
    BY <1>2, LastWriteStep DEF Restore
  <1>3. QED
    BY <1>1, <1>2

LEMMA PlanStep ==
    ASSUME UsdInv, NEW h \in Handlers, NEW new, IsDocument(new), Plan(h, new)
    PROVE  Handled(h)
  <1>1. /\ job'[h] = [NoJob EXCEPT !.key = "usd-budgets", !.new = new, !.old = doc]
        /\ at'[h] = "comparing" /\ Stays(h)
    BY DEF UsdInv, World, Plan, Goto, Stays, Left, Stored
  <1>2. /\ DOMAIN job'[h] = Fields /\ job'[h].key = "usd-budgets" /\ job'[h].new = new
        /\ job'[h].old = doc
    BY <1>1 DEF NoJob, Fields
  <1>3. WritesBudgets(h)'
    BY <1>1, <1>2 DEF WritesBudgets, UsdInv, World
  <1>4. QED
    BY <1>1, <1>2, <1>3 DEF JobInv, Writing, Handled, Plan, UsdInv, World, Honest

LEMMA SetBudgetStep ==
    ASSUME UsdInv, NEW h \in Handlers, SetBudget(h)
    PROVE  Handled(h)
  <1> DEFINE Less(s) == [t \in DOMAIN doc.items \ {s} |-> doc.items[t]]
             More(s, amount, period) == Assigned(doc.items, s, [amount |-> amount, period |-> period])
  <1>1. PICK s \in Scopes, amount \in Amounts \cup {0}, period \in {"day", "month"} :
           \/ amount = 0 /\ Plan(h, [doc EXCEPT !.items = Less(s)])
           \/ amount # 0 /\ Plan(h, [doc EXCEPT !.items = More(s, amount, period)])
    BY DEF SetBudget
  <1>2. IsDocument(doc)
    BY DEF UsdInv, World
  <1>3. IsDocument([doc EXCEPT !.items = Less(s)])
    <2>1. IsMap(Less(s), Scopes, [amount : Nat, period : {"day", "month"}])
      BY <1>2 DEF IsDocument, IsMap
    <2> HIDE DEF Less
    <2>2. QED
      BY <1>2, <2>1, DocumentShape DEF IsDocument
  <1>4. IsDocument([doc EXCEPT !.items = More(s, amount, period)])
    <2>1. amount \in Nat
      BY UsdConstants
    <2>2. IsMap(More(s, amount, period), Scopes, [amount : Nat, period : {"day", "month"}])
      BY <1>2, <2>1 DEF IsDocument, IsMap, Assigned
    <2> HIDE DEF More
    <2>3. QED
      BY <1>2, <2>2, DocumentShape DEF IsDocument
  <1> HIDE DEF Less, More
  <1>5. QED
    BY <1>1, <1>3, <1>4, PlanStep

LEMMA SetBookStep ==
    ASSUME UsdInv, NEW h \in Handlers, SetBook(h)
    PROVE  Handled(h)
  <1>1. PICK book \in Books : Plan(h, [doc EXCEPT !.book = book])
    BY DEF SetBook
  <1>2. IsDocument([doc EXCEPT !.book = book])
    BY DocumentShape DEF UsdInv, World, IsDocument, Books
  <1>3. QED
    BY <1>1, <1>2, PlanStep
(* The lease moves, and no request or document with it. *)
LEMMA LeaseStep ==
    ASSUME UsdInv, UNCHANGED <<clock, ledger, doc, state, current, at, job>>
    PROVE  UsdInv'
  <1>1. World'
    BY DEF UsdInv, World, Honest
  <1>2. ASSUME NEW h \in Handlers PROVE JobInv(h)'
    BY DEF UsdInv, JobInv, WritesBudgets, WritesState, Honest, Stored
  <1>3. QED
    BY <1>1, <1>2 DEF UsdInv

LEMMA HandlerStep ==
    ASSUME UsdInv, NEW h \in Handlers, Handled(h)
    PROVE  UsdInv'
  <1>1. clock' = clock /\ ledger' = ledger /\ clock \in Nat
    BY DEF Handled, Stays, UsdInv, World
  <1>2. World'
    BY <1>1 DEF Handled, Stays, UsdInv, World, Honest
  <1>3. ASSUME NEW x \in Handlers \ {h} PROVE JobInv(x)'
    <2>1. JobInv(x) /\ Left(x)
      BY DEF UsdInv, Handled, Stays
    <2>2. QED
      BY <1>1, <2>1, LeftAlone
  <1>4. QED
    BY <1>2, <1>3 DEF UsdInv, Handled

(* Usage is added, or time passes. *)
LEMMA LaterStep ==
    ASSUME UsdInv, clock' \in Nat, clock <= clock', IsFiniteSet(ledger'),
           ledger \subseteq ledger', \A r \in ledger' \ ledger : r.tick = clock,
           UNCHANGED <<doc, state, current, at, job>>
    PROVE  UsdInv'
  <1>1. clock \in Nat /\ \A r \in ledger : r.tick \in 0..clock
    BY DEF UsdInv, World
  <1>2. \A r \in ledger' : r.tick \in 0..clock'
    BY <1>1
  <1>3. \A st : HonestAt(st, clock, ledger) => HonestAt(st, clock', ledger')
    BY <1>1, HonestLater
  <1>4. World'
    BY <1>2, <1>3 DEF UsdInv, World, Honest
  <1>5. ASSUME NEW h \in Handlers PROVE JobInv(h)'
    <2>1. JobInv(h) /\ Left(h)
      BY DEF UsdInv, Left, Stored
    <2>2. QED
      BY <1>1, <1>3, <2>1, LeftAlone
  <1>6. QED
    BY <1>4, <1>5 DEF UsdInv

(* Every stored state is the result of a calculation that saw all it had    *)
(* to, and so is every one a handler is about to store or to take back.     *)
THEOREM UsdInvariant == Spec => []UsdInv
  <1>1. Init => UsdInv
    <2> SUFFICES ASSUME Init PROVE UsdInv
      OBVIOUS
    <2>1. World
      BY UsdConstants, FS_EmptySet DEF Init, World, Honest, HonestAt
    <2>2. ASSUME NEW h \in Handlers PROVE JobInv(h)
      BY DEF Init, JobInv, NoJob, Fields, Writing
    <2>3. QED
      BY <2>1, <2>2 DEF UsdInv
  <1>2. UsdInv /\ [Next]_usdVars => UsdInv'
    <2> SUFFICES ASSUME UsdInv, [Next]_usdVars PROVE UsdInv'
      OBVIOUS
    <2>0. clock \in Nat /\ IsFiniteSet(ledger)
      BY DEF UsdInv, World
    <2>1. ASSUME NEW h \in Handlers, Begin(h) \/ Work(h) \/ ConfirmFails(h) \/ SetBudget(h) \/ SetBook(h)
          PROVE  UsdInv'
      <3>1. Handled(h)
        BY <2>1, BeginStep, ReadStep, QueryStep, CheckStep, PutStep, PutAsksStep, AsksStep,
           PutFailsStep, RestoreStep, SetBudgetStep, SetBookStep DEF Work
      <3>2. QED
        BY <3>1, HandlerStep
    <2>2. ASSUME NEW h \in Handlers, Stop(h) PROVE UsdInv'
      BY <2>2, EndedStep, HandlerStep DEF Stop
    <2>3. ASSUME NEW u \in Users, Use(u) PROVE UsdInv'
      <3>1. PICK m \in Models :
               /\ ledger' = ledger \cup {[tick |-> clock, user |-> u, model |-> m]}
               /\ UNCHANGED <<clock, doc, state, current, at, job>>
        BY <2>3 DEF Use
      <3>2. IsFiniteSet(ledger')
        BY <2>0, <3>1, FS_AddElement
      <3>3. \A r \in ledger' \ ledger : r.tick = clock
        BY <3>1
      <3>4. QED
        BY <2>0, <3>1, <3>2, <3>3, LaterStep
    <2>4. CASE Tick
      BY <2>0, <2>4, LaterStep DEF Tick
    <2>5. CASE \/ UNCHANGED usdVars \/ LeaseExpires \/ \E h \in Handlers : LoseLease(h)
               \/ SetMode \/ MoveUnit \/ RemoveUnit \/ HandOver
      <3>1. UNCHANGED <<clock, ledger, doc, state, current, at, job>>
        BY <2>5 DEF usdVars, LeaseExpires, LoseLease, SetMode, MoveUnit, RemoveUnit, HandOver, Govern
      <3>2. QED
        BY <3>1, LeaseStep
    <2>6. QED
      BY <2>1, <2>2, <2>3, <2>4, <2>5 DEF Next
  <1>3. QED
    BY <1>1, <1>2, PTL DEF Spec

(* Nobody is admitted who has reached a dollar budget enforced on them now, *)
(* by the usage older than a state may be, for any catalog, any ledger and  *)
(* any number of concurrent reconcilers with clocks up to Skew ahead.       *)
THEOREM NobodyServedBeyond == Spec => []ServedWithinBudget
  BY UsdInvariant, OpenIsWithin, PTL

(* Nobody is refused who has not reached a dollar budget enforced on them,  *)
(* by the ledger up to the tick that has begun, however far ahead the clock *)
(* was that stamped the state.                                              *)
THEOREM NobodyStoppedEarly == Spec => []StopsAreDue
  BY UsdInvariant, StopIsDue, PTL

(* A stored state only gives way to a later one, except that a run takes    *)
(* back the state that came with the answer of its own put.                 *)
THEOREM OlderNeverStored == Spec => NewerStateKept
  <1> DEFINE A == state'.asof >= state.asof \/ \E h \in Handlers : at[h] = "restoring" /\ state = job[h].got
  <1>1. UsdInv /\ [Next]_usdVars => [A]_usdVars
    <2> SUFFICES ASSUME UsdInv, Next PROVE A
      OBVIOUS
    <2>0. \A st : Honest(st) => st.asof \in Int
      BY HonestInstants
    <2>1. CASE UNCHANGED state
      BY <2>0, <2>1 DEF UsdInv, World
    <2>2. ASSUME NEW h \in Handlers, Put(h) \/ PutAsks(h) \/ PutFails(h), state' # state PROVE A
      <3>1. /\ at[h] = "putting" /\ job[h].key = "usd-budget-state" /\ state' = job[h].new /\ Stored(h)
        BY <2>2 DEF Put, PutAsks, PutFails, Write, Knows, Stored
      <3>2. /\ Honest(job[h].new) /\ Honest(job[h].old) /\ state = job[h].old
            /\ job[h].old.asof <= job[h].new.asof
        BY <3>1 DEF UsdInv, JobInv, Writing, WritesBudgets, WritesState
      <3>3. job[h].new.asof \in Int /\ job[h].old.asof \in Int
        BY <2>0, <3>2
      <3>4. QED
        BY <3>1, <3>2, <3>3
    <2>3. ASSUME NEW h \in Handlers, Restore(h), state' # state PROVE A
      <3>1. at[h] = "restoring" /\ job[h].key = "usd-budget-state" /\ Stored(h)
        BY <2>3 DEF Restore, Write, Knows, Stored
      <3>2. state = job[h].got
        BY <3>1 DEF UsdInv, JobInv, Writing, WritesBudgets, WritesState
      <3>3. QED
        BY <3>1, <3>2
    <2>4. CASE \/ Tick \/ LeaseExpires \/ SetMode \/ MoveUnit \/ RemoveUnit \/ HandOver
               \/ \E u \in Users : Use(u)
      BY <2>1, <2>4 DEF Use, Tick, LeaseExpires, SetMode, MoveUnit, RemoveUnit, Govern, HandOver
    <2>5. ASSUME NEW h \in Handlers,
                 \/ Begin(h) \/ Work(h) \/ ConfirmFails(h) \/ Stop(h) \/ LoseLease(h)
                 \/ SetBudget(h) \/ SetBook(h)
          PROVE  A
      <3>1. CASE Put(h) \/ PutAsks(h) \/ PutFails(h)
        BY <2>1, <2>2, <3>1
      <3>2. CASE Restore(h)
        BY <2>1, <2>3, <3>2
      <3>3. CASE ~(Put(h) \/ PutAsks(h) \/ PutFails(h) \/ Restore(h))
        BY <2>1, <2>5, <3>3 DEF Begin, Work, Read, Query, Recheck, Compare, Asks, Confirm, ConfirmFails,
           Stop, LoseLease, SetBudget, SetBook, Plan
      <3>4. QED
        BY <3>1, <3>2, <3>3
    <2> HIDE DEF A
    <2>6. QED
      BY <2>4, <2>5 DEF Next
  <1> HIDE DEF A
  <1>2. QED
    BY <1>1, UsdInvariant, PTL DEF Spec, NewerStateKept, A
=============================================================================
