--------------------------- MODULE ProjectionSync ---------------------------
(***************************************************************************)
(* The sync of Entra group membership into the entitlement container:      *)
(* scripts/Sync-ClaudeProjection.ps1 resolves the directory into a         *)
(* snapshot, or the renewal job resolves it itself, and                    *)
(* sync/src/apply-projection.mjs plans with sync/src/plan.mjs and writes.  *)
(*                                                                         *)
(* Full runs (a job, or a snapshot of everybody) and targeted runs (a      *)
(* snapshot of one person) overlap while they resolve and wait; the apply  *)
(* lock is SerialApplies, which ApplyLock implements: a run whose lease    *)
(* lapsed can lose the lock at any time but while a batch is under way.    *)
(* A record is its tier; business units ride along with it and are left    *)
(* out, as are the records' stamps.                                        *)
(***************************************************************************)
EXTENDS Integers, FiniteSets

CONSTANTS
    Users,          \* people
    JobRuns,        \* runs with --graph and the job's own settings
    SnapshotRuns,   \* runs that apply a full snapshot
    UserRuns,       \* runs that apply a snapshot of one person (--user)
    Subject,        \* Subject[r]: the person a targeted run is for
    NoRun, NoUser,
    Margin,         \* the 300 seconds of targetedCutoff
    MaxAge,         \* MAX_PROJECTION_AGE_SECONDS
    ChunkSize,      \* operations per bulk call, 1000
    RemovalFloor,   \* the 10 of removalLimit
    ExportSkew,     \* ExportSkew[r]: how far the clock that stamped r's scan is
                    \* ahead of the clock that stamps the statuses
    InitialMembers, \* memberships the tier groups may have at first
    InitialRecords, \* records the container may hold at first
    MaxClock,       \* bound: the last clock value
    MaxChanges      \* bound: changes to the directory

Runs == JobRuns \cup SnapshotRuns \cup UserRuns
FullRuns == JobRuns \cup SnapshotRuns

Tiers == {"premium", "standard"}
Entries == Tiers \cup {"none"}

ASSUME SyncConstants ==
    /\ JobRuns \cap SnapshotRuns = {} /\ FullRuns \cap UserRuns = {}
    /\ NoRun \notin Runs /\ NoUser \notin Users
    /\ IsFiniteSet(Users)
    /\ Subject \in [UserRuns -> Users]
    /\ {Margin, MaxAge, RemovalFloor, MaxClock, MaxChanges} \subseteq Nat
    /\ ChunkSize \in Nat \ {0}
    /\ ExportSkew \in [Runs -> Nat]
    /\ \A r \in JobRuns : ExportSkew[r] = 0
    /\ InitialMembers \subseteq [Tiers -> SUBSET Users]
    /\ \A held \in InitialRecords :
          /\ held.tier \in [Users -> Entries]
          /\ held.aged \subseteq {u \in Users : held.tier[u] # "none"}

VARIABLES
    clock,          \* time, from 1
    member,         \* member[t]: the transitive members of tier t's group
    changes,        \* changes to the directory so far
    records,        \* records[u]: the tier of u's record, "none" without one
    legacy,         \* people whose record still carries an expiresAt
    statuses,       \* the successful status records
    owner,          \* the run that holds the apply lock
    stage,          \* stage[r]: where run r is
    scan,           \* scan[r]: when r started to read the directory
    premiumSeen,    \* premiumSeen[r]: the premium members r read
    view,           \* view[r][u]: the tier r resolved for u
    existing,       \* existing[r]: what r read from the container
    left,           \* left[r]: people r's plan leaves alone
    pending,        \* pending[r]: planned operations not yet sent
    batch,          \* batch[r]: operations in the bulk call under way
    failed,         \* failed[r]: some operation of r failed
    finishedAt,     \* finishedAt[r]: of the status r is about to write
    \* history, read by the properties only
    changedAt,      \* changedAt[u]: when u's tier in the directory last changed
    covered         \* covered[u]: newest scan of u that a status was published for

directory == <<member, changes, changedAt>>
store == <<records, legacy, statuses, covered>>
resolving == <<scan, premiumSeen, view>>
applying == <<existing, left, pending, batch, failed, finishedAt>>
syncVars == <<clock, directory, store, owner, stage, resolving, applying>>

Unresolved == {"idle", "premium", "standard", "checking", "resolved"}
BeforeLock == Unresolved \cup {"waiting"}
(* In these stages a batch of writes, or the status, is on its way.        *)
Sending == {"sending", "publishing"}
Locked == {"reading", "planning", "writing", "finishing", "releasing"} \cup Sending
Stages == BeforeLock \cup Locked \cup {"done"}

Nobody == [u \in Users |-> "none"]
NothingRead == [tier |-> Nobody, aged |-> {}]

SyncTypeOK ==
    /\ clock \in Nat /\ changes \in Nat
    /\ member \in [Tiers -> SUBSET Users]
    /\ records \in [Users -> Entries]
    /\ legacy \subseteq {u \in Users : records[u] # "none"}
    /\ statuses \subseteq [user : Users \cup {NoUser}, at : Nat]
    /\ owner \in Runs \cup {NoRun}
    /\ stage \in [Runs -> Stages]
    /\ scan \in [Runs -> Nat]
    /\ premiumSeen \in [Runs -> SUBSET Users]
    /\ view \in [Runs -> [Users -> Entries]]
    /\ existing \in [Runs -> [tier : [Users -> Entries], aged : SUBSET Users]]
    /\ left \in [Runs -> SUBSET Users]
    /\ pending \in [Runs -> SUBSET Users]
    /\ batch \in [Runs -> SUBSET Users]
    /\ failed \in [Runs -> BOOLEAN]
    /\ finishedAt \in [Runs -> Nat]
    /\ changedAt \in [Users -> Nat]
    /\ covered \in [Users -> Nat]

-----------------------------------------------------------------------------
(* mergeMembership: premium is read first and wins. *)
TierIn(u, premium, standard) ==
    IF u \in premium THEN "premium" ELSE IF u \in standard THEN "standard" ELSE "none"

TierOf(u) == TierIn(u, member["premium"], member["standard"])

Init ==
    /\ clock = 1 /\ changes = 0
    /\ member \in InitialMembers
    /\ \E held \in InitialRecords : records = held.tier /\ legacy = held.aged
    /\ statuses = {}
    /\ owner = NoRun
    /\ stage = [r \in Runs |-> "idle"]
    /\ scan = [r \in Runs |-> 0]
    /\ premiumSeen = [r \in Runs |-> {}]
    /\ view = [r \in Runs |-> Nobody]
    /\ existing = [r \in Runs |-> NothingRead]
    /\ left = [r \in Runs |-> {}]
    /\ pending = [r \in Runs |-> {}]
    /\ batch = [r \in Runs |-> {}]
    /\ failed = [r \in Runs |-> FALSE]
    /\ finishedAt = [r \in Runs |-> 0]
    /\ changedAt = [u \in Users |-> 0]
    /\ covered = [u \in Users |-> 0]

Goto(r, s) == stage' = [stage EXCEPT ![r] = s]

(* process.exit: what the run knew is gone. *)
Exit(r) ==
    /\ Goto(r, "done")
    /\ scan' = [scan EXCEPT ![r] = 0]
    /\ premiumSeen' = [premiumSeen EXCEPT ![r] = {}]
    /\ view' = [view EXCEPT ![r] = Nobody]
    /\ existing' = [existing EXCEPT ![r] = NothingRead]
    /\ left' = [left EXCEPT ![r] = {}]
    /\ pending' = [pending EXCEPT ![r] = {}]
    /\ batch' = [batch EXCEPT ![r] = {}]
    /\ failed' = [failed EXCEPT ![r] = FALSE]
    /\ finishedAt' = [finishedAt EXCEPT ![r] = 0]

(* ------------------------------ the directory -------------------------- *)
(* An administrator adds one person to a tier's group, or removes one.     *)
ChangeMember(u, t) ==
    /\ changes < MaxChanges
    /\ changes' = changes + 1
    /\ \/ u \notin member[t] /\ member' = [member EXCEPT ![t] = @ \cup {u}]
       \/ u \in member[t] /\ member' = [member EXCEPT ![t] = @ \ {u}]
    /\ changedAt' = IF TierOf(u)' # TierOf(u) THEN [changedAt EXCEPT ![u] = clock] ELSE changedAt
    /\ UNCHANGED <<clock, store, owner, stage, resolving, applying>>

Tick ==
    /\ clock < MaxClock
    /\ clock' = clock + 1
    /\ UNCHANGED <<directory, store, owner, stage, resolving, applying>>

(* ---------------------------- resolveMembership ------------------------ *)
(* verifiedAt is taken before the first read, by the exporter's clock or   *)
(* the job's own.                                                          *)
BeginScan(r) ==
    /\ stage[r] = "idle"
    /\ Goto(r, IF r \in UserRuns THEN "checking" ELSE "premium")
    /\ scan' = [scan EXCEPT ![r] = clock]
    /\ UNCHANGED <<clock, directory, store, owner, premiumSeen, view, applying>>

ReadPremium(r) ==
    /\ stage[r] = "premium"
    /\ Goto(r, "standard")
    /\ premiumSeen' = [premiumSeen EXCEPT ![r] = member["premium"]]
    /\ UNCHANGED <<clock, directory, store, owner, scan, view, applying>>

ReadStandard(r) ==
    /\ stage[r] = "standard"
    /\ Goto(r, "resolved")
    /\ view' = [view EXCEPT ![r] =
                  [u \in Users |-> TierIn(u, premiumSeen[r], member["standard"])]]
    /\ premiumSeen' = [premiumSeen EXCEPT ![r] = {}]
    /\ UNCHANGED <<clock, directory, store, owner, scan, applying>>

(* checkMemberGroups answers for all tier groups at once. *)
CheckUser(r) ==
    /\ stage[r] = "checking"
    /\ Goto(r, "resolved")
    /\ view' = [view EXCEPT ![r][Subject[r]] = TierOf(Subject[r])]
    /\ UNCHANGED <<clock, directory, store, owner, scan, premiumSeen, applying>>

VerifiedAt(r) == scan[r] + ExportSkew[r]
Expired(r) == VerifiedAt(r) + MaxAge <= clock

(* createReconciliation, validateSnapshot, validateTargetedSnapshot: the   *)
(* scan is not in the future and its apply-by time has not passed.         *)
StartApply(r) ==
    /\ stage[r] = "resolved"
    /\ VerifiedAt(r) <= clock /\ ~Expired(r)
    /\ Goto(r, "waiting")
    /\ UNCHANGED <<clock, directory, store, owner, resolving, applying>>

RefuseSnapshot(r) ==
    /\ stage[r] = "resolved"
    /\ VerifiedAt(r) > clock \/ Expired(r)
    /\ Exit(r)
    /\ UNCHANGED <<clock, directory, store, owner>>

(* ------------------------------ the apply lock ------------------------- *)
(* Mutant: a takeover may interrupt a batch. *)
AcquireAnyTime(r) ==
    /\ stage[r] = "waiting"
    /\ owner' = r
    /\ Goto(r, "reading")
    /\ UNCHANGED <<clock, directory, store, resolving, applying>>

(* The lock is free, or its owner's lease passed: the owner crashed or     *)
(* stalls.  Never in the middle of a batch (ApplyLock!OneWriterAtATime).   *)
Acquire(r) ==
    /\ stage[r] = "waiting"
    /\ owner # NoRun => stage[owner] \notin Sending
    /\ owner' = r
    /\ Goto(r, "reading")
    /\ UNCHANGED <<clock, directory, store, resolving, applying>>

GiveUp(r) ==
    /\ stage[r] = "waiting"
    /\ Exit(r)
    /\ UNCHANGED <<clock, directory, store, owner>>

(* renewIfNeeded found another owner: step() ends the run, and its release *)
(* changes nothing.                                                        *)
LoseLock(r) ==
    /\ stage[r] \in Locked
    /\ owner # r
    /\ Exit(r)
    /\ UNCHANGED <<clock, directory, store, owner>>

Release(r) ==
    /\ stage[r] = "releasing"
    /\ owner = r
    /\ owner' = NoRun
    /\ Exit(r)
    /\ UNCHANGED <<clock, directory, store>>

(* ------------------------------ reading and planning ------------------- *)
(* A run that lost its lock may still read; it finds out before it writes. *)
ReadExisting(r) ==
    /\ stage[r] = "reading"
    /\ existing' = [existing EXCEPT ![r] =
          IF r \in UserRuns
          THEN [tier |-> [Nobody EXCEPT ![Subject[r]] = records[Subject[r]]],
                aged |-> legacy \cap {Subject[r]}]
          ELSE [tier |-> records, aged |-> legacy]]
    /\ Goto(r, "planning")
    /\ UNCHANGED <<clock, directory, store, owner, resolving, left, pending, batch, failed, finishedAt>>

(* Mutant: statuses of full syncs are not looked at. *)
SupersededByTargeted(r) ==
    \E s \in statuses :
        s.at > VerifiedAt(r) /\ r \in UserRuns /\ s.user = Subject[r]

(* A newer sync that covered what r covers has finished. *)
Superseded(r) ==
    \E s \in statuses :
        /\ s.at > VerifiedAt(r)
        /\ s.user = NoUser \/ (r \in UserRuns /\ s.user = Subject[r])

(* Mutant: the cutoff has no margin. *)
ExcludedWithoutMargin(r) ==
    IF r \in UserRuns THEN Users \ {Subject[r]}
    ELSE {u \in Users : \E s \in statuses : s.user = u /\ s.at > VerifiedAt(r)}

(* People a full run leaves out: a targeted sync finished after its scan,  *)
(* less the margin.                                                        *)
Excluded(r) ==
    IF r \in UserRuns THEN Users \ {Subject[r]}
    ELSE {u \in Users : \E s \in statuses : s.user = u /\ s.at > VerifiedAt(r) - Margin}

InScope(r) == Users \ Excluded(r)
Held(r) == {u \in InScope(r) : existing[r].tier[u] # "none"}
Resolved(r) == {u \in InScope(r) : view[r][u] # "none"}

(* planChanges *)
ToWrite(r) ==
    {u \in Resolved(r) : existing[r].tier[u] # view[r][u] \/ u \in existing[r].aged}
Orphans(r) == Held(r) \ Resolved(r)

RemovalLimit(n) == IF n \div 10 > RemovalFloor THEN n \div 10 ELSE RemovalFloor

Acceptable(r, allowEmpty, keepOrphans) ==
    /\ ~Superseded(r)
    /\ Resolved(r) # {} \/ Held(r) = {} \/ allowEmpty
    /\ r \in JobRuns =>
          Cardinality(IF keepOrphans THEN {} ELSE Orphans(r)) <= RemovalLimit(Cardinality(Held(r)))
    /\ ~Expired(r)

(* --allow-empty and --keep-orphans as the three kinds of runs pass them.  *)
Flags(r) ==
    IF r \in UserRuns THEN {<<TRUE, FALSE>>}
    ELSE IF r \in JobRuns THEN {<<FALSE, FALSE>>}
    ELSE BOOLEAN \X BOOLEAN

PlanChanges(r) ==
    /\ stage[r] = "planning"
    /\ \E f \in Flags(r) :
         /\ Acceptable(r, f[1], f[2])
         /\ pending' = [pending EXCEPT ![r] =
                          ToWrite(r) \cup (IF f[2] THEN {} ELSE Orphans(r))]
         /\ left' = [left EXCEPT ![r] =
                          Excluded(r) \cup (IF f[2] THEN Orphans(r) ELSE {})]
    /\ existing' = [existing EXCEPT ![r] = NothingRead]
    /\ Goto(r, "writing")
    /\ UNCHANGED <<clock, directory, store, owner, resolving, batch, failed, finishedAt>>

(* Every refusal after the lock releases it first. *)
RefusePlan(r) ==
    /\ stage[r] = "planning"
    /\ \E f \in Flags(r) : ~Acceptable(r, f[1], f[2])
    /\ existing' = [existing EXCEPT ![r] = NothingRead]
    /\ Goto(r, "releasing")
    /\ UNCHANGED <<clock, directory, store, owner, resolving, left, pending, batch, failed, finishedAt>>

(* ------------------------------ writing -------------------------------- *)
Upserts(r) == {u \in pending[r] : view[r][u] # "none"}

(* Mutant: a batch is sent without renewIfNeeded. *)
SendBatchUnfenced(r) ==
    /\ stage[r] = "writing"
    /\ pending[r] # {}
    /\ batch' = [batch EXCEPT ![r] = pending[r]]
    /\ pending' = [pending EXCEPT ![r] = {}]
    /\ Goto(r, "sending")
    /\ UNCHANGED <<clock, directory, store, owner, resolving, existing, left, failed, finishedAt>>

(* The next bulk call: at most ChunkSize operations, upserts before        *)
(* deletes, sent once the lease is known to be young or was renewed.       *)
SendBatch(r) ==
    /\ stage[r] = "writing"
    /\ owner = r
    /\ LET next == IF Upserts(r) # {} THEN Upserts(r) ELSE pending[r]
       IN  \E c \in SUBSET next :
             /\ c # {}
             /\ Cardinality(c) = ChunkSize \/ (c = next /\ Cardinality(c) < ChunkSize)
             /\ batch' = [batch EXCEPT ![r] = c]
             /\ pending' = [pending EXCEPT ![r] = @ \ c]
    /\ Goto(r, "sending")
    /\ UNCHANGED <<clock, directory, store, owner, resolving, existing, left, failed, finishedAt>>

(* These operations of the batch took effect. *)
Land(r, landed) ==
    /\ records' = [u \in Users |-> IF u \in landed THEN view[r][u] ELSE records[u]]
    /\ legacy' = legacy \ landed

BatchReturns(r) ==
    /\ stage[r] = "sending"
    /\ \/ Land(r, batch[r]) /\ UNCHANGED failed
       \/ /\ \E landed \in SUBSET batch[r] : Land(r, landed)
          /\ failed' = [failed EXCEPT ![r] = TRUE]
    /\ batch' = [batch EXCEPT ![r] = {}]
    /\ Goto(r, "writing")
    /\ UNCHANGED <<clock, directory, statuses, covered, owner, resolving,
                   existing, left, pending, finishedAt>>

(* The bulk call itself throws, whatever part of it took effect. *)
BatchThrows(r) ==
    /\ stage[r] = "sending"
    /\ \E landed \in SUBSET batch[r] : Land(r, landed)
    /\ batch' = [batch EXCEPT ![r] = {}]
    /\ pending' = [pending EXCEPT ![r] = {}]
    /\ Goto(r, "releasing")
    /\ UNCHANGED <<clock, directory, statuses, covered, owner, resolving,
                   existing, left, failed, finishedAt>>

(* Mutant: failed operations do not keep the status from being written. *)
FinishWritesAnyway(r) ==
    /\ stage[r] = "writing"
    /\ pending[r] = {}
    /\ Goto(r, "finishing")
    /\ finishedAt' = [finishedAt EXCEPT ![r] = clock]
    /\ UNCHANGED <<clock, directory, store, owner, resolving, existing, left, pending, batch, failed>>

(* All batches returned.  A run with a failed operation writes no status.  *)
FinishWrites(r) ==
    /\ stage[r] = "writing"
    /\ pending[r] = {}
    /\ Goto(r, IF failed[r] THEN "releasing" ELSE "finishing")
    /\ finishedAt' = [finishedAt EXCEPT ![r] = IF failed[r] THEN 0 ELSE clock]
    /\ UNCHANGED <<clock, directory, store, owner, resolving, existing, left, pending, batch, failed>>

(* renewIfNeeded({ force: true }); finishedAt is already stamped. *)
ForceRenew(r) ==
    /\ stage[r] = "finishing"
    /\ owner = r
    /\ Goto(r, "publishing")
    /\ UNCHANGED <<clock, directory, store, owner, resolving, applying>>

Later(a, b) == IF a > b THEN a ELSE b

Publish(r) ==
    /\ statuses' = statuses \cup
         {[user |-> IF r \in UserRuns THEN Subject[r] ELSE NoUser, at |-> finishedAt[r]]}
    /\ covered' = [u \in Users |->
         IF u \in left[r] THEN covered[u] ELSE Later(covered[u], scan[r])]

StatusReturns(r) ==
    /\ stage[r] = "publishing"
    /\ Publish(r) \/ UNCHANGED <<statuses, covered>>
    /\ Goto(r, "releasing")
    /\ UNCHANGED <<clock, directory, records, legacy, owner, resolving, applying>>

(* The process dies wherever it is; the lock document stays behind.        *)
Crash(r) ==
    /\ stage[r] \in Stages \ {"idle", "done"}
    /\ Exit(r)
    /\ \/ stage[r] \notin Sending /\ UNCHANGED store
       \/ /\ stage[r] = "sending"
          /\ \E landed \in SUBSET batch[r] : Land(r, landed)
          /\ UNCHANGED <<statuses, covered>>
       \/ /\ stage[r] = "publishing"
          /\ Publish(r) \/ UNCHANGED <<statuses, covered>>
          /\ UNCHANGED <<records, legacy>>
    /\ UNCHANGED <<clock, directory, owner>>

-----------------------------------------------------------------------------
Resolve(r) ==
    \/ BeginScan(r) \/ ReadPremium(r) \/ ReadStandard(r) \/ CheckUser(r)
    \/ StartApply(r) \/ RefuseSnapshot(r)

Lock(r) == Acquire(r) \/ GiveUp(r) \/ LoseLock(r) \/ Release(r)

Apply(r) ==
    \/ ReadExisting(r) \/ PlanChanges(r) \/ RefusePlan(r)
    \/ SendBatch(r) \/ BatchReturns(r) \/ BatchThrows(r)
    \/ FinishWrites(r) \/ ForceRenew(r) \/ StatusReturns(r)

Next ==
    \/ \E r \in Runs : Resolve(r) \/ Lock(r) \/ Apply(r) \/ Crash(r)
    \/ \E u \in Users, t \in Tiers : ChangeMember(u, t)
    \/ Tick

Spec == Init /\ [][Next]_syncVars

-----------------------------------------------------------------------------
(* A record is never changed by a run whose scan is older than one that    *)
(* has been published for that person: not by a full snapshot that waited  *)
(* for the lock, nor by a run that stalled and lost it (ADR-0051 decision  *)
(* 11; the status checks at lines 312-332).  The clock that stamped a full *)
(* scan may be up to Margin ahead of a targeted one (targetedCutoff, line  *)
(* 310); two full scans must be stamped by equal clocks.                   *)
NoStaleOverwrite ==
    [][\A u \in Users : records'[u] # records[u] =>
          \E r \in Runs : u \in batch[r] /\ scan[r] >= covered[u]]_syncVars

(* Once a scan that began after the last change of a person's tier has     *)
(* been published for that person, the record agrees with the directory,   *)
(* whatever other runs overlapped, failed half way or crashed.             *)
SettledRecordsCorrect ==
    \A u \in Users : covered[u] > changedAt[u] => records[u] = TierOf(u)

(* When a run publishes its status, the container holds exactly what the   *)
(* run resolved, for everybody it did not leave out, and none of these     *)
(* records carries an expiresAt any more.                                  *)
PublishedMatchesScan ==
    \A r \in Runs : stage[r] = "publishing" =>
        \A u \in Users \ left[r] :
            records[u] = view[r][u] /\ u \notin legacy

(* The applies are the tenures of SerialApplies. *)
tenureOf == [r \in Runs |->
    IF owner = r THEN "in" ELSE IF stage[r] \in BeforeLock THEN "new" ELSE "out"]
writingNow == {r \in Runs : stage[r] \in Sending}

Serial == INSTANCE SerialApplies WITH tenure <- tenureOf, writing <- writingNow

(* Batches and statuses are written inside tenures that never overlap.     *)
ImplementsSerial == Serial!Spec
=============================================================================
