----------------------------- MODULE ApplyLock -----------------------------
(***************************************************************************)
(* The lease lock of sync/src/apply-lock.mjs: one document in the          *)
(* entitlement container that every mutating run of apply-projection.mjs   *)
(* creates, takes over once its lease has passed, renews, and deletes.     *)
(*                                                                         *)
(* Every remote call is two steps, sending it and its effect in Cosmos DB, *)
(* because the code stamps the lease BEFORE the call is sent               *)
(* (attemptedAt, now()) and remembers lastRenewedAt AFTER it returned.     *)
(* Time is an integer clock; each run reads it with a fixed skew.          *)
(***************************************************************************)
EXTENDS Integers

CONSTANTS
    Runs,           \* runs that contend for the lock
    NoRun,          \* holder of an absent lock document
    Etags,          \* ETags of lock documents; 0 stands for no document
    Lease,          \* APPLY_LOCK_LEASE_SECONDS
    RenewAfter,     \* RENEW_AFTER_MS, a third of the lease
    LockWait,       \* --lock-wait-seconds
    Skew,           \* Skew[r]: how far r's clock is ahead of the slowest one
    MaxSkew,        \* a bound on every skew
    MaxStep,        \* the longest a remote call or a batch of writes takes
    LastStart,      \* bound: the latest clock value a run may start at
    MaxClock        \* bound: the last clock value

ASSUME LockConstants ==
    /\ NoRun \notin Runs
    /\ 0 \notin Etags
    /\ {Lease, RenewAfter, LockWait, MaxSkew, MaxStep, LastStart, MaxClock} \subseteq Nat
    /\ MaxStep > 0 /\ RenewAfter > 0
    /\ Skew \in [Runs -> Nat]
    /\ \A r \in Runs : Skew[r] <= MaxSkew

VARIABLES
    clock,      \* time
    lock,       \* the lock document; etag 0 when there is none
    phase,      \* phase[r]: where run r is
    etag,       \* etag[r]: ApplyLock.etag, 0 before r has the lock
    renewedAt,  \* renewedAt[r]: ApplyLock.lastRenewedAt
    started,    \* started[r]: when acquireApplyLock was entered
    sentAt,     \* sentAt[r]: when the call r waits for was sent
    seen        \* seen[r]: ETag and lease of the lock document r read last

lockVars == <<clock, lock, phase, etag, renewedAt, started, sentAt, seen>>

NoLock == [holder |-> NoRun, expires |-> 0, etag |-> 0]
NothingSeen == [etag |-> 0, expires |-> 0]

Acquiring == {"creating", "reading", "deciding", "replacing", "sleeping"}
Inside == {"held", "renewing", "working"}
(* Phases that wait for something that returns within MaxStep; a sleep     *)
(* between two polls is at most a second, shorter than any of them.        *)
Timed == (Acquiring \cup Inside \cup {"releasing"}) \ {"held"}
Ended == {"timedout", "done"}
Phases == {"idle", "releasing"} \cup Acquiring \cup Inside \cup Ended

LockTypeOK ==
    /\ clock \in Nat
    /\ lock \in [holder : Runs \cup {NoRun}, expires : Nat, etag : Etags \cup {0}]
    /\ phase \in [Runs -> Phases]
    /\ etag \in [Runs -> Etags \cup {0}]
    /\ renewedAt \in [Runs -> Nat]
    /\ started \in [Runs -> Nat]
    /\ sentAt \in [Runs -> Nat]
    /\ seen \in [Runs -> [etag : Etags \cup {0}, expires : Nat]]

Init ==
    /\ clock = 0
    /\ lock = NoLock
    /\ phase = [r \in Runs |-> "idle"]
    /\ etag = [r \in Runs |-> 0]
    /\ renewedAt = [r \in Runs |-> 0]
    /\ started = [r \in Runs |-> 0]
    /\ sentAt = [r \in Runs |-> 0]
    /\ seen = [r \in Runs |-> NothingSeen]

-----------------------------------------------------------------------------
Now(r) == clock + Skew[r]

(* Every version of a document gets an ETag of its own.  One that neither   *)
(* the document nor any run remembers can stand for a new one.             *)
EtagsInUse == {lock.etag} \cup {etag[r] : r \in Runs} \cup {seen[r].etag : r \in Runs}
NewEtag == CHOOSE e \in Etags : e \notin EtagsInUse

(* lockDocument({ runId, mode, at }), with at the instant the call was sent *)
LockDocument(r) ==
    [holder |-> r, expires |-> sentAt[r] + Skew[r] + Lease, etag |-> NewEtag]

(* isExpired(lock, now()) *)
IsExpired(expires, r) == expires <= Now(r)

(* Mutant: a waiting run never looks at --lock-wait-seconds. *)
WaitedForever(r) == FALSE /\ r \in Runs

WaitedEnough(r) == clock - started[r] >= LockWait

Goto(r, p) == phase' = [phase EXCEPT ![r] = p]

Send(r, p) ==
    /\ Goto(r, p)
    /\ sentAt' = [sentAt EXCEPT ![r] = clock]

(* The process ends, and its memory with it. *)
Exit(r, p) ==
    /\ Goto(r, p)
    /\ etag' = [etag EXCEPT ![r] = 0]
    /\ renewedAt' = [renewedAt EXCEPT ![r] = 0]
    /\ started' = [started EXCEPT ![r] = 0]
    /\ sentAt' = [sentAt EXCEPT ![r] = 0]
    /\ seen' = [seen EXCEPT ![r] = NothingSeen]

(* The lock document now belongs to r, stamped when r sent the call. *)
StoreLock(r) ==
    /\ \E e \in Etags : e \notin EtagsInUse
    /\ lock' = LockDocument(r)

(* new ApplyLock(container, resource, etag, now): r learns its ETag and    *)
(* sets lastRenewedAt to the time the answer came back.                    *)
HoldLock(r) ==
    /\ StoreLock(r)
    /\ etag' = [etag EXCEPT ![r] = NewEtag]
    /\ renewedAt' = [renewedAt EXCEPT ![r] = clock]

(* acquireApplyLock returned: its local variables are gone. *)
EnterHeld(r) ==
    /\ Goto(r, "held")
    /\ sentAt' = [sentAt EXCEPT ![r] = 0]
    /\ started' = [started EXCEPT ![r] = 0]
    /\ seen' = [seen EXCEPT ![r] = NothingSeen]

(* --------------------------- acquireApplyLock -------------------------- *)
StartAcquire(r) ==
    /\ phase[r] = "idle"
    /\ clock <= LastStart
    /\ Send(r, "creating")
    /\ started' = [started EXCEPT ![r] = clock]
    /\ UNCHANGED <<clock, lock, etag, renewedAt, seen>>

CreateSucceeds(r) ==
    /\ phase[r] = "creating"
    /\ lock.etag = 0
    /\ HoldLock(r)
    /\ EnterHeld(r)
    /\ UNCHANGED clock

(* 409: a lock document exists, read it *)
CreateConflicts(r) ==
    /\ phase[r] = "creating"
    /\ lock.etag # 0
    /\ Send(r, "reading")
    /\ UNCHANGED <<clock, lock, etag, renewedAt, started, seen>>

(* readLock: what Cosmos DB holds now; r looks at it when the answer is    *)
(* back, which may be later.  No document reads as ETag 0.                 *)
ReadLock(r) ==
    /\ phase[r] = "reading"
    /\ seen' = [seen EXCEPT ![r] = [etag |-> lock.etag, expires |-> lock.expires]]
    /\ Goto(r, "deciding")
    /\ UNCHANGED <<clock, lock, etag, renewedAt, started, sentAt>>

DecideTakeOver(r) ==
    /\ phase[r] = "deciding"
    /\ seen[r].etag = 0 \/ IsExpired(seen[r].expires, r)
    /\ Send(r, "replacing")
    /\ UNCHANGED <<clock, lock, etag, renewedAt, started, seen>>

SleepOrGiveUp(r) ==
    /\ \/ WaitedEnough(r) /\ Exit(r, "timedout")
       \/ /\ ~WaitedEnough(r)
          /\ Send(r, "sleeping")
          /\ seen' = [seen EXCEPT ![r] = NothingSeen]
          /\ UNCHANGED <<etag, renewedAt, started>>
    /\ UNCHANGED <<clock, lock>>

DecideWait(r) ==
    /\ phase[r] = "deciding"
    /\ seen[r].etag # 0 /\ ~IsExpired(seen[r].expires, r)
    /\ SleepOrGiveUp(r)

(* Mutant: the takeover names no ETag. *)
ReplaceAnyETag(r) ==
    /\ phase[r] = "replacing"
    /\ lock.etag # 0
    /\ HoldLock(r)
    /\ EnterHeld(r)
    /\ UNCHANGED clock

(* replace with If-Match on the ETag that was read *)
ReplaceSucceeds(r) ==
    /\ phase[r] = "replacing"
    /\ lock.etag # 0 /\ lock.etag = seen[r].etag
    /\ HoldLock(r)
    /\ EnterHeld(r)
    /\ UNCHANGED clock

(* 412, or 404 when the document is gone.  With no document read the       *)
(* condition names no ETag and Cosmos DB is taken to refuse it.            *)
ReplaceRefused(r) ==
    /\ phase[r] = "replacing"
    /\ lock.etag = 0 \/ lock.etag # seen[r].etag
    /\ SleepOrGiveUp(r)

Wake(r) ==
    /\ phase[r] = "sleeping"
    /\ Send(r, "creating")
    /\ UNCHANGED <<clock, lock, etag, renewedAt, started, seen>>

(* Any other error ends the run, and no release is tried: the caller has   *)
(* no lock object yet.  The call may have taken effect all the same, its   *)
(* answer lost.                                                            *)
AcquireErrors(r) ==
    /\ phase[r] \in {"creating", "reading", "replacing"}
    /\ \/ UNCHANGED lock
       \/ /\ phase[r] = "creating" => lock.etag = 0
          /\ phase[r] = "replacing" => lock.etag # 0 /\ lock.etag = seen[r].etag
          /\ phase[r] # "reading"
          /\ StoreLock(r)
    /\ Exit(r, "done")
    /\ UNCHANGED clock

(* ----------------------- the holder: ApplyLock ------------------------- *)
(* Mutant: the batch is sent without looking at the lease. *)
BeginWorkUnchecked(r) ==
    /\ phase[r] = "held"
    /\ Send(r, "working")
    /\ UNCHANGED <<clock, lock, etag, renewedAt, started, seen>>

(* renewIfNeeded returned false: the lease is young enough, and the        *)
(* operation it guards is sent at once.                                    *)
BeginWork(r) ==
    /\ phase[r] = "held"
    /\ clock - renewedAt[r] < RenewAfter
    /\ Send(r, "working")
    /\ UNCHANGED <<clock, lock, etag, renewedAt, started, seen>>

EndWork(r) ==
    /\ phase[r] = "working"
    /\ EnterHeld(r)
    /\ UNCHANGED <<clock, lock, etag, renewedAt>>

(* renewIfNeeded({ force }) sends a replace on the ETag r holds *)
SendRenew(r, force) ==
    /\ phase[r] = "held"
    /\ force \/ clock - renewedAt[r] >= RenewAfter
    /\ Send(r, "renewing")
    /\ UNCHANGED <<clock, lock, etag, renewedAt, started, seen>>

(* The guarded operation follows the renewal at once, or the run goes on   *)
(* with its own code when there is nothing to send.                        *)
RenewSucceeds(r) ==
    /\ phase[r] = "renewing"
    /\ lock.etag # 0 /\ lock.etag = etag[r]
    /\ HoldLock(r)
    /\ \/ Send(r, "working") /\ UNCHANGED <<started, seen>>
       \/ EnterHeld(r)
    /\ UNCHANGED clock

(* 412 or 404: lost the lock; step() releases and exits *)
RenewLost(r) ==
    /\ phase[r] = "renewing"
    /\ lock.etag = 0 \/ lock.etag # etag[r]
    /\ Send(r, "releasing")
    /\ UNCHANGED <<clock, lock, etag, renewedAt, started, seen>>

(* any other error, whether the replace took effect or not *)
RenewErrors(r) ==
    /\ phase[r] = "renewing"
    /\ \/ UNCHANGED lock
       \/ lock.etag # 0 /\ lock.etag = etag[r] /\ StoreLock(r)
    /\ Send(r, "releasing")
    /\ UNCHANGED <<clock, etag, renewedAt, started, seen>>

(* releaseActiveLock, at the end of the run or at any refusal *)
SendRelease(r) ==
    /\ phase[r] = "held"
    /\ Send(r, "releasing")
    /\ UNCHANGED <<clock, lock, etag, renewedAt, started, seen>>

(* Mutant: the delete names no ETag. *)
ReleaseAnyETag(r) ==
    /\ phase[r] = "releasing"
    /\ lock' = NoLock
    /\ Exit(r, "done")
    /\ UNCHANGED clock

(* delete with If-Match on the ETag r holds; 412 and 404 leave a warning   *)
Release(r) ==
    /\ phase[r] = "releasing"
    /\ lock' = IF lock.etag = etag[r] THEN NoLock ELSE lock
    /\ Exit(r, "done")
    /\ UNCHANGED clock

(* The process dies, or its release fails: the document stays until its    *)
(* lease has passed.                                                       *)
Crash(r) ==
    /\ phase[r] \in Acquiring \cup Inside \cup {"releasing"}
    /\ Exit(r, "done")
    /\ UNCHANGED <<clock, lock>>

(* Time passes; no call stays unanswered for longer than MaxStep. *)
Tick ==
    /\ clock < MaxClock
    /\ \A r \in Runs : phase[r] \in Timed => clock - sentAt[r] < MaxStep
    /\ clock' = clock + 1
    /\ UNCHANGED <<lock, phase, etag, renewedAt, started, sentAt, seen>>

-----------------------------------------------------------------------------
Acquire(r) ==
    \/ CreateSucceeds(r) \/ CreateConflicts(r)
    \/ ReadLock(r) \/ DecideTakeOver(r) \/ DecideWait(r)
    \/ ReplaceSucceeds(r) \/ ReplaceRefused(r) \/ Wake(r)

Hold(r) ==
    \/ BeginWork(r) \/ EndWork(r)
    \/ \E force \in BOOLEAN : SendRenew(r, force)
    \/ RenewSucceeds(r) \/ RenewLost(r)
    \/ SendRelease(r) \/ Release(r)

Fail(r) == AcquireErrors(r) \/ RenewErrors(r) \/ Crash(r)

Next ==
    \/ \E r \in Runs : StartAcquire(r) \/ Acquire(r) \/ Hold(r) \/ Fail(r)
    \/ Tick

Spec == Init /\ [][Next]_lockVars

(* Calls return and time passes.  Starting a run, and everything that      *)
(* fails, is up to the environment; so is how long a holder works.         *)
Fairness ==
    /\ \A r \in Runs : WF_lockVars(Acquire(r))
    /\ \A r \in Runs : WF_lockVars(EndWork(r) \/ RenewSucceeds(r) \/ RenewLost(r) \/ Release(r))
    /\ WF_lockVars(Tick)

FairSpec == Spec /\ Fairness

-----------------------------------------------------------------------------
(* The condition under which the lease fences the writes that follow it:   *)
(* the call that stamped it, the time until the next renewal check, one    *)
(* batch and the clock difference fit into one lease (100 + 100 + 100      *)
(* seconds of 300 with equal clocks).                                      *)
Timely == 2 * MaxStep + RenewAfter + MaxSkew <= Lease

(* No two runs have a batch of writes under way at the same time           *)
(* (docs/UNKNOWNS.md U165: the apply lock lets one run write at a time).   *)
OneWriterAtATime ==
    \A r, s \in Runs : phase[r] = "working" /\ phase[s] = "working" => r = s

(* A lock document whose lease has not passed on any clock is changed or   *)
(* deleted only by the run that owns that version of it: its own renewal   *)
(* or release (If-Match in renewIfNeeded and release).                     *)
OwnerTouches(r) ==
    /\ etag[r] = lock.etag
    /\ phase[r] \in {"renewing", "releasing"}
    /\ phase'[r] # phase[r]

OthersNeverTouchLiveLock ==
    [][(lock' # lock /\ lock.etag # 0 /\ lock.expires > clock + MaxSkew)
          => \E r \in Runs : OwnerTouches(r)]_lockVars

(* acquireApplyLock returns or throws: whoever crashed while holding the   *)
(* lock, a waiting run gets it or gives up (line 35-41).                   *)
AcquireEnds ==
    \A r \in Runs : phase[r] \in Acquiring ~> phase[r] \notin Acquiring

(* The lock as the serial tenures it promises.                             *)
tenureOf == [r \in Runs |->
    IF lock.holder = r THEN "in"
    ELSE IF phase[r] \in Acquiring \cup {"idle"} THEN "new" ELSE "out"]
writingNow == {r \in Runs : phase[r] = "working"}

Serial == INSTANCE SerialApplies WITH tenure <- tenureOf, writing <- writingNow

(* The lease lock implements SerialApplies: tenures never overlap and no   *)
(* takeover happens in the middle of another run's batch.                  *)
ImplementsSerial == Serial!Spec
=============================================================================
