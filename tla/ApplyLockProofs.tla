-------------------------- MODULE ApplyLockProofs --------------------------
(***************************************************************************)
(* Proofs about ApplyLock for every set of runs and every timing: the type *)
(* invariant, and, when the timing is Timely, one writer at a time.        *)
(***************************************************************************)
EXTENDS ApplyLock, TLAPS

(* The inductive invariant, one run at a time.                              *)
(* The version r's ETag names is r's; r has an ETag as long as it has a     *)
(* lock object, and holds nothing before.                                   *)
Owned(r) ==
    /\ lock.etag # 0 /\ etag[r] = lock.etag => lock.holder = r
    /\ phase[r] \in Inside \cup {"releasing"} => etag[r] # 0
    /\ phase[r] \in Acquiring \cup {"idle"} => lock.holder # r

(* No call is unanswered for longer than MaxStep. *)
Answered(r) ==
    phase[r] \in Timed => sentAt[r] <= clock /\ clock <= sentAt[r] + MaxStep

(* What r read about the version it is going to replace is true of that     *)
(* version, and its lease has passed on r's clock.                          *)
SeenTrue(r) ==
    seen[r].etag # 0 =>
        /\ lock.etag = seen[r].etag => lock.expires = seen[r].expires
        /\ phase[r] = "replacing" => seen[r].expires <= clock + Skew[r]

(* The lease of a version r holds was stamped at most MaxStep before r's    *)
(* lastRenewedAt.                                                           *)
LongLease(r) ==
    phase[r] \in Inside /\ lock.etag = etag[r] =>
        renewedAt[r] + Lease <= lock.expires + MaxStep

(* Until RenewAfter + MaxStep after its last renewal a holder owns the      *)
(* lock document.  One writer at a time is not inductive without it: only   *)
(* it says that a run which skips a renewal still has the lock.             *)
YoungOwns(r) ==
    phase[r] \in Inside /\ clock < renewedAt[r] + RenewAfter + MaxStep
        => lock.etag = etag[r]

(* A batch was sent less than RenewAfter after the last renewal. *)
WorkYoung(r) ==
    phase[r] = "working" => sentAt[r] < renewedAt[r] + RenewAfter

RunInv(r) ==
    Owned(r) /\ Answered(r) /\ SeenTrue(r) /\ LongLease(r) /\ YoungOwns(r) /\ WorkYoung(r)

AbsentLock == lock.etag = 0 => lock = NoLock

LockInv == LockTypeOK /\ AbsentLock /\ \A r \in Runs : RunInv(r)

-----------------------------------------------------------------------------
LEMMA NewEtagIsFresh ==
    ASSUME \E e \in Etags : e \notin EtagsInUse
    PROVE  /\ NewEtag \in Etags
           /\ NewEtag # 0
           /\ NewEtag # lock.etag
           /\ \A r \in Runs : NewEtag # etag[r] /\ NewEtag # seen[r].etag
  <1>1. NewEtag \in Etags /\ NewEtag \notin EtagsInUse
    BY DEF NewEtag
  <1>2. QED
    BY <1>1, LockConstants DEF EtagsInUse

(* The type invariant of ApplyLock. *)
THEOREM LockTypeCorrect == Spec => []LockTypeOK
  <1>1. Init => LockTypeOK
    BY DEF Init, LockTypeOK, NoLock, NothingSeen, Phases
  <1>2. LockTypeOK /\ [Next]_lockVars => LockTypeOK'
    <2> SUFFICES ASSUME LockTypeOK, [Next]_lockVars PROVE LockTypeOK'
      OBVIOUS
    <2> USE LockConstants DEF LockTypeOK, Phases, Acquiring, Inside, Ended, NothingSeen, NoLock
    <2>1. CASE UNCHANGED lockVars
      BY <2>1 DEF lockVars
    <2>2. CASE Tick
      BY <2>2 DEF Tick
    <2>3. ASSUME NEW r \in Runs, StartAcquire(r) PROVE LockTypeOK'
      BY <2>3 DEF StartAcquire, Send, Goto
    <2>4. ASSUME NEW r \in Runs, Acquire(r) PROVE LockTypeOK'
      <3>1. CASE CreateSucceeds(r) \/ ReplaceSucceeds(r)
        <4>1. HoldLock(r) /\ EnterHeld(r) /\ UNCHANGED clock
          BY <3>1 DEF CreateSucceeds, ReplaceSucceeds
        <4>2. NewEtag \in Etags
          BY <4>1, NewEtagIsFresh DEF HoldLock, StoreLock
        <4>3. LockDocument(r) \in [holder : Runs \cup {NoRun}, expires : Nat, etag : Etags \cup {0}]
          BY <4>2 DEF LockDocument
        <4>4. QED
          BY <4>1, <4>2, <4>3 DEF HoldLock, StoreLock, EnterHeld, Goto
      <3>2. CASE CreateConflicts(r) \/ DecideTakeOver(r) \/ Wake(r)
        <4>1. PICK p \in Phases : Send(r, p)
          BY <3>2 DEF CreateConflicts, DecideTakeOver, Wake
        <4>2. UNCHANGED <<clock, lock, etag, renewedAt, started, seen>>
          BY <3>2 DEF CreateConflicts, DecideTakeOver, Wake
        <4>3. QED
          BY <4>1, <4>2 DEF Send, Goto
      <3>3. CASE ReadLock(r)
        BY <3>3 DEF ReadLock, Goto
      <3>4. CASE DecideWait(r) \/ ReplaceRefused(r)
        <4>1. SleepOrGiveUp(r)
          BY <3>4 DEF DecideWait, ReplaceRefused
        <4>2. UNCHANGED <<clock, lock>>
          BY <4>1 DEF SleepOrGiveUp
        <4>3. CASE Exit(r, "timedout")
          BY <4>2, <4>3 DEF Exit, Goto
        <4>4. CASE Send(r, "sleeping") /\ seen' = [seen EXCEPT ![r] = NothingSeen]
                     /\ UNCHANGED <<etag, renewedAt, started>>
          BY <4>2, <4>4 DEF Send, Goto
        <4>5. QED
          BY <4>1, <4>3, <4>4 DEF SleepOrGiveUp
      <3>5. QED
        BY <2>4, <3>1, <3>2, <3>3, <3>4 DEF Acquire
    <2>5. ASSUME NEW r \in Runs, Hold(r) PROVE LockTypeOK'
      <3>1. CASE BeginWork(r) \/ (\E force \in BOOLEAN : SendRenew(r, force))
                  \/ RenewLost(r) \/ SendRelease(r)
        <4>1. PICK p \in Phases : Send(r, p)
          BY <3>1 DEF BeginWork, SendRenew, RenewLost, SendRelease
        <4>2. UNCHANGED <<clock, lock, etag, renewedAt, started, seen>>
          BY <3>1 DEF BeginWork, SendRenew, RenewLost, SendRelease
        <4>3. QED
          BY <4>1, <4>2 DEF Send, Goto
      <3>2. CASE EndWork(r)
        BY <3>2 DEF EndWork, EnterHeld, Goto
      <3>3. CASE RenewSucceeds(r)
        <4>1. NewEtag \in Etags
          BY <3>3, NewEtagIsFresh DEF RenewSucceeds, HoldLock, StoreLock
        <4>2. LockDocument(r) \in [holder : Runs \cup {NoRun}, expires : Nat, etag : Etags \cup {0}]
          BY <4>1 DEF LockDocument
        <4>3. HoldLock(r) /\ UNCHANGED clock
          BY <3>3 DEF RenewSucceeds
        <4>4. CASE Send(r, "working") /\ UNCHANGED <<started, seen>>
          BY <4>1, <4>2, <4>3, <4>4 DEF HoldLock, StoreLock, Send, Goto
        <4>5. CASE EnterHeld(r)
          BY <4>1, <4>2, <4>3, <4>5 DEF HoldLock, StoreLock, EnterHeld, Goto
        <4>6. QED
          BY <3>3, <4>4, <4>5 DEF RenewSucceeds
      <3>4. CASE Release(r)
        BY <3>4 DEF Release, Exit, Goto
      <3>5. QED
        BY <2>5, <3>1, <3>2, <3>3, <3>4 DEF Hold
    <2>6. ASSUME NEW r \in Runs, Fail(r) PROVE LockTypeOK'
      <3>1. StoreLock(r) => lock' \in [holder : Runs \cup {NoRun}, expires : Nat, etag : Etags \cup {0}]
        <4>1. ASSUME StoreLock(r) PROVE NewEtag \in Etags
          BY <4>1, NewEtagIsFresh DEF StoreLock
        <4>2. QED
          BY <4>1 DEF StoreLock, LockDocument
      <3>2. CASE AcquireErrors(r)
        BY <3>1, <3>2 DEF AcquireErrors, Exit, Goto
      <3>3. CASE RenewErrors(r)
        BY <3>1, <3>3 DEF RenewErrors, Send, Goto
      <3>4. CASE Crash(r)
        BY <3>4 DEF Crash, Exit, Goto
      <3>5. QED
        BY <2>6, <3>2, <3>3, <3>4 DEF Fail
    <2>7. QED
      BY <2>1, <2>2, <2>3, <2>4, <2>5, <2>6 DEF Next
  <1>3. QED
    BY <1>1, <1>2, PTL DEF Spec

-----------------------------------------------------------------------------
(* Steps of other runs that leave the lock document alone. *)
SameRun(s) ==
    /\ phase'[s] = phase[s] /\ etag'[s] = etag[s] /\ renewedAt'[s] = renewedAt[s]
    /\ sentAt'[s] = sentAt[s] /\ seen'[s] = seen[s]

LEMMA OthersStep ==
    ASSUME NEW s \in Runs, RunInv(s), SameRun(s), UNCHANGED <<clock, lock>>
    PROVE  RunInv(s)'
  BY DEF RunInv, Owned, Answered, SeenTrue, LongLease, YoungOwns, WorkYoung, SameRun

(* r may write a new version over what is there: nothing, its own version,  *)
(* or a version whose lease it found passed.                                *)
MayStore(r) ==
    \/ lock.etag = 0
    \/ lock.etag # 0 /\ lock.etag = etag[r]
    \/ phase[r] = "replacing" /\ lock.etag # 0 /\ lock.etag = seen[r].etag

LEMMA OthersStore ==
    ASSUME Timely, LockInv, NEW r \in Runs, NEW s \in Runs, r # s,
           MayStore(r), StoreLock(r), UNCHANGED clock, SameRun(s)
    PROVE  RunInv(s)'
  <1>1. /\ lock'.etag \in Etags /\ lock'.etag # 0 /\ lock'.etag # etag[s]
        /\ lock'.etag # seen[s].etag /\ lock'.holder = r
    BY NewEtagIsFresh DEF StoreLock, LockDocument
  <1>2. RunInv(r) /\ RunInv(s) /\ LockTypeOK
    BY DEF LockInv
  <1>3. ~(phase[s] \in Inside /\ clock < renewedAt[s] + RenewAfter + MaxStep)
    <2> SUFFICES ASSUME phase[s] \in Inside, clock < renewedAt[s] + RenewAfter + MaxStep
                 PROVE FALSE
      OBVIOUS
    <2>1. lock.etag = etag[s] /\ etag[s] # 0
      BY <1>2 DEF RunInv, YoungOwns, Owned
    <2>2. lock.holder = s
      BY <1>2, <2>1 DEF RunInv, Owned
    <2>3. CASE lock.etag = etag[r]
      BY <1>2, <2>1, <2>2, <2>3 DEF RunInv, Owned
    <2>4. CASE phase[r] = "replacing" /\ lock.etag = seen[r].etag
      <3>1. lock.expires <= clock + Skew[r]
        BY <1>2, <2>1, <2>4 DEF RunInv, SeenTrue
      <3>2. renewedAt[s] + Lease <= lock.expires + MaxStep
        BY <1>2, <2>1 DEF RunInv, LongLease
      <3>3. QED
        BY <1>2, <3>1, <3>2, LockConstants DEF LockTypeOK, Timely
    <2>5. QED
      BY <2>1, <2>3, <2>4 DEF MayStore
  <1>4. Owned(s)'
    BY <1>1, <1>2 DEF Owned, SameRun, RunInv
  <1>5. Answered(s)' /\ WorkYoung(s)'
    BY <1>2 DEF Answered, WorkYoung, SameRun, RunInv
  <1>6. SeenTrue(s)'
    BY <1>1, <1>2 DEF SeenTrue, SameRun, RunInv
  <1>7. LongLease(s)' /\ YoungOwns(s)'
    BY <1>1, <1>3 DEF LongLease, YoungOwns, SameRun
  <1>8. QED
    BY <1>4, <1>5, <1>6, <1>7 DEF RunInv

(* r itself, once its create, takeover or renewal came back. *)
LEMMA HolderStore ==
    ASSUME LockInv, NEW r \in Runs, phase[r] \in {"creating", "replacing", "renewing"},
           HoldLock(r), UNCHANGED clock,
           EnterHeld(r) \/ (Send(r, "working") /\ UNCHANGED seen)
    PROVE  RunInv(r)'
  <1>1. LockTypeOK /\ RunInv(r)
    BY DEF LockInv
  <1>2. NewEtag \in Etags /\ NewEtag # 0 /\ NewEtag # seen[r].etag
    BY NewEtagIsFresh DEF HoldLock, StoreLock
  <1>3. /\ lock'.etag = NewEtag /\ etag'[r] = NewEtag /\ lock'.holder = r
        /\ renewedAt'[r] = clock /\ lock'.expires = sentAt[r] + Skew[r] + Lease
    BY <1>1 DEF HoldLock, StoreLock, LockDocument, LockTypeOK
  <1>4. clock <= sentAt[r] + MaxStep
    BY <1>1 DEF RunInv, Answered, Timed, Acquiring, Inside
  <1>5. /\ phase'[r] \in {"held", "working"} /\ seen'[r].etag # NewEtag
        /\ phase'[r] = "working" => sentAt'[r] = clock
    BY <1>1, <1>2 DEF EnterHeld, Send, Goto, NothingSeen, LockTypeOK
  <1>6. QED
    BY <1>1, <1>2, <1>3, <1>4, <1>5, LockConstants
    DEF RunInv, Owned, Answered, SeenTrue, LongLease, YoungOwns, WorkYoung,
        LockTypeOK, Acquiring, Inside, Timed

(* r ends, or leaves its call to be answered, holding nothing more. *)
LEMMA ExitStep ==
    ASSUME LockInv, NEW r \in Runs, NEW p \in Ended, Exit(r, p),
           lock' = lock \/ lock' = NoLock \/ StoreLock(r)
    PROVE  RunInv(r)'
  <1>1. /\ phase'[r] = p /\ etag'[r] = 0 /\ seen'[r] = NothingSeen
    BY DEF Exit, Goto, LockInv, LockTypeOK
  <1>2. QED
    BY <1>1 DEF RunInv, Owned, Answered, SeenTrue, LongLease, YoungOwns, WorkYoung,
                Ended, Acquiring, Inside, Timed, NothingSeen

(* The invariant of the lease protocol, for every set of runs. *)
THEOREM LockInvariant == ASSUME Timely PROVE Spec => []LockInv
  <1>1. Init => LockInv
    BY LockConstants DEF Init, LockInv, LockTypeOK, AbsentLock, RunInv, Owned, Answered, SeenTrue,
       LongLease, YoungOwns, WorkYoung, NoLock, NothingSeen, Phases, Acquiring, Inside, Timed, Ended
  <1>2. LockInv /\ LockTypeOK' /\ [Next]_lockVars => LockInv'
    <2> SUFFICES ASSUME LockInv, LockTypeOK', [Next]_lockVars PROVE LockInv'
      OBVIOUS
    <2> USE DEF LockInv
    <2>1. CASE UNCHANGED lockVars
      BY <2>1 DEF lockVars, AbsentLock, LockTypeOK, RunInv, Owned, Answered, SeenTrue,
         LongLease, YoungOwns, WorkYoung
    <2>2. CASE Tick
      <3>1. ASSUME NEW s \in Runs PROVE RunInv(s)'
        BY <2>2, <3>1, LockConstants DEF Tick, LockTypeOK, RunInv, Owned, Answered, SeenTrue,
           LongLease, YoungOwns, WorkYoung
      <3>2. QED
        BY <2>2, <3>1 DEF Tick, AbsentLock
    <2>3. ASSUME NEW r \in Runs, StartAcquire(r) PROVE LockInv'
      <3>1. ASSUME NEW s \in Runs, s # r PROVE RunInv(s)'
        BY <2>3, <3>1, OthersStep DEF StartAcquire, Send, Goto, SameRun, LockTypeOK
      <3>2. RunInv(r)'
        BY <2>3, LockConstants DEF StartAcquire, Send, Goto, LockTypeOK, RunInv, Owned, Answered,
           SeenTrue, LongLease, YoungOwns, WorkYoung, Acquiring, Inside, Timed
      <3>3. QED
        BY <2>3, <3>1, <3>2 DEF StartAcquire, AbsentLock
    <2>4. ASSUME NEW r \in Runs, CreateSucceeds(r) \/ ReplaceSucceeds(r) \/ RenewSucceeds(r)
          PROVE LockInv'
      <3>1. HoldLock(r) /\ UNCHANGED clock /\ MayStore(r)
        BY <2>4 DEF CreateSucceeds, ReplaceSucceeds, RenewSucceeds, MayStore
      <3>2. EnterHeld(r) \/ (Send(r, "working") /\ UNCHANGED <<started, seen>>)
        BY <2>4 DEF CreateSucceeds, ReplaceSucceeds, RenewSucceeds
      <3>3. ASSUME NEW s \in Runs, s # r PROVE RunInv(s)'
        <4>1. SameRun(s)
          BY <3>1, <3>2, <3>3 DEF HoldLock, EnterHeld, Send, Goto, SameRun, LockTypeOK
        <4>2. QED
          BY <3>1, <3>3, <4>1, OthersStore DEF HoldLock
      <3>4. RunInv(r)'
        BY <2>4, <3>1, <3>2, HolderStore DEF CreateSucceeds, ReplaceSucceeds, RenewSucceeds
      <3>5. AbsentLock'
        BY <3>1, NewEtagIsFresh DEF HoldLock, StoreLock, LockDocument, AbsentLock
      <3>6. QED
        BY <3>3, <3>4, <3>5
    <2>5. ASSUME NEW r \in Runs, NEW p \in Phases \ {"replacing"}, Send(r, p),
                 UNCHANGED <<clock, lock, etag, renewedAt, started>>,
                 seen' = seen \/ seen' = [seen EXCEPT ![r] = NothingSeen],
                 \/ phase[r] \in Acquiring /\ p \in Acquiring
                 \/ phase[r] \in Inside /\ p \in {"releasing", "renewing"}
                 \/ phase[r] \in Inside /\ p = "working" /\ clock < renewedAt[r] + RenewAfter
          PROVE LockInv'
      <3>1. ASSUME NEW s \in Runs, s # r PROVE RunInv(s)'
        BY <2>5, <3>1, OthersStep DEF Send, Goto, SameRun, LockTypeOK
      <3>2. RunInv(r)'
        BY <2>5, LockConstants DEF Send, Goto, LockTypeOK, RunInv, Owned, Answered,
           SeenTrue, LongLease, YoungOwns, WorkYoung, Acquiring, Inside, Timed, NothingSeen
      <3>3. QED
        BY <2>5, <3>1, <3>2 DEF AbsentLock
    <2>6. ASSUME NEW r \in Runs, CreateConflicts(r) \/ Wake(r) \/ BeginWork(r)
                   \/ (\E force \in BOOLEAN : SendRenew(r, force)) \/ RenewLost(r) \/ SendRelease(r)
          PROVE LockInv'
      BY <2>5, <2>6, LockConstants DEF CreateConflicts, Wake, BeginWork, SendRenew, RenewLost,
         SendRelease, LockTypeOK, Phases, Acquiring, Inside
    <2>7. ASSUME NEW r \in Runs, ReadLock(r) PROVE LockInv'
      <3>1. ASSUME NEW s \in Runs, s # r PROVE RunInv(s)'
        BY <2>7, <3>1, OthersStep DEF ReadLock, Goto, SameRun, LockTypeOK
      <3>2. RunInv(r)'
        BY <2>7 DEF ReadLock, Goto, LockTypeOK, RunInv, Owned, Answered,
           SeenTrue, LongLease, YoungOwns, WorkYoung, Acquiring, Inside, Timed
      <3>3. QED
        BY <2>7, <3>1, <3>2 DEF ReadLock, AbsentLock
    <2>8. ASSUME NEW r \in Runs, DecideTakeOver(r) PROVE LockInv'
      <3>1. ASSUME NEW s \in Runs, s # r PROVE RunInv(s)'
        BY <2>8, <3>1, OthersStep DEF DecideTakeOver, Send, Goto, SameRun, LockTypeOK
      <3>2. RunInv(r)'
        BY <2>8, LockConstants DEF DecideTakeOver, IsExpired, Now, Send, Goto, LockTypeOK, RunInv, Owned,
           Answered, SeenTrue, LongLease, YoungOwns, WorkYoung, Acquiring, Inside, Timed
      <3>3. QED
        BY <2>8, <3>1, <3>2 DEF DecideTakeOver, AbsentLock
    <2>9. ASSUME NEW r \in Runs, NEW p \in Ended, Exit(r, p), UNCHANGED <<clock, lock>>
          PROVE LockInv'
      <3>1. ASSUME NEW s \in Runs, s # r PROVE RunInv(s)'
        BY <2>9, <3>1, OthersStep DEF Exit, Goto, SameRun, LockTypeOK
      <3>2. QED
        BY <2>9, <3>1, ExitStep DEF AbsentLock
    <2>10. ASSUME NEW r \in Runs, DecideWait(r) \/ ReplaceRefused(r) PROVE LockInv'
      <3>1. SleepOrGiveUp(r) /\ phase[r] \in Acquiring
        BY <2>10 DEF DecideWait, ReplaceRefused, Acquiring
      <3>2. CASE Exit(r, "timedout")
        BY <2>9, <3>1, <3>2 DEF SleepOrGiveUp, Ended
      <3>3. CASE Send(r, "sleeping") /\ seen' = [seen EXCEPT ![r] = NothingSeen]
                   /\ UNCHANGED <<etag, renewedAt, started>>
        BY <2>5, <3>1, <3>3 DEF SleepOrGiveUp, Phases, Acquiring
      <3>4. QED
        BY <3>1, <3>2, <3>3 DEF SleepOrGiveUp
    <2>11. ASSUME NEW r \in Runs, EndWork(r) PROVE LockInv'
      <3>1. ASSUME NEW s \in Runs, s # r PROVE RunInv(s)'
        BY <2>11, <3>1, OthersStep DEF EndWork, EnterHeld, Goto, SameRun, LockTypeOK
      <3>2. RunInv(r)'
        BY <2>11 DEF EndWork, EnterHeld, Goto, LockTypeOK, RunInv, Owned, Answered, NothingSeen,
           SeenTrue, LongLease, YoungOwns, WorkYoung, Acquiring, Inside, Timed
      <3>3. QED
        BY <2>11, <3>1, <3>2 DEF EndWork, AbsentLock
    <2>12. ASSUME NEW r \in Runs, Release(r) PROVE LockInv'
      <3>1. Exit(r, "done") /\ UNCHANGED clock /\ phase[r] = "releasing"
        BY <2>12 DEF Release
      <3>2. CASE lock.etag # etag[r]
        BY <2>9, <2>12, <3>1, <3>2 DEF Release, Ended
      <3>3. CASE lock.etag = etag[r]
        <4>1. lock' = NoLock
          BY <2>12, <3>3 DEF Release
        <4>2. ASSUME NEW s \in Runs, s # r PROVE RunInv(s)'
          <5>1. SameRun(s) /\ RunInv(s) /\ RunInv(r)
            BY <3>1, <4>2 DEF Exit, Goto, SameRun, LockTypeOK
          <5>2. lock.etag # etag[s] \/ phase[s] \notin Inside
            BY <3>1, <3>3, <4>2, <5>1 DEF RunInv, Owned
          <5>3. QED
            BY <3>1, <4>1, <5>1, <5>2, LockConstants DEF SameRun, RunInv, Owned, Answered, SeenTrue,
               LongLease, YoungOwns, WorkYoung, NoLock
        <4>3. RunInv(r)'
          BY <3>1, <4>1, ExitStep DEF Ended
        <4>4. QED
          BY <4>1, <4>2, <4>3 DEF AbsentLock
      <3>4. QED
        BY <3>2, <3>3
    <2>13. ASSUME NEW r \in Runs, AcquireErrors(r) \/ Crash(r) PROVE LockInv'
      <3>1. Exit(r, "done") /\ UNCHANGED clock
        BY <2>13 DEF AcquireErrors, Crash
      <3>2. CASE UNCHANGED lock
        BY <2>9, <3>1, <3>2 DEF Ended
      <3>3. CASE StoreLock(r) /\ MayStore(r)
        <4>1. ASSUME NEW s \in Runs, s # r PROVE RunInv(s)'
          BY <3>1, <3>3, <4>1, OthersStore DEF Exit, Goto, SameRun, LockTypeOK
        <4>2. RunInv(r)'
          BY <3>1, <3>3, ExitStep DEF Ended
        <4>3. QED
          BY <3>3, <4>1, <4>2, NewEtagIsFresh DEF StoreLock, LockDocument, AbsentLock
      <3>4. QED
        BY <2>13, <3>2, <3>3 DEF AcquireErrors, Crash, MayStore
    <2>14. ASSUME NEW r \in Runs, RenewErrors(r) PROVE LockInv'
      <3>1. CASE UNCHANGED lock
        BY <2>5, <2>14, <3>1 DEF RenewErrors, Phases, Inside
      <3>2. CASE lock.etag # 0 /\ lock.etag = etag[r] /\ StoreLock(r)
        <4>1. ASSUME NEW s \in Runs, s # r PROVE RunInv(s)'
          BY <2>14, <3>2, <4>1, OthersStore DEF RenewErrors, MayStore, Send, Goto, SameRun, LockTypeOK
        <4>2. RunInv(r)'
          BY <2>14, <3>2, NewEtagIsFresh, LockConstants DEF RenewErrors, StoreLock, LockDocument, Send, Goto,
             LockTypeOK, RunInv, Owned, Answered, SeenTrue, LongLease, YoungOwns, WorkYoung,
             Acquiring, Inside, Timed
        <4>3. QED
          BY <3>2, <4>1, <4>2, NewEtagIsFresh DEF StoreLock, LockDocument, AbsentLock
      <3>3. QED
        BY <2>14, <3>1, <3>2 DEF RenewErrors
    <2>15. QED
      BY <2>1, <2>2, <2>3, <2>4, <2>6, <2>7, <2>8, <2>10, <2>11, <2>12, <2>13, <2>14
      DEF Next, Acquire, Hold, Fail
  <1>3. QED
    BY <1>1, <1>2, LockTypeCorrect, PTL DEF Spec

(* Whoever is writing still owns the lock document, by its ETag. *)
LEMMA WorkerOwns ==
    ASSUME LockInv, NEW r \in Runs, phase[r] = "working"
    PROVE  lock.etag # 0 /\ lock.etag = etag[r] /\ lock.holder = r
  <1>1. RunInv(r) /\ LockTypeOK
    BY DEF LockInv
  <1>2. clock < renewedAt[r] + RenewAfter + MaxStep
    BY <1>1, LockConstants DEF RunInv, Answered, WorkYoung, Timed, Inside, LockTypeOK
  <1>3. QED
    BY <1>1, <1>2 DEF RunInv, YoungOwns, Owned, Inside

(* One writer at a time, for every set of runs, provided calls and batches  *)
(* are short enough for the lease.                                          *)
THEOREM OneWriter == ASSUME Timely PROVE Spec => []OneWriterAtATime
  <1>1. LockInv => OneWriterAtATime
    BY WorkerOwns DEF OneWriterAtATime
  <1>2. QED
    BY <1>1, LockInvariant, PTL

-----------------------------------------------------------------------------
(* Every takeover found the lease passed on a clock at most MaxSkew ahead, *)
(* and every other change of a lock document names the ETag of its owner.  *)
THEOREM LiveLockIsLeftAlone == ASSUME Timely PROVE Spec => OthersNeverTouchLiveLock
  <1>1. ASSUME LockInv, [Next]_lockVars, lock' # lock, lock.etag # 0, lock.expires > clock + MaxSkew
        PROVE  \E r \in Runs : OwnerTouches(r)
    <2> USE <1>1
    <2>1. PICK r \in Runs : StartAcquire(r) \/ Acquire(r) \/ Hold(r) \/ Fail(r)
      BY DEF Next, Tick, lockVars
    <2>2. ~(phase[r] = "replacing" /\ lock.etag = seen[r].etag)
      <3>1. RunInv(r) /\ LockTypeOK
        BY DEF LockInv
      <3>2. QED
        BY <3>1, LockConstants DEF RunInv, SeenTrue, LockTypeOK
    <2>3. RenewSucceeds(r) \/ RenewErrors(r) \/ Release(r)
      BY <2>1, <2>2 DEF StartAcquire, Acquire, Hold, Fail, CreateSucceeds, CreateConflicts, ReadLock,
         DecideTakeOver, DecideWait, SleepOrGiveUp, ReplaceSucceeds, ReplaceRefused, Wake,
         BeginWork, EndWork, SendRenew, RenewLost, SendRelease, AcquireErrors, Crash
    <2>4. OwnerTouches(r)
      <3>1. LockTypeOK
        BY DEF LockInv
      <3>2. QED
        BY <2>3, <3>1 DEF RenewSucceeds, RenewErrors, Release, OwnerTouches, EnterHeld, Send, Goto,
           Exit, LockTypeOK
    <2>5. QED
      BY <2>4
  <1>2. LockInv /\ [Next]_lockVars =>
            [(lock' # lock /\ lock.etag # 0 /\ lock.expires > clock + MaxSkew)
                => \E r \in Runs : OwnerTouches(r)]_lockVars
    BY <1>1
  <1>3. QED
    BY <1>2, LockInvariant, PTL DEF Spec, OthersNeverTouchLiveLock

-----------------------------------------------------------------------------
(* ApplyLock implements SerialApplies, for every set of runs and every     *)
(* timing that is Timely.  The lemmas say which step of SerialApplies a    *)
(* step of one run is, by what it does to the holder and to r's phase.     *)


Before == Acquiring \cup {"idle"}

(* Only r moves, and it is not in the middle of a batch afterwards unless   *)
(* it was before.                                                           *)
OthersStay(r) == \A s \in Runs \ {r} : phase'[s] = phase[s]
SameHolder == lock'.holder = lock.holder

(* r goes on without getting in, out, or to either end of a batch. *)
LEMMA StutterStep ==
    ASSUME NEW r \in Runs, OthersStay(r), SameHolder,
           phase[r] = "working" <=> phase'[r] = "working",
           lock.holder = r \/ (phase[r] \in Before <=> phase'[r] \in Before)
    PROVE  UNCHANGED <<tenureOf, writingNow>>
  BY DEF tenureOf, writingNow, OthersStay, SameHolder, Before

LEMMA BeginStep ==
    ASSUME NEW r \in Runs, OthersStay(r), SameHolder,
           lock.holder = r, phase[r] # "working", phase'[r] = "working"
    PROVE  Serial!BeginWrite(r)
  BY DEF Serial!BeginWrite, tenureOf, writingNow, OthersStay, SameHolder

LEMMA EndStep ==
    ASSUME NEW r \in Runs, OthersStay(r), SameHolder,
           phase[r] = "working", phase'[r] # "working", phase'[r] \notin Before
    PROVE  Serial!EndWrite(r)
  BY DEF Serial!EndWrite, tenureOf, writingNow, OthersStay, SameHolder, Before, Acquiring

(* r gives up before it had the lock, or deletes its lock document. *)
LEMMA LeaveStep ==
    ASSUME LockTypeOK, NEW r \in Runs, OthersStay(r),
           phase[r] # "working", phase'[r] # "working", phase'[r] \notin Before,
           \/ phase[r] \in Before /\ lock.holder # r /\ SameHolder
           \/ lock.holder = r /\ lock'.holder = NoRun
    PROVE  Serial!Leave(r)
  <1>1. tenureOf[r] # "out" /\ r \notin writingNow
    BY DEF tenureOf, writingNow, Before
  <1>2. writingNow' = writingNow
    BY DEF writingNow, OthersStay
  <1>3. tenureOf' = [tenureOf EXCEPT ![r] = "out"]
    <2>1. \A s \in Runs : lock'.holder = s <=> s # r /\ lock.holder = s
      BY LockConstants DEF SameHolder
    <2>2. QED
      BY <2>1 DEF tenureOf, OthersStay, Before
  <1>4. QED
    BY <1>1, <1>2, <1>3 DEF Serial!Leave

(* r's create or takeover takes effect, whether the answer comes back or   *)
(* not.  Here Timely matters: the owner it replaces is not writing.        *)
LEMMA EnterStep ==
    ASSUME Timely, LockInv, NEW r \in Runs, OthersStay(r),
           phase[r] \in Before, phase'[r] # "working", lock'.holder = r,
           \/ lock.etag = 0
           \/ phase[r] = "replacing" /\ lock.etag = seen[r].etag
    PROVE  Serial!Enter(r)
  <1>1. LockTypeOK /\ AbsentLock /\ \A s \in Runs : RunInv(s)
    BY DEF LockInv
  <1>2. \A s \in Runs : phase[s] \in Before => lock.holder # s
    BY <1>1 DEF RunInv, Owned, Before
  <1>3. phase[r] # "working"
    BY DEF Before, Acquiring
  <1>4. ASSUME NEW s \in Runs, lock.holder = s PROVE phase[s] # "working"
    <2> SUFFICES ASSUME phase[s] = "working" PROVE FALSE
      OBVIOUS
    <2>1. lock.etag # 0 /\ lock.etag = etag[s]
      BY <1>4, WorkerOwns
    <2>2. lock.expires <= clock + Skew[r]
      BY <1>1, <2>1 DEF RunInv, SeenTrue
    <2>3. renewedAt[s] + Lease <= lock.expires + MaxStep
      BY <1>1, <2>1 DEF RunInv, LongLease, Inside
    <2>4. clock < renewedAt[s] + RenewAfter + MaxStep
      BY <1>1, LockConstants DEF RunInv, Answered, WorkYoung, Timed, Inside, LockTypeOK
    <2>5. QED
      BY <1>1, <2>2, <2>3, <2>4, LockConstants DEF LockTypeOK, Timely
  <1>5. tenureOf[r] = "new" /\ \A s \in Runs : tenureOf[s] = "in" => s \notin writingNow
    BY <1>2, <1>4 DEF tenureOf, writingNow, Before
  <1>6. writingNow' = writingNow
    BY <1>3 DEF writingNow, OthersStay
  <1>7. tenureOf' = [s \in Runs |-> IF s = r THEN "in"
                                    ELSE IF tenureOf[s] = "in" THEN "out" ELSE tenureOf[s]]
    BY <1>2 DEF tenureOf, OthersStay, Before
  <1>8. QED
    BY <1>5, <1>6, <1>7 DEF Serial!Enter

-----------------------------------------------------------------------------
LEMMA GotoStays ==
    ASSUME LockTypeOK, NEW r \in Runs, NEW p, Goto(r, p)
    PROVE  phase'[r] = p /\ OthersStay(r)
  BY DEF LockTypeOK, Goto, OthersStay

(* One step of one run is one step of SerialApplies or none. *)
LEMMA RunStep ==
    ASSUME Timely, LockInv, NEW r \in Runs, StartAcquire(r) \/ Acquire(r) \/ Hold(r) \/ Fail(r)
    PROVE  [Serial!Next]_<<tenureOf, writingNow>>
  <1>1. /\ LockTypeOK /\ AbsentLock /\ RunInv(r)
        /\ phase[r] \in Before => lock.holder # r
        /\ phase[r] \in Inside \cup {"releasing"} /\ etag[r] = lock.etag
             => lock.holder = r /\ lock.etag # 0
    BY DEF LockInv, RunInv, Owned, Before
  <1> USE <1>1 DEF Before, Acquiring, Inside, Ended
  <1>2. CASE CreateSucceeds(r) \/ ReplaceSucceeds(r)
    <2>1. phase'[r] = "held" /\ OthersStay(r) /\ lock'.holder = r
      BY <1>2, GotoStays DEF CreateSucceeds, ReplaceSucceeds, HoldLock, StoreLock, LockDocument, EnterHeld
    <2>2. Serial!Enter(r)
      BY <1>2, <2>1, EnterStep DEF CreateSucceeds, ReplaceSucceeds
    <2>3. QED
      BY <2>2 DEF Serial!Next
  <1>3. ASSUME NEW p \in {"creating", "reading", "deciding", "replacing", "sleeping"},
               phase[r] \in Before, Goto(r, p), UNCHANGED lock
        PROVE  [Serial!Next]_<<tenureOf, writingNow>>
    BY <1>3, GotoStays, StutterStep DEF SameHolder
  <1>4. CASE StartAcquire(r) \/ CreateConflicts(r) \/ ReadLock(r) \/ DecideTakeOver(r) \/ Wake(r)
    BY <1>3, <1>4 DEF StartAcquire, CreateConflicts, ReadLock, DecideTakeOver, Wake, Send
  <1>5. ASSUME NEW p \in Ended, phase[r] \in Before, Goto(r, p), UNCHANGED lock
        PROVE  [Serial!Next]_<<tenureOf, writingNow>>
    BY <1>5, GotoStays, LeaveStep DEF SameHolder, Serial!Next
  <1>6. CASE DecideWait(r) \/ ReplaceRefused(r)
    BY <1>3, <1>5, <1>6 DEF DecideWait, ReplaceRefused, SleepOrGiveUp, Exit, Send
  <1>7. CASE AcquireErrors(r)
    <2>1. CASE UNCHANGED lock
      BY <1>5, <1>7, <2>1 DEF AcquireErrors, Exit
    <2>2. CASE StoreLock(r) /\ (lock.etag = 0 \/ (phase[r] = "replacing" /\ lock.etag = seen[r].etag))
      <3>1. phase'[r] = "done" /\ OthersStay(r) /\ lock'.holder = r /\ phase[r] \in Before
        BY <1>7, <2>2, GotoStays DEF AcquireErrors, Exit, StoreLock, LockDocument
      <3>2. Serial!Enter(r)
        BY <2>2, <3>1, EnterStep
      <3>3. QED
        BY <3>2 DEF Serial!Next
    <2>3. QED
      BY <1>7, <2>1, <2>2 DEF AcquireErrors
  <1>8. CASE BeginWork(r)
    <2>1. lock.holder = r
      <3>1. clock < renewedAt[r] + RenewAfter + MaxStep
        BY <1>8, LockConstants DEF BeginWork, LockTypeOK
      <3>2. QED
        BY <1>8, <3>1 DEF BeginWork, RunInv, YoungOwns
    <2>2. QED
      BY <1>8, <2>1, GotoStays, BeginStep DEF BeginWork, Send, SameHolder, Serial!Next
  <1>9. CASE EndWork(r)
    BY <1>9, GotoStays, EndStep DEF EndWork, EnterHeld, SameHolder, Serial!Next
  <1>10. CASE RenewSucceeds(r)
    <2>1. /\ phase[r] = "renewing" /\ lock.holder = r /\ SameHolder /\ OthersStay(r)
          /\ phase'[r] \in {"working", "held"}
      BY <1>10, GotoStays DEF RenewSucceeds, HoldLock, StoreLock, LockDocument, EnterHeld, Send, SameHolder
    <2>2. QED
      BY <2>1, BeginStep, StutterStep DEF Serial!Next
  <1>11. ASSUME NEW p \in {"renewing", "releasing", "done"}, phase[r] \in {"held", "renewing", "releasing"},
                Goto(r, p), SameHolder
         PROVE  [Serial!Next]_<<tenureOf, writingNow>>
    BY <1>11, GotoStays, StutterStep
  <1>12. CASE (\E force \in BOOLEAN : SendRenew(r, force)) \/ RenewLost(r) \/ SendRelease(r)
    BY <1>11, <1>12 DEF SendRenew, RenewLost, SendRelease, Send, SameHolder
  <1>13. CASE RenewErrors(r)
    BY <1>11, <1>13 DEF RenewErrors, StoreLock, LockDocument, Send, SameHolder
  <1>14. CASE Release(r)
    <2>1. CASE lock.etag = etag[r]
      <3>1. /\ phase[r] = "releasing" /\ phase'[r] = "done" /\ OthersStay(r)
            /\ lock.holder = r /\ lock'.holder = NoRun
        BY <1>14, <2>1, GotoStays DEF Release, Exit, NoLock
      <3>2. QED
        BY <3>1, LeaveStep DEF Serial!Next
    <2>2. CASE lock.etag # etag[r]
      BY <1>11, <1>14, <2>2 DEF Release, Exit, SameHolder
    <2>3. QED
      BY <2>1, <2>2
  <1>15. CASE Crash(r)
    <2>1. Goto(r, "done") /\ UNCHANGED lock
      BY <1>15 DEF Crash, Exit
    <2>2. CASE phase[r] \in Acquiring
      BY <1>5, <2>1, <2>2
    <2>3. CASE phase[r] = "working"
      BY <2>1, <2>3, GotoStays, EndStep DEF SameHolder, Serial!Next
    <2>4. CASE phase[r] \in {"held", "renewing", "releasing"}
      BY <1>11, <2>1, <2>4 DEF SameHolder
    <2>5. QED
      BY <1>15, <2>2, <2>3, <2>4 DEF Crash
  <1>16. QED
    BY <1>2, <1>4, <1>6, <1>7, <1>8, <1>9, <1>10, <1>12, <1>13, <1>14, <1>15
    DEF Acquire, Hold, Fail

(* The lease lock implements SerialApplies: tenures never overlap, and no   *)
(* takeover happens in the middle of another run's batch.                   *)
THEOREM LockImplementsSerial == ASSUME Timely PROVE Spec => ImplementsSerial
  <1>1. Init => Serial!Init
    BY LockConstants DEF Init, Serial!Init, tenureOf, writingNow, NoLock, Acquiring
  <1>2. LockInv /\ [Next]_lockVars => [Serial!Next]_<<tenureOf, writingNow>>
    <2> SUFFICES ASSUME LockInv, [Next]_lockVars PROVE [Serial!Next]_<<tenureOf, writingNow>>
      OBVIOUS
    <2>1. CASE Tick \/ UNCHANGED lockVars
      BY <2>1 DEF Tick, lockVars, tenureOf, writingNow
    <2>2. QED
      BY <2>1, RunStep DEF Next
  <1>3. QED
    BY <1>1, <1>2, LockInvariant, PTL DEF Spec, ImplementsSerial, Serial!Spec, Serial!serialVars
(* Whatever implements SerialApplies, the lease lock included: at most one *)
(* run is inside its tenure at any time and only a run inside writes, so   *)
(* no two runs of apply-projection.mjs write at the same time.             *)
THEOREM WritersAreSerial ==
    Serial!Spec => [](Serial!WritersInside /\ Serial!OneWriter)
  <1>1. Serial!Init => Serial!SerialInv
    BY DEF Serial!Init, Serial!SerialInv, Serial!SerialTypeOK, Serial!OneTenure,
           Serial!WritersInside
  <1>2. Serial!SerialInv /\ [Serial!Next]_<<tenureOf, writingNow>> => Serial!SerialInv'
    <2> SUFFICES ASSUME Serial!SerialInv, [Serial!Next]_<<tenureOf, writingNow>>
                 PROVE Serial!SerialInv'
      OBVIOUS
    <2> USE DEF Serial!SerialInv, Serial!SerialTypeOK, Serial!OneTenure, Serial!WritersInside
    <2>1. CASE UNCHANGED <<tenureOf, writingNow>>
      BY <2>1
    <2>2. ASSUME NEW r \in Runs, Serial!Enter(r) PROVE Serial!SerialInv'
      BY <2>2 DEF Serial!Enter
    <2>3. ASSUME NEW r \in Runs, Serial!BeginWrite(r) PROVE Serial!SerialInv'
      BY <2>3 DEF Serial!BeginWrite
    <2>4. ASSUME NEW r \in Runs, Serial!EndWrite(r) PROVE Serial!SerialInv'
      BY <2>4 DEF Serial!EndWrite
    <2>5. ASSUME NEW r \in Runs, Serial!Leave(r) PROVE Serial!SerialInv'
      BY <2>5 DEF Serial!Leave
    <2>6. QED
      BY <2>1, <2>2, <2>3, <2>4, <2>5 DEF Serial!Next
  <1>3. Serial!SerialInv => Serial!WritersInside /\ Serial!OneWriter
    BY DEF Serial!SerialInv, Serial!SerialTypeOK, Serial!OneTenure, Serial!WritersInside,
           Serial!OneWriter
  <1>4. QED
    BY <1>1, <1>2, <1>3, PTL DEF Serial!Spec, Serial!serialVars
=============================================================================
