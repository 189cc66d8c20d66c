------------------------ MODULE ProjectionSyncProofs ------------------------
(***************************************************************************)
(* Proofs about ProjectionSync for all sets of people and runs, all clocks *)
(* and chunk sizes: types, and that what is published is what was          *)
(* resolved.                                                               *)
(***************************************************************************)
EXTENDS ProjectionSync, TLAPS

LEMMA TierTypes ==
    ASSUME NEW u, NEW premium, NEW standard
    PROVE  TierIn(u, premium, standard) \in Entries
  BY DEF TierIn, Entries, Tiers

(* Whatever part of a batch takes effect leaves well-typed records, and no *)
(* expiresAt without a record.                                             *)
LEMMA LandTypes ==
    ASSUME SyncTypeOK, NEW r \in Runs, NEW landed \in SUBSET Users, Land(r, landed)
    PROVE  /\ records' \in [Users -> Entries]
           /\ legacy' \subseteq {u \in Users : records'[u] # "none"}
  BY DEF SyncTypeOK, Land

(* A run that ends forgets what it knew. *)
LEMMA ExitTypes ==
    ASSUME SyncTypeOK, NEW r \in Runs, Exit(r)
    PROVE  /\ stage' \in [Runs -> Stages]
           /\ scan' \in [Runs -> Nat]
           /\ premiumSeen' \in [Runs -> SUBSET Users]
           /\ view' \in [Runs -> [Users -> Entries]]
           /\ existing' \in [Runs -> [tier : [Users -> Entries], aged : SUBSET Users]]
           /\ left' \in [Runs -> SUBSET Users]
           /\ pending' \in [Runs -> SUBSET Users]
           /\ batch' \in [Runs -> SUBSET Users]
           /\ failed' \in [Runs -> BOOLEAN]
           /\ finishedAt' \in [Runs -> Nat]
  <1>1. Nobody \in [Users -> Entries]
    BY DEF Nobody, Entries
  <1>2. NothingRead \in [tier : [Users -> Entries], aged : SUBSET Users]
    BY <1>1 DEF NothingRead
  <1>3. /\ stage' \in [Runs -> Stages] /\ scan' \in [Runs -> Nat]
        /\ premiumSeen' \in [Runs -> SUBSET Users]
    BY DEF SyncTypeOK, Exit, Goto, Stages
  <1>4. view' \in [Runs -> [Users -> Entries]]
    BY <1>1 DEF SyncTypeOK, Exit
  <1>5. existing' \in [Runs -> [tier : [Users -> Entries], aged : SUBSET Users]]
    BY <1>2 DEF SyncTypeOK, Exit
  <1>6. /\ left' \in [Runs -> SUBSET Users] /\ pending' \in [Runs -> SUBSET Users]
        /\ batch' \in [Runs -> SUBSET Users]
    BY DEF SyncTypeOK, Exit
  <1>7. failed' \in [Runs -> BOOLEAN] /\ finishedAt' \in [Runs -> Nat]
    BY DEF SyncTypeOK, Exit
  <1>8. QED
    BY <1>3, <1>4, <1>5, <1>6, <1>7

LEMMA PublishTypes ==
    ASSUME SyncTypeOK, NEW r \in Runs, Publish(r)
    PROVE  /\ statuses' \subseteq [user : Users \cup {NoUser}, at : Nat]
           /\ covered' \in [Users -> Nat]
  <1>1. r \in UserRuns => Subject[r] \in Users
    BY SyncConstants
  <1>2. [user |-> IF r \in UserRuns THEN Subject[r] ELSE NoUser, at |-> finishedAt[r]]
            \in [user : Users \cup {NoUser}, at : Nat]
    BY <1>1 DEF SyncTypeOK
  <1>3. QED
    BY <1>2 DEF SyncTypeOK, Publish, Later

(* The type invariant of ProjectionSync; an expiresAt is never without its  *)
(* record.                                                                  *)
THEOREM SyncTypeCorrect == Spec => []SyncTypeOK
  <1>1. Init => SyncTypeOK
    <2> SUFFICES ASSUME Init PROVE SyncTypeOK
      OBVIOUS
    <2>1. Nobody \in [Users -> Entries]
      BY DEF Nobody, Entries
    <2>2. NothingRead \in [tier : [Users -> Entries], aged : SUBSET Users]
      BY <2>1 DEF NothingRead
    <2>3. /\ member \in [Tiers -> SUBSET Users] /\ records \in [Users -> Entries]
          /\ legacy \subseteq {u \in Users : records[u] # "none"}
      BY SyncConstants DEF Init
    <2>4. QED
      BY <2>1, <2>2, <2>3 DEF Init, SyncTypeOK, Stages, BeforeLock, Unresolved
  <1>2. SyncTypeOK /\ [Next]_syncVars => SyncTypeOK'
    <2> SUFFICES ASSUME SyncTypeOK, [Next]_syncVars PROVE SyncTypeOK'
      OBVIOUS
    <2> USE DEF SyncTypeOK, directory, store, resolving, applying
    <2>0. Nobody \in [Users -> Entries] /\ NothingRead \in [tier : [Users -> Entries], aged : SUBSET Users]
      BY DEF Nobody, NothingRead, Entries
    <2>1. CASE UNCHANGED syncVars
      BY <2>1 DEF syncVars
    <2>2. CASE Tick
      BY <2>2 DEF Tick
    <2>3. ASSUME NEW u \in Users, NEW t \in Tiers, ChangeMember(u, t) PROVE SyncTypeOK'
      <3>0. member' = [member EXCEPT ![t] = @ \cup {u}] \/ member' = [member EXCEPT ![t] = @ \ {u}]
        BY <2>3 DEF ChangeMember
      <3>1. member' \in [Tiers -> SUBSET Users]
        <4>1. PICK now \in SUBSET Users : member' = [member EXCEPT ![t] = now]
          <5>1. member[t] \cup {u} \in SUBSET Users /\ member[t] \ {u} \in SUBSET Users
            OBVIOUS
          <5>2. QED
            BY <3>0, <5>1
        <4>2. QED
          BY <4>1
      <3>2. changedAt' = [changedAt EXCEPT ![u] = clock] \/ changedAt' = changedAt
        BY <2>3 DEF ChangeMember
      <3>3. changes' \in Nat
        BY <2>3 DEF ChangeMember
      <3>4. UNCHANGED <<clock, store, owner, stage, resolving, applying>>
        BY <2>3 DEF ChangeMember
      <3>5. QED
        BY <3>1, <3>2, <3>3, <3>4
    <2>4. ASSUME NEW r \in Runs, Resolve(r) PROVE SyncTypeOK'
      <3>1. CASE BeginScan(r)
        BY <3>1 DEF BeginScan, Goto, Stages, BeforeLock, Unresolved
      <3>2. CASE ReadPremium(r)
        <4>1. member["premium"] \in SUBSET Users
          BY DEF Tiers
        <4>2. QED
          BY <3>2, <4>1 DEF ReadPremium, Goto, Stages, BeforeLock, Unresolved
      <3>3. CASE ReadStandard(r)
        <4>1. [u \in Users |-> TierIn(u, premiumSeen[r], member["standard"])] \in [Users -> Entries]
          BY TierTypes
        <4>2. QED
          BY <3>3, <4>1 DEF ReadStandard, Goto, Stages, BeforeLock, Unresolved
      <3>4. CASE CheckUser(r)
        <4>1. TierOf(Subject[r]) \in Entries
          BY TierTypes DEF TierOf
        <4>2. view' \in [Runs -> [Users -> Entries]]
          BY <3>4, <4>1 DEF CheckUser
        <4>3. QED
          BY <3>4, <4>2 DEF CheckUser, Goto, Stages, BeforeLock, Unresolved
      <3>5. CASE StartApply(r)
        BY <3>5 DEF StartApply, Goto, Stages, BeforeLock
      <3>6. CASE RefuseSnapshot(r)
        BY <3>6, ExitTypes DEF RefuseSnapshot
      <3>7. QED
        BY <2>4, <3>1, <3>2, <3>3, <3>4, <3>5, <3>6 DEF Resolve
    <2>5. ASSUME NEW r \in Runs, Lock(r) PROVE SyncTypeOK'
      <3>1. CASE Acquire(r)
        BY <3>1 DEF Acquire, Goto, Stages, Locked
      <3>2. CASE GiveUp(r) \/ LoseLock(r) \/ Release(r)
        BY <3>2, ExitTypes DEF GiveUp, LoseLock, Release
      <3>3. QED
        BY <2>5, <3>1, <3>2 DEF Lock
    <2>6. ASSUME NEW r \in Runs, Apply(r) PROVE SyncTypeOK'
      <3>1. CASE ReadExisting(r)
        <4>1. [tier |-> [Nobody EXCEPT ![Subject[r]] = records[Subject[r]]],
               aged |-> legacy \cap {Subject[r]}] \in [tier : [Users -> Entries], aged : SUBSET Users]
              \/ r \notin UserRuns
          BY <2>0, SyncConstants
        <4>2. [tier |-> records, aged |-> legacy] \in [tier : [Users -> Entries], aged : SUBSET Users]
          OBVIOUS
        <4>3. QED
          BY <3>1, <4>1, <4>2 DEF ReadExisting, Goto, Stages, Locked
      <3>2. CASE PlanChanges(r)
        <4>1. PICK keep \in BOOLEAN :
                 /\ pending' = [pending EXCEPT ![r] = ToWrite(r) \cup (IF keep THEN {} ELSE Orphans(r))]
                 /\ left' = [left EXCEPT ![r] = Excluded(r) \cup (IF keep THEN Orphans(r) ELSE {})]
          BY <3>2 DEF PlanChanges, Flags
        <4>2. ToWrite(r) \subseteq Users /\ Orphans(r) \subseteq Users /\ Excluded(r) \subseteq Users
          BY DEF ToWrite, Orphans, Excluded, Held, Resolved, InScope
        <4>3. existing' \in [Runs -> [tier : [Users -> Entries], aged : SUBSET Users]]
          BY <2>0, <3>2 DEF PlanChanges
        <4>4. QED
          BY <3>2, <4>1, <4>2, <4>3 DEF PlanChanges, Goto, Stages, Locked
      <3>3. CASE RefusePlan(r)
        BY <2>0, <3>3 DEF RefusePlan, Goto, Stages, Locked
      <3>4. CASE SendBatch(r)
        <4>1. PICK c \in SUBSET pending[r] :
                 batch' = [batch EXCEPT ![r] = c] /\ pending' = [pending EXCEPT ![r] = @ \ c]
          BY <3>4 DEF SendBatch, Upserts
        <4>2. QED
          BY <3>4, <4>1 DEF SendBatch, Goto, Stages, Locked, Sending
      <3>5. CASE BatchReturns(r)
        <4>1. PICK landed \in SUBSET Users : Land(r, landed)
          BY <3>5 DEF BatchReturns
        <4>2. QED
          BY <3>5, <4>1, LandTypes DEF BatchReturns, Goto, Stages, Locked
      <3>6. CASE BatchThrows(r)
        <4>1. PICK landed \in SUBSET Users : Land(r, landed)
          BY <3>6 DEF BatchThrows
        <4>2. QED
          BY <3>6, <4>1, LandTypes DEF BatchThrows, Goto, Stages, Locked
      <3>7. CASE FinishWrites(r)
        <4>1. /\ stage' \in [Runs -> Stages]
              /\ finishedAt' \in [Runs -> Nat]
          BY <3>7 DEF FinishWrites, Goto, Stages, Locked
        <4>2. QED
          BY <3>7, <4>1 DEF FinishWrites
      <3>10. CASE ForceRenew(r)
        BY <3>10 DEF ForceRenew, Goto, Stages, Locked, Sending
      <3>8. CASE StatusReturns(r)
        BY <3>8, PublishTypes DEF StatusReturns, Goto, Stages, Locked
      <3>9. QED
        BY <2>6, <3>1, <3>2, <3>3, <3>4, <3>5, <3>6, <3>7, <3>8, <3>10 DEF Apply
    <2>7. ASSUME NEW r \in Runs, Crash(r) PROVE SyncTypeOK'
      <3>1. Exit(r) /\ UNCHANGED <<clock, directory, owner>>
        BY <2>7 DEF Crash
      <3>2. CASE UNCHANGED store
        BY <3>1, <3>2, ExitTypes
      <3>3. CASE (\E landed \in SUBSET batch[r] : Land(r, landed)) /\ UNCHANGED <<statuses, covered>>
        <4>1. PICK landed \in SUBSET Users : Land(r, landed)
          BY <3>3
        <4>2. QED
          BY <3>1, <3>3, <4>1, LandTypes, ExitTypes
      <3>4. CASE Publish(r) /\ UNCHANGED <<records, legacy>>
        BY <3>1, <3>4, PublishTypes, ExitTypes
      <3>5. QED
        BY <2>7, <3>2, <3>3, <3>4 DEF Crash
    <2>8. QED
      BY <2>1, <2>2, <2>3, <2>4, <2>5, <2>6, <2>7 DEF Next
  <1>3. QED
    BY <1>1, <1>2, PTL DEF Spec

-----------------------------------------------------------------------------
(* The inductive invariant of what is published.                            *)
(* A batch or a status is on its way only from the owner of the lock.       *)
SendingOwns(r) == stage[r] \in Sending => owner = r

(* The owner of the lock is past its wait. *)
OwnerEntered(r) == owner = r => stage[r] \notin BeforeLock

(* What is pending and under way, stage by stage. *)
StageFacts(r) ==
    /\ stage[r] # "sending" => batch[r] = {}
    /\ stage[r] \in {"finishing", "publishing"} => pending[r] = {} /\ ~failed[r]

(* The people r read records of. *)
Reach(r) == IF r \in UserRuns THEN {Subject[r]} ELSE Users

(* As long as r owns the lock, nobody else changes the container: what it   *)
(* read is still true when it plans, ...                                    *)
ReadTrue(r) ==
    owner = r /\ stage[r] = "planning" =>
        \A u \in Reach(r) :
            /\ existing[r].tier[u] = records[u]
            /\ u \in existing[r].aged <=> u \in legacy

(* ... and what it neither left out nor has still to write is right.        *)
WrittenTrue(r) ==
    owner = r /\ stage[r] \in {"writing", "finishing"} \cup Sending /\ ~failed[r] =>
        \A u \in Users \ (left[r] \cup pending[r] \cup batch[r]) :
            records[u] = view[r][u] /\ u \notin legacy

ApplyInv(r) ==
    SendingOwns(r) /\ OwnerEntered(r) /\ StageFacts(r) /\ ReadTrue(r) /\ WrittenTrue(r)

SyncInv == SyncTypeOK /\ \A r \in Runs : ApplyInv(r)

(* A run that a step leaves alone, and of whose owning it changes nothing.  *)
Untouched(s) ==
    /\ stage'[s] = stage[s] /\ existing'[s] = existing[s] /\ view'[s] = view[s]
    /\ left'[s] = left[s] /\ pending'[s] = pending[s] /\ batch'[s] = batch[s]
    /\ failed'[s] = failed[s]

LEMMA UntouchedStep ==
    ASSUME NEW s \in Runs, ApplyInv(s), Untouched(s),
           owner' = owner \/ (stage[s] \notin Sending /\ owner' # s),
           owner # s \/ UNCHANGED <<records, legacy>>
    PROVE  ApplyInv(s)'
  BY DEF ApplyInv, SendingOwns, OwnerEntered, StageFacts, ReadTrue, WrittenTrue, Untouched, Reach

LEMMA ExitStep ==
    ASSUME SyncTypeOK, NEW r \in Runs, Exit(r)
    PROVE  ApplyInv(r)' /\ \A s \in Runs \ {r} : Untouched(s)
  <1>1. stage'[r] = "done" /\ batch'[r] = {}
    BY DEF SyncTypeOK, Exit, Goto
  <1>2. ApplyInv(r)'
    BY <1>1 DEF ApplyInv, SendingOwns, OwnerEntered, StageFacts, ReadTrue, WrittenTrue,
       Sending, BeforeLock, Unresolved
  <1>3. QED
    BY <1>2 DEF SyncTypeOK, Exit, Goto, Untouched

(* What planChanges does not plan is right already. *)
LEMMA PlanIsComplete ==
    ASSUME SyncTypeOK, NEW r \in Runs, ReadTrue(r), owner = r, stage[r] = "planning",
           NEW u \in Users, u \notin Excluded(r), u \notin ToWrite(r), u \notin Orphans(r)
    PROVE  records[u] = view[r][u] /\ u \notin legacy
  <1>1. u \in Reach(r) /\ u \in InScope(r)
    BY DEF Reach, Excluded, InScope
  <1>2. existing[r].tier[u] = records[u] /\ (u \in existing[r].aged <=> u \in legacy)
    BY <1>1 DEF ReadTrue
  <1>3. CASE view[r][u] # "none"
    BY <1>1, <1>2, <1>3 DEF ToWrite, Resolved
  <1>4. CASE view[r][u] = "none"
    BY <1>1, <1>2, <1>4 DEF Orphans, Held, Resolved, SyncTypeOK
  <1>5. QED
    BY <1>3, <1>4

THEOREM SyncInvariant == Spec => []SyncInv
  <1>1. Init => \A r \in Runs : ApplyInv(r)
    BY SyncConstants DEF Init, ApplyInv, SendingOwns, OwnerEntered, StageFacts, ReadTrue, WrittenTrue, Sending
  <1>2. SyncInv /\ [Next]_syncVars => \A r \in Runs : ApplyInv(r)'
    <2> SUFFICES ASSUME SyncInv, [Next]_syncVars PROVE \A r \in Runs : ApplyInv(r)'
      OBVIOUS
    <2>0. SyncTypeOK /\ \A s \in Runs : ApplyInv(s)
      BY DEF SyncInv
    <2> USE DEF directory, store, resolving, applying
    <2>1. CASE Tick \/ UNCHANGED syncVars \/ \E u \in Users, t \in Tiers : ChangeMember(u, t)
      <3>1. UNCHANGED <<store, owner, stage, resolving, applying>>
        BY <2>1 DEF Tick, syncVars, ChangeMember
      <3>2. ASSUME NEW s \in Runs PROVE ApplyInv(s)'
        <4>1. Untouched(s)
          BY <3>1 DEF Untouched
        <4>2. QED
          BY <2>0, <3>1, <4>1, UntouchedStep
      <3>3. QED
        BY <3>2
    <2>2. ASSUME NEW r \in Runs, ApplyInv(r)', \A s \in Runs \ {r} : Untouched(s),
                 \/ UNCHANGED owner /\ (owner = r \/ UNCHANGED <<records, legacy>>)
                 \/ owner' \in {r, NoRun} /\ UNCHANGED <<records, legacy>>
                      /\ \A s \in Runs : stage[s] \notin Sending
          PROVE  \A s \in Runs : ApplyInv(s)'
      <3>1. ASSUME NEW s \in Runs, s # r PROVE ApplyInv(s)'
        <4>1. ApplyInv(s) /\ Untouched(s)
          BY <2>0, <2>2, <3>1
        <4>2. owner' = owner \/ (stage[s] \notin Sending /\ owner' # s)
          BY <2>2, <3>1, SyncConstants
        <4>3. owner # s \/ UNCHANGED <<records, legacy>>
          BY <2>2, <3>1
        <4>4. QED
          BY <4>1, <4>2, <4>3, UntouchedStep
      <3>2. QED
        BY <2>2, <3>1
    <2>3. ASSUME NEW r \in Runs, Exit(r), UNCHANGED owner,
                 owner = r \/ UNCHANGED <<records, legacy>>
          PROVE  \A s \in Runs : ApplyInv(s)'
      BY <2>0, <2>2, <2>3, ExitStep
    <2>4. ASSUME NEW r \in Runs, Resolve(r) PROVE \A s \in Runs : ApplyInv(s)'
      <3>1. CASE RefuseSnapshot(r)
        BY <2>3, <3>1 DEF RefuseSnapshot
      <3>2. CASE BeginScan(r) \/ ReadPremium(r) \/ ReadStandard(r) \/ CheckUser(r) \/ StartApply(r)
        <4>1. /\ stage[r] \in Unresolved /\ stage'[r] \in BeforeLock
              /\ \A s \in Runs \ {r} : Untouched(s)
              /\ UNCHANGED <<owner, records, legacy, applying>>
          BY <2>0, <3>2 DEF BeginScan, ReadPremium, ReadStandard, CheckUser, StartApply, Goto,
             SyncTypeOK, Untouched, Unresolved, BeforeLock
        <4>2. owner # r /\ batch[r] = {}
          BY <2>0, <4>1 DEF ApplyInv, OwnerEntered, StageFacts, BeforeLock, Unresolved
        <4>3. ApplyInv(r)'
          BY <4>1, <4>2 DEF ApplyInv, SendingOwns, OwnerEntered, StageFacts, ReadTrue, WrittenTrue,
             BeforeLock, Unresolved, Sending
        <4>4. QED
          BY <2>2, <4>1, <4>3
      <3>3. QED
        BY <2>4, <3>1, <3>2 DEF Resolve
    <2>5. ASSUME NEW r \in Runs, Lock(r) PROVE \A s \in Runs : ApplyInv(s)'
      <3>1. CASE GiveUp(r) \/ LoseLock(r)
        BY <2>3, <3>1 DEF GiveUp, LoseLock
      <3>2. CASE Acquire(r)
        <4>1. \A s \in Runs : stage[s] \notin Sending
          BY <2>0, <3>2, SyncConstants DEF Acquire, ApplyInv, SendingOwns
        <4>2. /\ stage'[r] = "reading" /\ batch'[r] = {} /\ owner' = r
              /\ \A s \in Runs \ {r} : Untouched(s)
          BY <2>0, <3>2 DEF Acquire, Goto, SyncTypeOK, Untouched, ApplyInv, StageFacts
        <4>3. ApplyInv(r)'
          BY <4>2 DEF ApplyInv, SendingOwns, OwnerEntered, StageFacts, ReadTrue, WrittenTrue,
             BeforeLock, Unresolved, Sending
        <4>4. QED
          BY <2>2, <3>2, <4>1, <4>2, <4>3 DEF Acquire
      <3>3. CASE Release(r)
        <4>1. \A s \in Runs : stage[s] \notin Sending
          BY <2>0, <3>3 DEF Release, ApplyInv, SendingOwns, Sending
        <4>2. QED
          BY <2>0, <2>2, <3>3, <4>1, ExitStep DEF Release
      <3>4. QED
        BY <2>5, <3>1, <3>2, <3>3 DEF Lock
    <2>6. ASSUME NEW r \in Runs, Apply(r) PROVE \A s \in Runs : ApplyInv(s)'
      <3>1. \A s \in Runs \ {r} : Untouched(s)
        BY <2>0, <2>6 DEF Apply, ReadExisting, PlanChanges, RefusePlan, SendBatch, BatchReturns, BatchThrows,
           FinishWrites, ForceRenew, StatusReturns, Goto, SyncTypeOK, Untouched
      <3>2. UNCHANGED owner /\ (owner = r \/ UNCHANGED <<records, legacy>>)
        BY <2>0, <2>6 DEF Apply, ReadExisting, PlanChanges, RefusePlan, SendBatch, BatchReturns, BatchThrows,
           FinishWrites, ForceRenew, StatusReturns, ApplyInv, SendingOwns, Sending
      <3>3. SUFFICES ApplyInv(r)'
        BY <2>2, <3>1, <3>2
      <3>4. CASE ReadExisting(r)
        <4>1. /\ stage[r] = "reading" /\ stage'[r] = "planning"
              /\ UNCHANGED <<owner, records, legacy, batch, pending, failed>>
          BY <2>0, <3>4 DEF ReadExisting, Goto, SyncTypeOK
        <4>2. ASSUME NEW u \in Reach(r)
              PROVE  existing'[r].tier[u] = records[u] /\ (u \in existing'[r].aged <=> u \in legacy)
          <5>1. CASE r \in UserRuns
            <6>1. u = Subject[r] /\ u \in Users
              BY <4>2, <5>1, SyncConstants DEF Reach
            <6>2. existing'[r] = [tier |-> [Nobody EXCEPT ![u] = records[u]], aged |-> legacy \cap {u}]
              BY <2>0, <3>4, <5>1, <6>1 DEF ReadExisting, SyncTypeOK
            <6>3. QED
              BY <6>1, <6>2 DEF Nobody
          <5>2. CASE r \notin UserRuns
            BY <2>0, <3>4, <5>2 DEF ReadExisting, SyncTypeOK
          <5>3. QED
            BY <5>1, <5>2
        <4>3. QED
          BY <2>0, <4>1, <4>2 DEF ApplyInv, SendingOwns, OwnerEntered, StageFacts, ReadTrue, WrittenTrue,
             BeforeLock, Unresolved, Sending, Reach
      <3>5. CASE PlanChanges(r)
        <4>1. /\ stage[r] = "planning" /\ stage'[r] = "writing"
              /\ UNCHANGED <<owner, records, legacy, view, batch, failed>>
          BY <2>0, <3>5 DEF PlanChanges, Goto, SyncTypeOK
        <4>2. Excluded(r) \cup ToWrite(r) \cup Orphans(r) \subseteq left'[r] \cup pending'[r]
          BY <2>0, <3>5 DEF PlanChanges, SyncTypeOK
        <4>3. WrittenTrue(r)'
          BY <2>0, <4>1, <4>2, PlanIsComplete DEF WrittenTrue, ApplyInv
        <4>4. QED
          BY <2>0, <4>1, <4>3 DEF ApplyInv, SendingOwns, OwnerEntered, StageFacts, ReadTrue,
             BeforeLock, Unresolved, Sending
      <3>6. CASE SendBatch(r)
        <4>1. PICK c \in SUBSET pending[r] :
                 batch' = [batch EXCEPT ![r] = c] /\ pending' = [pending EXCEPT ![r] = @ \ c]
          BY <3>6 DEF SendBatch, Upserts
        <4>2. /\ stage[r] = "writing" /\ stage'[r] = "sending" /\ owner = r
              /\ batch'[r] \cup pending'[r] = pending[r] /\ batch[r] = {}
              /\ UNCHANGED <<owner, records, legacy, view, left, failed>>
          BY <2>0, <3>6, <4>1 DEF SendBatch, Goto, SyncTypeOK, ApplyInv, StageFacts
        <4>3. QED
          BY <2>0, <4>2 DEF ApplyInv, SendingOwns, OwnerEntered, StageFacts, ReadTrue, WrittenTrue,
             BeforeLock, Unresolved, Sending
      <3>7. CASE BatchReturns(r)
        <4>1. /\ stage[r] = "sending" /\ stage'[r] = "writing" /\ batch'[r] = {}
              /\ UNCHANGED <<owner, view, left, pending>>
              /\ (Land(r, batch[r]) /\ UNCHANGED failed) \/ failed'[r]
          BY <2>0, <3>7 DEF BatchReturns, Goto, SyncTypeOK
        <4>2. WrittenTrue(r)'
          BY <2>0, <4>1 DEF WrittenTrue, ApplyInv, Land, Sending, SyncTypeOK
        <4>3. QED
          BY <2>0, <4>1, <4>2 DEF ApplyInv, SendingOwns, OwnerEntered, StageFacts, ReadTrue,
             BeforeLock, Unresolved, Sending
      <3>8. CASE RefusePlan(r) \/ BatchThrows(r) \/ StatusReturns(r)
        <4>1. /\ stage[r] \in {"planning"} \cup Sending /\ stage'[r] = "releasing" /\ batch'[r] = {}
              /\ UNCHANGED owner
          BY <2>0, <3>8 DEF RefusePlan, BatchThrows, StatusReturns, Goto, SyncTypeOK, Sending,
             ApplyInv, StageFacts
        <4>2. QED
          BY <2>0, <4>1 DEF ApplyInv, SendingOwns, OwnerEntered, StageFacts, ReadTrue, WrittenTrue,
             BeforeLock, Unresolved, Sending
      <3>9. CASE FinishWrites(r)
        <4>1. /\ stage[r] = "writing" /\ stage'[r] = (IF failed[r] THEN "releasing" ELSE "finishing")
              /\ pending[r] = {} /\ batch[r] = {}
              /\ UNCHANGED <<owner, records, legacy, view, left, pending, batch, failed>>
          BY <2>0, <3>9 DEF FinishWrites, Goto, SyncTypeOK, ApplyInv, StageFacts
        <4>2. QED
          BY <2>0, <4>1 DEF ApplyInv, SendingOwns, OwnerEntered, StageFacts, ReadTrue, WrittenTrue,
             BeforeLock, Unresolved, Sending
      <3>10. CASE ForceRenew(r)
        <4>1. /\ stage[r] = "finishing" /\ stage'[r] = "publishing" /\ owner = r
              /\ UNCHANGED <<owner, records, legacy, view, left, pending, batch, failed>>
          BY <2>0, <3>10 DEF ForceRenew, Goto, SyncTypeOK
        <4>2. QED
          BY <2>0, <4>1 DEF ApplyInv, SendingOwns, OwnerEntered, StageFacts, ReadTrue, WrittenTrue,
             BeforeLock, Unresolved, Sending
      <3>11. QED
        BY <2>6, <3>4, <3>5, <3>6, <3>7, <3>8, <3>9, <3>10 DEF Apply
    <2>7. ASSUME NEW r \in Runs, Crash(r) PROVE \A s \in Runs : ApplyInv(s)'
      <3>1. Exit(r) /\ UNCHANGED owner
        BY <2>7 DEF Crash
      <3>2. owner = r \/ UNCHANGED <<records, legacy>>
        BY <2>0, <2>7 DEF Crash, ApplyInv, SendingOwns, Sending
      <3>3. QED
        BY <2>3, <3>1, <3>2
    <2>8. QED
      BY <2>1, <2>4, <2>5, <2>6, <2>7 DEF Next
  <1>3. Init /\ SyncTypeOK => SyncInv
    BY <1>1 DEF SyncInv
  <1>4. SyncInv /\ [Next]_syncVars /\ SyncTypeOK' => SyncInv'
    BY <1>2 DEF SyncInv
  <1>5. QED
    BY <1>3, <1>4, SyncTypeCorrect, PTL DEF Spec

(* When a run publishes its status, the container holds what the run        *)
(* resolved for everybody it did not leave out, for any number of people    *)
(* and runs, however they overlap, fail and lose the lock.                  *)
THEOREM PublishedIsScanned == Spec => []PublishedMatchesScan
  <1>1. SyncInv => PublishedMatchesScan
    BY DEF SyncInv, ApplyInv, SendingOwns, StageFacts, WrittenTrue, PublishedMatchesScan, Sending
  <1>2. QED
    BY <1>1, SyncInvariant, PTL

-----------------------------------------------------------------------------
(* ProjectionSync implements SerialApplies: its batches and statuses are   *)
(* the writes, and the time it owns the lock the tenure.  Each lemma says  *)
(* which step of SerialApplies a step of one run is, by what it does to    *)
(* the owner and to r's stage.                                             *)


OthersStay(r) == \A s \in Runs \ {r} : stage'[s] = stage[s]

LEMMA StutterStep ==
    ASSUME NEW r \in Runs, OthersStay(r), UNCHANGED owner,
           stage[r] \in Sending <=> stage'[r] \in Sending,
           owner = r \/ (stage[r] \in BeforeLock <=> stage'[r] \in BeforeLock)
    PROVE  UNCHANGED <<tenureOf, writingNow>>
  BY DEF tenureOf, writingNow, OthersStay

LEMMA BeginStep ==
    ASSUME NEW r \in Runs, OthersStay(r), UNCHANGED owner, owner = r,
           stage'[r] \in Sending
    PROVE  Serial!BeginWrite(r)
  BY DEF Serial!BeginWrite, tenureOf, writingNow, OthersStay

LEMMA EndStep ==
    ASSUME NEW r \in Runs, OthersStay(r), UNCHANGED owner, owner = r,
           stage[r] \in Sending, stage'[r] \notin Sending
    PROVE  Serial!EndWrite(r)
  BY DEF Serial!EndWrite, tenureOf, writingNow, OthersStay

LEMMA LeaveStep ==
    ASSUME NEW r \in Runs, OthersStay(r), stage[r] \notin Sending, stage'[r] = "done",
           \/ UNCHANGED owner /\ owner # r /\ stage[r] \in BeforeLock
           \/ owner = r /\ owner' = NoRun
    PROVE  Serial!Leave(r)
  <1>1. stage'[r] \notin Sending /\ stage'[r] \notin BeforeLock
    BY DEF Sending, BeforeLock, Unresolved
  <1>2. writingNow' = writingNow /\ r \notin writingNow
    BY <1>1 DEF writingNow, OthersStay
  <1>3. \A s \in Runs : owner' = s <=> s # r /\ owner = s
    BY SyncConstants
  <1>4. tenureOf[r] # "out" /\ tenureOf' = [tenureOf EXCEPT ![r] = "out"]
    BY <1>1, <1>3 DEF tenureOf, OthersStay
  <1>5. QED
    BY <1>2, <1>4 DEF Serial!Leave

(* A free or lapsed lock is taken, never in the middle of a batch. *)
LEMMA EnterStep ==
    ASSUME SyncInv, NEW r \in Runs, Acquire(r)
    PROVE  Serial!Enter(r)
  <1>1. SyncTypeOK /\ \A s \in Runs : ApplyInv(s)
    BY DEF SyncInv
  <1>2. /\ stage[r] = "waiting" /\ stage'[r] = "reading" /\ owner' = r
        /\ \A s \in Runs \ {r} : stage'[s] = stage[s]
    BY <1>1 DEF Acquire, Goto, SyncTypeOK
  <1>3. \A s \in Runs : owner = s => stage[s] \notin BeforeLock /\ stage[s] \notin Sending
    BY <1>1, SyncConstants DEF Acquire, ApplyInv, OwnerEntered
  <1>4. tenureOf[r] = "new" /\ \A s \in Runs : tenureOf[s] = "in" => s \notin writingNow
    BY <1>2, <1>3 DEF tenureOf, writingNow, BeforeLock
  <1>5. writingNow' = writingNow
    BY <1>2 DEF writingNow, Sending
  <1>6. tenureOf' = [s \in Runs |-> IF s = r THEN "in"
                                    ELSE IF tenureOf[s] = "in" THEN "out" ELSE tenureOf[s]]
    BY <1>2, <1>3 DEF tenureOf
  <1>7. QED
    BY <1>4, <1>5, <1>6 DEF Serial!Enter

-----------------------------------------------------------------------------
(* One step of one run is one step of SerialApplies or none. *)
LEMMA RunStep ==
    ASSUME SyncInv, NEW r \in Runs, Resolve(r) \/ Lock(r) \/ Apply(r) \/ Crash(r)
    PROVE  [Serial!Next]_<<tenureOf, writingNow>>
  <1>1. /\ SyncTypeOK
        /\ stage[r] \in Sending => owner = r
        /\ stage[r] \in BeforeLock => owner # r
    BY DEF SyncInv, ApplyInv, SendingOwns, OwnerEntered
  <1>2. ASSUME NEW s \in Stages, Goto(r, s) PROVE stage'[r] = s /\ OthersStay(r)
    BY <1>1, <1>2 DEF SyncTypeOK, Goto, OthersStay
  <1> USE DEF Stages, BeforeLock, Unresolved, Locked, Sending
  <1>3. CASE BeginScan(r) \/ ReadPremium(r) \/ ReadStandard(r) \/ CheckUser(r) \/ StartApply(r)
    <2>1. /\ stage[r] \in BeforeLock /\ stage'[r] \in BeforeLock /\ OthersStay(r) /\ UNCHANGED owner
      BY <1>2, <1>3 DEF BeginScan, ReadPremium, ReadStandard, CheckUser, StartApply
    <2>2. QED
      BY <2>1, StutterStep
  <1>4. CASE Acquire(r)
    BY <1>4, EnterStep DEF Serial!Next
  <1>5. CASE Release(r)
    BY <1>2, <1>5, LeaveStep DEF Release, Exit, Serial!Next
  <1>6. CASE SendBatch(r) \/ ForceRenew(r)
    BY <1>2, <1>6, BeginStep DEF SendBatch, ForceRenew, Serial!Next
  <1>7. CASE BatchReturns(r) \/ BatchThrows(r) \/ StatusReturns(r)
    BY <1>1, <1>2, <1>7, EndStep DEF BatchReturns, BatchThrows, StatusReturns, Serial!Next
  <1>8. CASE ReadExisting(r) \/ PlanChanges(r) \/ RefusePlan(r) \/ FinishWrites(r)
    <2>1. /\ stage[r] \in Locked \ Sending /\ stage'[r] \in Locked \ Sending
          /\ OthersStay(r) /\ UNCHANGED owner
      BY <1>2, <1>8 DEF ReadExisting, PlanChanges, RefusePlan, FinishWrites
    <2>2. QED
      BY <2>1, StutterStep
  <1>9. CASE RefuseSnapshot(r) \/ GiveUp(r) \/ LoseLock(r) \/ Crash(r)
    <2>1. /\ stage'[r] = "done" /\ OthersStay(r) /\ UNCHANGED owner
          /\ stage[r] \in BeforeLock \cup Locked
      BY <1>2, <1>9 DEF RefuseSnapshot, GiveUp, LoseLock, Crash, Exit
    <2>2. CASE stage[r] \in BeforeLock
      BY <1>1, <2>1, <2>2, LeaveStep DEF Serial!Next
    <2>3. CASE stage[r] \in Sending
      BY <1>1, <2>1, <2>3, EndStep DEF Serial!Next
    <2>4. CASE stage[r] \in Locked \ Sending
      BY <2>1, <2>4, StutterStep
    <2>5. QED
      BY <2>1, <2>2, <2>3, <2>4
  <1>10. QED
    BY <1>3, <1>4, <1>5, <1>6, <1>7, <1>8, <1>9 DEF Resolve, Lock, Apply

(* Batches and statuses are written inside tenures that never overlap, for  *)
(* any number of people and runs.                                           *)
THEOREM SyncImplementsSerial == Spec => ImplementsSerial
  <1>1. Init => Serial!Init
    BY SyncConstants DEF Init, Serial!Init, tenureOf, writingNow, BeforeLock, Unresolved, Sending
  <1>2. SyncInv /\ [Next]_syncVars => [Serial!Next]_<<tenureOf, writingNow>>
    <2> SUFFICES ASSUME SyncInv, [Next]_syncVars PROVE [Serial!Next]_<<tenureOf, writingNow>>
      OBVIOUS
    <2>1. CASE Tick \/ UNCHANGED syncVars \/ \E u \in Users, t \in Tiers : ChangeMember(u, t)
      <3>1. UNCHANGED <<owner, stage>>
        BY <2>1 DEF Tick, syncVars, ChangeMember
      <3>2. QED
        BY <3>1 DEF tenureOf, writingNow
    <2>2. QED
      BY <2>1, RunStep DEF Next
  <1>3. QED
    BY <1>1, <1>2, SyncInvariant, PTL DEF Spec, ImplementsSerial, Serial!Spec, Serial!serialVars
-----------------------------------------------------------------------------
(* A finished sync is never undone by an older one.  This needs the clocks *)
(* that stamp the scans to agree as targetedCutoff supposes: only the one  *)
(* of a full scan may be ahead, of a targeted one, and by no more than     *)
(* Margin.                                                                 *)
ClocksAgree == \A r, s \in Runs :
    ExportSkew[r] <= ExportSkew[s] + (IF r \in FullRuns /\ s \in UserRuns THEN Margin ELSE 0)

(* What r found is as old as its stamp says; a check of one person is a     *)
(* targeted run's.                                                         *)
Stamped(r) ==
    /\ stage[r] = "checking" => r \in UserRuns
    /\ scan[r] <= clock
    /\ stage[r] \in {"waiting"} \cup Locked => VerifiedAt(r) <= clock
    /\ stage[r] \in {"finishing", "publishing"} => VerifiedAt(r) <= finishedAt[r]

(* What r resolved of a person is true until that person's tier changes.   *)
(* Premium is read first: a person who enters or leaves it changes tier.   *)
SeenTrue(r) ==
    \A u \in Users : scan[r] > changedAt[u] =>
        /\ stage[r] = "standard" => (u \in premiumSeen[r] <=> u \in member["premium"])
        /\ stage[r] \in {"resolved", "waiting"} \cup Locked /\ u \in Reach(r) =>
              view[r][u] = TierOf(u)

(* The owner of the lock writes about nobody of whom something newer is    *)
(* published.                                                              *)
PlannedFresh(r) ==
    stage[r] \in {"writing", "finishing"} \cup Sending =>
        /\ Users \ Reach(r) \subseteq left[r]
        /\ (pending[r] \cup batch[r]) \cap left[r] = {}
        /\ owner = r => \A u \in Users \ left[r] : covered[u] <= scan[r]

Fresh(r) == Stamped(r) /\ SeenTrue(r) /\ PlannedFresh(r)

(* Of everything published there is a status that an older run will find.  *)
Vouched(u) == \E s \in statuses, q \in Runs :
    /\ covered[u] + ExportSkew[q] <= s.at
    /\ \/ q \in FullRuns /\ s.user = NoUser
       \/ q \in UserRuns /\ s.user = u

CoveredTrue == \A u \in Users : covered[u] <= clock /\ (covered[u] > 0 => Vouched(u))

FreshInv == (\A r \in Runs : Fresh(r)) /\ CoveredTrue /\ SettledRecordsCorrect

-----------------------------------------------------------------------------
(* A run that a step leaves alone. *)
Kept(s) ==
    /\ stage'[s] = stage[s] /\ scan'[s] = scan[s] /\ premiumSeen'[s] = premiumSeen[s]
    /\ view'[s] = view[s] /\ left'[s] = left[s] /\ pending'[s] = pending[s]
    /\ batch'[s] = batch[s] /\ finishedAt'[s] = finishedAt[s]

LEMMA KeptFresh ==
    ASSUME SyncTypeOK, SyncTypeOK', NEW s \in Runs, Fresh(s), Kept(s), clock <= clock',
           UNCHANGED <<member, changedAt>>, owner' = s => owner = s,
           owner' = s => UNCHANGED covered
    PROVE  Fresh(s)'
  <1>1. Stamped(s)'
    BY SyncConstants DEF Fresh, Stamped, Kept, VerifiedAt, SyncTypeOK
  <1>2. SeenTrue(s)'
    BY DEF Fresh, SeenTrue, Kept, Reach, TierOf
  <1>3. PlannedFresh(s)'
    BY DEF Fresh, PlannedFresh, Kept, Reach
  <1>4. QED
    BY <1>1, <1>2, <1>3 DEF Fresh

(* A run that has ended, or does nothing any more but release the lock. *)
LEMMA EndedFresh ==
    ASSUME SyncTypeOK, NEW r \in Runs, Exit(r), UNCHANGED <<clock, changedAt>>
    PROVE  Fresh(r)' /\ \A s \in Runs \ {r} : Kept(s)
  <1>1. stage'[r] = "done" /\ scan'[r] = 0
    BY DEF SyncTypeOK, Exit, Goto
  <1>2. Fresh(r)'
    BY <1>1 DEF Fresh, Stamped, SeenTrue, PlannedFresh, Locked, Sending, SyncTypeOK
  <1>3. QED
    BY <1>2 DEF SyncTypeOK, Exit, Goto, Kept

LEMMA SameCovered ==
    ASSUME CoveredTrue, SyncTypeOK, UNCHANGED covered, clock <= clock', SyncTypeOK',
           statuses \subseteq statuses'
    PROVE  CoveredTrue'
  <1>1. ASSUME NEW u \in Users, Vouched(u) PROVE Vouched(u)'
    BY <1>1 DEF Vouched
  <1>2. QED
    BY <1>1 DEF CoveredTrue, SyncTypeOK

LEMMA SameSettled ==
    ASSUME SettledRecordsCorrect, UNCHANGED <<member, changedAt, covered, records>>
    PROVE  SettledRecordsCorrect'
  BY DEF SettledRecordsCorrect, TierOf
(* An administrator changes somebody's membership: what is known of that    *)
(* person's tier is older than the change, or the tier stays the same.      *)
LEMMA DirectoryStep ==
    ASSUME SyncInv, SyncTypeOK', FreshInv, NEW u \in Users, NEW t \in Tiers, ChangeMember(u, t)
    PROVE  FreshInv'
  <1> USE DEF store, resolving, applying
  <1>0. SyncTypeOK
    BY DEF SyncInv
  <1>1. /\ UNCHANGED <<clock, records, statuses, covered, owner, stage, scan, premiumSeen, view, left,
                       pending, batch, finishedAt>>
        /\ member' = [member EXCEPT ![t] = @ \cup {u}] \/ member' = [member EXCEPT ![t] = @ \ {u}]
    BY DEF ChangeMember
  <1>2. \A w \in Users \ {u}, s \in Tiers : w \in member'[s] <=> w \in member[s]
    <2>1. /\ \A s \in Tiers \ {t} : member'[s] = member[s]
          /\ member'[t] = member[t] \cup {u} \/ member'[t] = member[t] \ {u}
      BY <1>0, <1>1 DEF SyncTypeOK
    <2>2. QED
      BY <2>1
  <1>3. \A w \in Users : changedAt'[w] = clock
                           \/ (changedAt'[w] = changedAt[w] /\ TierOf(w)' = TierOf(w))
    <2>1. ASSUME NEW w \in Users \ {u} PROVE TierOf(w)' = TierOf(w) /\ changedAt'[w] = changedAt[w]
      BY <1>0, <1>2, <2>1 DEF TierOf, TierIn, Tiers, ChangeMember, SyncTypeOK
    <2>2. changedAt'[u] = clock \/ (changedAt' = changedAt /\ TierOf(u)' = TierOf(u))
      BY <1>0 DEF ChangeMember, SyncTypeOK
    <2>3. QED
      BY <2>1, <2>2
  <1>4. \A w \in Users : TierOf(w)' = TierOf(w) => (w \in member'["premium"] <=> w \in member["premium"])
    BY DEF TierOf, TierIn
  <1>5. ASSUME NEW s \in Runs PROVE Fresh(s)'
    <2>1. Fresh(s)
      BY DEF FreshInv
    <2>2. SeenTrue(s)'
      <3>1. scan'[s] <= clock /\ scan'[s] = scan[s] /\ scan[s] \in Nat /\ clock \in Nat
        BY <1>0, <1>1, <2>1 DEF Fresh, Stamped, SyncTypeOK
      <3>2. \A w \in Users : scan'[s] > changedAt'[w] =>
                scan[s] > changedAt[w] /\ TierOf(w)' = TierOf(w)
        BY <1>3, <3>1
      <3>3. QED
        BY <1>1, <1>4, <2>1, <3>2 DEF Fresh, SeenTrue, Reach
    <2>3. Stamped(s)' /\ PlannedFresh(s)'
      BY <1>1, <2>1 DEF Fresh, Stamped, PlannedFresh, VerifiedAt, Reach
    <2>4. QED
      BY <2>2, <2>3 DEF Fresh
  <1>6. CoveredTrue'
    BY <1>0, <1>1, SameCovered DEF FreshInv, SyncTypeOK
  <1>7. SettledRecordsCorrect'
    <2>1. \A w \in Users : covered[w] <= clock /\ covered[w] \in Nat /\ clock \in Nat
      BY <1>0 DEF FreshInv, CoveredTrue, SyncTypeOK
    <2>2. \A w \in Users : covered'[w] > changedAt'[w] =>
              covered[w] > changedAt[w] /\ TierOf(w)' = TierOf(w)
      BY <1>1, <1>3, <2>1
    <2>3. QED
      BY <1>1, <2>2 DEF FreshInv, SettledRecordsCorrect
  <1>8. QED
    BY <1>5, <1>6, <1>7 DEF FreshInv

(* Reading the directory finds what is in it, or somebody has changed it    *)
(* since the scan began.                                                    *)
LEMMA ResolveStep ==
    ASSUME SyncInv, SyncTypeOK', FreshInv, NEW r \in Runs,
           BeginScan(r) \/ ReadPremium(r) \/ ReadStandard(r) \/ CheckUser(r) \/ StartApply(r)
    PROVE  Fresh(r)' /\ \A s \in Runs \ {r} : Kept(s)
  <1> USE DEF directory, resolving, applying
  <1>0. SyncTypeOK /\ Fresh(r)
    BY DEF SyncInv, FreshInv
  <1>1. UNCHANGED <<clock, member, changedAt, left, pending, batch, finishedAt>>
    BY DEF BeginScan, ReadPremium, ReadStandard, CheckUser, StartApply
  <1>2. \A s \in Runs \ {r} : Kept(s)
    BY <1>0 DEF BeginScan, ReadPremium, ReadStandard, CheckUser, StartApply, Goto, SyncTypeOK, Kept
  <1>3. stage'[r] \in BeforeLock /\ PlannedFresh(r)'
    BY <1>0 DEF BeginScan, ReadPremium, ReadStandard, CheckUser, StartApply, Goto, SyncTypeOK,
       PlannedFresh, BeforeLock, Unresolved, Sending
  <1>4. Stamped(r)'
    <2>1. /\ scan'[r] <= clock' /\ (stage'[r] = "waiting" => VerifiedAt(r)' <= clock')
          /\ stage'[r] = "checking" => r \in UserRuns
      BY <1>0 DEF BeginScan, ReadPremium, ReadStandard, CheckUser, StartApply, Goto, SyncTypeOK,
         Fresh, Stamped, VerifiedAt
    <2>2. QED
      BY <1>3, <2>1 DEF Stamped, BeforeLock, Unresolved, Locked, Sending
  <1>5. SeenTrue(r)'
    <2>1. CASE BeginScan(r)
      BY <1>0, <2>1 DEF BeginScan, Goto, SyncTypeOK, SeenTrue, Locked, Sending
    <2>2. CASE ReadPremium(r)
      BY <1>0, <2>2 DEF ReadPremium, Goto, SyncTypeOK, SeenTrue, Locked, Sending
    <2>3. CASE ReadStandard(r)
      <3>1. /\ stage[r] = "standard" /\ stage'[r] = "resolved" /\ scan'[r] = scan[r]
            /\ \A u \in Users : view'[r][u] = TierIn(u, premiumSeen[r], member["standard"])
        BY <1>0, <2>3 DEF ReadStandard, Goto, SyncTypeOK
      <3>2. \A u \in Users : (u \in premiumSeen[r] <=> u \in member["premium"])
                => TierIn(u, premiumSeen[r], member["standard"]) = TierOf(u)
        BY DEF TierIn, TierOf
      <3>3. \A u \in Users : TierOf(u)' = TierOf(u)
        BY <1>1 DEF TierOf
      <3>4. QED
        BY <1>0, <1>1, <3>1, <3>2, <3>3 DEF Fresh, SeenTrue
    <2>4. CASE CheckUser(r)
      <3>1. r \in UserRuns
        BY <1>0, <2>4 DEF CheckUser, Fresh, Stamped
      <3>2. stage'[r] = "resolved" /\ view' = [view EXCEPT ![r][Subject[r]] = TierOf(Subject[r])]
        BY <1>0, <2>4 DEF CheckUser, Goto, SyncTypeOK
      <3>3. \A u \in Users : TierOf(u)' = TierOf(u)
        BY <1>1 DEF TierOf
      <3>4. view'[r][Subject[r]] = TierOf(Subject[r])
        BY <1>0, <3>1, <3>2, SyncConstants DEF SyncTypeOK
      <3>5. QED
        BY <3>1, <3>2, <3>3, <3>4 DEF SeenTrue, Reach
    <2>5. CASE StartApply(r)
      BY <1>0, <1>1, <2>5 DEF StartApply, Goto, SyncTypeOK, Fresh, SeenTrue, TierOf, Reach
    <2>6. QED
      BY <2>1, <2>2, <2>3, <2>4, <2>5
  <1>6. QED
    BY <1>2, <1>3, <1>4, <1>5 DEF Fresh
(* planChanges: whatever of a person in its plan has been published is no   *)
(* newer than the scan, or the run would have found it superseded or left   *)
(* the person out.                                                          *)
LEMMA PlanIsNewest ==
    ASSUME SyncTypeOK, CoveredTrue, ClocksAgree, NEW r \in Runs, ~Superseded(r),
           NEW u \in Users \ Excluded(r)
    PROVE  covered[u] <= scan[r]
  <1>1. CASE covered[u] = 0
    BY <1>1 DEF SyncTypeOK
  <1>2. CASE covered[u] > 0
    <2>1. PICK s \in statuses, q \in Runs :
             /\ covered[u] + ExportSkew[q] <= s.at
             /\ \/ q \in FullRuns /\ s.user = NoUser
                \/ q \in UserRuns /\ s.user = u
      BY <1>2 DEF CoveredTrue, Vouched
    <2>2. /\ s.at \in Nat /\ covered[u] \in Nat /\ scan[r] \in Nat /\ Margin \in Nat
          /\ ExportSkew[q] \in Nat /\ ExportSkew[r] \in Nat
      BY SyncConstants DEF SyncTypeOK
    <2>3. FullRuns \cap UserRuns = {} /\ r \in FullRuns \cup UserRuns
      BY SyncConstants DEF Runs, FullRuns
    <2>4. CASE s.user = NoUser \/ r \in UserRuns
      <3>1. s.user = NoUser \/ s.user = Subject[r]
        BY <2>1, <2>4 DEF Excluded
      <3>2. s.at <= VerifiedAt(r)
        BY <2>2, <2>4, <3>1 DEF Superseded, VerifiedAt
      <3>3. s.user = NoUser => q \in FullRuns
        BY <2>1, SyncConstants
      <3>4. ExportSkew[r] <= ExportSkew[q]
        <4>1. ~(r \in FullRuns /\ q \in UserRuns)
          BY <2>3, <2>4, <3>3
        <4>2. ExportSkew[r] <= ExportSkew[q] + 0
          BY <4>1 DEF ClocksAgree
        <4>3. QED
          BY <2>2, <4>2
      <3>5. QED
        BY <2>1, <2>2, <3>2, <3>4 DEF VerifiedAt
    <2>5. CASE s.user # NoUser /\ r \notin UserRuns
      <3>1. s.user = u
        BY <2>1, <2>5
      <3>2. s.at <= VerifiedAt(r) - Margin
        BY <2>2, <2>5, <3>1 DEF Excluded, VerifiedAt
      <3>3. ExportSkew[r] <= ExportSkew[q] + Margin
        BY <2>1, <2>3, <2>5 DEF ClocksAgree
      <3>4. QED
        BY <2>1, <2>2, <3>2, <3>3 DEF VerifiedAt
    <2>6. QED
      BY <2>4, <2>5
  <1>3. QED
    BY <1>1, <1>2 DEF SyncTypeOK

LEMMA PlanStep ==
    ASSUME SyncInv, CoveredTrue, ClocksAgree, NEW r \in Runs, PlanChanges(r)
    PROVE  PlannedFresh(r)'
  <1>0. SyncTypeOK /\ StageFacts(r)
    BY DEF SyncInv, ApplyInv
  <1>1. ~Superseded(r) /\ stage'[r] = "writing" /\ batch'[r] = {} /\ UNCHANGED <<covered, scan, owner>>
    BY <1>0 DEF StageFacts, PlanChanges, Acceptable, Goto, SyncTypeOK, store, resolving
  <1>2. PICK keep \in BOOLEAN :
           /\ pending' = [pending EXCEPT ![r] = ToWrite(r) \cup (IF keep THEN {} ELSE Orphans(r))]
           /\ left' = [left EXCEPT ![r] = Excluded(r) \cup (IF keep THEN Orphans(r) ELSE {})]
    BY DEF PlanChanges, Flags
  <1>3. /\ pending'[r] = ToWrite(r) \cup (IF keep THEN {} ELSE Orphans(r))
        /\ left'[r] = Excluded(r) \cup (IF keep THEN Orphans(r) ELSE {})
    BY <1>0, <1>2 DEF SyncTypeOK
  <1>4. pending'[r] \cap left'[r] = {}
    BY <1>3 DEF ToWrite, Orphans, Held, Resolved, InScope
  <1>5. Users \ Reach(r) \subseteq left'[r]
    BY <1>3 DEF Excluded, Reach
  <1>6. \A u \in Users \ left'[r] : covered[u] <= scan[r]
    BY <1>0, <1>1, <1>3, PlanIsNewest
  <1>7. QED
    BY <1>1, <1>4, <1>5, <1>6 DEF PlannedFresh, Reach

(* A batch changes only records of people of whom nothing newer is          *)
(* published, and makes them what the run resolved.                         *)
LEMMA LandSettled ==
    ASSUME SyncInv, FreshInv, NEW r \in Runs, stage[r] = "sending",
           NEW landed \in SUBSET batch[r], Land(r, landed),
           UNCHANGED <<member, changedAt, covered>>
    PROVE  /\ SettledRecordsCorrect'
           /\ \A u \in Users : records'[u] # records[u] => u \in batch[r] /\ covered[u] <= scan[r]
  <1>0. SyncTypeOK /\ owner = r /\ SeenTrue(r) /\ PlannedFresh(r)
    BY DEF SyncInv, ApplyInv, SendingOwns, Sending, FreshInv, Fresh
  <1>1. \A u \in landed : u \in Users \ left[r] /\ u \in Reach(r) /\ covered[u] <= scan[r]
    BY <1>0 DEF PlannedFresh, Sending, SyncTypeOK
  <1>2. \A u \in landed : records'[u] = view[r][u]
    BY <1>1 DEF Land
  <1>3. \A u \in Users \ landed : records'[u] = records[u]
    BY DEF Land
  <1>4. ASSUME NEW u \in Users, covered[u] > changedAt[u] PROVE records'[u] = TierOf(u)
    <2>1. CASE u \in landed
      <3>1. scan[r] > changedAt[u]
        BY <1>0, <1>1, <1>4, <2>1 DEF SyncTypeOK
      <3>2. QED
        BY <1>0, <1>1, <1>2, <2>1, <3>1 DEF SeenTrue, Locked, Sending
    <2>2. CASE u \notin landed
      BY <1>3, <1>4, <2>2 DEF FreshInv, SettledRecordsCorrect
    <2>3. QED
      BY <2>1, <2>2
  <1>5. SettledRecordsCorrect'
    BY <1>4 DEF SettledRecordsCorrect, TierOf
  <1>6. QED
    BY <1>1, <1>3, <1>5

(* The status vouches for what the run publishes. *)
LEMMA PublishSettled ==
    ASSUME SyncInv, SyncTypeOK', FreshInv, NEW r \in Runs, stage[r] = "publishing", Publish(r),
           UNCHANGED <<member, changedAt, records, clock>>
    PROVE  /\ CoveredTrue' /\ SettledRecordsCorrect'
           /\ \A u \in Users \ left[r] : covered'[u] = scan[r]
  <1>0. SyncTypeOK /\ owner = r /\ ApplyInv(r) /\ Stamped(r) /\ SeenTrue(r) /\ PlannedFresh(r)
    BY DEF SyncInv, ApplyInv, SendingOwns, Sending, FreshInv, Fresh
  <1>1. \A u \in Users \ left[r] : covered'[u] = scan[r] /\ u \in Reach(r)
    BY <1>0 DEF PlannedFresh, Sending, Publish, Later, SyncTypeOK
  <1>2. \A u \in Users \cap left[r] : covered'[u] = covered[u]
    BY DEF Publish
  <1>3. ASSUME NEW u \in Users, covered'[u] > 0 PROVE Vouched(u)'
    <2>1. CASE u \in left[r]
      BY <1>2, <1>3, <2>1 DEF FreshInv, CoveredTrue, Vouched, Publish
    <2>2. CASE u \notin left[r]
      <3> DEFINE s == [user |-> IF r \in UserRuns THEN Subject[r] ELSE NoUser, at |-> finishedAt[r]]
      <3>1. s \in statuses' /\ s.at = finishedAt[r]
        BY DEF Publish
      <3>2. scan[r] + ExportSkew[r] <= finishedAt[r]
        BY <1>0 DEF Stamped, VerifiedAt
      <3>3. (r \in FullRuns /\ s.user = NoUser) \/ (r \in UserRuns /\ s.user = u)
        BY <1>1, <2>2 DEF Reach, Runs, FullRuns
      <3>4. covered'[u] + ExportSkew[r] <= s.at
        BY <1>1, <2>2, <3>1, <3>2
      <3>5. QED
        BY <3>1, <3>3, <3>4 DEF Vouched
    <2>3. QED
      BY <2>1, <2>2
  <1>4. \A u \in Users : covered'[u] <= clock'
    BY <1>0, <1>1, <1>2 DEF FreshInv, CoveredTrue, Stamped
  <1>5. ASSUME NEW u \in Users, covered'[u] > changedAt[u] PROVE records[u] = TierOf(u)
    <2>1. CASE u \in left[r]
      BY <1>2, <1>5, <2>1 DEF FreshInv, SettledRecordsCorrect
    <2>2. CASE u \notin left[r]
      <3>1. records[u] = view[r][u]
        BY <1>0, <2>2 DEF ApplyInv, WrittenTrue, StageFacts, Sending
      <3>2. view[r][u] = TierOf(u)
        BY <1>0, <1>1, <1>5, <2>2 DEF SeenTrue, Locked, Sending
      <3>3. QED
        BY <3>1, <3>2
    <2>3. QED
      BY <2>1, <2>2
  <1>6. SettledRecordsCorrect'
    BY <1>5 DEF SettledRecordsCorrect, TierOf
  <1>7. QED
    BY <1>1, <1>3, <1>4, <1>6 DEF CoveredTrue
-----------------------------------------------------------------------------
(* One step of the apply keeps what is true of its run. *)
LEMMA ApplyFresh ==
    ASSUME SyncInv, SyncTypeOK', FreshInv, ClocksAgree, NEW r \in Runs, Apply(r)
    PROVE  Fresh(r)' /\ \A s \in Runs \ {r} : Kept(s)
  <1> USE DEF directory, resolving, applying, store
  <1>0. SyncTypeOK /\ Fresh(r) /\ ApplyInv(r) /\ CoveredTrue
    BY DEF SyncInv, FreshInv
  <1> USE DEF Apply, ReadExisting, PlanChanges, RefusePlan, SendBatch, BatchReturns, BatchThrows,
              FinishWrites, ForceRenew, StatusReturns, Goto
  <1>1. \A s \in Runs \ {r} : Kept(s)
    BY <1>0 DEF SyncTypeOK, Kept
  <1>2. UNCHANGED <<clock, member, changedAt, scan, premiumSeen, view, owner>>
    OBVIOUS
  <1>3. stage[r] \in Locked /\ stage'[r] \in Locked
    BY <1>0 DEF SyncTypeOK, Locked, Sending
  <1>4. Stamped(r)'
    <2>1. stage'[r] \in {"finishing", "publishing"} => VerifiedAt(r) <= finishedAt'[r]
      BY <1>0, <1>3 DEF Fresh, Stamped, VerifiedAt, SyncTypeOK
    <2>2. QED
      BY <1>0, <1>2, <1>3, <2>1 DEF Fresh, Stamped, VerifiedAt, Locked, Sending
  <1>5. SeenTrue(r)'
    BY <1>0, <1>2, <1>3 DEF Fresh, SeenTrue, TierOf, Reach, Locked, Sending
  <1>6. PlannedFresh(r)'
    <2>1. CASE ReadExisting(r) \/ RefusePlan(r) \/ BatchThrows(r) \/ StatusReturns(r)
      BY <1>0, <2>1 DEF PlannedFresh, Sending, SyncTypeOK
    <2>2. CASE PlanChanges(r)
      BY <1>0, <2>2, PlanStep
    <2>3. CASE SendBatch(r) \/ BatchReturns(r) \/ FinishWrites(r) \/ ForceRenew(r)
      <3>1. /\ stage[r] \in {"writing", "finishing"} \cup Sending
            /\ UNCHANGED <<left, covered>>
        BY <2>3 DEF Sending
      <3>2. pending'[r] \cup batch'[r] \subseteq pending[r] \cup batch[r]
        BY <1>0, <2>3 DEF SyncTypeOK, Upserts
      <3>3. QED
        BY <1>0, <1>2, <3>1, <3>2 DEF Fresh, PlannedFresh, Reach
    <2>4. QED
      BY <2>1, <2>2, <2>3
  <1>7. QED
    BY <1>1, <1>4, <1>5, <1>6 DEF Fresh

(* What a run changes in the container and in the statuses. *)
LEMMA StoreStep ==
    ASSUME SyncInv, SyncTypeOK', FreshInv, NEW r \in Runs, Apply(r) \/ Crash(r)
    PROVE  /\ CoveredTrue' /\ SettledRecordsCorrect'
           /\ owner = r \/ UNCHANGED covered
           /\ \A u \in Users : records'[u] # records[u] => u \in batch[r] /\ covered[u] <= scan[r]
  <1> USE DEF directory, store
  <1>0. SyncTypeOK /\ CoveredTrue /\ SettledRecordsCorrect /\ (stage[r] \in Sending => owner = r)
    BY DEF SyncInv, FreshInv, ApplyInv, SendingOwns
  <1>1. UNCHANGED <<clock, member, changedAt>> /\ clock <= clock'
    BY <1>0 DEF Apply, ReadExisting, PlanChanges, RefusePlan, SendBatch, BatchReturns, BatchThrows,
              FinishWrites, ForceRenew, StatusReturns, Crash, SyncTypeOK
  <1>2. CASE UNCHANGED store
    BY <1>0, <1>1, <1>2, SameCovered, SameSettled
  <1>3. CASE /\ stage[r] = "sending" /\ \E landed \in SUBSET batch[r] : Land(r, landed)
             /\ UNCHANGED <<statuses, covered>>
    BY <1>0, <1>1, <1>3, SameCovered, LandSettled
  <1>4. CASE /\ stage[r] = "publishing" /\ Publish(r) /\ UNCHANGED <<records, legacy>>
    BY <1>0, <1>1, <1>4, PublishSettled DEF Sending
  <1>5. QED
    BY <1>0, <1>2, <1>3, <1>4 DEF Apply, ReadExisting, PlanChanges, RefusePlan, SendBatch, BatchReturns,
       BatchThrows, FinishWrites, ForceRenew, StatusReturns, Crash
(* What a step of the lock does: it changes hands, and nothing else. *)
LEMMA LockFresh ==
    ASSUME SyncInv, SyncTypeOK', FreshInv, NEW r \in Runs, Acquire(r)
    PROVE  Fresh(r)' /\ \A s \in Runs \ {r} : Kept(s)
  <1> USE DEF directory, resolving, applying
  <1>0. SyncTypeOK /\ Fresh(r)
    BY DEF SyncInv, FreshInv
  <1>1. /\ stage[r] = "waiting" /\ stage'[r] = "reading"
        /\ UNCHANGED <<clock, member, changedAt, scan, view, finishedAt>>
        /\ \A s \in Runs \ {r} : Kept(s)
    BY <1>0 DEF Acquire, Goto, SyncTypeOK, Kept
  <1>2. Stamped(r)' /\ PlannedFresh(r)'
    BY <1>0, <1>1 DEF Fresh, Stamped, PlannedFresh, VerifiedAt, Sending
  <1>3. SeenTrue(r)'
    BY <1>0, <1>1 DEF Fresh, SeenTrue, Locked, Reach, TierOf
  <1>4. QED
    BY <1>1, <1>2, <1>3 DEF Fresh

LEMMA FreshStep ==
    ASSUME SyncInv, SyncTypeOK', FreshInv, ClocksAgree, [Next]_syncVars
    PROVE  FreshInv'
  <1> USE DEF directory, store, resolving, applying
  <1>0. SyncTypeOK /\ CoveredTrue /\ SettledRecordsCorrect /\ \A s \in Runs : Fresh(s)
    BY DEF SyncInv, FreshInv
  <1>1. ASSUME NEW r \in Runs, Fresh(r)', \A s \in Runs \ {r} : Kept(s),
               UNCHANGED <<clock, directory>>,
               \A s \in Runs \ {r} : owner' = s => owner = s /\ UNCHANGED covered
        PROVE  \A s \in Runs : Fresh(s)'
    <2>1. clock <= clock' /\ UNCHANGED <<member, changedAt>>
      BY <1>0, <1>1 DEF SyncTypeOK
    <2>2. ASSUME NEW s \in Runs \ {r} PROVE Fresh(s)'
      BY <1>0, <1>1, <2>1, KeptFresh
    <2>3. QED
      BY <1>1, <2>2
  <1>2. CASE Tick \/ UNCHANGED syncVars
    <2>1. /\ clock <= clock' /\ UNCHANGED <<directory, store, owner, stage, resolving, applying>>
      BY <1>0, <1>2 DEF Tick, syncVars, SyncTypeOK
    <2>2. \A s \in Runs : Fresh(s)'
      BY <1>0, <2>1, KeptFresh DEF Kept
    <2>3. QED
      BY <1>0, <2>1, <2>2, SameCovered, SameSettled DEF FreshInv
  <1>3. ASSUME NEW u \in Users, NEW t \in Tiers, ChangeMember(u, t) PROVE FreshInv'
    BY <1>3, DirectoryStep
  <1>4. ASSUME NEW r \in Runs, Resolve(r) \/ Lock(r) PROVE FreshInv'
    <2>1. UNCHANGED <<clock, directory, store>> /\ (owner' = owner \/ owner' \in {r, NoRun})
      BY <1>4 DEF Resolve, BeginScan, ReadPremium, ReadStandard, CheckUser, StartApply, RefuseSnapshot,
         Lock, Acquire, GiveUp, LoseLock, Release
    <2>2. Fresh(r)' /\ \A s \in Runs \ {r} : Kept(s)
      BY <1>0, <1>4, ResolveStep, LockFresh, EndedFresh
         DEF Resolve, RefuseSnapshot, Lock, GiveUp, LoseLock, Release
    <2>3. \A s \in Runs \ {r} : owner' = s => owner = s /\ UNCHANGED covered
      BY <2>1, SyncConstants
    <2>4. \A s \in Runs : Fresh(s)'
      BY <1>1, <2>1, <2>2, <2>3
    <2>5. QED
      BY <1>0, <2>1, <2>4, SameCovered, SameSettled DEF FreshInv, SyncTypeOK
  <1>5. ASSUME NEW r \in Runs, Apply(r) \/ Crash(r) PROVE FreshInv'
    <2>1. UNCHANGED <<clock, directory, owner>>
      BY <1>5 DEF Apply, ReadExisting, PlanChanges, RefusePlan, SendBatch, BatchReturns, BatchThrows,
         FinishWrites, ForceRenew, StatusReturns, Crash
    <2>2. Fresh(r)' /\ \A s \in Runs \ {r} : Kept(s)
      BY <1>0, <1>5, <2>1, ApplyFresh, EndedFresh DEF Crash
    <2>3. CoveredTrue' /\ SettledRecordsCorrect' /\ (owner = r \/ UNCHANGED covered)
      BY <1>5, StoreStep
    <2>4. \A s \in Runs \ {r} : owner' = s => owner = s /\ UNCHANGED covered
      BY <2>1, <2>3
    <2>5. QED
      BY <1>1, <2>1, <2>2, <2>3, <2>4 DEF FreshInv
  <1>6. QED
    BY <1>2, <1>3, <1>4, <1>5 DEF Next

(* Everything published has a status that says so, every resolution holds   *)
(* until the directory changes, and the owner of the lock plans on what is  *)
(* newest, for any number of people and runs whose clocks agree.            *)
THEOREM FreshInvariant == ASSUME ClocksAgree PROVE Spec => []FreshInv
  <1>1. Init => FreshInv
    <2> SUFFICES ASSUME Init PROVE FreshInv
      OBVIOUS
    <2>1. ASSUME NEW r \in Runs PROVE Fresh(r)
      BY DEF Init, Fresh, Stamped, SeenTrue, PlannedFresh, Locked, Sending
    <2>2. CoveredTrue /\ SettledRecordsCorrect
      BY DEF Init, CoveredTrue, SettledRecordsCorrect
    <2>3. QED
      BY <2>1, <2>2 DEF FreshInv
  <1>2. SyncInv /\ SyncTypeOK' /\ FreshInv /\ [Next]_syncVars => FreshInv'
    BY FreshStep
  <1>3. QED
    BY <1>1, <1>2, SyncInvariant, SyncTypeCorrect, PTL DEF Spec

(* Once a scan that began after the last change of a person's tier is       *)
(* published, the record of that person agrees with the directory, for any  *)
(* number of people and runs that overlap, fail, stall and crash.           *)
THEOREM SettledIsCorrect == ASSUME ClocksAgree PROVE Spec => []SettledRecordsCorrect
  <1>1. FreshInv => SettledRecordsCorrect
    BY DEF FreshInv
  <1>2. QED
    BY <1>1, FreshInvariant, PTL

(* No run overwrites a record by what it resolved before something          *)
(* published of the same person, whatever its age and however it lost the   *)
(* lock.                                                                    *)
THEOREM StaleNeverOverwrites == ASSUME ClocksAgree PROVE Spec => NoStaleOverwrite
  <1> DEFINE A == \A u \in Users : records'[u] # records[u] =>
                    \E r \in Runs : u \in batch[r] /\ scan[r] >= covered[u]
  <1>1. SyncInv /\ SyncTypeOK' /\ FreshInv /\ [Next]_syncVars => [A]_syncVars
    <2> SUFFICES ASSUME SyncInv, SyncTypeOK', FreshInv, Next PROVE A
      BY DEF syncVars, store
    <2>1. SyncTypeOK
      BY DEF SyncInv
    <2>2. ASSUME NEW r \in Runs, Apply(r) \/ Crash(r) PROVE A
      <3>1. \A u \in Users : records'[u] # records[u] => u \in batch[r] /\ covered[u] <= scan[r]
        BY <2>2, StoreStep
      <3>2. QED
        BY <2>1, <3>1 DEF SyncTypeOK
    <2>3. CASE UNCHANGED records
      BY <2>3
    <2>4. QED
      BY <2>2, <2>3 DEF Next, Tick, ChangeMember, Resolve, BeginScan, ReadPremium, ReadStandard,
         CheckUser, StartApply, RefuseSnapshot, Lock, Acquire, GiveUp, LoseLock, Release, store
  <1> HIDE DEF A
  <1>2. QED
    BY <1>1, SyncInvariant, SyncTypeCorrect, FreshInvariant, PTL DEF Spec, NoStaleOverwrite, A
=============================================================================
