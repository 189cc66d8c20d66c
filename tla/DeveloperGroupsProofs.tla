------------------------- MODULE DeveloperGroupsProofs -------------------------
(***************************************************************************)
(* For any people, groups, runs and edits: a run's answers from replicas   *)
(* can only be wrong about memberships that somebody else has just         *)
(* changed, so that what it has verified is so, until somebody changes it. *)
(***************************************************************************)
EXTENDS DeveloperGroups, FiniteSetTheorems, SequenceTheorems, TLAPS

Publishing == {"readPremium", "readStandard", "putPremium", "putStandard", "readBack"}
Changing == {"last", "check", "write", "wait", "recheck"}
Puts == [group : Groups, present : BOOLEAN]
Answers == Tiers \cup {"none"}
Records ==
    [step : Steps, person : People \cup {NoPerson}, want : Answers, plan : Seq(Puts), next : Nat,
     last : SUBSET Tiers, flags : SUBSET Tiers, taken : SUBSET People, tries : Nat,
     reviewed : {<<>>} \cup [tier : Answers, changes : Seq(Puts)],
     pending : [Tiers -> {<<>>} \cup {<<list>> : list \in SUBSET People}],
     clean : SUBSET (People \X Groups), alone : BOOLEAN]

(* The plan says one thing of its i-th group: a unit's group that is the   *)
(* other tier's group as well would be both removed and added.             *)
Agrees(plan, i) == \A j \in 1..Len(plan) : plan[j].group = plan[i].group => plan[j].present = plan[i].present
(* What a run's record says of itself: the plan is the one of its purpose, *)
(* and lists are read, and may be empty, in its publication only.          *)
PlanOK(o) ==
    /\ o.plan # <<>> => o.person \in People
    /\ o.want \in Tiers => /\ o.plan # <<>> /\ o.plan[1] = Put(o.want, TRUE)
                           /\ \A i \in 1..Len(o.plan) : o.plan[i].group = o.want => o.plan[i].present
    /\ o.want = "none" => \A i \in 1..Len(o.plan) : ~o.plan[i].present
    /\ Scopes \cap Tiers = {} => \A i \in 1..Len(o.plan) : Agrees(o.plan, i)
StepOK(o) ==
    /\ o.next \in 1..Len(o.plan) + 1 /\ o.flags \subseteq o.last /\ o.tries <= MaxTries
    /\ o.last # {} \/ o.step = "last" => o.want = "none" /\ o.plan # <<>>
    /\ o.step \in Ended => o.plan = <<>>
    /\ o.step \notin Publishing => o.flags = {} /\ o.pending = Idle.pending
    /\ o.step \in {"write", "wait"} => o.next <= Len(o.plan)
RecordOK(o) == PlanOK(o) /\ StepOK(o)
TypesOK ==
    /\ member \in [Groups -> SUBSET People] /\ lag \subseteq People \X Groups
    /\ scopes \subseteq Scopes /\ allow \in [Tiers -> SUBSET People]
    /\ op \in [Runs -> Records]
    /\ \A a \in Runs : RecordOK(op[a])
    /\ \A a \in Timers : op[a].plan = <<>>

(* A clean membership is only behind somewhere when the run itself has     *)
(* changed it, so it is what the plan wants.                               *)
OwnLag(o) ==
    \A q \in People, g \in Groups : <<q, g>> \in o.clean /\ <<q, g>> \in lag =>
        /\ q = o.person /\ \E i \in 1..Len(o.plan) : o.plan[i].group = g
        /\ \A i \in 1..Len(o.plan) :
              o.plan[i].group = g /\ Agrees(o.plan, i) => ((q \in member[g]) = o.plan[i].present)
(* What was verified stays so while nobody else touches it. *)
DoneHolds(o) ==
    \A i \in 1..Len(o.plan) :
        /\ i < o.next /\ Agrees(o.plan, i) /\ <<o.person, o.plan[i].group>> \in o.clean
        => ((o.person \in member[o.plan[i].group]) = o.plan[i].present)
(* A tier that may be published empty has no member that stayed. *)
FlagsHold(o) ==
    \A t \in o.flags, q \in People : <<q, t>> \in o.clean => q \notin member[t]
(* An empty list is waiting only when it may be written. *)
EmptyAllowed(o) ==
    \A t \in Tiers : o.alone /\ o.pending[t] = <<{}>> => t \in o.flags \/ allow[t] = {}

RunOK(o) == OwnLag(o) /\ DoneHolds(o) /\ FlagsHold(o) /\ EmptyAllowed(o)
DevInv == TypesOK /\ \A a \in Runs : RunOK(op[a])

-----------------------------------------------------------------------------
(* --------------------------- the plan of a run --------------------------- *)
LEMMA OtherTier == ASSUME NEW t \in Tiers PROVE Other(t) \in Tiers /\ Other(t) # t
<1>1. \E u \in Tiers : u # t
  BY DEF Tiers
<1>. QED BY <1>1 DEF Other

(* Every scope of a finite catalog is listed. *)
LEMMA ScopeList ==
  ASSUME DeveloperAssumption, NEW S \in SUBSET Scopes
  PROVE  Cardinality(S) \in Nat /\ SetToSeq(S) \in [1..Cardinality(S) -> S]
<1>1. IsFiniteSet(S)
  BY FS_Subset DEF DeveloperAssumption
<1>2. Cardinality(S) \in Nat /\ ExistsBijection(1..Cardinality(S), S)
  BY <1>1, FS_CardinalityType
<1>3. PICK f \in Bijection(1..Cardinality(S), S) : TRUE
  BY <1>2 DEF ExistsBijection
<1>4. f \in [1..Cardinality(S) -> S] /\ IsInjective(f)
  BY <1>3 DEF Bijection, Injection, Surjection, IsInjective
<1>. QED BY <1>2, <1>4 DEF SetToSeq

LEMMA TwoFirst ==
  ASSUME NEW S, NEW x \in S, NEW y \in S, NEW s \in Seq(S)
  PROVE  /\ <<x, y>> \o s \in Seq(S) /\ Len(<<x, y>> \o s) = 2 + Len(s)
         /\ (<<x, y>> \o s)[1] = x /\ (<<x, y>> \o s)[2] = y
         /\ \A i \in 3..2 + Len(s) : (<<x, y>> \o s)[i] = s[i - 2]
<1>. DEFINE two == <<x, y>>
<1>1. two \in Seq(S) /\ Len(two) = 2 /\ two[1] = x /\ two[2] = y
  OBVIOUS
<1>. HIDE DEF two
<1>2. /\ two \o s \in Seq(S) /\ Len(two \o s) = Len(two) + Len(s) /\ Len(s) \in Nat
      /\ \A i \in 1..Len(two) + Len(s) : (two \o s)[i] = IF i <= Len(two) THEN two[i] ELSE s[i - Len(two)]
  BY <1>1, ConcatProperties, LenProperties
<1>3. /\ (two \o s)[1] = x /\ (two \o s)[2] = y
      /\ \A i \in 3..2 + Len(s) : (two \o s)[i] = s[i - 2]
  BY <1>1, <1>2
<1>. QED BY <1>1, <1>2, <1>3 DEF two

LEMMA PutIs ==
  ASSUME NEW g \in Groups, NEW b \in BOOLEAN
  PROVE  Put(g, b) \in Puts /\ Put(g, b).group = g /\ Put(g, b).present = b
  BY DEF Put, Puts

(* What the plan of any purpose is like. *)
LEMMA PlanShape ==
  ASSUME DeveloperAssumption, scopes \subseteq Scopes,
         NEW want \in Answers, NEW unit \in Scopes \cup {NoScope}
  PROVE  LET plan == Changes(want, unit)
         IN  /\ plan \in Seq(Puts) /\ plan # <<>>
             /\ want \in Tiers => /\ plan[1] = Put(want, TRUE)
                                  /\ \A i \in 1..Len(plan) : plan[i].group = want => plan[i].present
             /\ want = "none" => \A i \in 1..Len(plan) : ~plan[i].present
             /\ Scopes \cap Tiers = {} => \A i \in 1..Len(plan) : Agrees(plan, i)
<1>. DEFINE n == Cardinality(scopes)  rest == [i \in 1..n |-> Put(SetToSeq(scopes)[i], FALSE)]
<1>1. n \in Nat /\ SetToSeq(scopes) \in [1..n -> scopes]
  BY ScopeList
<1>2. rest \in Seq(Puts) /\ Len(rest) = n /\ \A i \in 1..n : ~rest[i].present
  <2>1. \A i \in 1..n : Put(SetToSeq(scopes)[i], FALSE) \in Puts /\ ~Put(SetToSeq(scopes)[i], FALSE).present
    BY <1>1, PutIs DEF Groups
  <2>2. rest \in [1..n -> Puts] /\ \A i \in 1..n : ~rest[i].present
    BY <2>1
  <2>. HIDE DEF n, rest
  <2>3. rest \in Seq(Puts)
    BY <1>1, <2>2, SeqDef
  <2>4. Len(rest) = n
    BY <1>1, <2>2, <2>3, LenProperties
  <2>. QED BY <2>2, <2>3, <2>4
<1>. HIDE DEF n, rest
<1>4. CASE want = "none"
  <2>. DEFINE x == Put("standard", FALSE)  y == Put("premium", FALSE)  plan == <<x, y>> \o rest
  <2>1. Changes(want, unit) = plan
    BY <1>4 DEF Changes, n, rest
  <2>2. x \in Puts /\ y \in Puts /\ ~x.present /\ ~y.present
    BY PutIs DEF Tiers, Groups
  <2>. HIDE DEF x, y
  <2>3. /\ plan \in Seq(Puts) /\ Len(plan) = 2 + n /\ plan[1] = x /\ plan[2] = y
        /\ \A i \in 3..2 + n : plan[i] = rest[i - 2]
    BY <1>2, <2>2, TwoFirst
  <2>. HIDE DEF plan
  <2>4. \A i \in 1..2 + n : ~plan[i].present
    BY <1>1, <1>2, <2>2, <2>3
  <2>5. plan # <<>>
    BY <1>1, <2>3
  <2>6. \A i \in 1..2 + n : plan[i].present \in BOOLEAN
    <3>1. \A i \in 1..2 + n : plan[i] \in Puts
      BY <2>3, ElementOfSeq
    <3>. QED BY <3>1 DEF Puts
  <2>7. \A i \in 1..2 + n : Agrees(plan, i)
    BY <2>3, <2>4, <2>6 DEF Agrees
  <2>. QED BY <1>4, <2>1, <2>3, <2>4, <2>5, <2>7 DEF Tiers
<1>5. CASE want # "none"
  <2>. DEFINE x == Put(want, TRUE)  y == Put(Other(want), FALSE)  z == Put(unit, TRUE)
              last == IF unit = NoScope THEN <<>> ELSE <<z>>  plan == <<x, y>> \o last
  <2>1. Changes(want, unit) = plan /\ want \in Tiers
    BY <1>5 DEF Changes, Answers
  <2>2. x \in Puts /\ y \in Puts /\ x.present /\ y.group # want
    BY <2>1, PutIs, OtherTier DEF Groups
  <2>8. x.present = TRUE /\ x.group = want /\ y.present = FALSE /\ y.group = Other(want) /\ Other(want) \in Tiers
    BY <2>1, PutIs, OtherTier DEF Groups
  <2>3. unit # NoScope => z \in Puts /\ z.present = TRUE /\ z.group \in Scopes
    BY PutIs DEF Groups
  <2>. HIDE DEF z
  <2>4. last \in Seq(Puts) /\ Len(last) \in 0..1 /\ \A i \in 1..Len(last) : last[i].present = TRUE /\ last[i].group \in Scopes
    BY <2>3
  <2>. HIDE DEF x, y, last
  <2>5. /\ plan \in Seq(Puts) /\ Len(plan) = 2 + Len(last) /\ plan[1] = x /\ plan[2] = y
        /\ \A i \in 3..2 + Len(last) : plan[i] = last[i - 2]
    BY <2>2, <2>4, TwoFirst
  <2>. HIDE DEF plan
  <2>6. \A i \in 1..2 + Len(last) : plan[i].group = want => plan[i].present
    BY <2>2, <2>4, <2>5
  <2>7. plan # <<>>
    BY <2>4, <2>5
  <2>9. ASSUME Scopes \cap Tiers = {}, NEW i \in 1..Len(plan) PROVE Agrees(plan, i)
    <3>1. ASSUME NEW j \in 1..Len(plan) PROVE plan[j].present = (plan[j].group # Other(want))
      <4>1. CASE j = 1
        BY <2>1, <2>5, <2>8, <4>1, OtherTier
      <4>2. CASE j = 2
        BY <2>5, <2>8, <4>2
      <4>3. CASE j > 2
        <5>1. plan[j] = last[j - 2] /\ j - 2 \in 1..Len(last)
          BY <2>4, <2>5, <4>3
        <5>. QED BY <2>4, <2>8, <2>9, <5>1
      <4>. QED BY <2>4, <2>5, <4>1, <4>2, <4>3
    <3>. QED BY <3>1 DEF Agrees
  <2>. QED BY <1>5, <2>1, <2>5, <2>6, <2>7, <2>9 DEF x
<1>. QED BY <1>4, <1>5

-----------------------------------------------------------------------------
(* --------------------------- one run, and the rest ----------------------- *)
(* A step that touches no membership and no list: only the record of run a *)
(* changes.                                                                *)
LEMMA RecordStep ==
  ASSUME DevInv, NEW a \in Runs, UNCHANGED <<member, lag, allow>>, scopes' \subseteq Scopes,
         op' \in [Runs -> Records], \A b \in Runs \ {a} : op'[b] = op[b],
         RecordOK(op'[a]), a \in Timers => op'[a].plan = <<>>, NEW r, r = op'[a], RunOK(r)
  PROVE  DevInv'
<1>0. \A b \in Runs : RecordOK(op'[b])
  BY DEF DevInv, TypesOK
<1>1. TypesOK'
  BY <1>0 DEF DevInv, TypesOK, Runs
<1>2. ASSUME NEW b \in Runs PROVE RunOK(op[b])'
  <2>1. ASSUME NEW x, RunOK(x) PROVE RunOK(x)'
    BY <2>1 DEF RunOK, OwnLag, DoneHolds, FlagsHold, EmptyAllowed
  <2>2. CASE b = a
    BY <2>1, <2>2
  <2>3. CASE b # a
    BY <2>1, <2>3 DEF DevInv
  <2>. QED BY <2>2, <2>3
<1>. QED BY <1>1, <1>2 DEF DevInv

(* One membership is changed and no longer clean for anybody but run a,    *)
(* whose plan the change is, or nobody's.                                  *)
LEMMA MemberStep ==
  ASSUME DevInv, DeveloperAssumption, NEW p \in People, NEW g \in Groups, UNCHANGED <<scopes, allow>>,
         member' \in [Groups -> SUBSET People], lag' = lag \cup {<<p, g>>},
         \A h \in Groups, q \in People : h # g \/ q # p => (q \in member'[h] <=> q \in member[h]),
         op' \in [Runs -> Records],
         \A b \in Runs : \/ op'[b] = [op[b] EXCEPT !.clean = @ \ {<<p, g>>}]
                         \/ RecordOK(op'[b]) /\ RunOK(op[b])' /\ (b \in Timers => op'[b].plan = <<>>)
  PROVE  DevInv'
<1>1. ASSUME NEW b \in Runs, op'[b] = [op[b] EXCEPT !.clean = @ \ {<<p, g>>}]
      PROVE  /\ RecordOK(op'[b]) /\ op'[b].plan = op[b].plan /\ RunOK(op[b])'
  <2>. DEFINE o == op[b]  c == op'[b]
  <2>1. op[b] \in Records /\ RecordOK(op[b]) /\ RunOK(op[b])
    BY DEF DevInv, TypesOK
  <2>2. /\ c.step = o.step /\ c.person = o.person /\ c.want = o.want /\ c.plan = o.plan /\ c.next = o.next
        /\ c.last = o.last /\ c.flags = o.flags /\ c.tries = o.tries /\ c.pending = o.pending
        /\ c.alone = o.alone /\ c.clean = o.clean \ {<<p, g>>}
    <3>1. /\ c.step = o.step /\ c.person = o.person /\ c.want = o.want /\ c.plan = o.plan /\ c.next = o.next
          /\ c.alone = o.alone
      BY <1>1, <2>1 DEF Records
    <3>2. c.last = o.last /\ c.flags = o.flags /\ c.tries = o.tries /\ c.pending = o.pending
      BY <1>1, <2>1 DEF Records
    <3>3. c.clean = o.clean \ {<<p, g>>}
      BY <1>1, <2>1 DEF Records
    <3>. QED BY <3>1, <3>2, <3>3
  <2>3. RecordOK(c)
    <3>1. PlanOK(o) /\ StepOK(o)
      BY <2>1 DEF RecordOK
    <3>. HIDE DEF c
    <3>2. PlanOK(c)
      BY <2>2, <3>1 DEF PlanOK
    <3>3. StepOK(c)
      BY <2>2, <3>1 DEF StepOK
    <3>. QED BY <3>2, <3>3 DEF RecordOK
  <2>4. o.plan \in Seq(Puts) /\ o.flags \in SUBSET Tiers
    BY <2>1 DEF Records
  <2>5. \A i \in 1..Len(o.plan) : o.plan[i].group \in Groups
    <3>1. \A i \in 1..Len(o.plan) : o.plan[i] \in Puts
      BY <2>4
    <3>. QED BY <3>1 DEF Puts
  <2>6. \A q, h : <<q, h>> \in c.clean => <<q, h>> \in o.clean /\ ~(q = p /\ h = g)
    BY <2>2
  <2>7. \A q, h : <<q, h>> \in lag' /\ ~(q = p /\ h = g) => <<q, h>> \in lag
    OBVIOUS
  <2>8. \A q, h : <<q, h>> \in o.clean => q \in People /\ h \in Groups
    BY <2>1 DEF Records
  <2>. HIDE DEF c
  <2>9. OwnLag(o) /\ DoneHolds(o) /\ FlagsHold(o) /\ EmptyAllowed(o)
    BY <2>1 DEF RunOK
  <2>10. \A x : x = c => OwnLag(x)'
    <3>1. ASSUME NEW q \in People, NEW h \in Groups, <<q, h>> \in c.clean, <<q, h>> \in lag'
          PROVE  /\ q = c.person /\ \E i \in 1..Len(c.plan) : c.plan[i].group = h
                 /\ \A i \in 1..Len(c.plan) :
                       c.plan[i].group = h /\ Agrees(c.plan, i) => ((q \in member'[h]) = c.plan[i].present)
      <4>1. <<q, h>> \in o.clean /\ <<q, h>> \in lag /\ (q \in member'[h] <=> q \in member[h])
        BY <2>6, <2>7, <3>1
      <4>2. /\ q = o.person /\ \E i \in 1..Len(o.plan) : o.plan[i].group = h
            /\ \A i \in 1..Len(o.plan) :
                  o.plan[i].group = h /\ Agrees(o.plan, i) => ((q \in member[h]) = o.plan[i].present)
        BY <2>9, <4>1, SMTT(20) DEF OwnLag
      <4>3. \A i : ((q \in member'[h]) = o.plan[i].present) <=> ((q \in member[h]) = o.plan[i].present)
        BY <4>1
      <4>. QED BY <2>2, <4>2, <4>3
    <3>. QED BY <3>1 DEF OwnLag
  <2>11. \A x : x = c => DoneHolds(x)'
    <3>1. ASSUME NEW i \in 1..Len(c.plan), i < c.next, Agrees(c.plan, i), <<c.person, c.plan[i].group>> \in c.clean
          PROVE  (c.person \in member'[c.plan[i].group]) = c.plan[i].present
      <4>. DEFINE h == c.plan[i].group
      <4>1. c.person \in People /\ h \in Groups /\ ~(c.person = p /\ h = g) /\ <<c.person, h>> \in o.clean
        BY <2>6, <2>8, <3>1
      <4>2. c.person \in member'[h] <=> c.person \in member[h]
        BY <4>1
      <4>3. (c.person \in member[h]) = c.plan[i].present
        BY <2>2, <2>9, <3>1, <4>1 DEF DoneHolds
      <4>. QED BY <4>2, <4>3
    <3>. QED BY <3>1 DEF DoneHolds
  <2>12. \A x : x = c => FlagsHold(x)'
    BY <2>2, <2>4, <2>6, <2>9 DEF FlagsHold, Groups
  <2>13. \A x : x = c => EmptyAllowed(x)'
    <3>1. \A t \in Tiers : c.alone /\ c.pending[t] = <<{}>> => t \in c.flags \/ allow'[t] = {}
      BY <2>2, <2>9 DEF EmptyAllowed
    <3>. QED BY <3>1 DEF EmptyAllowed
  <2>. QED BY <2>2, <2>3, <2>10, <2>11, <2>12, <2>13 DEF RunOK, c
<1>0. ASSUME NEW b \in Runs PROVE RecordOK(op'[b]) /\ (b \in Timers => op'[b].plan = <<>>)
  <2>1. b \in Timers => op[b].plan = <<>>
    BY DEF DevInv, TypesOK
  <2>2. CASE op'[b] = [op[b] EXCEPT !.clean = @ \ {<<p, g>>}]
    BY <1>1, <2>1, <2>2
  <2>3. CASE op'[b] # [op[b] EXCEPT !.clean = @ \ {<<p, g>>}]
    BY <2>3
  <2>. QED BY <2>2, <2>3
<1>2. TypesOK'
  BY <1>0, <1>1 DEF DevInv, TypesOK, Runs
<1>3. ASSUME NEW b \in Runs PROVE RunOK(op[b])'
  BY <1>1
<1>. QED BY <1>2, <1>3 DEF DevInv

(* A run without a plan and without lists has nothing to keep. *)
LEMMA FreshRun ==
  ASSUME NEW r, r.plan = <<>>, r.clean = {}, r.flags = {}, r.pending = Idle.pending
  PROVE  RunOK(r)
  BY DEF RunOK, OwnLag, DoneHolds, FlagsHold, EmptyAllowed, Idle

LEMMA IdleRun ==
  ASSUME DeveloperAssumption
  PROVE  Idle \in Records /\ RecordOK(Idle) /\ RunOK(Idle) /\ Idle.plan = <<>>
<1>1. /\ Idle.plan = <<>> /\ Idle.clean = {} /\ Idle.flags = {} /\ Idle.step = "idle" /\ Idle.next = 1
      /\ Idle.want = "none" /\ Idle.last = {} /\ Idle.tries = 0
  BY DEF Idle
<1>2. Idle \in Records
  BY DEF Idle, Records, Steps, Ended, Answers
<1>3. RecordOK(Idle)
  BY <1>1 DEF RecordOK, PlanOK, StepOK, Ended, Publishing, DeveloperAssumption, Tiers
<1>. QED BY <1>1, <1>2, <1>3, FreshRun

(* A run ends. *)
LEMMA EndKeeps ==
  ASSUME DevInv, DeveloperAssumption, NEW a \in Runs, Ends(a), UNCHANGED <<member, lag, allow>>, scopes' \subseteq Scopes
  PROVE  DevInv'
<1>1. op' = [op EXCEPT ![a] = Idle] /\ op \in [Runs -> Records]
  BY DEF Ends, DevInv, TypesOK
<1>2. op' \in [Runs -> Records] /\ op'[a] = Idle /\ \A b \in Runs \ {a} : op'[b] = op[b]
  BY <1>1, IdleRun
<1>3. RecordOK(op'[a]) /\ op'[a].plan = <<>>
  BY <1>2, IdleRun
<1>. QED BY <1>2, <1>3, IdleRun, RecordStep

-----------------------------------------------------------------------------
(* -------------------------------- the steps ------------------------------ *)
(* At first nobody runs. *)
LEMMA InitDev == DeveloperAssumption /\ Init => DevInv
<1>. SUFFICES ASSUME DeveloperAssumption, Init PROVE DevInv
  OBVIOUS
<1>1. member \in [Groups -> SUBSET People] /\ \A a \in Runs : op[a] = Idle
  BY DEF Init, DeveloperAssumption
<1>2. allow \in [Tiers -> SUBSET People]
  BY <1>1 DEF Init, Effective, Groups, Tiers
<1>3. op \in [Runs -> Records]
  BY IdleRun DEF Init
<1>4. TypesOK
  BY <1>1, <1>2, <1>3, IdleRun DEF TypesOK, Init, Runs
<1>. QED BY <1>1, <1>4, IdleRun DEF DevInv

LEMMA PlanOfIs ==
  ASSUME DeveloperAssumption, DevInv, NEW p \in People
  PROVE  PlanOf(p) \in [tier : Answers, changes : Seq(Puts)]
<1>1. Changes("none", NoScope) \in Seq(Puts)
  BY PlanShape DEF DevInv, TypesOK, Answers
<1>2. TierOf(p) \in Answers
  BY DEF TierOf, Answers, Tiers
<1>. QED BY <1>1, <1>2 DEF PlanOf

LEMMA PreviewKeeps ==
  ASSUME DevInv, DeveloperAssumption, NEW a \in Admins, NEW p \in People, Preview(a, p)
  PROVE  DevInv'
<1>. DEFINE r == [Idle EXCEPT !.step = "previewed", !.person = p, !.reviewed = PlanOf(p)]
<1>1. a \in Runs /\ op' = [op EXCEPT ![a] = r] /\ op \in [Runs -> Records] /\ UNCHANGED <<member, lag, scopes, allow>>
  BY DEF Preview, DevInv, TypesOK, Runs
<1>2. PlanOf(p) \in [tier : Answers, changes : Seq(Puts)]
  BY PlanOfIs
<1>3. r \in Records
  BY <1>2, IdleRun DEF Records, Steps, Ended
<1>4. /\ r.plan = <<>> /\ r.clean = {} /\ r.flags = {} /\ r.step = "previewed" /\ r.next = 1
      /\ r.want = "none" /\ r.last = {} /\ r.tries = 0 /\ r.pending = Idle.pending
  BY DEF Idle
<1>. HIDE DEF r
<1>5. RecordOK(r)
  BY <1>4 DEF RecordOK, PlanOK, StepOK, Ended, Publishing, DeveloperAssumption, Tiers
<1>6. RunOK(r)
  BY <1>4, FreshRun
<1>7. op' \in [Runs -> Records] /\ op'[a] = r /\ \A b \in Runs \ {a} : op'[b] = op[b]
  BY <1>1, <1>3
<1>8. scopes' \subseteq Scopes
  BY <1>1 DEF DevInv, TypesOK
<1>. QED BY <1>1, <1>4, <1>5, <1>6, <1>7, <1>8, RecordStep

LEMMA ResyncKeeps ==
  ASSUME DevInv, DeveloperAssumption, NEW a \in Timers, Resync(a)
  PROVE  DevInv'
<1>. DEFINE r == [Idle EXCEPT !.step = "readPremium"]
<1>1. a \in Runs /\ op' = [op EXCEPT ![a] = r] /\ op \in [Runs -> Records] /\ UNCHANGED <<member, lag, scopes, allow>>
  BY DEF Resync, DevInv, TypesOK, Runs
<1>3. r \in Records
  BY IdleRun DEF Records, Steps, Ended
<1>4. /\ r.plan = <<>> /\ r.clean = {} /\ r.flags = {} /\ r.step = "readPremium" /\ r.next = 1
      /\ r.want = "none" /\ r.last = {} /\ r.tries = 0 /\ r.pending = Idle.pending
  BY DEF Idle
<1>. HIDE DEF r
<1>5. RecordOK(r)
  BY <1>4 DEF RecordOK, PlanOK, StepOK, Ended, Publishing, DeveloperAssumption, Tiers
<1>6. RunOK(r)
  BY <1>4, FreshRun
<1>7. op' \in [Runs -> Records] /\ op'[a] = r /\ \A b \in Runs \ {a} : op'[b] = op[b]
  BY <1>1, <1>3
<1>8. scopes' \subseteq Scopes
  BY <1>1 DEF DevInv, TypesOK
<1>. QED BY <1>1, <1>4, <1>5, <1>6, <1>7, <1>8, RecordStep

(* A run begins: what had settled is clean, and nothing is done yet. *)
LEMMA BeginKeeps ==
  ASSUME DevInv, DeveloperAssumption, NEW a \in Admins, NEW p \in People, NEW want \in Answers,
         NEW unit \in Scopes \cup {NoScope}, Begin(a, p, want, unit)
  PROVE  DevInv'
<1>. DEFINE plan == Changes(want, unit)  clean == ((People \X Tiers) \cup Pairs(p, scopes)) \ lag
            step == IF want = "none" THEN "last" ELSE "check"  reviewed == op[a].reviewed
            r == [Idle EXCEPT !.step = step, !.person = p, !.want = want, !.plan = plan,
                              !.reviewed = reviewed, !.clean = clean]
<1>1. a \in Runs /\ op \in [Runs -> Records] /\ UNCHANGED <<member, lag, scopes, allow>> /\ scopes' \subseteq Scopes
  BY DEF Begin, DevInv, TypesOK, Runs
<1>2. CASE op' = [op EXCEPT ![a] = Idle]
  BY <1>1, <1>2, EndKeeps DEF Ends
<1>3. CASE op' = [op EXCEPT ![a] = r]
  <2>1. /\ plan \in Seq(Puts) /\ plan # <<>>
        /\ want \in Tiers => /\ plan[1] = Put(want, TRUE)
                             /\ \A i \in 1..Len(plan) : plan[i].group = want => plan[i].present
        /\ want = "none" => \A i \in 1..Len(plan) : ~plan[i].present
        /\ Scopes \cap Tiers = {} => \A i \in 1..Len(plan) : Agrees(plan, i)
    BY PlanShape DEF DevInv, TypesOK
  <2>2. clean \in SUBSET (People \X Groups) /\ clean \cap lag = {}
    BY DEF DevInv, TypesOK, Pairs, Groups
  <2>3. reviewed \in {<<>>} \cup [tier : Answers, changes : Seq(Puts)] /\ step \in Steps
    BY <1>1 DEF Records, Steps
  <2>. HIDE DEF plan, clean, reviewed, step
  <2>4. r \in Records
    BY <2>1, <2>2, <2>3, IdleRun DEF Records
  <2>5. /\ r.plan = plan /\ r.clean = clean /\ r.flags = {} /\ r.next = 1 /\ r.person = p
        /\ r.want = want /\ r.last = {} /\ r.tries = 0 /\ r.pending = Idle.pending
        /\ r.step = IF want = "none" THEN "last" ELSE "check"
    BY DEF Idle, step
  <2>. HIDE DEF r
  <2>6. a \notin Timers
    BY DEF DeveloperAssumption
  <2>7. Len(plan) \in Nat /\ Len(plan) > 0
    BY <2>1, EmptySeq
  <2>8. RecordOK(r)
    <3>1. r.step \notin Ended \cup Publishing \cup {"write", "wait"} /\ 0 <= MaxTries
      BY <2>5 DEF Ended, Publishing, DeveloperAssumption
    <3>2. r.step = "last" => want = "none"
      BY <2>5
    <3>3. /\ r.want \in Tiers => /\ r.plan # <<>> /\ r.plan[1] = Put(r.want, TRUE)
                                 /\ \A i \in 1..Len(r.plan) : r.plan[i].group = r.want => r.plan[i].present
          /\ r.want = "none" => \A i \in 1..Len(r.plan) : ~r.plan[i].present
          /\ Scopes \cap Tiers = {} => \A i \in 1..Len(r.plan) : Agrees(r.plan, i)
      BY <2>1, <2>5
    <3>4. r.next \in 1..Len(r.plan) + 1 /\ r.flags \subseteq r.last /\ r.tries <= MaxTries
      BY <2>5, <2>7, <3>1
    <3>. QED BY <2>1, <2>5, <3>1, <3>2, <3>3, <3>4 DEF RecordOK, PlanOK, StepOK
  <2>9. RunOK(r)
    <3>1. \A t \in Tiers : r.pending[t] = <<>>
      BY <2>5 DEF Idle
    <3>2. EmptyAllowed(r)
      BY <3>1 DEF EmptyAllowed
    <3>3. OwnLag(r) /\ DoneHolds(r) /\ FlagsHold(r)
      BY <2>2, <2>5, <2>7 DEF OwnLag, DoneHolds, FlagsHold
    <3>. QED BY <3>2, <3>3 DEF RunOK
  <2>10. op' \in [Runs -> Records] /\ op'[a] = r /\ \A b \in Runs \ {a} : op'[b] = op[b]
    BY <1>1, <1>3, <2>4
  <2>. QED BY <1>1, <2>6, <2>8, <2>9, <2>10, RecordStep
<1>. QED BY <1>2, <1>3 DEF Begin

(* A step of a run that leaves its purpose, plan and histories alone. *)
LEMMA SameRun ==
  ASSUME NEW o, NEW c, RunOK(o), c.person = o.person, c.plan = o.plan, c.clean = o.clean
  PROVE  /\ OwnLag(c)
         /\ c.next = o.next => DoneHolds(c)
         /\ c.flags = o.flags => FlagsHold(c)
         /\ c.flags = o.flags /\ c.pending = o.pending /\ c.alone = o.alone => EmptyAllowed(c)
<1>1. OwnLag(c)
  BY DEF RunOK, OwnLag
<1>2. c.next = o.next => DoneHolds(c)
  BY DEF RunOK, DoneHolds
<1>3. c.flags = o.flags => FlagsHold(c)
  BY DEF RunOK, FlagsHold
<1>4. c.flags = o.flags /\ c.pending = o.pending /\ c.alone = o.alone => EmptyAllowed(c)
  BY DEF RunOK, EmptyAllowed
<1>. QED BY <1>1, <1>2, <1>3, <1>4

(* The entry a run is at. *)
LEMMA EntryIs ==
  ASSUME DevInv, NEW a \in Runs, op[a].next <= Len(op[a].plan)
  PROVE  /\ op[a].next \in 1..Len(op[a].plan) /\ Len(op[a].plan) \in Nat
         /\ op[a].person \in People /\ Change(a) \in Puts
         /\ Change(a).group \in Groups /\ Change(a).present \in BOOLEAN
<1>1. op[a] \in Records /\ RecordOK(op[a])
  BY DEF DevInv, TypesOK
<1>2. op[a].plan \in Seq(Puts) /\ Len(op[a].plan) \in Nat
  BY <1>1 DEF Records
<1>3. op[a].next \in 1..Len(op[a].plan)
  BY <1>1, <1>2 DEF RecordOK, PlanOK, StepOK
<1>4. Change(a) \in Puts
  BY <1>2, <1>3, ElementOfSeq DEF Change
<1>5. op[a].plan # <<>>
  BY <1>2, <1>3, EmptySeq
<1>. QED BY <1>1, <1>2, <1>3, <1>4, <1>5 DEF RecordOK, PlanOK, StepOK, Puts

(* What a replica confirms of a clean membership is so. *)
LEMMA Verified ==
  ASSUME DevInv, NEW a \in Runs, op[a].next <= Len(op[a].plan),
         NEW view \in GroupsOf(op[a].person), Known(a, view),
         NEW c, c.person = op[a].person, c.plan = op[a].plan, c.clean = op[a].clean, c.next = op[a].next + 1
  PROVE  DoneHolds(c)
<1>. DEFINE o == op[a]
<1>1. /\ o.next \in 1..Len(o.plan) /\ o.person \in People /\ Len(o.plan) \in Nat
      /\ o.plan[o.next].group \in Groups /\ o.plan[o.next].present \in BOOLEAN
  BY EntryIs DEF Change
<1>2. RunOK(o)
  BY DEF DevInv
<1>3. ASSUME Agrees(o.plan, o.next), <<o.person, o.plan[o.next].group>> \in o.clean
      PROVE  (o.person \in member[o.plan[o.next].group]) = o.plan[o.next].present
  <2>. DEFINE g == o.plan[o.next].group
  <2>1. CASE <<o.person, g>> \in lag
    BY <1>1, <1>2, <1>3, <2>1 DEF RunOK, OwnLag
  <2>2. CASE <<o.person, g>> \notin lag
    <3>1. g \in view <=> o.person \in member[g]
      BY <1>1, <2>2 DEF GroupsOf
    <3>2. (g \in view) = o.plan[o.next].present
      BY DEF Known, Change
    <3>. QED BY <3>1, <3>2
  <2>. QED BY <2>1, <2>2
<1>4. ASSUME NEW i \in 1..Len(c.plan), i < c.next, Agrees(c.plan, i), <<c.person, c.plan[i].group>> \in c.clean
      PROVE  (c.person \in member[c.plan[i].group]) = c.plan[i].present
  <2>1. CASE i = o.next
    BY <1>3, <1>4, <2>1
  <2>2. CASE i # o.next
    <3>1. i < o.next
      BY <1>1, <1>4, <2>2
    <3>. QED BY <1>2, <1>4, <3>1 DEF RunOK, DoneHolds
  <2>. QED BY <2>1, <2>2
<1>. QED BY <1>4 DEF DoneHolds

(* A step that changes only where a run is and how far. *)
LEMMA MoveKeeps ==
  ASSUME DevInv, DeveloperAssumption, NEW a \in Runs, UNCHANGED <<member, lag, allow>>, scopes' \subseteq Scopes,
         op' \in [Runs -> Records], \A b \in Runs \ {a} : op'[b] = op[b],
         NEW o, o = op[a], NEW c, c = op'[a],
         c.step \notin Ended, c.step = "last" => o.step = "last",
         c.step \in Publishing \/ o.step \notin Publishing,
         c.next \in Nat, c.next <= Len(o.plan) + 1, c.next > 0, c.step \in {"write", "wait"} => c.next <= Len(o.plan),
         c.person = o.person, c.want = o.want, c.plan = o.plan, c.last = o.last, c.flags = o.flags,
         c.tries = o.tries, c.pending = o.pending, c.alone = o.alone, c.clean = o.clean,
         DoneHolds(c)
  PROVE  DevInv'
<1>1. o \in Records /\ RecordOK(o) /\ RunOK(o) /\ (a \in Timers => o.plan = <<>>)
  BY DEF DevInv, TypesOK
<1>2. Len(o.plan) \in Nat
  BY <1>1 DEF Records
<1>3. PlanOK(o) /\ StepOK(o)
  BY <1>1 DEF RecordOK
<1>4. PlanOK(c)
  BY <1>3 DEF PlanOK
<1>5. StepOK(c)
  BY <1>2, <1>3 DEF StepOK
<1>6. RunOK(c)
  BY <1>1, SameRun DEF RunOK
<1>7. RecordOK(op'[a]) /\ (a \in Timers => op'[a].plan = <<>>)
  BY <1>1, <1>4, <1>5 DEF RecordOK
<1>. QED BY <1>6, <1>7, RecordStep

LEMMA CheckKeeps ==
  ASSUME DevInv, DeveloperAssumption, NEW a \in Runs, Check(a)
  PROVE  DevInv'
<1>. DEFINE o == op[a]
<1>1. /\ op \in [Runs -> Records] /\ o \in Records /\ RecordOK(o) /\ RunOK(o)
      /\ UNCHANGED <<member, lag, allow>> /\ scopes' \subseteq Scopes /\ o.step = "check"
  BY DEF DevInv, TypesOK, Check, At
<1>2. Len(o.plan) \in Nat /\ o.next \in Nat /\ o.next > 0 /\ o.next <= Len(o.plan) + 1
  BY <1>1 DEF RecordOK, StepOK, Records
<1>. SUFFICES ASSUME NEW c, c = op'[a] PROVE DevInv'
  OBVIOUS
<1>3. ASSUME NEW step \in {"recheck", "write"}, op' = [op EXCEPT ![a].step = step],
             step = "write" => o.next <= Len(o.plan)
      PROVE  DevInv'
  <2>1. op' \in [Runs -> Records] /\ \A b \in Runs \ {a} : op'[b] = op[b]
    BY <1>1, <1>3 DEF Records, Steps
  <2>2. /\ c.step = step /\ c.next = o.next
        /\ c.person = o.person /\ c.want = o.want /\ c.plan = o.plan
        /\ c.last = o.last /\ c.flags = o.flags /\ c.tries = o.tries
        /\ c.pending = o.pending /\ c.alone = o.alone /\ c.clean = o.clean
    BY <1>1, <1>3 DEF Records
  <2>3. DoneHolds(c)
    BY <1>1, <2>2, SameRun
  <2>4. /\ c.step \notin Ended /\ c.step # "last" /\ o.step \notin Publishing
        /\ c.next \in Nat /\ c.next <= Len(o.plan) + 1 /\ c.next > 0 /\ (c.step \in {"write", "wait"} => c.next <= Len(o.plan))
    BY <1>1, <1>2, <1>3, <2>2 DEF Ended, Publishing
  <2>. QED BY <1>1, <2>1, <2>2, <2>3, <2>4, MoveKeeps
<1>4. CASE Finished(a)
  BY <1>3, <1>4 DEF Check, Goes
<1>5. CASE ~Finished(a)
  <2>0. o.next <= Len(o.plan)
    BY <1>2, <1>5 DEF Finished
  <2>1. PICK view \in GroupsOf(o.person) :
          IF Known(a, view) THEN op' = [op EXCEPT ![a].next = @ + 1] ELSE Goes(a, "write")
    BY <1>5 DEF Check
  <2>2. CASE Known(a, view)
    <3>1. op' \in [Runs -> Records] /\ \A b \in Runs \ {a} : op'[b] = op[b]
      <4>1. o.next + 1 \in Nat
        BY <1>2
      <4>2. [o EXCEPT !.next = @ + 1] \in Records
        BY <1>1, <4>1 DEF Records
      <4>3. op' = [op EXCEPT ![a] = [o EXCEPT !.next = @ + 1]]
        BY <2>1, <2>2
      <4>. QED BY <1>1, <4>2, <4>3
    <3>2. /\ c.step = "check" /\ c.next = o.next + 1
          /\ c.person = o.person /\ c.want = o.want /\ c.plan = o.plan
          /\ c.last = o.last /\ c.flags = o.flags /\ c.tries = o.tries
          /\ c.pending = o.pending /\ c.alone = o.alone /\ c.clean = o.clean
      BY <1>1, <2>1, <2>2 DEF Records
    <3>3. DoneHolds(c)
      BY <2>0, <2>2, <3>2, Verified
    <3>. QED BY <1>1, <1>2, <2>0, <3>1, <3>2, <3>3, MoveKeeps DEF Ended, Publishing
  <2>3. CASE ~Known(a, view)
    BY <1>3, <2>0, <2>1, <2>3 DEF Goes
  <2>. QED BY <2>2, <2>3
<1>. QED BY <1>4, <1>5

LEMMA WaitKeeps ==
  ASSUME DevInv, DeveloperAssumption, NEW a \in Runs, Wait(a)
  PROVE  DevInv'
<1>. DEFINE o == op[a]
<1>1. /\ op \in [Runs -> Records] /\ o \in Records /\ RecordOK(o) /\ RunOK(o)
      /\ UNCHANGED <<member, lag, allow>> /\ scopes' \subseteq Scopes /\ o.step = "wait"
  BY DEF DevInv, TypesOK, Wait, At
<1>2. Len(o.plan) \in Nat /\ o.next \in Nat /\ o.next > 0 /\ o.next <= Len(o.plan)
  BY <1>1 DEF RecordOK, StepOK, Records
<1>. SUFFICES ASSUME NEW c, c = op'[a] PROVE DevInv'
  OBVIOUS
<1>3. PICK view \in GroupsOf(o.person) :
        IF Known(a, view) THEN op' = [op EXCEPT ![a].step = "check", ![a].next = @ + 1] ELSE Ends(a)
  BY DEF Wait
<1>4. CASE Known(a, view)
  <2>1. op' \in [Runs -> Records] /\ \A b \in Runs \ {a} : op'[b] = op[b]
    <3>1. o.next + 1 \in Nat
      BY <1>2
    <3>2. [o EXCEPT !.step = "check", !.next = @ + 1] \in Records
      BY <1>1, <3>1 DEF Records, Steps
    <3>3. op' = [op EXCEPT ![a] = [o EXCEPT !.step = "check", !.next = @ + 1]]
      BY <1>1, <1>3, <1>4
    <3>. QED BY <1>1, <3>2, <3>3
  <2>2. /\ c.step = "check" /\ c.next = o.next + 1
        /\ c.person = o.person /\ c.want = o.want /\ c.plan = o.plan
        /\ c.last = o.last /\ c.flags = o.flags /\ c.tries = o.tries
        /\ c.pending = o.pending /\ c.alone = o.alone /\ c.clean = o.clean
    BY <1>1, <1>3, <1>4 DEF Records
  <2>3. DoneHolds(c)
    BY <1>2, <1>4, <2>2, Verified
  <2>. QED BY <1>1, <1>2, <2>1, <2>2, <2>3, MoveKeeps DEF Ended, Publishing
<1>5. CASE ~Known(a, view)
  BY <1>1, <1>3, <1>5, EndKeeps
<1>. QED BY <1>4, <1>5

(* A step that gives a run another record with the same plan. *)
LEMMA SetKeeps ==
  ASSUME DevInv, NEW a \in Runs, UNCHANGED <<member, lag, allow, scopes>>,
         NEW r \in Records, op' = [op EXCEPT ![a] = r],
         r.person = op[a].person, r.want = op[a].want, r.plan = op[a].plan, StepOK(r), RunOK(r)
  PROVE  DevInv'
<1>1. op \in [Runs -> Records] /\ PlanOK(op[a]) /\ scopes' \subseteq Scopes /\ (a \in Timers => op[a].plan = <<>>)
  BY DEF DevInv, TypesOK, RecordOK
<1>2. op' \in [Runs -> Records] /\ op'[a] = r /\ \A b \in Runs \ {a} : op'[b] = op[b]
  BY <1>1
<1>3. PlanOK(r)
  BY <1>1 DEF PlanOK
<1>4. RecordOK(op'[a])
  BY <1>2, <1>3 DEF RecordOK
<1>5. a \in Timers => op'[a].plan = <<>>
  BY <1>1, <1>2
<1>. QED BY <1>1, <1>2, <1>4, <1>5, RecordStep

LEMMA FindLastKeeps ==
  ASSUME DevInv, DeveloperAssumption, NEW a \in Runs, FindLast(a)
  PROVE  DevInv'
<1>. DEFINE o == op[a]
<1>1. /\ op \in [Runs -> Records] /\ o \in Records /\ StepOK(o) /\ RunOK(o)
      /\ UNCHANGED <<member, lag, allow, scopes>> /\ o.step = "last"
  BY DEF DevInv, TypesOK, RecordOK, FindLast, At
<1>2. PICK last \in SUBSET Tiers : op' = [op EXCEPT ![a].step = "check", ![a].last = last]
  BY DEF FindLast
<1>. DEFINE r == [o EXCEPT !.step = "check", !.last = last]
<1>3. op' = [op EXCEPT ![a] = r]
  BY <1>1, <1>2
<1>4. r \in Records
  BY <1>1 DEF Records, Steps
<1>5. /\ r.step = "check" /\ r.last = last /\ r.next = o.next
      /\ r.person = o.person /\ r.want = o.want /\ r.plan = o.plan
      /\ r.flags = o.flags /\ r.tries = o.tries
      /\ r.pending = o.pending /\ r.alone = o.alone /\ r.clean = o.clean
  BY <1>1 DEF Records
<1>. HIDE DEF r
<1>6. StepOK(r)
  BY <1>1, <1>5 DEF StepOK, Ended, Publishing
<1>7. RunOK(r)
  BY <1>1, <1>5, SameRun DEF RunOK
<1>. QED BY <1>1, <1>3, <1>4, <1>5, <1>6, <1>7, SetKeeps

(* The tiers that now read empty have no member that stayed: of the ones   *)
(* that replicas may not have, the run itself has removed the person.      *)
LEMMA RecheckKeeps ==
  ASSUME DevInv, DeveloperAssumption, NEW a \in Runs, Recheck(a)
  PROVE  DevInv'
<1>. DEFINE o == op[a]
<1>1. /\ op \in [Runs -> Records] /\ o \in Records /\ StepOK(o) /\ PlanOK(o) /\ RunOK(o)
      /\ UNCHANGED <<member, lag, allow, scopes>> /\ o.step = "recheck"
  BY DEF DevInv, TypesOK, RecordOK, Recheck, At
<1>2. PICK std \in MembersOf("standard"), prem \in MembersOf("premium") :
        op' = [op EXCEPT ![a].step = "readPremium",
                         ![a].flags = {t \in op[a].last : [standard |-> std, premium |-> prem][t] = {}},
                         ![a].alone = TRUE]
  BY DEF Recheck
<1>. DEFINE flags == {t \in op[a].last : [standard |-> std, premium |-> prem][t] = {}}
            r == [o EXCEPT !.step = "readPremium", !.flags = flags, !.alone = TRUE]
<1>3. op' = [op EXCEPT ![a] = r]
  BY <1>1, <1>2
<1>4. flags \in SUBSET Tiers /\ flags \subseteq o.last
  BY <1>1 DEF Records
<1>5. \A t \in flags : \A q \in People : <<q, t>> \notin lag => q \notin member[t]
  <2>1. ASSUME NEW t \in flags PROVE t \in Tiers /\ {} \in MembersOf(t)
    <3>1. CASE t = "standard"
      BY <1>2, <1>4, <3>1
    <3>2. CASE t = "premium"
      BY <1>2, <1>4, <3>2
    <3>. QED BY <1>4, <3>1, <3>2 DEF Tiers
  <2>. QED BY <2>1 DEF MembersOf
<1>. HIDE DEF flags
<1>6. r \in Records
  BY <1>1, <1>4 DEF Records, Steps
<1>7. /\ r.step = "readPremium" /\ r.last = o.last /\ r.next = o.next
      /\ r.person = o.person /\ r.want = o.want /\ r.plan = o.plan
      /\ r.flags = flags /\ r.tries = o.tries
      /\ r.pending = o.pending /\ r.alone = TRUE /\ r.clean = o.clean
  BY <1>1 DEF Records
<1>. HIDE DEF r
<1>8. StepOK(r)
  BY <1>1, <1>4, <1>7 DEF StepOK, Ended, Publishing
<1>9. FlagsHold(r)
  <2>1. ASSUME NEW t \in flags, NEW q \in People, <<q, t>> \in o.clean, <<q, t>> \in lag PROVE q \notin member[t]
    <3>1. o.want = "none" /\ t \in Groups
      BY <1>1, <1>4 DEF StepOK, Groups
    <3>2. o.plan \in Seq(Puts) /\ \A i \in 1..Len(o.plan) : ~o.plan[i].present /\ o.plan[i].present \in BOOLEAN
      <4>1. \A i \in 1..Len(o.plan) : o.plan[i] \in Puts
        BY <1>1, ElementOfSeq DEF Records
      <4>. QED BY <1>1, <3>1, <4>1 DEF PlanOK, Puts, Records
    <3>3. OwnLag(o)
      BY <1>1 DEF RunOK
    <3>4. PICK i \in 1..Len(o.plan) : o.plan[i].group = t
      BY <2>1, <3>1, <3>3 DEF OwnLag
    <3>5. Agrees(o.plan, i)
      BY <3>2 DEF Agrees
    <3>6. (q \in member[t]) = o.plan[i].present
      BY <2>1, <3>1, <3>3, <3>4, <3>5 DEF OwnLag
    <3>. QED BY <3>2, <3>6
  <2>. QED BY <1>5, <1>7, <2>1 DEF FlagsHold
<1>10. EmptyAllowed(r)
  <2>1. \A t \in Tiers : r.pending[t] = <<>>
    BY <1>1, <1>7 DEF StepOK, Publishing, Idle
  <2>. QED BY <2>1 DEF EmptyAllowed
<1>11. RunOK(r)
  BY <1>1, <1>7, <1>9, <1>10, SameRun DEF RunOK
<1>. QED BY <1>1, <1>3, <1>6, <1>7, <1>8, <1>11, SetKeeps

(* An empty list is kept for writing only when that is allowed. *)
LEMMA ReadTierKeeps ==
  ASSUME DevInv, DeveloperAssumption, NEW a \in Runs, NEW t \in Tiers,
         NEW from \in Publishing, NEW to \in Publishing, ReadTier(a, t, from, to)
  PROVE  DevInv'
<1>. DEFINE o == op[a]
<1>1. /\ op \in [Runs -> Records] /\ o \in Records /\ StepOK(o) /\ RunOK(o)
      /\ UNCHANGED <<member, lag, allow, scopes>> /\ o.step = from
  BY DEF DevInv, TypesOK, RecordOK, ReadTier, At
<1>2. PICK view \in MembersOf(t) :
        op' = [op EXCEPT ![a].step = to, ![a].taken = @ \cup (view \ op[a].taken),
                         ![a].pending = IF MayWrite(a, t, view \ op[a].taken)
                                        THEN [@ EXCEPT ![t] = <<view \ op[a].taken>>] ELSE @]
  BY DEF ReadTier
<1>. DEFINE list == view \ o.taken  may == MayWrite(a, t, list)
            pending == IF may THEN [o.pending EXCEPT ![t] = <<list>>] ELSE o.pending
            r == [o EXCEPT !.step = to, !.taken = @ \cup list, !.pending = pending]
<1>3. op' = [op EXCEPT ![a] = r]
  BY <1>1, <1>2
<1>4. list \in SUBSET People /\ to \in Steps /\ o.pending \in [Tiers -> {<<>>} \cup {<<l>> : l \in SUBSET People}]
  BY <1>1 DEF MembersOf, Records, Steps, Publishing
<1>5. may => list # {} \/ t \in o.flags \/ allow[t] = {}
  BY DEF MayWrite
<1>. HIDE DEF list, may
<1>6. pending \in [Tiers -> {<<>>} \cup {<<l>> : l \in SUBSET People}]
  BY <1>4
<1>7. \A u \in Tiers : pending[u] = IF may /\ u = t THEN <<list>> ELSE o.pending[u]
  BY <1>4
<1>. HIDE DEF pending
<1>8. r \in Records
  BY <1>1, <1>4, <1>6 DEF Records
<1>9. /\ r.step = to /\ r.last = o.last /\ r.next = o.next
      /\ r.person = o.person /\ r.want = o.want /\ r.plan = o.plan
      /\ r.flags = o.flags /\ r.tries = o.tries
      /\ r.pending = pending /\ r.alone = o.alone /\ r.clean = o.clean
  BY <1>1 DEF Records
<1>. HIDE DEF r
<1>10. StepOK(r)
  BY <1>1, <1>9 DEF StepOK, Ended, Publishing
<1>11. EmptyAllowed(r)
  <2>1. ASSUME NEW u \in Tiers, r.alone, pending[u] = <<{}>> PROVE u \in r.flags \/ allow[u] = {}
    <3>1. CASE may /\ u = t
      <4>1. list = {}
        BY <1>7, <2>1, <3>1
      <4>. QED BY <1>5, <1>9, <3>1, <4>1
    <3>2. CASE ~(may /\ u = t)
      BY <1>1, <1>7, <1>9, <2>1, <3>2 DEF RunOK, EmptyAllowed
    <3>. QED BY <3>1, <3>2
  <2>. QED BY <1>9, <2>1 DEF EmptyAllowed
<1>12. RunOK(r)
  BY <1>1, <1>9, <1>11, SameRun DEF RunOK
<1>. QED BY <1>1, <1>3, <1>8, <1>9, <1>10, <1>12, SetKeeps

(* Writing a list: every other run that read before is no longer alone. *)
LEMMA WriteTierKeeps ==
  ASSUME DevInv, DeveloperAssumption, NEW a \in Runs, NEW t \in Tiers,
         NEW from \in Publishing, NEW to \in Publishing, WriteTier(a, t, from, to)
  PROVE  DevInv'
<1>1. /\ op \in [Runs -> Records] /\ UNCHANGED <<member, lag, scopes>> /\ op[a].step = from
      /\ allow \in [Tiers -> SUBSET People] /\ a \in Runs
  BY DEF DevInv, TypesOK, WriteTier, At
<1>2. op' = [b \in Runs |-> IF b = a THEN [op[a] EXCEPT !.step = to] ELSE [op[b] EXCEPT !.alone = FALSE]]
  BY DEF WriteTier
<1>3. allow' = [allow EXCEPT ![t] = IF op[a].pending[t] = <<>> THEN @ ELSE op[a].pending[t][1]]
  BY DEF WriteTier
<1>4. op[a].pending \in [Tiers -> {<<>>} \cup {<<l>> : l \in SUBSET People}]
  BY <1>1 DEF Records
<1>5. /\ op[a].pending[t] # <<>> => op[a].pending[t][1] \in SUBSET People
      /\ op[a].pending[t] = <<{}>> => op[a].pending[t] # <<>> /\ op[a].pending[t][1] = {}
  BY <1>4
<1>6. allow' \in [Tiers -> SUBSET People] /\ \A u \in Tiers \ {t} : allow'[u] = allow[u]
  BY <1>1, <1>3, <1>5
<1>7. op[a].pending[t] = <<{}>> => allow'[t] = {}
  BY <1>1, <1>3, <1>5
<1>8. ASSUME NEW b \in Runs
      PROVE  /\ op'[b] \in Records /\ op'[b].person = op[b].person /\ op'[b].want = op[b].want
             /\ op'[b].plan = op[b].plan /\ op'[b].next = op[b].next /\ op'[b].last = op[b].last
             /\ op'[b].flags = op[b].flags /\ op'[b].tries = op[b].tries /\ op'[b].pending = op[b].pending
             /\ op'[b].clean = op[b].clean
             /\ op'[b].step = IF b = a THEN to ELSE op[b].step
             /\ op'[b].alone = IF b = a THEN op[b].alone ELSE FALSE
  <2>1. op[b] \in Records /\ to \in Steps
    BY <1>1 DEF Publishing, Steps
  <2>2. CASE b = a
    BY <1>1, <1>2, <2>1, <2>2 DEF Records
  <2>3. CASE b # a
    BY <1>1, <1>2, <2>1, <2>3 DEF Records
  <2>. QED BY <2>2, <2>3
<1>9. ASSUME NEW b \in Runs PROVE RecordOK(op'[b]) /\ RunOK(op[b])'
  <2>. DEFINE o == op[b]
  <2>0. PlanOK(o) /\ StepOK(o) /\ RunOK(o)
    BY DEF DevInv, TypesOK, RecordOK
  <2>. SUFFICES ASSUME NEW c, c = op'[b] PROVE RecordOK(c) /\ RunOK(c)'
    OBVIOUS
  <2>1. /\ c.person = o.person /\ c.want = o.want
        /\ c.plan = o.plan /\ c.next = o.next /\ c.last = o.last
        /\ c.flags = o.flags /\ c.tries = o.tries /\ c.pending = o.pending /\ c.clean = o.clean
        /\ c.step = IF b = a THEN to ELSE o.step
        /\ c.alone = IF b = a THEN o.alone ELSE FALSE
    BY <1>8
  <2>2. PlanOK(c)
    BY <2>0, <2>1 DEF PlanOK
  <2>3. StepOK(c)
    BY <1>1, <2>0, <2>1 DEF StepOK, Publishing, Ended
  <2>4. OwnLag(c) /\ DoneHolds(c) /\ FlagsHold(c)
    BY <2>0, <2>1, SameRun
  <2>5. OwnLag(c)' /\ DoneHolds(c)' /\ FlagsHold(c)'
    BY <1>1, <2>4 DEF OwnLag, DoneHolds, FlagsHold
  <2>6. ASSUME NEW u \in Tiers, c.alone, c.pending[u] = <<{}>> PROVE u \in c.flags \/ allow'[u] = {}
    <3>1. b = a
      BY <2>1, <2>6
    <3>2. CASE u = t
      BY <1>7, <2>1, <2>6, <3>1, <3>2
    <3>3. CASE u # t
      BY <1>6, <2>0, <2>1, <2>6, <3>1, <3>3 DEF RunOK, EmptyAllowed
    <3>. QED BY <3>2, <3>3
  <2>7. EmptyAllowed(c)'
    BY <2>6 DEF EmptyAllowed
  <2>. QED BY <2>2, <2>3, <2>5, <2>7 DEF RecordOK, RunOK
<1>10. TypesOK'
  <2>1. op' \in [Runs -> Records]
    BY <1>2, <1>8
  <2>2. \A b \in Timers : op'[b].plan = <<>>
    BY <1>8 DEF DevInv, TypesOK, Runs
  <2>3. \A b \in Runs : RecordOK(op'[b])
    BY <1>9
  <2>. QED BY <1>1, <1>6, <2>1, <2>2, <2>3 DEF DevInv, TypesOK
<1>. QED BY <1>9, <1>10 DEF DevInv

(* Another publication starts with no list read. *)
LEMMA ReadBackKeeps ==
  ASSUME DevInv, DeveloperAssumption, NEW a \in Runs, ReadBack(a)
  PROVE  DevInv'
<1>. DEFINE o == op[a]
<1>1. /\ op \in [Runs -> Records] /\ o \in Records /\ StepOK(o) /\ RunOK(o)
      /\ UNCHANGED <<member, lag, allow, scopes>> /\ o.step = "readBack" /\ scopes \subseteq Scopes
  BY DEF DevInv, TypesOK, RecordOK, ReadBack, At
<1>2. CASE Ends(a)
  BY <1>1, <1>2, EndKeeps
<1>3. CASE op' = [op EXCEPT ![a] = [Idle EXCEPT !.step = "warned"]]
  <2>. DEFINE r == [Idle EXCEPT !.step = "warned"]
  <2>1. r \in Records
    BY IdleRun DEF Records, Steps, Ended
  <2>2. /\ r.plan = <<>> /\ r.clean = {} /\ r.flags = {} /\ r.step = "warned" /\ r.next = 1
        /\ r.want = "none" /\ r.last = {} /\ r.tries = 0 /\ r.pending = Idle.pending
    BY DEF Idle
  <2>. HIDE DEF r
  <2>3. RecordOK(r)
    BY <2>2 DEF RecordOK, PlanOK, StepOK, Ended, Publishing, DeveloperAssumption, Tiers
  <2>4. RunOK(r)
    BY <2>2, FreshRun
  <2>5. op' \in [Runs -> Records] /\ op'[a] = r /\ \A b \in Runs \ {a} : op'[b] = op[b]
    BY <1>1, <1>3, <2>1 DEF r
  <2>. QED BY <1>1, <2>2, <2>3, <2>4, <2>5, RecordStep
<1>4. CASE o.tries < MaxTries - 1 /\ op' = [op EXCEPT ![a] = Again(a)]
  <2>. DEFINE r == [o EXCEPT !.step = "readPremium", !.tries = @ + 1, !.taken = {},
                             !.pending = Idle.pending, !.alone = TRUE]
  <2>1. op' = [op EXCEPT ![a] = r]
    BY <1>4 DEF Again
  <2>2. Idle.pending \in [Tiers -> {<<>>} \cup {<<l>> : l \in SUBSET People}] /\ \A t \in Tiers : Idle.pending[t] = <<>>
    BY DEF Idle
  <2>3. o.tries + 1 \in Nat
    BY <1>1 DEF Records
  <2>4. r \in Records
    BY <1>1, <2>2, <2>3 DEF Records, Steps
  <2>5. /\ r.step = "readPremium" /\ r.last = o.last /\ r.next = o.next
        /\ r.person = o.person /\ r.want = o.want /\ r.plan = o.plan
        /\ r.flags = o.flags /\ r.tries = o.tries + 1
        /\ r.pending = Idle.pending /\ r.alone = TRUE /\ r.clean = o.clean
    BY <1>1 DEF Records
  <2>. HIDE DEF r
  <2>6. r.tries <= MaxTries
    BY <1>1, <1>4, <2>5 DEF Records, DeveloperAssumption
  <2>7. StepOK(r)
    BY <1>1, <2>5, <2>6 DEF StepOK, Ended, Publishing
  <2>8. EmptyAllowed(r)
    BY <2>2, <2>5 DEF EmptyAllowed
  <2>9. RunOK(r)
    BY <1>1, <2>5, <2>8, SameRun DEF RunOK
  <2>. QED BY <1>1, <2>1, <2>4, <2>5, <2>7, <2>9, SetKeeps
<1>. QED BY <1>2, <1>3, <1>4 DEF ReadBack

-----------------------------------------------------------------------------
(* ---------------------------- changed memberships ------------------------ *)
(* What a call of run a does to the groups, and to the other runs. *)
Made(a) == [member EXCEPT ![Change(a).group] = IF Change(a).present THEN @ \cup {op[a].person} ELSE @ \ {op[a].person}]

LEMMA MadeIs ==
  ASSUME DevInv, NEW a \in Runs, op[a].next <= Len(op[a].plan), member' = Made(a)
  PROVE  /\ member' \in [Groups -> SUBSET People]
         /\ (op[a].person \in member'[Change(a).group]) = Change(a).present
         /\ \A h \in Groups, q \in People :
               h # Change(a).group \/ q # op[a].person => (q \in member'[h] <=> q \in member[h])
<1>. DEFINE p == op[a].person  g == Change(a).group  add == Change(a).present
<1>1. p \in People /\ g \in Groups /\ add \in BOOLEAN
  BY EntryIs
<1>2. member \in [Groups -> SUBSET People]
  BY DEF DevInv, TypesOK
<1>3. member' = [member EXCEPT ![g] = IF add THEN @ \cup {p} ELSE @ \ {p}]
  BY DEF Made
<1>. HIDE DEF p, g, add
<1>4. member' \in [Groups -> SUBSET People]
  BY <1>1, <1>2, <1>3
<1>5. (p \in member'[g]) = add
  BY <1>1, <1>2, <1>3
<1>6. \A h \in Groups, q \in People : h # g \/ q # p => (q \in member'[h] <=> q \in member[h])
  BY <1>1, <1>2, <1>3
<1>. QED BY <1>4, <1>5, <1>6 DEF p, g, add

(* The run that made the change has it as its plan wants it. *)
LEMMA OwnChange ==
  ASSUME DevInv, NEW a \in Runs, op[a].next <= Len(op[a].plan), member' = Made(a),
         lag' = lag \cup {<<op[a].person, Change(a).group>>},
         NEW c, c.person = op[a].person, c.plan = op[a].plan, c.clean = op[a].clean, c.next = op[a].next
  PROVE  OwnLag(c)' /\ DoneHolds(c)'
<1>. DEFINE o == op[a]  p == o.person  g == o.plan[o.next].group
<1>1. /\ o.next \in 1..Len(o.plan) /\ p \in People /\ Len(o.plan) \in Nat /\ g \in Groups
      /\ o.plan[o.next].present \in BOOLEAN
  BY EntryIs DEF Change
<1>2. /\ (p \in member'[g]) = o.plan[o.next].present
      /\ \A h \in Groups, q \in People : h # g \/ q # p => (q \in member'[h] <=> q \in member[h])
  BY MadeIs DEF Change
<1>3. lag' = lag \cup {<<p, g>>} /\ OwnLag(o) /\ DoneHolds(o)
  BY DEF Change, DevInv, RunOK
<1>4. o.plan \in Seq(Puts) /\ \A i \in 1..Len(o.plan) : o.plan[i].group \in Groups
  <2>1. o.plan \in Seq(Puts)
    BY DEF DevInv, TypesOK, Records
  <2>2. \A i \in 1..Len(o.plan) : o.plan[i] \in Puts
    BY <2>1, ElementOfSeq
  <2>. QED BY <2>1, <2>2 DEF Puts
<1>5. \A i \in 1..Len(o.plan) : o.plan[i].group = g /\ Agrees(o.plan, i) => o.plan[i].present = o.plan[o.next].present
  BY <1>1 DEF Agrees
<1>6. ASSUME NEW q \in People, NEW h \in Groups, <<q, h>> \in c.clean, <<q, h>> \in lag'
      PROVE  /\ q = c.person /\ \E i \in 1..Len(c.plan) : c.plan[i].group = h
             /\ \A i \in 1..Len(c.plan) :
                   c.plan[i].group = h /\ Agrees(c.plan, i) => ((q \in member'[h]) = c.plan[i].present)
  <2>1. CASE q = p /\ h = g
    <3>1. ASSUME NEW i \in 1..Len(o.plan), o.plan[i].group = g, Agrees(o.plan, i)
          PROVE  (p \in member'[g]) = o.plan[i].present
      BY <1>2, <1>5, <3>1
    <3>. QED BY <1>1, <2>1, <3>1
  <2>2. CASE ~(q = p /\ h = g)
    <3>1. <<q, h>> \in o.clean /\ <<q, h>> \in lag /\ (q \in member'[h] <=> q \in member[h])
      BY <1>2, <1>3, <1>6, <2>2
    <3>2. /\ q = o.person /\ \E i \in 1..Len(o.plan) : o.plan[i].group = h
          /\ \A i \in 1..Len(o.plan) :
                o.plan[i].group = h /\ Agrees(o.plan, i) => ((q \in member[h]) = o.plan[i].present)
      BY <1>3, <3>1 DEF OwnLag
    <3>3. \A i : ((q \in member'[h]) = o.plan[i].present) <=> ((q \in member[h]) = o.plan[i].present)
      BY <3>1
    <3>. QED BY <3>2, <3>3
  <2>. QED BY <2>1, <2>2
<1>7. ASSUME NEW i \in 1..Len(c.plan), i < c.next, Agrees(c.plan, i), <<c.person, c.plan[i].group>> \in c.clean
      PROVE  (c.person \in member'[c.plan[i].group]) = c.plan[i].present
  <2>1. CASE o.plan[i].group = g
    BY <1>2, <1>5, <1>7, <2>1
  <2>2. CASE o.plan[i].group # g
    <3>1. (p \in member[o.plan[i].group]) = o.plan[i].present
      BY <1>3, <1>7 DEF DoneHolds
    <3>2. p \in member'[o.plan[i].group] <=> p \in member[o.plan[i].group]
      BY <1>1, <1>2, <1>4, <1>7, <2>2
    <3>. QED BY <3>1, <3>2
  <2>. QED BY <2>1, <2>2
<1>8. OwnLag(c)'
  BY <1>6 DEF OwnLag
<1>9. DoneHolds(c)'
  BY <1>7 DEF DoneHolds
<1>. QED BY <1>8, <1>9

LEMMA WriteChanges ==
  ASSUME DevInv, DeveloperAssumption, NEW a \in Runs, At(a, "write"), UNCHANGED <<scopes, allow>>,
         member' = Made(a), lag' = lag \cup {<<op[a].person, Change(a).group>>},
         \/ op' = [Disturb(a, <<op[a].person, Change(a).group>>) EXCEPT ![a].step = "wait"]
         \/ op' = [Disturb(a, <<op[a].person, Change(a).group>>) EXCEPT ![a] = Idle]
  PROVE  DevInv'
<1>. DEFINE o == op[a]  p == o.person  g == Change(a).group
<1>1. op \in [Runs -> Records] /\ o \in Records /\ PlanOK(o) /\ StepOK(o) /\ RunOK(o) /\ o.step = "write"
  BY DEF DevInv, TypesOK, RecordOK, At
<1>2. p \in People /\ g \in Groups /\ o.next <= Len(o.plan)
  BY <1>1, EntryIs DEF StepOK
<1>3. PICK r \in {[o EXCEPT !.step = "wait"], Idle} :
        op' = [b \in Runs |-> IF b = a THEN r ELSE [op[b] EXCEPT !.clean = @ \ {<<p, g>>}]]
  BY <1>1 DEF Disturb
<1>4. r \in Records
  <2>1. [o EXCEPT !.step = "wait"] \in Records
    BY <1>1 DEF Records, Steps
  <2>. QED BY <1>3, <2>1, IdleRun
<1>5. ASSUME NEW b \in Runs PROVE [op[b] EXCEPT !.clean = @ \ {<<p, g>>}] \in Records
  <2>1. op[b] \in Records /\ op[b].clean \ {<<p, g>>} \in SUBSET (People \X Groups)
    BY <1>1 DEF Records
  <2>. QED BY <2>1 DEF Records
<1>6. op' \in [Runs -> Records] /\ op'[a] = r
  BY <1>3, <1>4, <1>5
<1>7. \A b \in Runs \ {a} : op'[b] = [op[b] EXCEPT !.clean = @ \ {<<p, g>>}]
  BY <1>3
<1>. SUFFICES ASSUME NEW c, c = op'[a]
              PROVE  /\ RecordOK(c) /\ RunOK(c)' /\ (a \in Timers => c.plan = <<>>)
                     /\ DevInv'
  OBVIOUS
<1>8. RecordOK(c) /\ RunOK(c)' /\ (a \in Timers => c.plan = <<>>)
  <2>1. CASE r = Idle
    <3>1. c = Idle
      BY <1>6, <2>1
    <3>2. c.plan = <<>> /\ c.clean = {} /\ c.flags = {} /\ \A t \in Tiers : c.pending[t] = <<>>
      BY <3>1 DEF Idle
    <3>3. RunOK(c)'
      BY <3>2 DEF RunOK, OwnLag, DoneHolds, FlagsHold, EmptyAllowed
    <3>. QED BY <3>1, <3>2, <3>3, IdleRun
  <2>2. CASE r = [o EXCEPT !.step = "wait"]
    <3>1. /\ c.step = "wait" /\ c.last = o.last /\ c.next = o.next
          /\ c.person = o.person /\ c.want = o.want /\ c.plan = o.plan
          /\ c.flags = o.flags /\ c.tries = o.tries
          /\ c.pending = o.pending /\ c.alone = o.alone /\ c.clean = o.clean
      BY <1>1, <1>6, <2>2 DEF Records
    <3>2. PlanOK(c)
      BY <1>1, <3>1 DEF PlanOK
    <3>3. StepOK(c)
      BY <1>1, <1>2, <3>1 DEF StepOK, Ended, Publishing
    <3>4. OwnLag(c)' /\ DoneHolds(c)'
      BY <1>2, <3>1, OwnChange
    <3>5. FlagsHold(c)'
      BY <1>1, <3>1 DEF FlagsHold, StepOK, Publishing
    <3>6. EmptyAllowed(c)'
      <4>1. \A t \in Tiers : c.pending[t] = <<>>
        BY <1>1, <3>1 DEF StepOK, Publishing, Idle
      <4>. QED BY <4>1 DEF EmptyAllowed
    <3>7. a \in Timers => c.plan = <<>>
      BY <3>1 DEF DevInv, TypesOK
    <3>. QED BY <3>2, <3>3, <3>4, <3>5, <3>6, <3>7 DEF RecordOK, RunOK
  <2>. QED BY <1>3, <2>1, <2>2
<1>9. /\ member' \in [Groups -> SUBSET People]
      /\ \A h \in Groups, q \in People : h # g \/ q # p => (q \in member'[h] <=> q \in member[h])
  BY <1>2, MadeIs
<1>10. RunOK(op[a])'
  BY <1>8
<1>11. \A b \in Runs : \/ op'[b] = [op[b] EXCEPT !.clean = @ \ {<<p, g>>}]
                       \/ RecordOK(op'[b]) /\ RunOK(op[b])' /\ (b \in Timers => op'[b].plan = <<>>)
  BY <1>7, <1>8, <1>10
<1>12. lag' = lag \cup {<<p, g>>}
  OBVIOUS
<1>. HIDE DEF p, g
<1>. QED BY <1>2, <1>6, <1>8, <1>9, <1>11, <1>12, MemberStep

LEMMA WriteKeeps ==
  ASSUME DevInv, DeveloperAssumption, NEW a \in Runs, Write(a)
  PROVE  DevInv'
<1>1. UNCHANGED <<scopes, allow>> /\ At(a, "write") /\ scopes \subseteq Scopes
  BY DEF Write, DevInv, TypesOK
<1>2. CASE Ends(a) /\ UNCHANGED <<member, lag>>
  BY <1>1, <1>2, EndKeeps
<1>3. CASE /\ member' = Made(a) /\ lag' = lag \cup {<<op[a].person, Change(a).group>>}
           /\ op' = [Disturb(a, <<op[a].person, Change(a).group>>) EXCEPT ![a].step = "wait"]
  BY <1>1, <1>3, WriteChanges
<1>. QED BY <1>2, <1>3 DEF Write, Made

LEMMA WriteFailsKeeps ==
  ASSUME DevInv, DeveloperAssumption, NEW a \in Runs, WriteFails(a)
  PROVE  DevInv'
<1>1. UNCHANGED <<scopes, allow>> /\ At(a, "write") /\ scopes \subseteq Scopes
  BY DEF WriteFails, DevInv, TypesOK
<1>2. CASE Ends(a) /\ UNCHANGED <<member, lag>>
  BY <1>1, <1>2, EndKeeps
<1>3. CASE /\ member' = Made(a) /\ lag' = lag \cup {<<op[a].person, Change(a).group>>}
           /\ op' = [Disturb(a, <<op[a].person, Change(a).group>>) EXCEPT ![a] = Idle]
  BY <1>1, <1>3, WriteChanges
<1>. QED BY <1>2, <1>3 DEF WriteFails, Made

(* Others change a membership: nobody counts on it any more. *)
LEMMA EditKeeps ==
  ASSUME DevInv, DeveloperAssumption, NEW x \in Edited, Edit(x[1], x[2])
  PROVE  DevInv'
<1>. DEFINE p == x[1]  g == x[2]
<1>1. /\ op \in [Runs -> Records] /\ member \in [Groups -> SUBSET People] /\ UNCHANGED <<scopes, allow>>
      /\ p \in People /\ g \in Groups /\ NoPerson \notin Runs
  BY DEF DevInv, TypesOK, Edit, DeveloperAssumption
<1>2. /\ member' = [member EXCEPT ![g] = IF p \in @ THEN @ \ {p} ELSE @ \cup {p}]
      /\ lag' = lag \cup {<<p, g>>}
      /\ op' = [b \in Runs |-> [op[b] EXCEPT !.clean = @ \ {<<p, g>>}]]
  BY <1>1 DEF Edit, Disturb
<1>. HIDE DEF p, g
<1>3. /\ member' \in [Groups -> SUBSET People]
      /\ \A h \in Groups, q \in People : h # g \/ q # p => (q \in member'[h] <=> q \in member[h])
  BY <1>1, <1>2
<1>4. ASSUME NEW b \in Runs PROVE [op[b] EXCEPT !.clean = @ \ {<<p, g>>}] \in Records
  <2>1. op[b] \in Records /\ op[b].clean \ {<<p, g>>} \in SUBSET (People \X Groups)
    BY <1>1 DEF Records
  <2>. QED BY <2>1 DEF Records
<1>5. op' \in [Runs -> Records]
  BY <1>2, <1>4
<1>6. \A b \in Runs : \/ op'[b] = [op[b] EXCEPT !.clean = @ \ {<<p, g>>}]
                      \/ RecordOK(op'[b]) /\ RunOK(op[b])' /\ (b \in Timers => op'[b].plan = <<>>)
  BY <1>2
<1>. QED BY <1>1, <1>2, <1>3, <1>5, <1>6, MemberStep

(* Every replica has a change at last: what is left behind is less. *)
LEMMA SettleKeeps ==
  ASSUME DevInv, NEW x \in People \X Groups, Settle(x)
  PROVE  DevInv'
<1>1. UNCHANGED <<member, scopes, allow, op>> /\ lag' \subseteq lag
  BY DEF Settle
<1>2. TypesOK'
  BY <1>1 DEF DevInv, TypesOK
<1>3. ASSUME NEW b \in Runs PROVE RunOK(op[b])'
  <2>1. RunOK(op[b])
    BY DEF DevInv
  <2>. SUFFICES ASSUME NEW c, c = op[b], RunOK(c) PROVE RunOK(c)'
    BY <1>1, <2>1
  <2>2. OwnLag(c)'
    BY <1>1 DEF RunOK, OwnLag
  <2>3. DoneHolds(c)' /\ FlagsHold(c)' /\ EmptyAllowed(c)'
    BY <1>1 DEF RunOK, DoneHolds, FlagsHold, EmptyAllowed
  <2>. QED BY <2>2, <2>3 DEF RunOK
<1>. QED BY <1>2, <1>3 DEF DevInv

(* A step that leaves the runs, the groups and the lists alone. *)
LEMMA OutsideKeeps ==
  ASSUME DevInv, UNCHANGED <<member, lag, allow, op>>, scopes' \subseteq Scopes
  PROVE  DevInv'
<1>1. TypesOK'
  BY DEF DevInv, TypesOK
<1>2. ASSUME NEW b \in Runs PROVE RunOK(op[b])'
  <2>1. RunOK(op[b])
    BY DEF DevInv
  <2>. SUFFICES ASSUME NEW c, c = op[b], RunOK(c) PROVE RunOK(c)'
    BY <2>1
  <2>. QED BY DEF RunOK, OwnLag, DoneHolds, FlagsHold, EmptyAllowed
<1>. QED BY <1>1, <1>2 DEF DevInv

(* Every step keeps the invariant. *)
LEMMA StepKeeps == DeveloperAssumption /\ DevInv /\ [Next]_devVars => DevInv'
<1>. SUFFICES ASSUME DeveloperAssumption, DevInv, [Next]_devVars PROVE DevInv'
  OBVIOUS
<1>0. scopes \subseteq Scopes
  BY DEF DevInv, TypesOK
<1>1. ASSUME NEW a \in Admins, NEW p \in Targets, Preview(a, p) PROVE DevInv'
  BY <1>1, PreviewKeeps DEF DeveloperAssumption
<1>2. ASSUME NEW a \in Admins, NEW p \in Targets, NEW want \in Tiers \cup {"none"}, NEW unit \in Scopes \cup {NoScope},
             Begin(a, p, want, unit)
      PROVE  DevInv'
  BY <1>2, BeginKeeps DEF DeveloperAssumption, Answers
<1>3. ASSUME NEW a \in Admins, WriteFails(a) PROVE DevInv'
  BY <1>3, WriteFailsKeeps DEF Runs
<1>4. ASSUME NEW a \in Timers, Resync(a) PROVE DevInv'
  BY <1>4, ResyncKeeps
<1>5. ASSUME NEW a \in Runs, Proceed(a) PROVE DevInv'
  <2>1. CASE FindLast(a)
    BY <2>1, FindLastKeeps
  <2>2. CASE Check(a)
    BY <2>2, CheckKeeps
  <2>3. CASE Write(a)
    BY <2>3, WriteKeeps
  <2>4. CASE Wait(a)
    BY <2>4, WaitKeeps
  <2>5. CASE Recheck(a)
    BY <2>5, RecheckKeeps
  <2>6. CASE ReadTier(a, "premium", "readPremium", "readStandard")
    BY <2>6, ReadTierKeeps DEF Tiers, Publishing
  <2>7. CASE ReadTier(a, "standard", "readStandard", "putPremium")
    BY <2>7, ReadTierKeeps DEF Tiers, Publishing
  <2>8. CASE WriteTier(a, "premium", "putPremium", "putStandard")
    BY <2>8, WriteTierKeeps DEF Tiers, Publishing
  <2>9. CASE WriteTier(a, "standard", "putStandard", "readBack")
    BY <2>9, WriteTierKeeps DEF Tiers, Publishing
  <2>10. CASE ReadBack(a)
    BY <2>10, ReadBackKeeps
  <2>. QED BY <1>5, <2>1, <2>2, <2>3, <2>4, <2>5, <2>6, <2>7, <2>8, <2>9, <2>10 DEF Proceed, Publish
<1>6. ASSUME NEW a \in Runs, PublishFails(a) PROVE DevInv'
  BY <1>0, <1>6, EndKeeps DEF PublishFails
<1>7. ASSUME NEW x \in Edited, Edit(x[1], x[2]) PROVE DevInv'
  BY <1>7, EditKeeps
<1>8. ASSUME NEW s \in Scopes, EditCatalog(s) PROVE DevInv'
  BY <1>0, <1>8, OutsideKeeps DEF EditCatalog
<1>9. ASSUME NEW x \in People \X Groups, Settle(x) PROVE DevInv'
  BY <1>9, SettleKeeps
<1>10. CASE UNCHANGED devVars
  BY <1>0, <1>10, OutsideKeeps DEF devVars
<1>. QED BY <1>1, <1>2, <1>3, <1>4, <1>5, <1>6, <1>7, <1>8, <1>9, <1>10 DEF Next

-----------------------------------------------------------------------------
(* ------------------------------- the theorems ---------------------------- *)
(* The invariant holds of every behaviour. *)
THEOREM DeveloperInvariant == Spec => []DevInv
<1>1. Init => DevInv
  BY InitDev, DeveloperAssumption
<1>2. DevInv /\ [Next]_devVars => DevInv'
  BY StepKeeps, DeveloperAssumption
<1>. QED BY <1>1, <1>2, PTL DEF Spec

(* The types of developer_change's records and of the directory. *)
THEOREM DeveloperTypeCorrect == Spec => []DevTypeOK
<1>1. DevInv => DevTypeOK
  <2>. SUFFICES ASSUME DevInv PROVE DevTypeOK
    OBVIOUS
  <2>1. ASSUME NEW a \in Runs
        PROVE  /\ op[a].step \in Steps /\ op[a].person \in People \cup {NoPerson}
               /\ op[a].next \in 1..Len(op[a].plan) + 1
               /\ op[a].flags \subseteq op[a].last /\ op[a].last \subseteq Tiers
               /\ op[a].tries <= MaxTries
    <3>1. op[a] \in Records /\ StepOK(op[a])
      BY DEF DevInv, TypesOK, RecordOK
    <3>. QED BY <3>1 DEF Records, StepOK
  <2>. QED BY <2>1 DEF DevInv, TypesOK, DevTypeOK
<1>. QED BY <1>1, DeveloperInvariant, PTL

(* A move of tier never leaves the person in neither tier group            *)
(* (developer_change adds before it removes, and verifies each change).    *)
THEOREM MovesKeepEntitled == Spec => []MoveKeepsEntitled
<1>1. DevInv => MoveKeepsEntitled
  <2>. SUFFICES ASSUME DevInv, NEW a \in Admins, op[a].want \in Tiers, op[a].next > 1,
                       Pairs(op[a].person, Tiers) \subseteq op[a].clean
                PROVE  \E t \in Tiers : op[a].person \in member[t]
    BY DEF MoveKeepsEntitled
  <2>. DEFINE o == op[a]
  <2>1. o \in Records /\ PlanOK(o) /\ DoneHolds(o)
    BY DEF DevInv, TypesOK, RecordOK, RunOK, Runs
  <2>2. /\ o.plan \in Seq(Puts) /\ o.plan # <<>> /\ o.plan[1] = Put(o.want, TRUE)
        /\ \A i \in 1..Len(o.plan) : o.plan[i].group = o.want => o.plan[i].present
    BY <2>1 DEF PlanOK, Records
  <2>3. Len(o.plan) \in Nat /\ 1 \in 1..Len(o.plan)
    BY <2>2, EmptySeq
  <2>4. o.plan[1].group = o.want /\ o.plan[1].present = TRUE
    BY <2>2 DEF Put
  <2>5. \A i \in 1..Len(o.plan) : o.plan[i].present \in BOOLEAN
    <3>1. \A i \in 1..Len(o.plan) : o.plan[i] \in Puts
      BY <2>2, ElementOfSeq
    <3>. QED BY <3>1 DEF Puts
  <2>6. Agrees(o.plan, 1)
    BY <2>2, <2>4, <2>5 DEF Agrees
  <2>7. <<o.person, o.want>> \in o.clean
    BY DEF Pairs
  <2>8. (o.person \in member[o.want]) = TRUE
    BY <2>1, <2>3, <2>4, <2>6, <2>7 DEF DoneHolds
  <2>. QED BY <2>8
<1>. QED BY <1>1, DeveloperInvariant, PTL

(* When the groups of units are not tier groups as well, which the code    *)
(* takes for granted, a run that publishes has made all its changes        *)
(* (apply_membership and wait_membership, with reads that are behind).     *)
THEOREM PublishesWhatItChanged ==
  ASSUME Scopes \cap Tiers = {}
  PROVE  Spec => []PublishedIsChanged
<1>1. DevInv => PublishedIsChanged
  <2>. SUFFICES ASSUME DevInv, NEW a \in Admins, Finished(a),
                       NEW i \in DOMAIN op[a].plan, <<op[a].person, op[a].plan[i].group>> \in op[a].clean
                PROVE  (op[a].person \in member[op[a].plan[i].group]) = op[a].plan[i].present
    BY DEF PublishedIsChanged
  <2>. DEFINE o == op[a]
  <2>1. o \in Records /\ PlanOK(o) /\ StepOK(o) /\ DoneHolds(o)
    BY DEF DevInv, TypesOK, RecordOK, RunOK, Runs
  <2>2. o.plan \in Seq(Puts) /\ Len(o.plan) \in Nat /\ i \in 1..Len(o.plan) /\ o.next \in Nat
    BY <2>1 DEF Records
  <2>3. i < o.next /\ Agrees(o.plan, i)
    BY <2>1, <2>2 DEF Finished, PlanOK
  <2>. QED BY <2>1, <2>2, <2>3 DEF DoneHolds
<1>. QED BY <1>1, DeveloperInvariant, PTL

(* The only step that changes a list. *)
LEMMA ListStep ==
  ASSUME DevInv, [Next]_devVars, NEW a \in Runs, NEW t \in Tiers, Writes(a, t), allow'[t] # allow[t]
  PROVE  allow' = [allow EXCEPT ![t] = IF op[a].pending[t] = <<>> THEN @ ELSE op[a].pending[t][1]]
<1>0. UNCHANGED allow => FALSE
  OBVIOUS
<1>1. PICK b \in Runs : Publish(b)
  <2>1. ~(UNCHANGED devVars) /\ Next
    BY <1>0 DEF devVars
  <2>2. ~\E b \in Runs : PublishFails(b) \/ WriteFails(b) \/ Resync(b)
    BY <1>0 DEF PublishFails, WriteFails, Resync
  <2>3. ~\E b \in Runs : FindLast(b) \/ Check(b) \/ Write(b) \/ Wait(b) \/ Recheck(b)
    BY <1>0 DEF FindLast, Check, Write, Wait, Recheck
  <2>4. ASSUME NEW b \in Runs, NEW p, NEW want, NEW unit, Preview(b, p) \/ Begin(b, p, want, unit) PROVE FALSE
    BY <1>0, <2>4 DEF Preview, Begin
  <2>5. ~(\E x \in Edited : Edit(x[1], x[2])) /\ ~(\E x \in Scopes : EditCatalog(x)) /\ ~\E x \in People \X Groups : Settle(x)
    BY <1>0 DEF Edit, EditCatalog, Settle
  <2>. QED BY <2>1, <2>2, <2>3, <2>4, <2>5 DEF Next, Proceed, Runs
<1>2. PICK u \in Tiers, from \in {"putPremium", "putStandard"}, to \in {"putStandard", "readBack"} :
          WriteTier(b, u, from, to) /\ from = IF u = "premium" THEN "putPremium" ELSE "putStandard"
  <2>1. \/ WriteTier(b, "premium", "putPremium", "putStandard")
        \/ WriteTier(b, "standard", "putStandard", "readBack")
    BY <1>0, <1>1 DEF Publish, ReadTier, ReadBack
  <2>. QED BY <2>1 DEF Tiers
<1>3. op \in [Runs -> Records] /\ op[a] \in Records
  BY DEF DevInv, TypesOK
<1>4. a = b
  <2>1. ASSUME a # b PROVE op'[a].step = op[a].step
    BY <1>2, <1>3, <2>1 DEF WriteTier, Records
  <2>. QED BY <2>1 DEF Writes
<1>5. u = t
  BY <1>2, <1>4 DEF Writes, WriteTier, At, Tiers
<1>. QED BY <1>2, <1>4, <1>5 DEF WriteTier

(* docs/AUM.md:365-368: an allow list is emptied only by a removal that    *)
(* found the person to be the last member, and not while somebody has been *)
(* in the group all the while (FindLast, Recheck and MayWrite).            *)
THEOREM OnlyEmptiedOnPurpose == Spec => EmptiedOnPurpose
<1>1. ASSUME DevInv, [Next]_devVars, NEW a \in Runs, NEW t \in Tiers,
             Writes(a, t), op[a].alone, allow[t] # {}, allow'[t] = {}
      PROVE  /\ a \in Admins /\ op[a].want = "none"
             /\ <<op[a].person, t>> \in op[a].clean => op[a].person \notin member[t]
             /\ \A q \in member[t] : <<q, t>> \notin op[a].clean
  <2>. DEFINE o == op[a]
  <2>1. o \in Records /\ PlanOK(o) /\ StepOK(o) /\ RunOK(o) /\ (a \in Timers => o.plan = <<>>)
    BY <1>1 DEF DevInv, TypesOK, RecordOK
  <2>2. allow \in [Tiers -> SUBSET People] /\ member \in [Groups -> SUBSET People] /\ t \in Groups
    BY <1>1 DEF DevInv, TypesOK, Groups
  <2>3. o.pending[t] = <<{}>>
    <3>1. o.pending[t] \in {<<>>} \cup {<<l>> : l \in SUBSET People}
      BY <2>1 DEF Records
    <3>2. allow'[t] = IF o.pending[t] = <<>> THEN allow[t] ELSE o.pending[t][1]
      BY <1>1, <2>2, ListStep
    <3>. QED BY <1>1, <3>1, <3>2
  <2>4. t \in o.flags
    BY <1>1, <2>1, <2>3 DEF RunOK, EmptyAllowed
  <2>5. o.want = "none" /\ a \notin Timers
    BY <2>1, <2>4 DEF StepOK
  <2>6. \A q \in People : <<q, t>> \in o.clean => q \notin member[t]
    BY <2>1, <2>4 DEF RunOK, FlagsHold
  <2>7. <<o.person, t>> \in o.clean => o.person \in People
    BY <2>1 DEF Records
  <2>. QED BY <2>2, <2>5, <2>6, <2>7 DEF Runs
<1>2. DevInv /\ [Next]_devVars =>
        [\A a \in Runs, t \in Tiers :
            Writes(a, t) /\ op[a].alone /\ allow[t] # {} /\ allow'[t] = {} =>
                /\ a \in Admins /\ op[a].want = "none"
                /\ <<op[a].person, t>> \in op[a].clean => op[a].person \notin member[t]
                /\ \A q \in member[t] : <<q, t>> \notin op[a].clean]_devVars
  BY <1>1
<1>. QED BY <1>2, DeveloperInvariant, PTL DEF Spec, EmptiedOnPurpose
=============================================================================
