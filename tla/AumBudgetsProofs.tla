-------------------------- MODULE AumBudgetsProofs --------------------------
(***************************************************************************)
(* Proofs about AumBudgets for any catalog, any number of writers, boosts, *)
(* failures and edits by other tools: what the ETags protect whatever      *)
(* happens, and what the lease adds while no call outlasts it.             *)
(***************************************************************************)
EXTENDS AumBudgets, SequenceTheorems, TLAPS

-----------------------------------------------------------------------------
(* ------------------------- values and their types ------------------------ *)
MapsOf(S, T) == UNION {[D -> T] : D \in SUBSET S}
Configs == [reg : MapsOf(Units, Nat), par : MapsOf(Units, Units), ovr : MapsOf(Users, Nat), tier : Nat]
WriteRecords ==
    [key : {"reg"}, value : MapsOf(Units, Nat)] \cup [key : {"par"}, value : MapsOf(Units, Units)]
    \cup [key : {"ovr"}, value : MapsOf(Users, Nat)] \cup [key : {"tier"}, value : Nat]
Changing == {"none", "set", "add", "move", "remove", "tier", "manager"}
Boostings == {"boost", "expired", "superseded"}
Scopes == Units \cup Users \cup {NoUnit}
JobRecords ==
    [kind : Changing \cup Boostings, target : Scopes, amount : Nat, boost : BoostIds \cup {NoBoost},
     todo : Seq(WriteRecords), done : Seq(WriteRecords), snap : Configs, fresh : SUBSET Keys]
BoostRecords ==
    [state : {"none", "pending", "active", "expired", "superseded"},
     target : Scopes, limit : Nat, previous : Nat]

(* A list of writes has one for each named value it is about.              *)
OneEach(s) == \A i, k \in DOMAIN s : s[i].key = s[k].key => i = k

(* Two tables agree but for the entry of t. *)
SameButFor(t, f, g) == \A x \in (Units \cup Users) \ {t} :
    (x \in DOMAIN f <=> x \in DOMAIN g) /\ (x \in DOMAIN f => f[x] = g[x])

AumTypes ==
    /\ gw \in Configs
    /\ boosts \in [BoostIds -> BoostRecords]
    /\ managers \subseteq Units /\ due \subseteq BoostIds
    /\ lease \in Writers \cup {NoWriter} /\ valid \in [Writers -> BOOLEAN]
    /\ at \in [Writers -> Phases]
    /\ job \in [Writers -> JobRecords]
    /\ late \subseteq WriteRecords
    /\ spent \in [requests : Nat, faults : Nat, edits : Nat, slow : Nat]
    /\ \A w \in Writers : /\ at[w] = "storing" => job[w].kind \in Boostings
                          /\ at[w] \in {"putting", "asking", "verifying"} => job[w].todo # <<>>
                          /\ at[w] \in {"rolling", "restoring"} => job[w].done # <<>>
                          /\ at[w] = "mapping" => job[w].target \in Units

LEMMA MapOf ==
  ASSUME NEW f, NEW S, NEW T
  PROVE  IsMap(f, S, T) <=> f \in MapsOf(S, T)
<1>1. IsMap(f, S, T) => f \in MapsOf(S, T)
  BY DEF IsMap, MapsOf
<1>2. f \in MapsOf(S, T) => IsMap(f, S, T)
  BY DEF IsMap, MapsOf
<1>. QED BY <1>1, <1>2

LEMMA ConfigOf == ASSUME NEW c PROVE IsConfig(c) <=> c \in Configs
<1>1. IsConfig(c) => c \in Configs
  BY MapOf DEF IsConfig, Configs
<1>2. c \in Configs => IsConfig(c)
  BY MapOf DEF IsConfig, Configs
<1>. QED BY <1>1, <1>2

LEMMA NothingTyped == NoJob \in JobRecords
<1>1. <<>> \in [{} -> Nat] /\ <<>> \in [{} -> Units]
  OBVIOUS
<1>2. \A S : <<>> \in MapsOf(S, Nat) /\ <<>> \in MapsOf(S, Units)
  BY <1>1 DEF MapsOf
<1>3. Nothing \in Configs
  BY <1>2 DEF Nothing, Configs
<1>4. <<>> \in Seq(WriteRecords)
  OBVIOUS
<1>5. 0 \in Nat /\ {} \in SUBSET Keys
  OBVIOUS
<1>. HIDE DEF Nothing
<1>. QED BY <1>3, <1>4, <1>5 DEF NoJob, JobRecords, Changing, Scopes

(* A named value takes a new value of its own type. *)
LEMMA Landed ==
  ASSUME NEW c \in Configs, NEW x \in WriteRecords
  PROVE  /\ With(c, x.key, x.value) \in Configs /\ x.key \in Keys
         /\ With(c, x.key, x.value)[x.key] = x.value
         /\ \A k \in Keys \ {x.key} : With(c, x.key, x.value)[k] = c[k]
<1>1. x.key \in Keys
  BY DEF WriteRecords, Keys
<1>2. CASE x.key = "reg"
  BY <1>2 DEF WriteRecords, Keys, With, Configs
<1>3. CASE x.key = "par"
  BY <1>3 DEF WriteRecords, Keys, With, Configs
<1>4. CASE x.key = "ovr"
  BY <1>4 DEF WriteRecords, Keys, With, Configs
<1>5. CASE x.key = "tier"
  BY <1>5 DEF WriteRecords, Keys, With, Configs
<1>. QED BY <1>1, <1>2, <1>3, <1>4, <1>5 DEF Keys

(* What a snapshot has under a key may be written under it. *)
LEMMA Previous ==
  ASSUME NEW c \in Configs, NEW k \in Keys
  PROVE  \E x \in WriteRecords : x.key = k /\ x.value = c[k]
<1>1. /\ [key |-> "reg", value |-> c.reg] \in WriteRecords
      /\ [key |-> "par", value |-> c.par] \in WriteRecords
      /\ [key |-> "ovr", value |-> c.ovr] \in WriteRecords
      /\ [key |-> "tier", value |-> c.tier] \in WriteRecords
  BY DEF WriteRecords, Configs
<1>. QED BY <1>1 DEF Keys

(* The one named value a limit is written to.                              *)
LEMMA LimitTyped ==
  ASSUME NEW c \in Configs, NEW t \in Targets(c), NEW a \in Nat
  PROVE  /\ [key |-> KeyOf(t), value |-> Changed(c, t, a)] \in WriteRecords
         /\ t \in Scopes /\ Limit(c, t) \in Nat
         /\ t \notin Users => DOMAIN Changed(c, t, a) = Catalog(c)
         /\ SameButFor(t, Changed(c, t, a), c[KeyOf(t)])
<1>0. IsMap(c.reg, Units, Nat) /\ IsMap(c.ovr, Users, Nat)
  BY ConfigOf DEF IsConfig
<1>1. t \in Scopes /\ Limit(c, t) \in Nat
  BY <1>0 DEF IsMap, Targets, Catalog, Scopes, Limit
<1>2. CASE t \notin Users
  <2>1. IsMap([c.reg EXCEPT ![t] = a], Units, Nat) /\ DOMAIN [c.reg EXCEPT ![t] = a] = Catalog(c)
    BY <1>0 DEF IsMap, Catalog
  <2>2. SameButFor(t, [c.reg EXCEPT ![t] = a], c.reg)
    BY DEF SameButFor
  <2>3. KeyOf(t) = "reg" /\ Changed(c, t, a) = [c.reg EXCEPT ![t] = a] /\ c["reg"] = c.reg
    BY <1>2 DEF KeyOf, Changed, Configs
  <2>. QED BY <1>1, <1>2, <2>1, <2>2, <2>3, MapOf DEF WriteRecords
<1>3. CASE t \in Users
  <2>1. CASE a = 0
    <3>. DEFINE f == [u \in DOMAIN c.ovr \ {t} |-> c.ovr[u]]
    <3>1. IsMap(f, Users, Nat) /\ SameButFor(t, f, c.ovr)
      BY <1>0 DEF IsMap, SameButFor
    <3>2. KeyOf(t) = "ovr" /\ Changed(c, t, a) = f /\ c["ovr"] = c.ovr
      BY <1>3, <2>1 DEF KeyOf, Changed, Configs
    <3>. QED BY <1>1, <1>3, <3>1, <3>2, MapOf DEF WriteRecords
  <2>2. CASE a # 0
    <3>1. IsMap(Assigned(c.ovr, t, a), Users, Nat) /\ SameButFor(t, Assigned(c.ovr, t, a), c.ovr)
      BY <1>0, <1>3 DEF IsMap, Assigned, SameButFor
    <3>2. KeyOf(t) = "ovr" /\ Changed(c, t, a) = Assigned(c.ovr, t, a) /\ c["ovr"] = c.ovr
      BY <1>3, <2>2 DEF KeyOf, Changed, Configs
    <3>. QED BY <1>1, <1>3, <3>1, <3>2, MapOf DEF WriteRecords
  <2>. QED BY <2>1, <2>2
<1>. QED BY <1>2, <1>3
-----------------------------------------------------------------------------
(* --------------------------------- types -------------------------------- *)
LEMMA InitTypes == Init => AumTypes
<1>. SUFFICES ASSUME Init PROVE AumTypes
  OBVIOUS
<1>1. gw \in Configs /\ job \in [Writers -> JobRecords]
  BY AumConstants, ConfigOf, NothingTyped DEF Init
<1>2. NoRecord \in BoostRecords
  BY DEF NoRecord, BoostRecords, Scopes
<1>. QED BY <1>1, <1>2, AumConstants DEF Init, AumTypes, Phases

(* What is admitted is typed. *)
TypedBegin(phase, kind, target, amount, boost, todo) ==
    /\ phase \in {"checking", "recording", "mapping", "revoking"}
    /\ kind \in Changing \cup Boostings /\ target \in Scopes /\ amount \in Nat
    /\ boost \in BoostIds \cup {NoBoost} /\ todo \in Seq(WriteRecords)
    /\ phase = "mapping" => target \in Units

LEMMA BeginTyped ==
  ASSUME AumTypes, NEW w \in Writers, NEW phase, NEW kind, NEW target, NEW amount, NEW boost, NEW todo,
         Begin(w, phase, kind, target, amount, boost, todo),
         TypedBegin(phase, kind, target, amount, boost, todo),
         spent' \in [requests : Nat, faults : Nat, edits : Nat, slow : Nat]
  PROVE  /\ AumTypes'
         /\ job'[w].kind = kind /\ job'[w].target = target /\ job'[w].amount = amount /\ job'[w].boost = boost
         /\ job'[w].todo = todo /\ job'[w].done = <<>> /\ job'[w].snap = gw /\ job'[w].fresh = {}
         /\ at'[w] = phase /\ lease' = w /\ valid'[w] = TRUE
         /\ \A x \in Writers \ {w} : job'[x] = job[x] /\ at'[x] = at[x] /\ valid'[x] = valid[x]
<1>. DEFINE j == [NoJob EXCEPT !.kind = kind, !.target = target, !.amount = amount, !.boost = boost,
                                !.todo = todo, !.snap = gw]
<1>1. NoJob \in JobRecords /\ NoJob.done = <<>> /\ NoJob.fresh = {}
  BY NothingTyped DEF NoJob
<1>2. /\ gw \in Configs
      /\ kind \in Changing \cup Boostings /\ target \in Scopes /\ amount \in Nat
      /\ boost \in BoostIds \cup {NoBoost} /\ todo \in Seq(WriteRecords)
  BY DEF AumTypes, TypedBegin
<1>3. /\ j \in JobRecords
      /\ j.kind = kind /\ j.target = target /\ j.amount = amount /\ j.boost = boost /\ j.todo = todo
      /\ j.snap = gw /\ j.done = <<>> /\ j.fresh = {}
  BY <1>1, <1>2 DEF JobRecords
<1>4. job' = [job EXCEPT ![w] = j] /\ at' = [at EXCEPT ![w] = phase] /\ valid' = [valid EXCEPT ![w] = TRUE]
  BY DEF Begin, Goto
<1>. HIDE DEF j
<1>5. /\ job' \in [Writers -> JobRecords] /\ at' \in [Writers -> Phases] /\ valid' \in [Writers -> BOOLEAN]
      /\ job'[w] = j /\ at'[w] = phase /\ valid'[w] = TRUE
      /\ \A x \in Writers \ {w} : job'[x] = job[x] /\ at'[x] = at[x] /\ valid'[x] = valid[x]
  BY <1>3, <1>4 DEF AumTypes, TypedBegin, Phases, Calling
<1>6. phase \notin {"storing", "putting", "asking", "verifying", "rolling", "restoring"}
  BY DEF TypedBegin
<1>7. /\ gw' \in Configs /\ boosts' \in [BoostIds -> BoostRecords] /\ managers' \subseteq Units /\ due' \subseteq BoostIds
      /\ lease' \in Writers \cup {NoWriter} /\ late' \subseteq WriteRecords /\ lease' = w
  BY DEF Begin, AumTypes
<1>8. \A x \in Writers : /\ at'[x] = "storing" => job'[x].kind \in Boostings
                         /\ at'[x] \in {"putting", "asking", "verifying"} => job'[x].todo # <<>>
                         /\ at'[x] \in {"rolling", "restoring"} => job'[x].done # <<>>
                         /\ at'[x] = "mapping" => job'[x].target \in Units
  BY <1>3, <1>5, <1>6 DEF AumTypes, TypedBegin
<1>. QED BY <1>3, <1>5, <1>7, <1>8 DEF AumTypes

LEMMA SpentTyped ==
  ASSUME AumTypes
  PROVE  /\ \A k \in {"requests", "faults", "edits"} : Spend(k) =>
             /\ spent' \in [requests : Nat, faults : Nat, edits : Nat, slow : Nat]
             /\ spent'.slow = spent.slow /\ spent'.edits >= spent.edits
             /\ k = "edits" => spent'.edits > 0
         /\ \A k : Admitted(k) => Spend("requests")
         /\ Fault => Spend("faults")
  BY DEF AumTypes, Spend, Admitted, Fault

(* Writes that were made of snapshot c change nobody but t.                *)
OnlyOf(t, s, c) == \A i \in DOMAIN s :
    /\ s[i].key = "reg" => SameButFor(t, s[i].value, c.reg)
    /\ s[i].key = "ovr" => SameButFor(t, s[i].value, c.ovr)

(* Who manages stays in the catalog that is written, but for a unit whose  *)
(* manager group is still to be revoked.                                   *)
KeepsManaged(phase, t, s) == \A i \in DOMAIN s : s[i].key = "reg" =>
    managers \ (IF phase = "revoking" THEN {t} ELSE {}) \subseteq DOMAIN s[i].value

SoundBegin(phase, target, boost, todo) ==
    /\ OneEach(todo) /\ OnlyOf(target, todo, gw)
    /\ managers \subseteq Catalog(gw) => KeepsManaged(phase, target, todo)
    /\ phase = "mapping" => target \in Catalog(gw)
    /\ boost # NoBoost => boosts[boost].state \notin {"expired", "superseded"}

(* Every request and every expiry begins with such values.                 *)
Beginning(w) ==
    \E phase, kind, target, amount, boost, todo :
        /\ Begin(w, phase, kind, target, amount, boost, todo)
        /\ TypedBegin(phase, kind, target, amount, boost, todo)
        /\ SoundBegin(phase, target, boost, todo)
        /\ spent' = spent \/ Spend("requests")

LEMMA LimitWrite ==
  ASSUME AumTypes, NEW t \in Targets(gw), NEW a \in Nat
  PROVE  /\ WriteLimit(t, a) \in Seq(WriteRecords) /\ t \in Scopes
         /\ OneEach(WriteLimit(t, a)) /\ OnlyOf(t, WriteLimit(t, a), gw)
         /\ \A phase : managers \subseteq Catalog(gw) => KeepsManaged(phase, t, WriteLimit(t, a))
<1>. DEFINE x == [key |-> KeyOf(t), value |-> Changed(gw, t, a)]
<1>1. /\ x \in WriteRecords /\ t \in Scopes /\ SameButFor(t, x.value, gw[x.key])
      /\ x.key = "reg" => DOMAIN x.value = Catalog(gw)
  BY LimitTyped DEF AumTypes, KeyOf
<1>2. \A y \in WriteRecords : <<y>> \in Seq(WriteRecords) /\ DOMAIN <<y>> = {1} /\ <<y>>[1] = y
  OBVIOUS
<1>3. WriteLimit(t, a) = <<x>>
  BY DEF WriteLimit
<1>. HIDE DEF x
<1>. QED BY <1>1, <1>2, <1>3 DEF OneEach, OnlyOf, KeepsManaged

LEMMA CatalogWrite ==
  ASSUME AumTypes, NEW S \in SUBSET Units, NEW f, IsMap(f, Units, Units),
         NEW x \in Units, S \ {x} = Catalog(gw) \ {x}
  PROVE  LET todo == Writes(Rows(S, f))
         IN  /\ todo \in Seq(WriteRecords) /\ OneEach(todo) /\ OnlyOf(x, todo, gw)
             /\ \A phase : managers \subseteq Catalog(gw) /\ (x \in managers => x \in S \/ phase = "revoking")
                   => KeepsManaged(phase, x, todo)
<1>. DEFINE r == [y \in S |-> IF y \in Catalog(gw) THEN gw.reg[y] ELSE 0]
            first == [key |-> "reg", value |-> r]
            second == [key |-> "par", value |-> f]
            todo == Writes(Rows(S, f))
<1>1. IsMap(gw.reg, Units, Nat) /\ gw \in Configs
  BY ConfigOf DEF IsConfig, AumTypes
<1>2. IsMap(r, Units, Nat) /\ DOMAIN r = S /\ SameButFor(x, r, gw.reg)
  BY <1>1 DEF IsMap, Catalog, SameButFor
<1>3. Rows(S, f).reg = r /\ Rows(S, f).par = f
  BY <1>1 DEF Rows, Configs
<1>. HIDE DEF r
<1>4. first \in WriteRecords /\ second \in WriteRecords
  BY <1>2, MapOf DEF WriteRecords
<1>5. /\ first.key = "reg" /\ first.value = r /\ second.key = "par"
  OBVIOUS
<1>6. todo = <<first, second>>
  BY <1>3 DEF Writes
<1>. HIDE DEF first, second, todo
<1>7. todo \in Seq(WriteRecords) /\ DOMAIN todo = {1, 2} /\ todo[1] = first /\ todo[2] = second
  BY <1>4, <1>6
<1>8. OneEach(todo) /\ OnlyOf(x, todo, gw)
  BY <1>2, <1>5, <1>7 DEF OneEach, OnlyOf
<1>9. ASSUME NEW phase, managers \subseteq Catalog(gw), x \in managers => x \in S \/ phase = "revoking"
      PROVE  KeepsManaged(phase, x, todo)
  <2>1. managers \ (IF phase = "revoking" THEN {x} ELSE {}) \subseteq S
    BY <1>9
  <2>. QED BY <1>2, <1>5, <1>7, <2>1 DEF KeepsManaged
<1>. QED BY <1>7, <1>8, <1>9 DEF todo

LEMMA ParentsTyped ==
  ASSUME AumTypes, NEW x \in Units, NEW p \in Catalog(gw) \cup {NoUnit}
  PROVE  IsMap(Under(x, p), Units, Units) /\ IsMap(Unparented(x), Units, Units) /\ Catalog(gw) \subseteq Units
<1>1. IsMap(gw.par, Units, Units) /\ IsMap(gw.reg, Units, Nat)
  BY ConfigOf DEF IsConfig, AumTypes
<1>2. IsMap(Unparented(x), Units, Units) /\ Catalog(gw) \subseteq Units
  BY <1>1 DEF IsMap, Unparented, Catalog
<1>3. CASE p = NoUnit
  BY <1>2, <1>3 DEF Under
<1>4. CASE p # NoUnit
  BY <1>1, <1>2, <1>4 DEF Under, Assigned, IsMap
<1>. QED BY <1>2, <1>3, <1>4

(* A request that writes no named value, or the tier alone. *)
LEMMA OtherWrite ==
  ASSUME NEW t, NEW phase
  PROVE  /\ <<>> \in Seq(WriteRecords)
         /\ OneEach(<<>>) /\ OnlyOf(t, <<>>, gw) /\ KeepsManaged(phase, t, <<>>)
         /\ \A a \in Amounts : LET todo == <<[key |-> "tier", value |-> a]>>
                IN  /\ todo \in Seq(WriteRecords) /\ a \in Nat
                    /\ OneEach(todo) /\ OnlyOf(t, todo, gw) /\ KeepsManaged(phase, t, todo)
<1>1. DOMAIN <<>> = {} /\ <<>> \in Seq(WriteRecords)
  OBVIOUS
<1>2. OneEach(<<>>) /\ OnlyOf(t, <<>>, gw) /\ KeepsManaged(phase, t, <<>>)
  BY <1>1 DEF OneEach, OnlyOf, KeepsManaged
<1>3. ASSUME NEW a \in Amounts
      PROVE  LET todo == <<[key |-> "tier", value |-> a]>>
             IN  /\ todo \in Seq(WriteRecords) /\ a \in Nat
                 /\ OneEach(todo) /\ OnlyOf(t, todo, gw) /\ KeepsManaged(phase, t, todo)
  <2>. DEFINE x == [key |-> "tier", value |-> a]
  <2>1. x \in WriteRecords /\ a \in Nat /\ x.key = "tier"
    BY AumConstants DEF WriteRecords
  <2>2. \A y \in WriteRecords : <<y>> \in Seq(WriteRecords) /\ DOMAIN <<y>> = {1} /\ <<y>>[1] = y
    OBVIOUS
  <2>. HIDE DEF x
  <2>3. <<x>> \in Seq(WriteRecords) /\ OneEach(<<x>>) /\ OnlyOf(t, <<x>>, gw) /\ KeepsManaged(phase, t, <<x>>)
    BY <2>1, <2>2 DEF OneEach, OnlyOf, KeepsManaged
  <2>. QED BY <2>1, <2>3 DEF x
<1>. QED BY <1>1, <1>2, <1>3

LEMMA RequestBegins ==
  ASSUME AumTypes, NEW w \in Writers, Request(w) \/ Expire(w)
  PROVE  Beginning(w)
<1>. USE DEF TypedBegin, Changing, Boostings
<1>0. \A k : Admitted(k) => Spend("requests")
  BY DEF Admitted
<1>a. NoBoost \in BoostIds \cup {NoBoost} /\ 0 \in Nat /\ 1 \in Nat /\ NoUnit \in Scopes
  BY DEF Scopes
<1>b. Catalog(gw) \subseteq Units /\ Units \subseteq Scopes
  BY DEF AumTypes, Configs, MapsOf, Catalog, Scopes
<1>1. CASE SetBudget(w)
  <2>1. PICK t \in Targets(gw), amount \in Amounts \cup {0} :
            Begin(w, "checking", "set", t, amount, NoBoost, WriteLimit(t, amount)) /\ Admitted("set")
    BY <1>1 DEF SetBudget
  <2>2. amount \in Nat
    BY AumConstants
  <2>3. SoundBegin("checking", t, NoBoost, WriteLimit(t, amount))
    BY <2>2, LimitWrite DEF SoundBegin
  <2>. QED BY <1>0, <1>a, <2>1, <2>2, <2>3, LimitWrite DEF Beginning
<1>2. CASE Boost(w)
  <2>1. PICK t \in Targets(gw), amount \in Amounts, b \in UnusedBoosts :
            Begin(w, "recording", "boost", t, amount, b, WriteLimit(t, amount)) /\ Admitted("boost")
    BY <1>2 DEF Boost
  <2>2. b \in BoostIds /\ amount \in Nat /\ boosts[b].state = "none"
    BY AumConstants DEF UnusedBoosts, NoRecord
  <2>3. SoundBegin("recording", t, b, WriteLimit(t, amount))
    BY <2>2, LimitWrite DEF SoundBegin
  <2>. QED BY <1>0, <2>1, <2>2, <2>3, LimitWrite DEF Beginning
<1>3. CASE AddUnit(w)
  <2>1. PICK x \in Units \ Catalog(gw), p \in Catalog(gw) \cup {NoUnit} :
            Begin(w, "checking", "add", x, 0, NoBoost, Writes(Rows(Catalog(gw) \cup {x}, Under(x, p)))) /\ Admitted("add")
    BY <1>3 DEF AddUnit
  <2>. DEFINE S == Catalog(gw) \cup {x}
  <2>2. S \in SUBSET Units /\ S \ {x} = Catalog(gw) \ {x} /\ x \in S /\ IsMap(Under(x, p), Units, Units)
    BY <1>b, ParentsTyped
  <2>. HIDE DEF S
  <2>3. Writes(Rows(S, Under(x, p))) \in Seq(WriteRecords) /\ SoundBegin("checking", x, NoBoost, Writes(Rows(S, Under(x, p))))
    BY <2>2, CatalogWrite DEF SoundBegin
  <2>. QED BY <1>0, <1>a, <1>b, <2>1, <2>3 DEF Beginning, S
<1>4. CASE MoveUnit(w)
  <2>1. PICK x \in Catalog(gw), p \in Catalog(gw) \cup {NoUnit} :
            Begin(w, "checking", "move", x, 0, NoBoost, Writes(Rows(Catalog(gw), Under(x, p)))) /\ Admitted("move")
    BY <1>4 DEF MoveUnit
  <2>2. Catalog(gw) \in SUBSET Units /\ x \in Units /\ IsMap(Under(x, p), Units, Units)
    BY <1>b, ParentsTyped
  <2>3. Writes(Rows(Catalog(gw), Under(x, p))) \in Seq(WriteRecords)
        /\ SoundBegin("checking", x, NoBoost, Writes(Rows(Catalog(gw), Under(x, p))))
    BY <2>2, CatalogWrite DEF SoundBegin
  <2>. QED BY <1>0, <1>a, <1>b, <2>1, <2>3 DEF Beginning
<1>5. CASE RemoveUnit(w)
  <2>1. PICK x \in Catalog(gw) : \E phase \in {"revoking", "checking"} :
            /\ Begin(w, phase, "remove", x, 0, NoBoost, Writes(Rows(Catalog(gw) \ {x}, Unparented(x))))
            /\ Admitted("remove") /\ (x \in managers => phase = "revoking")
    BY <1>5, Zenon DEF RemoveUnit
  <2>2. PICK phase \in {"revoking", "checking"} :
            /\ Begin(w, phase, "remove", x, 0, NoBoost, Writes(Rows(Catalog(gw) \ {x}, Unparented(x))))
            /\ Admitted("remove") /\ (x \in managers => phase = "revoking")
    BY <2>1
  <2>. DEFINE S == Catalog(gw) \ {x}
  <2>3. S \in SUBSET Units /\ S \ {x} = Catalog(gw) \ {x} /\ x \in Units /\ IsMap(Unparented(x), Units, Units)
    BY <1>b, ParentsTyped
  <2>. HIDE DEF S
  <2>4. Writes(Rows(S, Unparented(x))) \in Seq(WriteRecords) /\ SoundBegin(phase, x, NoBoost, Writes(Rows(S, Unparented(x))))
    BY <2>2, <2>3, CatalogWrite DEF SoundBegin
  <2>. QED BY <1>0, <1>a, <1>b, <2>2, <2>4 DEF Beginning, S
<1>6. CASE SetTier(w)
  <2>1. PICK amount \in Amounts :
            Begin(w, "checking", "tier", NoUnit, amount, NoBoost, <<[key |-> "tier", value |-> amount]>>) /\ Admitted("tier")
    BY <1>6 DEF SetTier
  <2>2. PICK todo : /\ todo \in Seq(WriteRecords) /\ amount \in Nat /\ SoundBegin("checking", NoUnit, NoBoost, todo)
                    /\ Begin(w, "checking", "tier", NoUnit, amount, NoBoost, todo)
    BY <2>1, OtherWrite, Zenon DEF SoundBegin
  <2>. QED BY <1>0, <1>a, <2>1, <2>2 DEF Beginning
<1>7. CASE SetManager(w)
  <2>1. PICK x \in Catalog(gw), group \in {0, 1} :
            Begin(w, "mapping", "manager", x, group, NoBoost, <<>>) /\ Admitted("manager")
    BY <1>7 DEF SetManager
  <2>2. <<>> \in Seq(WriteRecords) /\ SoundBegin("mapping", x, NoBoost, <<>>)
    BY OtherWrite DEF SoundBegin
  <2>. QED BY <1>0, <1>a, <1>b, <2>1, <2>2 DEF Beginning
<1>8. CASE Expire(w)
  <2>1. PICK b \in due : \E kind \in {"expired", "superseded"},
                           todo \in {WriteLimit(boosts[b].target, boosts[b].previous), <<>>} :
            /\ boosts[b].target \in Targets(gw) /\ Live(b)
            /\ Begin(w, "checking", kind, boosts[b].target, boosts[b].previous, b, todo)
            /\ spent' = spent
    BY <1>8, Zenon DEF Expire
  <2>2. b \in BoostIds /\ boosts[b].previous \in Nat /\ boosts[b].state \notin {"expired", "superseded"}
    BY <2>1 DEF AumTypes, BoostRecords, Live
  <2>3. PICK kind \in {"expired", "superseded"}, todo \in {WriteLimit(boosts[b].target, boosts[b].previous), <<>>} :
            Begin(w, "checking", kind, boosts[b].target, boosts[b].previous, b, todo) /\ spent' = spent
    BY <2>1
  <2>4. boosts[b].target \in Scopes /\ todo \in Seq(WriteRecords) /\ SoundBegin("checking", boosts[b].target, b, todo)
    <3>1. CASE todo = <<>>
      BY <2>1, <2>2, <3>1, LimitWrite, OtherWrite DEF SoundBegin
    <3>2. CASE todo # <<>>
      BY <2>1, <2>2, <2>3, <3>2, LimitWrite DEF SoundBegin
    <3>. QED BY <3>1, <3>2
  <2>. QED BY <2>2, <2>3, <2>4 DEF Beginning
<1>. QED BY <1>1, <1>2, <1>3, <1>4, <1>5, <1>6, <1>7, <1>8 DEF Request
(* ------------------------- what a step does to its job ------------------- *)
(* A job but for the ETags it knows. *)
SameJob(j, k) ==
    /\ j.kind = k.kind /\ j.target = k.target /\ j.amount = k.amount /\ j.boost = k.boost
    /\ j.todo = k.todo /\ j.done = k.done /\ j.snap = k.snap

LEMMA ForgetTyped ==
  ASSUME AumTypes, NEW w \in Writers \cup {NoWriter}, NEW key
  PROVE  /\ Forgetting(w, key) \in [Writers -> JobRecords]
         /\ \A x \in Writers : SameJob(Forgetting(w, key)[x], job[x])
         /\ \A x \in Writers \ {w} : Forgetting(w, key)[x].fresh = job[x].fresh \ {key}
         /\ w \in Writers => Forgetting(w, key)[w] = job[w]
<1>1. \A j \in JobRecords : /\ [j EXCEPT !.fresh = @ \ {key}] \in JobRecords
                            /\ SameJob([j EXCEPT !.fresh = @ \ {key}], j)
                            /\ [j EXCEPT !.fresh = @ \ {key}].fresh = j.fresh \ {key}
  BY DEF JobRecords, SameJob
<1>2. \A x \in Writers : job[x] \in JobRecords /\ SameJob(job[x], job[x])
  BY DEF AumTypes, SameJob
<1>. QED BY <1>1, <1>2 DEF Forgetting

(* How a writer leaves a step: the phase and the job it goes on with, and  *)
(* everybody else's job is theirs.                                         *)
GoesOn(w, jobs) ==
    /\ job' \in [Writers -> JobRecords]
    /\ at' \in [Writers -> Phases] /\ valid' \in [Writers -> BOOLEAN]
    /\ \A x \in Writers \ {w} : at'[x] = at[x] /\ valid'[x] = valid[x] /\ job'[x] = jobs[x]
    /\ valid'[w] => valid[w]
    /\ lease' = lease \/ (lease = w /\ lease' = NoWriter)
    /\ at'[w] # "idle" => lease' = lease
    /\ at'[w] = "idle" => job'[w] = NoJob /\ ~valid'[w]

LEMMA Ends ==
  ASSUME AumTypes, NEW w \in Writers, NEW jobs \in [Writers -> JobRecords],
         Finish(w), job' = [jobs EXCEPT ![w] = NoJob]
  PROVE  GoesOn(w, jobs) /\ at'[w] = "idle"
  BY NothingTyped DEF AumTypes, Finish, Goto, Phases, GoesOn

LEMMA Advances ==
  ASSUME AumTypes, NEW w \in Writers, NEW jobs \in [Writers -> JobRecords], NEW p \in Phases \ {"idle"},
         NEW j \in JobRecords, Goto(w, p), lease' = lease, valid' = valid, job' = [jobs EXCEPT ![w] = j]
  PROVE  GoesOn(w, jobs) /\ at'[w] = p /\ job'[w] = j
  BY DEF AumTypes, Goto, GoesOn

LEMMA Remains ==
  ASSUME AumTypes, NEW w \in Writers, NEW p \in Phases \ {"idle"},
         Goto(w, p), lease' = lease, valid' = valid, job' = job
  PROVE  GoesOn(w, job) /\ at'[w] = p /\ job'[w] = job[w]
  BY DEF AumTypes, Goto, GoesOn

(* The receipts before the last one. *)
LEMMA Receipts ==
  ASSUME NEW j \in JobRecords, j.done # <<>>
  PROVE  LET left == SubSeq(j.done, 1, Len(j.done) - 1)
         IN  /\ left \in Seq(WriteRecords) /\ Len(left) = Len(j.done) - 1
             /\ \A i \in DOMAIN left : i \in DOMAIN j.done /\ left[i] = j.done[i] /\ i # Len(j.done)
             /\ j.done[Len(j.done)] \in WriteRecords /\ Len(j.done) \in DOMAIN j.done
<1>1. j.done \in Seq(WriteRecords) /\ Len(j.done) \in Nat \ {0} /\ DOMAIN j.done = 1..Len(j.done)
  BY LenProperties, EmptySeq DEF JobRecords
<1>2. \A i \in 1..Len(j.done) : j.done[i] \in WriteRecords
  BY <1>1, ElementOfSeq
<1>3. LET left == SubSeq(j.done, 1, Len(j.done) - 1)
      IN  /\ left \in Seq(WriteRecords) /\ Len(left) = Len(j.done) - 1
          /\ \A i \in 1..Len(j.done) - 1 : left[i] = j.done[i]
  <2>. DEFINE left == SubSeq(j.done, 1, Len(j.done) - 1)
              n == Len(j.done) - 1
  <2>1. 1 \in Int /\ n \in Int /\ \A i \in 1..n : j.done[i] \in WriteRecords
    BY <1>1, <1>2
  <2>2. /\ SubSeq(j.done, 1, n) \in Seq(WriteRecords) /\ Len(SubSeq(j.done, 1, n)) = IF 1 <= n THEN n - 1 + 1 ELSE 0
        /\ \A i \in 1..n - 1 + 1 : SubSeq(j.done, 1, n)[i] = j.done[1 + i - 1]
    <3>. HIDE DEF n
    <3>. QED BY <2>1, SubSeqProperties
  <2>. QED BY <1>1, <2>2
<1>4. \A s \in Seq(WriteRecords) : DOMAIN s = 1..Len(s)
  BY LenProperties
<1>. QED BY <1>1, <1>2, <1>3, <1>4

LEMMA ReceiptGone ==
  ASSUME AumTypes, NEW w \in Writers, NEW jobs \in [Writers -> JobRecords],
         SameJob(jobs[w], job[w]), job[w].done # <<>>, NextReceipt(w, jobs)
  PROVE  /\ GoesOn(w, jobs) /\ at'[w] \in {"idle", "rolling"}
         /\ at'[w] = "rolling" =>
               /\ job'[w].done # <<>> /\ job'[w].fresh = jobs[w].fresh /\ job'[w].snap = job[w].snap
               /\ job'[w].target = job[w].target /\ job'[w].kind = job[w].kind
               /\ job'[w].boost = job[w].boost /\ job'[w].todo = job[w].todo
               /\ job'[w].amount = job[w].amount
               /\ \A i \in DOMAIN job'[w].done :
                     i \in DOMAIN job[w].done /\ job'[w].done[i] = job[w].done[i] /\ i # Len(job[w].done)
<1>. DEFINE left == SubSeq(job[w].done, 1, Len(job[w].done) - 1)
<1>1. /\ left \in Seq(WriteRecords)
      /\ \A i \in DOMAIN left : i \in DOMAIN job[w].done /\ left[i] = job[w].done[i] /\ i # Len(job[w].done)
  BY Receipts DEF AumTypes
<1>. HIDE DEF left
<1>2. CASE left = <<>>
  BY <1>2, Ends DEF NextReceipt, left
<1>3. CASE left # <<>>
  <2>. DEFINE j == [jobs[w] EXCEPT !.done = left]
  <2>1. jobs[w] \in JobRecords
    OBVIOUS
  <2>2. j \in JobRecords /\ j.done = left /\ j.fresh = jobs[w].fresh /\ j.snap = jobs[w].snap
        /\ j.target = jobs[w].target /\ j.kind = jobs[w].kind /\ j.boost = jobs[w].boost /\ j.todo = jobs[w].todo
        /\ j.amount = jobs[w].amount
    BY <1>1, <2>1 DEF JobRecords
  <2>3. Goto(w, "rolling") /\ job' = [jobs EXCEPT ![w].done = left] /\ UNCHANGED <<lease, valid>>
    BY <1>3 DEF NextReceipt, left
  <2>4. job' = [jobs EXCEPT ![w] = j]
    BY <2>3
  <2>. HIDE DEF j
  <2>5. GoesOn(w, jobs) /\ at'[w] = "rolling" /\ job'[w] = j
    <3>1. "rolling" \in Phases \ {"idle"}
      BY DEF Phases
    <3>2. lease' = lease /\ valid' = valid /\ Goto(w, "rolling")
      BY <2>3
    <3>. QED BY <2>2, <2>4, <3>1, <3>2, Advances, ZenonT(60)
  <2>. QED BY <1>1, <1>3, <2>2, <2>5 DEF SameJob
<1>. QED BY <1>2, <1>3
(* A step in which w writes no named value, and one in which it writes x.  *)
Quiet(w) == GoesOn(w, job) /\ gw' = gw
Writing(w, x) ==
    /\ x \in WriteRecords /\ x.key \in job[w].fresh
    /\ GoesOn(w, Forgetting(w, x.key)) /\ gw' = With(gw, x.key, x.value)

LEMMA ThisWriteTyped ==
  ASSUME AumTypes, NEW w \in Writers, job[w].todo # <<>>
  PROVE  /\ ThisWrite(w) \in WriteRecords /\ Rest(w) \in Seq(WriteRecords)
         /\ 1 \in DOMAIN job[w].todo /\ ThisWrite(w) = job[w].todo[1]
         /\ \A i \in DOMAIN Rest(w) : i + 1 \in DOMAIN job[w].todo /\ i + 1 # 1 /\ i \in Nat /\ Rest(w)[i] = job[w].todo[i + 1]
<1>1. job[w].todo \in Seq(WriteRecords)
  BY DEF AumTypes, JobRecords
<1>2. /\ Len(job[w].todo) \in Nat \ {0} /\ DOMAIN job[w].todo = 1..Len(job[w].todo)
      /\ Tail(job[w].todo) \in Seq(WriteRecords) /\ Len(Tail(job[w].todo)) = Len(job[w].todo) - 1
      /\ \A i \in 1..Len(Tail(job[w].todo)) : Tail(job[w].todo)[i] = job[w].todo[i + 1]
  BY <1>1, LenProperties, EmptySeq, HeadTailProperties
<1>3. DOMAIN Tail(job[w].todo) = 1..Len(Tail(job[w].todo))
  BY <1>2, LenProperties
<1>4. Head(job[w].todo) = job[w].todo[1] /\ Head(job[w].todo) \in WriteRecords
  BY <1>1, HeadTailProperties
<1>. QED BY <1>2, <1>3, <1>4 DEF ThisWrite, Rest

LEMMA TodoField ==
  ASSUME NEW j \in JobRecords, NEW s \in Seq(WriteRecords)
  PROVE  LET k == [j EXCEPT !.todo = s]
         IN  /\ k \in JobRecords /\ k.todo = s
             /\ k.kind = j.kind /\ k.target = j.target /\ k.amount = j.amount /\ k.boost = j.boost
             /\ k.done = j.done /\ k.snap = j.snap /\ k.fresh = j.fresh
  BY DEF JobRecords

LEMMA DoneField ==
  ASSUME NEW j \in JobRecords, NEW s \in Seq(WriteRecords)
  PROVE  LET k == [j EXCEPT !.done = s]
         IN  /\ k \in JobRecords /\ k.done = s
             /\ k.kind = j.kind /\ k.target = j.target /\ k.amount = j.amount /\ k.boost = j.boost
             /\ k.todo = j.todo /\ k.snap = j.snap /\ k.fresh = j.fresh
  BY DEF JobRecords

LEMMA FreshField ==
  ASSUME NEW j \in JobRecords, NEW F \in SUBSET Keys
  PROVE  LET k == [j EXCEPT !.fresh = F]
         IN  k \in JobRecords /\ SameJob(k, j) /\ k.fresh = F
  BY DEF JobRecords, SameJob

(* The handler gives up: nothing to take back, or its receipts are next.   *)
LEMMA GivesUp ==
  ASSUME AumTypes, NEW w \in Writers, FailJob(w)
  PROVE  /\ Quiet(w) /\ UNCHANGED <<boosts, managers, due, late>>
         /\ \/ at'[w] = "idle"
            \/ at'[w] = "rolling" /\ job'[w] = job[w] /\ job[w].done # <<>>
<1>1. UNCHANGED <<gw, boosts, managers, due, late>> /\ job \in [Writers -> JobRecords]
  BY DEF FailJob, AumTypes
<1>2. CASE job[w].done = <<>>
  BY <1>1, <1>2, Ends DEF FailJob, Quiet
<1>3. CASE job[w].done # <<>>
  <2>1. "rolling" \in Phases \ {"idle"}
    BY DEF Phases
  <2>. QED BY <1>1, <1>3, <2>1, Remains DEF FailJob, Quiet
<1>. QED BY <1>2, <1>3

LEMMA ComparesOn ==
  ASSUME AumTypes, NEW w \in Writers, Compare(w)
  PROVE  /\ Quiet(w) /\ UNCHANGED <<boosts, managers, due, late, lease, valid, spent>>
         /\ valid[w] /\ at[w] = "checking" /\ job[w].todo # <<>>
         /\ gw[ThisWrite(w).key] = job[w].snap[ThisWrite(w).key]
         /\ \/ /\ at'[w] = "checking" /\ job'[w] = [job[w] EXCEPT !.todo = Rest(w)]
               /\ gw[ThisWrite(w).key] = ThisWrite(w).value
            \/ at'[w] = "putting" /\ job'[w] = [job[w] EXCEPT !.fresh = @ \cup {ThisWrite(w).key}]
<1>1. /\ UNCHANGED <<gw, boosts, managers, due, late, lease, valid, spent>> /\ job \in [Writers -> JobRecords]
      /\ valid[w] /\ at[w] = "checking" /\ job[w].todo # <<>>
      /\ gw[ThisWrite(w).key] = job[w].snap[ThisWrite(w).key]
      /\ at \in [Writers -> Phases] /\ valid \in [Writers -> BOOLEAN]
  BY DEF Compare, AumTypes
<1>2. ThisWrite(w).key \in Keys /\ Rest(w) \in Seq(WriteRecords) /\ job[w] \in JobRecords
  BY <1>1, ThisWriteTyped, Landed DEF AumTypes
<1>3. CASE gw[ThisWrite(w).key] = ThisWrite(w).value
  <2>1. job' = [job EXCEPT ![w] = [job[w] EXCEPT !.todo = Rest(w)]] /\ at' = at
    BY <1>3 DEF Compare
  <2>2. [job[w] EXCEPT !.todo = Rest(w)] \in JobRecords
    BY <1>2, TodoField
  <2>. QED BY <1>1, <1>3, <2>1, <2>2 DEF GoesOn, Quiet
<1>4. CASE gw[ThisWrite(w).key] # ThisWrite(w).value
  <2>1. job' = [job EXCEPT ![w] = [job[w] EXCEPT !.fresh = @ \cup {ThisWrite(w).key}]] /\ Goto(w, "putting")
    BY <1>4 DEF Compare
  <2>2. job[w].fresh \cup {ThisWrite(w).key} \in SUBSET Keys
    BY <1>2 DEF JobRecords
  <2>3. [job[w] EXCEPT !.fresh = @ \cup {ThisWrite(w).key}] \in JobRecords
    BY <1>2, <2>2, FreshField
  <2>4. "putting" \in Phases \ {"idle"}
    BY DEF Phases, Calling
  <2>. QED BY <1>1, <2>1, <2>3, <2>4, Advances DEF Quiet
<1>. QED BY <1>3, <1>4

LEMMA ReadsBack ==
  ASSUME AumTypes, NEW w \in Writers, ReadBack(w)
  PROVE  /\ Quiet(w) /\ UNCHANGED <<boosts, managers, due, late, lease, valid, spent>>
         /\ at[w] = "verifying" /\ job[w].todo # <<>>
         /\ at'[w] = "checking" /\ job'[w] = [job[w] EXCEPT !.todo = Rest(w)]
<1>1. /\ UNCHANGED <<gw, boosts, managers, due, late, lease, valid, spent>> /\ job \in [Writers -> JobRecords]
      /\ at[w] = "verifying" /\ job[w].todo # <<>> /\ Goto(w, "checking")
      /\ job' = [job EXCEPT ![w] = [job[w] EXCEPT !.todo = Rest(w)]]
  BY DEF ReadBack, AumTypes
<1>2. [job[w] EXCEPT !.todo = Rest(w)] \in JobRecords
  BY <1>1, ThisWriteTyped, TodoField
<1>3. "checking" \in Phases \ {"idle"}
  BY DEF Phases
<1>. QED BY <1>1, <1>2, <1>3, Advances DEF Quiet

LEMMA PutsOn ==
  ASSUME AumTypes, NEW w \in Writers, PutLands(w)
  PROVE  /\ Writing(w, ThisWrite(w)) /\ UNCHANGED <<boosts, managers, due, lease, valid, spent>> /\ late' \subseteq late
         /\ at[w] = "putting" /\ job[w].todo # <<>> /\ at'[w] = "verifying"
         /\ job'[w] = [job[w] EXCEPT !.done = Append(@, ThisWrite(w))]
<1>. DEFINE key == ThisWrite(w).key
            jobs == Forgetting(w, key)
            j == [jobs[w] EXCEPT !.done = Append(@, ThisWrite(w))]
<1>1. /\ UNCHANGED <<boosts, managers, due, lease, valid, spent>> /\ late' \subseteq late
      /\ at[w] = "putting" /\ job[w].todo # <<>> /\ key \in job[w].fresh /\ Goto(w, "verifying")
      /\ gw' = With(gw, key, ThisWrite(w).value)
      /\ job' = [jobs EXCEPT ![w] = j]
  BY DEF PutLands, Land, AumTypes
<1>2. jobs \in [Writers -> JobRecords] /\ jobs[w] = job[w] /\ ThisWrite(w) \in WriteRecords
  BY <1>1, ForgetTyped, ThisWriteTyped
<1>3. Append(job[w].done, ThisWrite(w)) \in Seq(WriteRecords)
  BY <1>2, AppendProperties DEF JobRecords
<1>4. j \in JobRecords /\ j = [job[w] EXCEPT !.done = Append(@, ThisWrite(w))]
  BY <1>2, <1>3, DoneField
<1>5. "verifying" \in Phases \ {"idle"}
  BY DEF Phases
<1>. HIDE DEF j, jobs
<1>6. GoesOn(w, jobs) /\ at'[w] = "verifying" /\ job'[w] = j
  BY <1>1, <1>2, <1>4, <1>5, Advances
<1>. QED BY <1>1, <1>2, <1>4, <1>6 DEF Writing, jobs

(* The write takes effect and the put has to ask for the value.            *)
LEMMA AsksAfter ==
  ASSUME AumTypes, NEW w \in Writers, PutAsks(w)
  PROVE  /\ Writing(w, ThisWrite(w)) /\ UNCHANGED <<boosts, managers, due, lease, valid, spent>> /\ late' \subseteq late
         /\ at[w] = "putting" /\ job[w].todo # <<>> /\ at'[w] = "asking"
         /\ job'[w] = [job[w] EXCEPT !.fresh = @ \ {ThisWrite(w).key}]
<1>. DEFINE key == ThisWrite(w).key
            jobs == Forgetting(w, key)
            j == [jobs[w] EXCEPT !.fresh = @ \ {key}]
<1>1. /\ UNCHANGED <<boosts, managers, due, lease, valid, spent>> /\ late' \subseteq late
      /\ at[w] = "putting" /\ job[w].todo # <<>> /\ key \in job[w].fresh /\ Goto(w, "asking")
      /\ gw' = With(gw, key, ThisWrite(w).value)
      /\ job' = [jobs EXCEPT ![w] = j]
  BY DEF PutAsks, Land, AumTypes
<1>2. jobs \in [Writers -> JobRecords] /\ jobs[w] = job[w] /\ ThisWrite(w) \in WriteRecords
  BY <1>1, ForgetTyped, ThisWriteTyped
<1>3. job[w].fresh \ {key} \in SUBSET Keys
  BY <1>2 DEF JobRecords
<1>4. j \in JobRecords /\ j = [job[w] EXCEPT !.fresh = @ \ {key}]
  BY <1>2, <1>3, FreshField
<1>5. "asking" \in Phases \ {"idle"}
  BY DEF Phases, Calling
<1>. HIDE DEF j, jobs
<1>6. GoesOn(w, jobs) /\ at'[w] = "asking" /\ job'[w] = j
  BY <1>1, <1>2, <1>4, <1>5, Advances
<1>. QED BY <1>1, <1>2, <1>4, <1>6 DEF Writing, jobs

(* The value a put finds when it asks.                                     *)
Found(w) == [ThisWrite(w) EXCEPT !.value = gw[ThisWrite(w).key]]

LEMMA FoundTyped ==
  ASSUME AumTypes, NEW w \in Writers, job[w].todo # <<>>
  PROVE  /\ Found(w) \in WriteRecords /\ Found(w).key = ThisWrite(w).key
         /\ Found(w).value = gw[ThisWrite(w).key] /\ ThisWrite(w).key \in Keys
         /\ gw[ThisWrite(w).key] = ThisWrite(w).value => Found(w) = ThisWrite(w)
<1>1. ThisWrite(w) \in WriteRecords /\ ThisWrite(w).key \in Keys
  BY ThisWriteTyped, Landed DEF AumTypes
<1>2. PICK x \in WriteRecords : x.key = ThisWrite(w).key /\ x.value = gw[ThisWrite(w).key]
  BY <1>1, Previous DEF AumTypes
<1>3. \A y \in WriteRecords : \A v : /\ [y EXCEPT !.value = v] = [key |-> y.key, value |-> v]
                                       /\ y = [key |-> y.key, value |-> y.value]
  BY DEF WriteRecords
<1>4. Found(w) = [key |-> ThisWrite(w).key, value |-> gw[ThisWrite(w).key]]
  BY <1>1, <1>3 DEF Found
<1>5. Found(w) = x
  BY <1>2, <1>3, <1>4
<1>. QED BY <1>1, <1>2, <1>3, <1>4, <1>5

LEMMA LearnsOn ==
  ASSUME AumTypes, NEW w \in Writers, Asks(w)
  PROVE  /\ Quiet(w) /\ UNCHANGED <<boosts, managers, due, late, lease, valid, spent>>
         /\ at[w] = "asking" /\ job[w].todo # <<>> /\ at'[w] = "verifying"
         /\ job'[w] \in JobRecords
         /\ job'[w].done = Append(job[w].done, Found(w)) /\ job'[w].fresh = job[w].fresh \cup {ThisWrite(w).key}
         /\ job'[w].kind = job[w].kind /\ job'[w].target = job[w].target /\ job'[w].amount = job[w].amount
         /\ job'[w].boost = job[w].boost /\ job'[w].todo = job[w].todo /\ job'[w].snap = job[w].snap
<1>. DEFINE F == job[w].fresh \cup {ThisWrite(w).key}
            d == Append(job[w].done, Found(w))
            j == [[job[w] EXCEPT !.fresh = F] EXCEPT !.done = d]
<1>1. /\ UNCHANGED <<gw, boosts, managers, due, lease, valid, late, spent>> /\ job \in [Writers -> JobRecords]
      /\ at[w] = "asking" /\ job[w].todo # <<>> /\ Goto(w, "verifying")
  BY DEF Asks, AumTypes
<1>2. job' = [job EXCEPT ![w] = j]
  BY <1>1 DEF Asks, Found
<1>3. F \in SUBSET Keys /\ d \in Seq(WriteRecords) /\ job[w] \in JobRecords
  BY <1>1, FoundTyped, AppendProperties DEF JobRecords
<1>. HIDE DEF F, d
<1>4. /\ [job[w] EXCEPT !.fresh = F] \in JobRecords /\ SameJob([job[w] EXCEPT !.fresh = F], job[w])
      /\ [job[w] EXCEPT !.fresh = F].fresh = F
  BY <1>3, FreshField
<1>5. /\ j \in JobRecords /\ j.done = d /\ j.fresh = F
      /\ j.kind = job[w].kind /\ j.target = job[w].target /\ j.amount = job[w].amount
      /\ j.boost = job[w].boost /\ j.todo = job[w].todo /\ j.snap = job[w].snap
  BY <1>3, <1>4, DoneField DEF SameJob
<1>6. "verifying" \in Phases \ {"idle"}
  BY DEF Phases
<1>. HIDE DEF j
<1>7. GoesOn(w, job) /\ at'[w] = "verifying" /\ job'[w] = j
  BY <1>1, <1>2, <1>5, <1>6, Advances
<1>. QED BY <1>1, <1>5, <1>7 DEF Quiet, F, d

LEMMA PutBreaks ==
  ASSUME AumTypes, NEW w \in Writers, PutErrors(w)
  PROVE  /\ Quiet(w) \/ Writing(w, ThisWrite(w))
         /\ UNCHANGED <<boosts, managers, due>> /\ Spend("faults") /\ at[w] = "putting"
         /\ late' \subseteq WriteRecords /\ ("later" \notin PutFailures => late' \subseteq late)
         /\ \/ at'[w] = "idle"
            \/ /\ at'[w] = "rolling" /\ job[w].done # <<>>
               /\ job'[w] = [job[w] EXCEPT !.fresh = @ \ {ThisWrite(w).key}]
<1>. DEFINE key == ThisWrite(w).key
            after == IF job[w].done = <<>> THEN NoJob ELSE [job[w] EXCEPT !.fresh = @ \ {key}]
<1>0. /\ at[w] = "putting" /\ job[w].todo # <<>> /\ UNCHANGED <<boosts, managers, due>> /\ Spend("faults")
      /\ late \subseteq WriteRecords /\ job \in [Writers -> JobRecords]
  BY DEF PutErrors, AumTypes, Fault
<1>1. ThisWrite(w) \in WriteRecords /\ ThisWrite(w).key \in Keys /\ job[w] \in JobRecords
  BY <1>0, ThisWriteTyped, Landed DEF AumTypes
<1>2. after \in JobRecords /\ (job[w].done = <<>> => after = NoJob)
  <2>1. job[w].fresh \ {key} \in SUBSET Keys
    BY <1>1 DEF JobRecords
  <2>. QED BY <1>1, <2>1, FreshField, NothingTyped
<1>3. /\ Forgetting(w, key) \in [Writers -> JobRecords] /\ Forgetting(w, key)[w] = job[w]
  BY ForgetTyped
<1>4. IF job[w].done = <<>> THEN Finish(w) ELSE Goto(w, "rolling") /\ UNCHANGED <<lease, valid>>
  BY DEF PutErrors
<1>5. \/ gw' = gw /\ late' = late /\ job' = [job EXCEPT ![w] = after]
      \/ /\ key \in job[w].fresh /\ gw' = With(gw, key, ThisWrite(w).value) /\ late' \subseteq late
         /\ job' = [Forgetting(w, key) EXCEPT ![w] = after]
      \/ /\ gw' = gw /\ late' = late \cup {ThisWrite(w)} /\ "later" \in PutFailures
         /\ job' = [job EXCEPT ![w] = after]
  BY DEF PutErrors, Land
<1>. HIDE DEF after
<1>6. \A jobs \in [Writers -> JobRecords] : job' = [jobs EXCEPT ![w] = after] =>
        /\ GoesOn(w, jobs)
        /\ at'[w] = "idle" \/ (at'[w] = "rolling" /\ job[w].done # <<>> /\ job'[w] = after)
  <2>1. "rolling" \in Phases \ {"idle"}
    BY DEF Phases
  <2>2. CASE job[w].done = <<>>
    BY <1>2, <1>4, <2>2, Ends
  <2>3. CASE job[w].done # <<>>
    BY <1>2, <1>4, <2>1, <2>3, Advances
  <2>. QED BY <2>2, <2>3
<1>7. job[w].done # <<>> => after = [job[w] EXCEPT !.fresh = @ \ {ThisWrite(w).key}]
  BY DEF after
<1>8. CASE job' = [job EXCEPT ![w] = after]
  <2>1. gw' = gw \/ (key \in job[w].fresh /\ gw' = With(gw, key, ThisWrite(w).value) /\ job' = [Forgetting(w, key) EXCEPT ![w] = after])
    BY <1>5
  <2>2. late' \subseteq WriteRecords /\ ("later" \notin PutFailures => late' \subseteq late)
    BY <1>0, <1>1, <1>5
  <2>. QED BY <1>0, <1>1, <1>3, <1>6, <1>7, <1>8, <2>1, <2>2 DEF Quiet, Writing
<1>9. CASE job' = [Forgetting(w, key) EXCEPT ![w] = after] /\ key \in job[w].fresh /\ gw' = With(gw, key, ThisWrite(w).value)
           /\ late' \subseteq late
  BY <1>0, <1>1, <1>3, <1>6, <1>7, <1>9 DEF Writing
<1>. QED BY <1>5, <1>8, <1>9

(* The receipt that is next, and the value it stands for. *)
RestoreOf(w) == [key |-> Receipt(w).key, value |-> job[w].snap[Receipt(w).key]]

(* One receipt is dealt with. *)
Restored(w) ==
    /\ at'[w] \in {"idle", "rolling"}
    /\ at'[w] = "rolling" =>
          /\ job'[w].done # <<>> /\ job'[w].fresh = job[w].fresh /\ job'[w].snap = job[w].snap
          /\ job'[w].target = job[w].target /\ job'[w].kind = job[w].kind
          /\ job'[w].boost = job[w].boost /\ job'[w].todo = job[w].todo
          /\ job'[w].amount = job[w].amount
          /\ \A i \in DOMAIN job'[w].done :
                i \in DOMAIN job[w].done /\ job'[w].done[i] = job[w].done[i] /\ i # Len(job[w].done)

LEMMA ReceiptTyped ==
  ASSUME AumTypes, NEW w \in Writers, job[w].done # <<>>
  PROVE  /\ Receipt(w) \in WriteRecords /\ Len(job[w].done) \in DOMAIN job[w].done
         /\ RestoreOf(w) \in WriteRecords /\ RestoreOf(w).key = Receipt(w).key
         /\ RestoreOf(w).value = job[w].snap[Receipt(w).key]
<1>1. Receipt(w) \in WriteRecords /\ Len(job[w].done) \in DOMAIN job[w].done
  BY Receipts DEF Receipt, AumTypes
<1>2. Receipt(w).key \in Keys /\ job[w].snap \in Configs
  BY <1>1, Landed DEF AumTypes, JobRecords
<1>3. PICK x \in WriteRecords : x.key = Receipt(w).key /\ x.value = job[w].snap[Receipt(w).key]
  BY <1>2, Previous
<1>4. x = [key |-> x.key, value |-> x.value]
  BY DEF WriteRecords
<1>. QED BY <1>1, <1>3, <1>4 DEF RestoreOf

LEMMA RestoresOn ==
  ASSUME AumTypes, NEW w \in Writers, RestoreLands(w)
  PROVE  /\ Writing(w, RestoreOf(w)) /\ UNCHANGED <<boosts, managers, due, spent>> /\ late' \subseteq late
         /\ at[w] = "restoring" /\ job[w].done # <<>> /\ Restored(w)
<1>. DEFINE key == Receipt(w).key
<1>1. /\ at[w] = "restoring" /\ key \in job[w].fresh /\ gw' = With(gw, key, job[w].snap[key])
      /\ late' \subseteq late /\ UNCHANGED <<boosts, managers, due, spent>>
      /\ NextReceipt(w, Forgetting(w, key)) /\ job[w].done # <<>>
  BY DEF RestoreLands, AumTypes
<1>2. /\ Forgetting(w, key) \in [Writers -> JobRecords] /\ Forgetting(w, key)[w] = job[w]
      /\ SameJob(Forgetting(w, key)[w], job[w])
  BY ForgetTyped
<1>3. GoesOn(w, Forgetting(w, key)) /\ Restored(w)
  BY <1>1, <1>2, ReceiptGone DEF Restored
<1>. QED BY <1>1, <1>3, ReceiptTyped DEF Writing

LEMMA LeavesReceipt ==
  ASSUME AumTypes, NEW w \in Writers, job[w].done # <<>>, NextReceipt(w, job), gw' = gw
  PROVE  Quiet(w) /\ Restored(w)
<1>1. job \in [Writers -> JobRecords] /\ SameJob(job[w], job[w])
  BY DEF AumTypes, SameJob
<1>. QED BY <1>1, ReceiptGone DEF Quiet, Restored

LEMMA RestoreEnds ==
  ASSUME AumTypes, NEW w \in Writers,
         SkipRestore(w) \/ RestoreRefused(w) \/ (CallFails(w) /\ at[w] = "restoring")
  PROVE  /\ Quiet(w) /\ Restored(w) /\ UNCHANGED <<boosts, managers, due, late>>
         /\ at[w] \in {"rolling", "restoring"} /\ job[w].done # <<>> /\ (spent' = spent \/ Spend("faults"))
<1>1. CASE SkipRestore(w) \/ RestoreRefused(w)
  BY <1>1, LeavesReceipt DEF SkipRestore, RestoreRefused, AumTypes
<1>2. CASE CallFails(w) /\ at[w] = "restoring"
  BY <1>2, LeavesReceipt DEF CallFails, AumTypes, Fault
<1>. QED BY <1>1, <1>2

LEMMA CallBreaks ==
  ASSUME AumTypes, NEW w \in Writers, CallFails(w), at[w] # "restoring"
  PROVE  Quiet(w) /\ at'[w] = "idle" /\ UNCHANGED <<boosts, managers, due, late>> /\ Spend("faults")
<1>1. job \in [Writers -> JobRecords]
  BY DEF AumTypes
<1>. QED BY <1>1, Ends DEF CallFails, Quiet, Fault

LEMMA Dies ==
  ASSUME AumTypes, NEW w \in Writers, Crash(w)
  PROVE  /\ Quiet(w) /\ at'[w] = "idle" /\ UNCHANGED <<boosts, managers, due>> /\ Spend("faults")
         /\ late' \subseteq WriteRecords /\ ("later" \notin PutFailures => late' \subseteq late)
<1>1. /\ Quiet(w) /\ at'[w] = "idle"
  BY NothingTyped DEF AumTypes, Crash, Goto, Phases, GoesOn, Quiet
<1>2. UNCHANGED <<boosts, managers, due>> /\ Spend("faults")
  BY DEF Crash, Fault
<1>3. late' = late \/ (at[w] = "putting" /\ late' = late \cup {ThisWrite(w)} /\ "later" \in PutFailures)
  BY DEF Crash
<1>. QED BY <1>1, <1>2, <1>3, ThisWriteTyped DEF AumTypes

LEMMA LosesLease ==
  ASSUME AumTypes, NEW w \in Writers, LoseLease(w)
  PROVE  /\ Quiet(w) /\ at' = at /\ job' = job /\ at[w] # "idle"
         /\ UNCHANGED <<boosts, managers, due, late, lease>> /\ Spend("faults")
  BY DEF AumTypes, LoseLease, GoesOn, Quiet, Fault

(* A table call, an applied change, a restore that begins. *)
LEMMA TableStep ==
  ASSUME AumTypes, NEW w \in Writers,
         RecordBoost(w) \/ MapManager(w) \/ RevokeManager(w) \/ Applied(w) \/ StoreOutcome(w) \/ StartRestore(w)
  PROVE  /\ Quiet(w) /\ UNCHANGED <<due, late, spent>>
         /\ \/ at'[w] = "idle"
            \/ /\ job'[w] = job[w] /\ valid'[w] = valid[w]
               /\ \/ /\ at[w] \in {"recording", "revoking"} /\ at'[w] = "checking"
                     /\ at[w] = "recording" => RecordBoost(w)
                  \/ /\ at[w] = "checking" /\ at'[w] = "storing" /\ valid[w] /\ job[w].kind \in Boostings
                     /\ job[w].todo = <<>>
                  \/ at[w] = "rolling" /\ at'[w] = "restoring" /\ valid[w] /\ job[w].done # <<>>
<1>1. job \in [Writers -> JobRecords] /\ {"checking", "storing", "restoring"} \subseteq Phases \ {"idle"}
  BY DEF AumTypes, Phases, Calling
<1>2. CASE RecordBoost(w)
  BY <1>1, <1>2, Remains DEF RecordBoost, Quiet
<1>3. CASE MapManager(w)
  BY <1>1, <1>3, Ends DEF MapManager, Quiet
<1>4. CASE RevokeManager(w)
  BY <1>1, <1>4, Remains DEF RevokeManager, Quiet
<1>5. CASE Applied(w)
  <2>1. CASE job[w].kind \in {"boost", "expired", "superseded"}
    BY <1>1, <1>5, <2>1, Remains DEF Applied, Quiet, Boostings
  <2>2. CASE job[w].kind \notin {"boost", "expired", "superseded"}
    BY <1>1, <1>5, <2>2, Ends DEF Applied, Quiet
  <2>. QED BY <2>1, <2>2
<1>6. CASE StoreOutcome(w)
  BY <1>1, <1>6, Ends DEF StoreOutcome, Quiet
<1>7. CASE StartRestore(w)
  <2>1. job[w].done # <<>>
    BY <1>7 DEF StartRestore, AumTypes
  <2>. QED BY <1>1, <1>7, <2>1, Remains DEF StartRestore, Quiet
<1>. QED BY <1>2, <1>3, <1>4, <1>5, <1>6, <1>7
(* What everybody else keeps of a handler's step.                          *)
LEMMA OthersKeep ==
  ASSUME AumTypes, NEW w \in Writers, Quiet(w) \/ \E x \in WriteRecords : Writing(w, x)
  PROVE  /\ gw' \in Configs /\ job' \in [Writers -> JobRecords] /\ at' \in [Writers -> Phases]
         /\ valid' \in [Writers -> BOOLEAN] /\ lease' \in Writers \cup {NoWriter}
         /\ \A v \in Writers \ {w} : /\ at'[v] = at[v] /\ valid'[v] = valid[v] /\ SameJob(job'[v], job[v])
                                     /\ job'[v].fresh \subseteq job[v].fresh
                                     /\ \A k \in Keys : k \in job'[v].fresh => gw'[k] = gw[k]
<1>1. CASE Quiet(w)
  BY <1>1 DEF Quiet, GoesOn, AumTypes, SameJob
<1>2. ASSUME NEW x \in WriteRecords, Writing(w, x)
      PROVE  /\ gw' \in Configs /\ GoesOn(w, Forgetting(w, x.key))
             /\ \A v \in Writers \ {w} : /\ SameJob(job'[v], job[v])
                                         /\ job'[v].fresh \subseteq job[v].fresh
                                         /\ \A k \in Keys : k \in job'[v].fresh => gw'[k] = gw[k]
  <2>1. gw' = With(gw, x.key, x.value) /\ GoesOn(w, Forgetting(w, x.key))
    BY <1>2 DEF Writing
  <2>2. gw' \in Configs /\ \A k \in Keys \ {x.key} : gw'[k] = gw[k]
    BY <2>1, Landed DEF AumTypes
  <2>3. \A v \in Writers \ {w} : SameJob(job'[v], job[v]) /\ job'[v].fresh = job[v].fresh \ {x.key}
    BY <2>1, ForgetTyped DEF GoesOn
  <2>. QED BY <2>1, <2>2, <2>3
<1>. QED BY <1>1, <1>2 DEF GoesOn, AumTypes

(* The phase a handler is in fits its job. *)
PhaseFits(w) ==
    /\ at[w] = "storing" => job[w].kind \in Boostings
    /\ at[w] \in {"putting", "asking", "verifying"} => job[w].todo # <<>>
    /\ at[w] \in {"rolling", "restoring"} => job[w].done # <<>>
    /\ at[w] = "mapping" => job[w].target \in Units

LEMMA HandlerTypes ==
  ASSUME AumTypes, NEW w \in Writers, Quiet(w) \/ \E x \in WriteRecords : Writing(w, x),
         PhaseFits(w)', boosts' \in [BoostIds -> BoostRecords], managers' \subseteq Units, due' = due,
         late' \subseteq WriteRecords, spent' = spent \/ Spend("faults")
  PROVE  AumTypes'
<1>1. \A v \in Writers : PhaseFits(v)'
  BY OthersKeep DEF PhaseFits, AumTypes, SameJob
<1>2. spent' \in [requests : Nat, faults : Nat, edits : Nat, slow : Nat]
  BY SpentTyped DEF AumTypes
<1>. QED BY <1>1, <1>2, OthersKeep DEF AumTypes, PhaseFits

LEMMA TableTypes ==
  ASSUME AumTypes, NEW w \in Writers,
         RecordBoost(w) \/ MapManager(w) \/ RevokeManager(w) \/ Applied(w) \/ StoreOutcome(w) \/ StartRestore(w)
  PROVE  AumTypes'
<1>0. job[w] \in JobRecords /\ job[w].snap \in Configs /\ boosts \in [BoostIds -> BoostRecords]
  BY DEF AumTypes, JobRecords
<1>1. boosts' \in [BoostIds -> BoostRecords]
  <2>1. CASE RecordBoost(w)
    <3>. DEFINE b == [state |-> "pending", target |-> job[w].target, limit |-> job[w].amount,
                      previous |-> Limit(job[w].snap, job[w].target)]
    <3>1. Limit(job[w].snap, job[w].target) \in Nat
      <4>1. IsMap(job[w].snap.reg, Units, Nat) /\ IsMap(job[w].snap.ovr, Users, Nat)
        BY <1>0, ConfigOf DEF IsConfig
      <4>. QED BY <4>1 DEF IsMap, Limit, Catalog
    <3>2. job[w].target \in Scopes /\ job[w].amount \in Nat
      BY <1>0 DEF JobRecords
    <3>3. b \in BoostRecords
      BY <3>1, <3>2 DEF BoostRecords
    <3>4. boosts' = [boosts EXCEPT ![job[w].boost] = b]
      BY <2>1 DEF RecordBoost
    <3>. HIDE DEF b
    <3>. QED BY <1>0, <3>3, <3>4
  <2>2. CASE StoreOutcome(w)
    <3>. DEFINE o == IF job[w].kind = "boost" THEN "active" ELSE job[w].kind
    <3>1. o \in {"active", "expired", "superseded"}
      BY <2>2 DEF StoreOutcome, AumTypes, Boostings
    <3>2. boosts' = [boosts EXCEPT ![job[w].boost].state = o]
      BY <2>2 DEF StoreOutcome
    <3>. HIDE DEF o
    <3>. QED BY <1>0, <3>1, <3>2 DEF BoostRecords
  <2>3. CASE MapManager(w) \/ RevokeManager(w) \/ Applied(w) \/ StartRestore(w)
    BY <1>0, <2>3 DEF MapManager, RevokeManager, Applied, StartRestore
  <2>. QED BY <2>1, <2>2, <2>3
<1>2. managers' \subseteq Units
  <2>1. CASE MapManager(w)
    <3>1. job[w].amount = 1 => job[w].target \in Units
      BY <2>1 DEF MapManager, AumTypes
    <3>. QED BY <2>1, <3>1 DEF MapManager, AumTypes
  <2>2. CASE ~MapManager(w)
    BY <2>2 DEF RecordBoost, RevokeManager, Applied, StoreOutcome, StartRestore, AumTypes
  <2>. QED BY <2>1, <2>2
<1>3. PhaseFits(w)' /\ Quiet(w) /\ UNCHANGED <<due, late, spent>>
  BY TableStep DEF PhaseFits
<1>. QED BY <1>1, <1>2, <1>3, HandlerTypes DEF AumTypes
LEMMA WorkTypes ==
  ASSUME AumTypes, NEW w \in Writers, Work(w) \/ Failure(w)
  PROVE  AumTypes' /\ (Quiet(w) \/ \E x \in WriteRecords : Writing(w, x))
<1>0. /\ boosts \in [BoostIds -> BoostRecords] /\ managers \subseteq Units /\ late \subseteq WriteRecords
      /\ PhaseFits(w) /\ job[w] \in JobRecords /\ w \in Writers
  BY DEF AumTypes, PhaseFits
<1>1. CASE RecordBoost(w) \/ MapManager(w) \/ RevokeManager(w) \/ Applied(w) \/ StoreOutcome(w) \/ StartRestore(w)
  BY <1>1, TableTypes, TableStep
<1>2. CASE CompareFails(w) \/ PutRefused(w) \/ ReadBackFails(w) \/ GetFails(w)
  <2>1. FailJob(w) /\ (spent' = spent \/ Spend("faults"))
    BY <1>2 DEF CompareFails, PutRefused, ReadBackFails, GetFails, Fault
  <2>2. PhaseFits(w)'
    BY <2>1, GivesUp DEF PhaseFits
  <2>3. Quiet(w) /\ UNCHANGED <<boosts, managers, due, late>>
    BY <2>1, GivesUp
  <2>. QED BY <1>0, <2>1, <2>2, <2>3, HandlerTypes
<1>3. CASE Compare(w)
  <2>1. PhaseFits(w)'
    <3>1. CASE at'[w] = "checking"
      BY <3>1 DEF PhaseFits
    <3>2. CASE at'[w] # "checking"
      <4>. DEFINE F == job[w].fresh \cup {ThisWrite(w).key}
      <4>1. at'[w] = "putting" /\ job'[w] = [job[w] EXCEPT !.fresh = F] /\ job[w].todo # <<>>
        BY <1>3, <3>2, ComparesOn
      <4>2. ThisWrite(w).key \in Keys
        <5>1. ThisWrite(w) \in WriteRecords
          BY <4>1, ThisWriteTyped
        <5>. QED BY <5>1 DEF WriteRecords, Keys
      <4>3. F \in SUBSET Keys
        BY <1>0, <4>2 DEF JobRecords
      <4>. HIDE DEF F
      <4>4. SameJob([job[w] EXCEPT !.fresh = F], job[w])
        BY <1>0, <4>3, FreshField
      <4>5. SameJob(job'[w], job[w])
        BY <4>1, <4>4
      <4>. QED BY <4>1, <4>5 DEF PhaseFits, SameJob
    <3>. QED BY <3>1, <3>2
  <2>. QED BY <1>0, <1>3, <2>1, ComparesOn, HandlerTypes
<1>4. CASE ReadBack(w)
  <2>1. PhaseFits(w)'
    BY <1>0, <1>4, ReadsBack DEF PhaseFits
  <2>. QED BY <1>0, <1>4, <2>1, ReadsBack, HandlerTypes
<1>5. CASE PutLands(w)
  <2>1. Append(job[w].done, ThisWrite(w)) \in Seq(WriteRecords) /\ job[w].todo # <<>>
    <3>1. ThisWrite(w) \in WriteRecords /\ job[w].todo # <<>>
      BY <1>5, PutsOn, ThisWriteTyped
    <3>. QED BY <1>0, <3>1, AppendProperties DEF JobRecords
  <2>2. job'[w].todo = job[w].todo /\ at'[w] = "verifying"
    <3>. DEFINE d == Append(job[w].done, ThisWrite(w))
    <3>1. job'[w] = [job[w] EXCEPT !.done = d] /\ at'[w] = "verifying"
      BY <1>5, PutsOn
    <3>. HIDE DEF d
    <3>. QED BY <1>0, <2>1, <3>1, DoneField DEF d
  <2>3. PhaseFits(w)'
    BY <2>1, <2>2 DEF PhaseFits
  <2>4. Writing(w, ThisWrite(w)) /\ UNCHANGED <<boosts, managers, due, spent>> /\ late' \subseteq late
    BY <1>5, PutsOn
  <2>5. ThisWrite(w) \in WriteRecords
    BY <2>4 DEF Writing
  <2>. QED BY <1>0, <2>3, <2>4, <2>5, HandlerTypes
<1>6. CASE PutErrors(w)
  <2>1. /\ Quiet(w) \/ Writing(w, ThisWrite(w))
        /\ UNCHANGED <<boosts, managers, due>> /\ Spend("faults") /\ late' \subseteq WriteRecords
    BY <1>6, PutBreaks
  <2>2. Writing(w, ThisWrite(w)) => ThisWrite(w) \in WriteRecords
    BY DEF Writing
  <2>3. PhaseFits(w)'
    <3>1. CASE at'[w] = "idle"
      BY <3>1 DEF PhaseFits
    <3>2. CASE at'[w] # "idle"
      <4>1. at'[w] = "rolling" /\ job[w].done # <<>> /\ job'[w] = [job[w] EXCEPT !.fresh = @ \ {ThisWrite(w).key}]
        BY <1>6, <3>2, PutBreaks
      <4>. DEFINE F == job[w].fresh \ {ThisWrite(w).key}
      <4>2. job'[w] = [job[w] EXCEPT !.fresh = F] /\ F \in SUBSET Keys
        BY <1>0, <4>1 DEF JobRecords
      <4>. HIDE DEF F
      <4>3. SameJob(job'[w], job[w])
        BY <1>0, <4>2, FreshField
      <4>. QED BY <4>1, <4>3 DEF PhaseFits, SameJob
    <3>. QED BY <3>1, <3>2
  <2>. QED BY <1>0, <2>1, <2>2, <2>3, HandlerTypes
<1>7. CASE SkipRestore(w) \/ RestoreRefused(w) \/ (CallFails(w) /\ at[w] = "restoring")
  <2>1. PhaseFits(w)'
    BY <1>7, RestoreEnds DEF PhaseFits, Restored
  <2>. QED BY <1>0, <1>7, <2>1, RestoreEnds, HandlerTypes
<1>8. CASE RestoreLands(w)
  <2>1. PhaseFits(w)'
    BY <1>8, RestoresOn DEF PhaseFits, Restored
  <2>2. Writing(w, RestoreOf(w)) /\ UNCHANGED <<boosts, managers, due, spent>> /\ late' \subseteq late
    BY <1>8, RestoresOn
  <2>3. RestoreOf(w) \in WriteRecords
    BY <2>2 DEF Writing
  <2>. QED BY <1>0, <2>1, <2>2, <2>3, HandlerTypes
<1>9. CASE CallFails(w) /\ at[w] # "restoring"
  <2>1. PhaseFits(w)'
    BY <1>9, CallBreaks DEF PhaseFits
  <2>. QED BY <1>0, <1>9, <2>1, CallBreaks, HandlerTypes
<1>10. CASE Crash(w)
  <2>1. PhaseFits(w)'
    BY <1>10, Dies DEF PhaseFits
  <2>. QED BY <1>0, <1>10, <2>1, Dies, HandlerTypes
<1>11. CASE LoseLease(w)
  <2>1. PhaseFits(w)'
    BY <1>0, <1>11, LosesLease DEF PhaseFits
  <2>. QED BY <1>0, <1>11, <2>1, LosesLease, HandlerTypes
<1>12. CASE PutAsks(w)
  <2>. DEFINE F == job[w].fresh \ {ThisWrite(w).key}
  <2>1. /\ Writing(w, ThisWrite(w)) /\ UNCHANGED <<boosts, managers, due, spent>> /\ late' \subseteq late
        /\ job[w].todo # <<>> /\ at'[w] = "asking" /\ job'[w] = [job[w] EXCEPT !.fresh = F]
    BY <1>12, AsksAfter
  <2>2. F \in SUBSET Keys
    BY <1>0 DEF JobRecords
  <2>. HIDE DEF F
  <2>3. SameJob(job'[w], job[w])
    BY <1>0, <2>1, <2>2, FreshField
  <2>4. PhaseFits(w)'
    BY <2>1, <2>3 DEF PhaseFits, SameJob
  <2>5. ThisWrite(w) \in WriteRecords
    BY <2>1 DEF Writing
  <2>. QED BY <1>0, <2>1, <2>4, <2>5, HandlerTypes
<1>13. CASE Asks(w)
  <2>1. PhaseFits(w)'
    BY <1>13, LearnsOn DEF PhaseFits
  <2>. QED BY <1>0, <1>13, <2>1, LearnsOn, HandlerTypes
<1>. QED BY <1>1, <1>2, <1>3, <1>4, <1>5, <1>6, <1>7, <1>8, <1>9, <1>10, <1>11, <1>12, <1>13 DEF Work, Failure

(* What happens outside the handlers: a late call or another tool writes,  *)
(* a lease ends, a boost becomes due.                                      *)
Outside == LateLands \/ LeaseExpires \/ ExternalEdit \/ \E b \in BoostIds : BoostDue(b)

LEMMA WrittenOutside ==
  ASSUME AumTypes, NEW x \in WriteRecords, Land(x.key, x.value, Forgetting(NoWriter, x.key))
  PROVE  /\ gw' \in Configs /\ late' \subseteq late /\ job' \in [Writers -> JobRecords]
         /\ \A v \in Writers : /\ SameJob(job'[v], job[v]) /\ job'[v].fresh \subseteq job[v].fresh
                               /\ \A k \in Keys : k \in job'[v].fresh => gw'[k] = gw[k]
<1>1. gw' = With(gw, x.key, x.value) /\ late' \subseteq late /\ job' = Forgetting(NoWriter, x.key)
  BY DEF Land
<1>2. gw' \in Configs /\ \A k \in Keys \ {x.key} : gw'[k] = gw[k]
  BY <1>1, Landed DEF AumTypes
<1>3. /\ job' \in [Writers -> JobRecords]
      /\ \A v \in Writers : SameJob(job'[v], job[v]) /\ job'[v].fresh = job[v].fresh \ {x.key}
  BY <1>1, ForgetTyped, AumConstants
<1>. QED BY <1>1, <1>2, <1>3

LEMMA OutsideStep ==
  ASSUME AumTypes, Outside
  PROVE  /\ AumTypes' /\ UNCHANGED <<at, valid, boosts, managers>> /\ late' \subseteq late
         /\ \A v \in Writers : /\ SameJob(job'[v], job[v]) /\ job'[v].fresh \subseteq job[v].fresh
                               /\ \A k \in Keys : k \in job'[v].fresh => gw'[k] = gw[k]
         /\ lease' = lease \/ (lease' = NoWriter /\ lease # NoWriter /\ ~valid[lease])
         /\ \/ gw' = gw /\ spent' = spent /\ (lease' # lease => at[lease] \notin Calling)
            \/ SlowCalls /\ gw' = gw /\ spent'.slow = 1
            \/ late # {} /\ spent'.slow = 1
            \/ spent'.edits > 0 /\ spent.edits < MaxEdits
<1>0. \A v \in Writers : SameJob(job[v], job[v])
  BY DEF SameJob
<1>a. \A s \in [requests : Nat, faults : Nat, edits : Nat, slow : Nat] :
        /\ [s EXCEPT !.slow = 1] \in [requests : Nat, faults : Nat, edits : Nat, slow : Nat]
        /\ [s EXCEPT !.slow = 1].slow = 1
  OBVIOUS
<1>1. CASE LateLands
  <2>1. PICK x \in late : /\ Land(x.key, x.value, Forgetting(NoWriter, x.key))
                          /\ spent' = [spent EXCEPT !.slow = 1]
                          /\ UNCHANGED <<boosts, managers, due, lease, valid, at>>
    BY <1>1 DEF LateLands
  <2>2. x \in WriteRecords
    BY DEF AumTypes
  <2>3. /\ gw' \in Configs /\ late' \subseteq late /\ job' \in [Writers -> JobRecords]
        /\ \A v \in Writers : /\ SameJob(job'[v], job[v]) /\ job'[v].fresh \subseteq job[v].fresh
                              /\ \A k \in Keys : k \in job'[v].fresh => gw'[k] = gw[k]
    BY <2>1, <2>2, WrittenOutside
  <2>4. spent' \in [requests : Nat, faults : Nat, edits : Nat, slow : Nat] /\ spent'.slow = 1
    BY <1>a, <2>1 DEF AumTypes
  <2>5. AumTypes'
    BY <2>1, <2>3, <2>4 DEF AumTypes, SameJob
  <2>. QED BY <2>1, <2>3, <2>4, <2>5
<1>2. CASE ExternalEdit
  <2>1. PICK t \in Targets(gw), amount \in Amounts :
          /\ spent.edits < MaxEdits /\ Spend("edits")
          /\ Land(KeyOf(t), Changed(gw, t, amount), Forgetting(NoWriter, KeyOf(t)))
          /\ UNCHANGED <<boosts, managers, due, lease, valid, at>>
    BY <1>2 DEF ExternalEdit
  <2>2. [key |-> KeyOf(t), value |-> Changed(gw, t, amount)] \in WriteRecords
    BY LimitTyped, AumConstants DEF AumTypes
  <2>3. /\ gw' \in Configs /\ late' \subseteq late /\ job' \in [Writers -> JobRecords]
        /\ \A v \in Writers : /\ SameJob(job'[v], job[v]) /\ job'[v].fresh \subseteq job[v].fresh
                              /\ \A k \in Keys : k \in job'[v].fresh => gw'[k] = gw[k]
    BY <2>1, <2>2, WrittenOutside
  <2>4. /\ spent' \in [requests : Nat, faults : Nat, edits : Nat, slow : Nat] /\ spent'.edits > 0
    BY <2>1, SpentTyped
  <2>. QED BY <2>1, <2>3, <2>4 DEF AumTypes, SameJob
<1>3. CASE LeaseExpires
  <2>1. /\ lease # NoWriter /\ ~valid[lease] /\ lease' = NoWriter
        /\ UNCHANGED <<gw, boosts, managers, due, valid, at, job, late>>
        /\ \/ at[lease] \notin Calling /\ spent' = spent
           \/ at[lease] \in Calling /\ SlowCalls /\ spent' = [spent EXCEPT !.slow = 1]
    BY <1>3 DEF LeaseExpires
  <2>2. spent' \in [requests : Nat, faults : Nat, edits : Nat, slow : Nat]
        /\ (at[lease] \in Calling => spent'.slow = 1)
    BY <1>a, <2>1 DEF AumTypes
  <2>. QED BY <1>0, <2>1, <2>2 DEF AumTypes
<1>4. CASE \E b \in BoostIds : BoostDue(b)
  <2>1. /\ UNCHANGED <<gw, boosts, managers, lease, valid, at, job, late, spent>> /\ due' \subseteq BoostIds
    BY <1>4 DEF BoostDue, AumTypes
  <2>. QED BY <1>0, <2>1 DEF AumTypes
<1>. QED BY <1>1, <1>2, <1>3, <1>4 DEF Outside

(* A handler that has begun. *)
Begun(w, phase, target, boost, todo) ==
    /\ at[w] = "idle" /\ at'[w] = phase /\ lease = NoWriter /\ lease' = w /\ valid'[w]
    /\ job'[w].target = target /\ job'[w].boost = boost /\ job'[w].todo = todo
    /\ job'[w].done = <<>> /\ job'[w].snap = gw
    /\ \A x \in Writers \ {w} : job'[x] = job[x] /\ at'[x] = at[x] /\ valid'[x] = valid[x]
    /\ UNCHANGED <<gw, boosts, managers, late>> /\ spent'.slow = spent.slow /\ spent'.edits = spent.edits
    /\ phase \in {"checking", "recording", "mapping", "revoking"}
    /\ SoundBegin(phase, target, boost, todo)

LEMMA BeginTypes ==
  ASSUME AumTypes, NEW w \in Writers, Request(w) \/ Expire(w)
  PROVE  AumTypes' /\ \E phase, target, boost, todo : Begun(w, phase, target, boost, todo)
<1>1. spent' = spent \/ Spend("requests") =>
        /\ spent' \in [requests : Nat, faults : Nat, edits : Nat, slow : Nat]
        /\ spent'.slow = spent.slow /\ spent'.edits = spent.edits
  BY DEF AumTypes, Spend
<1>2. Beginning(w)
  BY RequestBegins
<1>3. PICK phase, kind, target, amount, boost, todo :
        /\ Begin(w, phase, kind, target, amount, boost, todo)
        /\ TypedBegin(phase, kind, target, amount, boost, todo)
        /\ SoundBegin(phase, target, boost, todo)
        /\ spent' = spent \/ Spend("requests")
  BY <1>2, Zenon DEF Beginning
<1>4. /\ AumTypes'
      /\ job'[w].target = target /\ job'[w].boost = boost /\ job'[w].todo = todo
      /\ job'[w].done = <<>> /\ job'[w].snap = gw
      /\ at'[w] = phase /\ lease' = w /\ valid'[w] = TRUE
      /\ \A x \in Writers \ {w} : job'[x] = job[x] /\ at'[x] = at[x] /\ valid'[x] = valid[x]
  BY <1>1, <1>3, BeginTyped, ZenonT(60)
<1>5. at[w] = "idle" /\ lease = NoWriter /\ UNCHANGED <<gw, boosts, managers, late>>
  BY <1>3 DEF Begin
<1>6. phase \in {"checking", "recording", "mapping", "revoking"}
  BY <1>3 DEF TypedBegin
<1>7. Begun(w, phase, target, boost, todo)
  BY <1>1, <1>3, <1>4, <1>5, <1>6 DEF Begun
<1>. QED BY <1>4, <1>7

LEMMA StepKeepsTypes == AumTypes /\ [Next]_aumVars => AumTypes'
<1>1. ASSUME AumTypes, UNCHANGED aumVars PROVE AumTypes'
  BY <1>1 DEF aumVars, AumTypes
<1>. QED BY <1>1, BeginTypes, WorkTypes, OutsideStep DEF Next, Outside

(* The types of the values, the table and the handlers, for any catalog,   *)
(* any writers and whatever fails.                                         *)
THEOREM AumTypeCorrect == Spec => []AumTypes
  BY InitTypes, StepKeepsTypes, PTL DEF Spec

-----------------------------------------------------------------------------
(* ---------------------- the shapes of a handler's step ------------------- *)
Unchanged(w) == SameJob(job'[w], job[w]) /\ job'[w].fresh = job[w].fresh

(* It returns. *)
Returns(w) ==
    /\ at'[w] = "idle"
    /\ \/ Quiet(w)
       \/ at[w] = "putting" /\ job[w].todo # <<>> /\ Writing(w, ThisWrite(w))
       \/ at[w] = "restoring" /\ job[w].done # <<>> /\ Writing(w, RestoreOf(w))

(* It goes to another phase with the job it had, or gives up.              *)
Moves(w) ==
    /\ Quiet(w) /\ Unchanged(w) /\ at[w] # "idle"
    /\ \/ at'[w] = at[w]
       \/ /\ at[w] \in {"recording", "revoking"} /\ at'[w] = "checking"
          /\ at[w] = "recording" => RecordBoost(w)
       \/ at[w] = "checking" /\ at'[w] = "storing" /\ valid[w] /\ job[w].kind \in Boostings /\ job[w].todo = <<>>
       \/ at[w] = "rolling" /\ at'[w] = "restoring" /\ valid[w] /\ job[w].done # <<>>
       \/ /\ at[w] \in {"checking", "putting", "asking", "verifying"} /\ at'[w] = "rolling"
          /\ job[w].done # <<>>

(* It learns the ETag of the value it is about to write.                   *)
Compares(w) ==
    /\ Quiet(w) /\ at[w] = "checking" /\ at'[w] = "putting" /\ valid[w]
    /\ job[w].todo # <<>> /\ gw[ThisWrite(w).key] = job[w].snap[ThisWrite(w).key]
    /\ SameJob(job'[w], job[w]) /\ job'[w].fresh = job[w].fresh \cup {ThisWrite(w).key}

(* It is done with a write, or need not make it.                           *)
Passes(w) ==
    /\ Quiet(w) /\ at[w] \in {"checking", "verifying"} /\ at'[w] = "checking" /\ job[w].todo # <<>>
    /\ at[w] = "checking" => gw[ThisWrite(w).key] = ThisWrite(w).value
    /\ job'[w].todo = Rest(w) /\ job'[w].done = job[w].done /\ job'[w].amount = job[w].amount
    /\ job'[w].kind = job[w].kind /\ job'[w].target = job[w].target /\ job'[w].boost = job[w].boost
    /\ job'[w].snap = job[w].snap /\ job'[w].fresh = job[w].fresh

(* Its write takes effect. *)
Puts(w) ==
    /\ Writing(w, ThisWrite(w)) /\ at[w] = "putting" /\ at'[w] = "verifying" /\ job[w].todo # <<>>
    /\ job'[w].done = Append(job[w].done, ThisWrite(w)) /\ job'[w].todo = job[w].todo
    /\ job'[w].amount = job[w].amount
    /\ job'[w].kind = job[w].kind /\ job'[w].target = job[w].target /\ job'[w].boost = job[w].boost
    /\ job'[w].snap = job[w].snap /\ job'[w].fresh = job[w].fresh

(* Its write is not answered with a value: it fails, with or without       *)
(* effect, and others are to be undone, or it takes effect and asks.       *)
Unanswered(w) ==
    /\ Quiet(w) \/ Writing(w, ThisWrite(w))
    /\ at[w] = "putting" /\ job[w].todo # <<>>
    /\ \/ at'[w] = "rolling" /\ job[w].done # <<>>
       \/ at'[w] = "asking" /\ Writing(w, ThisWrite(w))
    /\ SameJob(job'[w], job[w]) /\ job'[w].fresh = job[w].fresh \ {ThisWrite(w).key}

(* It takes what it finds for what it wrote, with its ETag. *)
Learns(w) ==
    /\ Quiet(w) /\ at[w] = "asking" /\ at'[w] = "verifying" /\ job[w].todo # <<>>
    /\ job'[w].done = Append(job[w].done, Found(w)) /\ job'[w].todo = job[w].todo
    /\ job'[w].amount = job[w].amount
    /\ job'[w].kind = job[w].kind /\ job'[w].target = job[w].target /\ job'[w].boost = job[w].boost
    /\ job'[w].snap = job[w].snap /\ job'[w].fresh = job[w].fresh \cup {ThisWrite(w).key}

(* It deals with a receipt, and more are left. *)
Undoes(w) ==
    /\ Quiet(w) \/ (at[w] = "restoring" /\ Writing(w, RestoreOf(w)))
    /\ at[w] \in {"rolling", "restoring"} /\ at'[w] = "rolling" /\ job[w].done # <<>> /\ Restored(w)

LEMMA HandlerShape ==
  ASSUME AumTypes, NEW w \in Writers, Work(w) \/ Failure(w)
  PROVE  \/ Returns(w) \/ Moves(w) \/ Compares(w) \/ Passes(w) \/ Puts(w)
         \/ Unanswered(w) \/ Learns(w) \/ Undoes(w)
<1>0. job[w] \in JobRecords /\ SameJob(job[w], job[w])
  BY DEF AumTypes, SameJob
<1>1. CASE RecordBoost(w) \/ MapManager(w) \/ RevokeManager(w) \/ Applied(w) \/ StoreOutcome(w) \/ StartRestore(w)
  <2>1. CASE at'[w] = "idle"
    BY <1>1, <2>1, TableStep DEF Returns
  <2>2. CASE at'[w] # "idle"
    BY <1>0, <1>1, <2>2, TableStep DEF Moves, Unchanged
  <2>. QED BY <2>1, <2>2
<1>2. CASE CompareFails(w) \/ PutRefused(w) \/ ReadBackFails(w) \/ GetFails(w)
  <2>1. FailJob(w) /\ at[w] \in {"checking", "putting", "asking", "verifying"}
    BY <1>2 DEF CompareFails, PutRefused, ReadBackFails, GetFails
  <2>2. Quiet(w) /\ (at'[w] = "idle" \/ (at'[w] = "rolling" /\ job'[w] = job[w] /\ job[w].done # <<>>))
    BY <2>1, GivesUp
  <2>. QED BY <1>0, <2>1, <2>2 DEF Returns, Moves, Unchanged
<1>3. CASE Compare(w)
  <2>1. /\ Quiet(w) /\ valid[w] /\ at[w] = "checking" /\ job[w].todo # <<>>
        /\ gw[ThisWrite(w).key] = job[w].snap[ThisWrite(w).key]
    BY <1>3, ComparesOn
  <2>2. ThisWrite(w).key \in Keys /\ Rest(w) \in Seq(WriteRecords)
    BY <2>1, ThisWriteTyped, Landed DEF AumTypes
  <2>3. CASE at'[w] = "checking" /\ job'[w] = [job[w] EXCEPT !.todo = Rest(w)] /\ gw[ThisWrite(w).key] = ThisWrite(w).value
    BY <1>0, <2>1, <2>2, <2>3, TodoField DEF Passes
  <2>4. CASE at'[w] = "putting" /\ job'[w] = [job[w] EXCEPT !.fresh = @ \cup {ThisWrite(w).key}]
    <3>. DEFINE F == job[w].fresh \cup {ThisWrite(w).key}
    <3>1. F \in SUBSET Keys /\ job'[w] = [job[w] EXCEPT !.fresh = F]
      BY <1>0, <2>2, <2>4 DEF JobRecords
    <3>. HIDE DEF F
    <3>2. SameJob(job'[w], job[w]) /\ job'[w].fresh = F
      BY <1>0, <3>1, FreshField
    <3>. QED BY <2>1, <2>4, <3>2 DEF Compares, F
  <2>. QED BY <1>3, <2>3, <2>4, ComparesOn
<1>4. CASE ReadBack(w)
  <2>1. /\ Quiet(w) /\ at[w] = "verifying" /\ job[w].todo # <<>>
        /\ at'[w] = "checking" /\ job'[w] = [job[w] EXCEPT !.todo = Rest(w)]
    BY <1>4, ReadsBack
  <2>2. Rest(w) \in Seq(WriteRecords)
    BY <2>1, ThisWriteTyped
  <2>. QED BY <1>0, <2>1, <2>2, TodoField DEF Passes
<1>5. CASE PutLands(w)
  <2>. DEFINE d == Append(job[w].done, ThisWrite(w))
  <2>1. /\ Writing(w, ThisWrite(w)) /\ at[w] = "putting" /\ job[w].todo # <<>> /\ at'[w] = "verifying"
        /\ job'[w] = [job[w] EXCEPT !.done = d]
    BY <1>5, PutsOn
  <2>2. d \in Seq(WriteRecords)
    BY <1>0, <2>1, ThisWriteTyped, AppendProperties DEF JobRecords
  <2>. HIDE DEF d
  <2>. QED BY <1>0, <2>1, <2>2, DoneField DEF Puts, d
<1>6. CASE PutErrors(w)
  <2>1. /\ Quiet(w) \/ Writing(w, ThisWrite(w))
        /\ at[w] = "putting" /\ job[w].todo # <<>>
    BY <1>6, PutBreaks DEF AumTypes
  <2>2. CASE at'[w] = "idle"
    BY <2>1, <2>2 DEF Returns
  <2>3. CASE at'[w] # "idle"
    <3>. DEFINE F == job[w].fresh \ {ThisWrite(w).key}
    <3>1. at'[w] = "rolling" /\ job[w].done # <<>> /\ job'[w] = [job[w] EXCEPT !.fresh = F]
      BY <1>6, <2>3, PutBreaks
    <3>2. F \in SUBSET Keys
      BY <1>0 DEF JobRecords
    <3>. HIDE DEF F
    <3>3. SameJob([job[w] EXCEPT !.fresh = F], job[w]) /\ [job[w] EXCEPT !.fresh = F].fresh = F
      BY <1>0, <3>2, FreshField
    <3>4. SameJob(job'[w], job[w]) /\ job'[w].fresh = F
      BY <3>1, <3>3
    <3>. QED BY <2>1, <3>1, <3>4 DEF Unanswered, F
  <2>. QED BY <2>2, <2>3
<1>7. CASE SkipRestore(w) \/ RestoreRefused(w) \/ (CallFails(w) /\ at[w] = "restoring")
  BY <1>7, RestoreEnds DEF Returns, Undoes, Restored
<1>8. CASE RestoreLands(w)
  BY <1>8, RestoresOn DEF Returns, Undoes, Restored
<1>9. CASE CallFails(w) /\ at[w] # "restoring"
  BY <1>9, CallBreaks DEF Returns
<1>10. CASE Crash(w)
  BY <1>10, Dies DEF Returns
<1>11. CASE LoseLease(w)
  BY <1>0, <1>11, LosesLease DEF Moves, Unchanged
<1>12. CASE PutAsks(w)
  <2>. DEFINE F == job[w].fresh \ {ThisWrite(w).key}
  <2>1. /\ Writing(w, ThisWrite(w)) /\ at[w] = "putting" /\ job[w].todo # <<>> /\ at'[w] = "asking"
        /\ job'[w] = [job[w] EXCEPT !.fresh = F]
    BY <1>12, AsksAfter
  <2>2. F \in SUBSET Keys
    BY <1>0 DEF JobRecords
  <2>. HIDE DEF F
  <2>3. SameJob(job'[w], job[w]) /\ job'[w].fresh = F
    BY <1>0, <2>1, <2>2, FreshField
  <2>. QED BY <2>1, <2>3 DEF Unanswered, F
<1>13. CASE Asks(w)
  BY <1>13, LearnsOn DEF Learns
<1>. QED BY <1>1, <1>2, <1>3, <1>4, <1>5, <1>6, <1>7, <1>8, <1>9, <1>10, <1>11, <1>12, <1>13 DEF Work, Failure

-----------------------------------------------------------------------------
(* ------------------- what the ETags a writer knows vouch for ------------- *)
(* One write for each named value; a value is written once, and its        *)
(* receipt is younger than what is still to be written.                    *)
Distinct(w) ==
    /\ OneEach(job[w].todo) /\ OneEach(job[w].done)
    /\ at[w] \notin {"rolling", "restoring"} =>
        \A i \in DOMAIN job[w].done, k \in DOMAIN job[w].todo :
            job[w].done[i].key = job[w].todo[k].key => at[w] = "verifying" /\ k = 1

(* A value whose ETag w has is the one it compared, then the one its       *)
(* receipt shows: what it wrote, or what the put found when it asked.      *)
Vouched(w) ==
    /\ at[w] = "putting" /\ ThisWrite(w).key \in job[w].fresh
        => gw[ThisWrite(w).key] = job[w].snap[ThisWrite(w).key]
    /\ \A i \in DOMAIN job[w].done :
        job[w].done[i].key \in job[w].fresh => gw[job[w].done[i].key] = job[w].done[i].value

OwnWrites(w) == Distinct(w) /\ Vouched(w)
OwnInv == AumTypes /\ \A w \in Writers : OwnWrites(w)

LEMMA NoneOwn ==
  ASSUME NEW w, job'[w] = NoJob, at'[w] = "idle"
  PROVE  OwnWrites(w)'
<1>1. DOMAIN <<>> = {} /\ NoJob.todo = <<>> /\ NoJob.done = <<>>
  BY DEF NoJob
<1>. QED BY <1>1 DEF OwnWrites, Distinct, Vouched, OneEach

(* What others do leaves a writer's own as it is. *)
LEMMA OthersOwn ==
  ASSUME AumTypes, NEW v \in Writers, OwnWrites(v),
         at'[v] = at[v], SameJob(job'[v], job[v]), job'[v].fresh \subseteq job[v].fresh,
         \A k \in Keys : k \in job'[v].fresh => gw'[k] = gw[k]
  PROVE  OwnWrites(v)'
<1>1. job[v].fresh \subseteq Keys
  BY DEF AumTypes, JobRecords
<1>. QED BY <1>1 DEF OwnWrites, Distinct, Vouched, SameJob, ThisWrite

(* The writes of a request. *)
LEMMA BeginOwn ==
  ASSUME AumTypes, NEW w \in Writers, Request(w) \/ Expire(w), \A v \in Writers : OwnWrites(v)
  PROVE  \A v \in Writers : OwnWrites(v)'
<1>1. PICK phase, target, boost, todo : Begun(w, phase, target, boost, todo)
  BY BeginTypes
<1>2. /\ job'[w].todo = todo /\ job'[w].done = <<>> /\ at'[w] # "putting" /\ OneEach(todo) /\ DOMAIN <<>> = {}
      /\ gw' = gw /\ \A x \in Writers \ {w} : job'[x] = job[x] /\ at'[x] = at[x]
  BY <1>1 DEF Begun, SoundBegin
<1>3. OwnWrites(w)'
  BY <1>2 DEF OwnWrites, Distinct, Vouched, OneEach
<1>4. ASSUME NEW v \in Writers \ {w} PROVE OwnWrites(v)'
  BY <1>2, <1>4 DEF OwnWrites, Distinct, Vouched, ThisWrite
<1>. QED BY <1>3, <1>4

LEMMA MovesOwn ==
  ASSUME AumTypes, NEW w \in Writers, OwnWrites(w), Moves(w) \/ Compares(w)
  PROVE  OwnWrites(w)'
<1>1. gw' = gw /\ job'[w].todo = job[w].todo /\ job'[w].done = job[w].done /\ job'[w].snap = job[w].snap
  BY DEF Moves, Compares, Unchanged, SameJob, Quiet
<1>2. CASE Moves(w)
  <2>1. at'[w] # "putting" \/ at[w] = "putting"
    BY <1>2 DEF Moves
  <2>2. job'[w].fresh = job[w].fresh
    BY <1>2 DEF Moves, Unchanged
  <2>3. Vouched(w)'
    BY <1>1, <2>1, <2>2 DEF OwnWrites, Vouched, ThisWrite
  <2>4. at'[w] \in {"rolling", "restoring"} \/ (at[w] \notin {"rolling", "restoring"} /\ (at[w] = "verifying" => at'[w] = "verifying"))
    BY <1>2 DEF Moves
  <2>5. Distinct(w)'
    BY <1>1, <2>4 DEF OwnWrites, Distinct
  <2>. QED BY <2>3, <2>5 DEF OwnWrites
<1>3. CASE Compares(w)
  <2>1. ThisWrite(w) = job[w].todo[1] /\ 1 \in DOMAIN job[w].todo /\ ThisWrite(w)' = ThisWrite(w)
    BY <1>1, <1>3, ThisWriteTyped DEF Compares, ThisWrite
  <2>2. \A i \in DOMAIN job[w].done : job[w].done[i].key # ThisWrite(w).key
    BY <1>3, <2>1 DEF Compares, OwnWrites, Distinct
  <2>3. /\ at[w] = "checking" /\ at'[w] = "putting" /\ job'[w].fresh = job[w].fresh \cup {ThisWrite(w).key}
        /\ gw[ThisWrite(w).key] = job[w].snap[ThisWrite(w).key]
    BY <1>3 DEF Compares
  <2>4. Vouched(w)'
    BY <1>1, <2>1, <2>2, <2>3 DEF OwnWrites, Vouched
  <2>5. Distinct(w)'
    BY <1>1, <2>3 DEF OwnWrites, Distinct
  <2>. QED BY <2>4, <2>5 DEF OwnWrites
<1>. QED BY <1>2, <1>3

LEMMA PassesOwn ==
  ASSUME AumTypes, NEW w \in Writers, OwnWrites(w), Passes(w)
  PROVE  OwnWrites(w)'
<1>1. /\ gw' = gw /\ job'[w].todo = Rest(w) /\ job'[w].done = job[w].done /\ job'[w].fresh = job[w].fresh
      /\ at[w] \in {"checking", "verifying"} /\ at'[w] = "checking" /\ job[w].todo # <<>>
  BY DEF Passes, Quiet
<1>2. \A i \in DOMAIN Rest(w) : i + 1 \in DOMAIN job[w].todo /\ i + 1 # 1 /\ i \in Nat /\ Rest(w)[i] = job[w].todo[i + 1]
  BY <1>1, ThisWriteTyped
<1>3. Vouched(w)'
  BY <1>1 DEF OwnWrites, Vouched
<1>4. OneEach(Rest(w)) /\ OneEach(job[w].done)
  BY <1>2 DEF OwnWrites, Distinct, OneEach
<1>5. \A i \in DOMAIN job[w].done, k \in DOMAIN Rest(w) : job[w].done[i].key # Rest(w)[k].key
  BY <1>1, <1>2 DEF OwnWrites, Distinct
<1>. QED BY <1>1, <1>3, <1>4, <1>5 DEF OwnWrites, Distinct

(* What an appended list contains. *)
LEMMA Appended ==
  ASSUME NEW s \in Seq(WriteRecords), NEW x \in WriteRecords
  PROVE  LET t == Append(s, x)
         IN  /\ Len(s) + 1 \in DOMAIN t /\ t[Len(s) + 1] = x /\ Len(s) + 1 \notin DOMAIN s
             /\ \A i \in DOMAIN t : i = Len(s) + 1 \/ (i \in DOMAIN s /\ t[i] = s[i])
<1>1. /\ Append(s, x) \in Seq(WriteRecords) /\ Len(Append(s, x)) = Len(s) + 1 /\ Len(s) \in Nat
      /\ \A i \in 1..Len(s) : Append(s, x)[i] = s[i]
      /\ Append(s, x)[Len(s) + 1] = x
      /\ DOMAIN s = 1..Len(s)
  BY AppendProperties, LenProperties
<1>2. DOMAIN Append(s, x) = 1..(Len(s) + 1)
  BY <1>1, LenProperties
<1>. QED BY <1>1, <1>2

LEMMA PutsOwn ==
  ASSUME AumTypes, NEW w \in Writers, OwnWrites(w), Puts(w)
  PROVE  OwnWrites(w)'
<1>. DEFINE x == ThisWrite(w)
            n == Len(job[w].done) + 1
            d == job'[w].done
<1>1. /\ x \in WriteRecords /\ x = job[w].todo[1] /\ 1 \in DOMAIN job[w].todo /\ job[w].done \in Seq(WriteRecords)
      /\ x.key \in Keys
  BY ThisWriteTyped, Landed DEF AumTypes, JobRecords, Puts
<1>2. /\ at[w] = "putting" /\ at'[w] = "verifying" /\ job'[w].todo = job[w].todo /\ job'[w].fresh = job[w].fresh
      /\ d = Append(job[w].done, x) /\ gw' = With(gw, x.key, x.value)
  BY DEF Puts, Writing
<1>3. n \in DOMAIN d /\ d[n] = x /\ n \notin DOMAIN job[w].done
      /\ \A i \in DOMAIN d : i = n \/ (i \in DOMAIN job[w].done /\ d[i] = job[w].done[i])
  BY <1>1, <1>2, Appended
<1>4. gw'[x.key] = x.value /\ \A k \in Keys \ {x.key} : gw'[k] = gw[k]
  BY <1>1, <1>2, Landed DEF AumTypes
<1>. HIDE DEF x, n, d
<1>5. \A i \in DOMAIN job[w].done : job[w].done[i].key # x.key
  BY <1>1, <1>2 DEF OwnWrites, Distinct
<1>6. job[w].fresh \subseteq Keys
  BY DEF AumTypes, JobRecords
<1>7. OneEach(d)
  BY <1>3, <1>5 DEF OwnWrites, Distinct, OneEach
<1>8. \A i \in DOMAIN d, k \in DOMAIN job[w].todo : d[i].key = job[w].todo[k].key => k = 1
  BY <1>1, <1>2, <1>3 DEF OwnWrites, Distinct, OneEach
<1>9. Distinct(w)'
  BY <1>2, <1>7, <1>8 DEF OwnWrites, Distinct, d
<1>10. \A i \in DOMAIN d : d[i].key \in job[w].fresh => gw'[d[i].key] = d[i].value
  BY <1>3, <1>4, <1>5, <1>6 DEF OwnWrites, Vouched
<1>. QED BY <1>2, <1>9, <1>10 DEF OwnWrites, Vouched, d

LEMMA UnansweredOwn ==
  ASSUME AumTypes, NEW w \in Writers, OwnWrites(w), Unanswered(w)
  PROVE  OwnWrites(w)'
<1>. DEFINE x == ThisWrite(w)
<1>1. /\ at[w] = "putting" /\ at'[w] \in {"rolling", "asking"}
      /\ SameJob(job'[w], job[w]) /\ job'[w].fresh = job[w].fresh \ {x.key}
      /\ gw' = gw \/ gw' = With(gw, x.key, x.value)
  BY DEF Unanswered, Quiet, Writing
<1>2. x \in WriteRecords /\ job[w].fresh \subseteq Keys
  BY ThisWriteTyped DEF Unanswered, AumTypes, JobRecords
<1>3. \A k \in Keys \ {x.key} : gw'[k] = gw[k]
  BY <1>1, <1>2, Landed DEF AumTypes
<1>. HIDE DEF x
<1>. QED BY <1>1, <1>2, <1>3 DEF OwnWrites, Distinct, Vouched, SameJob

LEMMA LearnsOwn ==
  ASSUME AumTypes, NEW w \in Writers, OwnWrites(w), Learns(w)
  PROVE  OwnWrites(w)'
<1>. DEFINE x == Found(w)
            n == Len(job[w].done) + 1
            d == job'[w].done
<1>1. /\ x \in WriteRecords /\ x.key = job[w].todo[1].key /\ x.value = gw[x.key]
      /\ 1 \in DOMAIN job[w].todo /\ job[w].done \in Seq(WriteRecords) /\ x.key = ThisWrite(w).key
  BY ThisWriteTyped, FoundTyped DEF AumTypes, JobRecords, Learns
<1>2. /\ at[w] = "asking" /\ at'[w] = "verifying" /\ job'[w].todo = job[w].todo
      /\ job'[w].fresh = job[w].fresh \cup {x.key} /\ d = Append(job[w].done, x) /\ gw' = gw
  BY <1>1 DEF Learns, Quiet
<1>3. n \in DOMAIN d /\ d[n] = x /\ n \notin DOMAIN job[w].done
      /\ \A i \in DOMAIN d : i = n \/ (i \in DOMAIN job[w].done /\ d[i] = job[w].done[i])
  BY <1>1, <1>2, Appended
<1>. HIDE DEF x, n, d
<1>4. \A i \in DOMAIN job[w].done : job[w].done[i].key # x.key
  BY <1>1, <1>2 DEF OwnWrites, Distinct
<1>5. OneEach(d)
  BY <1>3, <1>4 DEF OwnWrites, Distinct, OneEach
<1>6. \A i \in DOMAIN d, k \in DOMAIN job[w].todo : d[i].key = job[w].todo[k].key => k = 1
  <2>1. \A k \in DOMAIN job[w].todo : x.key = job[w].todo[k].key => k = 1
    BY <1>1 DEF OwnWrites, Distinct, OneEach
  <2>2. \A i \in DOMAIN job[w].done, k \in DOMAIN job[w].todo : job[w].done[i].key # job[w].todo[k].key
    BY <1>2 DEF OwnWrites, Distinct
  <2>. QED BY <1>3, <2>1, <2>2
<1>7. Distinct(w)'
  BY <1>2, <1>5, <1>6 DEF OwnWrites, Distinct, d
<1>8. \A i \in DOMAIN d : d[i].key \in job[w].fresh \cup {x.key} => gw[d[i].key] = d[i].value
  BY <1>1, <1>3, <1>4 DEF OwnWrites, Vouched
<1>. QED BY <1>2, <1>7, <1>8 DEF OwnWrites, Vouched, d

LEMMA UndoesOwn ==
  ASSUME AumTypes, NEW w \in Writers, OwnWrites(w), Undoes(w)
  PROVE  OwnWrites(w)'
<1>. DEFINE x == RestoreOf(w)
            n == Len(job[w].done)
<1>1. /\ x \in WriteRecords /\ x.key = job[w].done[n].key /\ n \in DOMAIN job[w].done /\ job[w].fresh \subseteq Keys
  BY ReceiptTyped DEF Undoes, Receipt, AumTypes, JobRecords
<1>2. gw' = gw \/ gw' = With(gw, x.key, x.value)
  BY DEF Undoes, Quiet, Writing
<1>3. \A k \in Keys \ {x.key} : gw'[k] = gw[k]
  BY <1>1, <1>2, Landed DEF AumTypes
<1>. HIDE DEF x
<1>4. /\ at'[w] = "rolling" /\ job'[w].todo = job[w].todo /\ job'[w].fresh = job[w].fresh
      /\ \A i \in DOMAIN job'[w].done : i \in DOMAIN job[w].done /\ job'[w].done[i] = job[w].done[i] /\ i # n
  BY DEF Undoes, Restored
<1>. HIDE DEF n
<1>5. \A i \in DOMAIN job'[w].done : job'[w].done[i].key # x.key
  BY <1>1, <1>4 DEF OwnWrites, Distinct, OneEach
<1>6. Distinct(w)'
  BY <1>4 DEF OwnWrites, Distinct, OneEach
<1>7. \A i \in DOMAIN job'[w].done : job'[w].done[i].key \in job[w].fresh
          => gw'[job'[w].done[i].key] = job'[w].done[i].value
  BY <1>1, <1>3, <1>4, <1>5 DEF OwnWrites, Vouched
<1>. QED BY <1>4, <1>6, <1>7 DEF OwnWrites, Vouched

LEMMA ReturnsOwn ==
  ASSUME NEW w \in Writers, Returns(w)
  PROVE  OwnWrites(w)'
<1>1. job'[w] = NoJob /\ at'[w] = "idle"
  BY DEF Returns, Quiet, Writing, GoesOn
<1>. QED BY <1>1, NoneOwn

LEMMA StepKeepsOwn ==
  ASSUME AumTypes, \A v \in Writers : OwnWrites(v), [Next]_aumVars
  PROVE  \A v \in Writers : OwnWrites(v)'
<1>1. CASE UNCHANGED aumVars
  BY <1>1 DEF aumVars, OwnWrites, Distinct, Vouched, ThisWrite
<1>2. ASSUME NEW w \in Writers, Request(w) \/ Expire(w) PROVE \A v \in Writers : OwnWrites(v)'
  BY <1>2, BeginOwn
<1>3. ASSUME NEW w \in Writers, Work(w) \/ Failure(w) PROVE \A v \in Writers : OwnWrites(v)'
  <2>1. OwnWrites(w)'
    BY <1>3, HandlerShape, ReturnsOwn, MovesOwn, PassesOwn, PutsOwn, UnansweredOwn, LearnsOwn, UndoesOwn
  <2>2. Quiet(w) \/ \E x \in WriteRecords : Writing(w, x)
    BY <1>3, WorkTypes
  <2>3. ASSUME NEW v \in Writers \ {w} PROVE OwnWrites(v)'
    <3>1. OwnWrites(v) /\ v \in Writers
      OBVIOUS
    <3>. QED BY <2>2, <3>1, OthersKeep, OthersOwn
  <2>. QED BY <2>1, <2>3
<1>4. CASE Outside
  BY <1>4, OutsideStep, OthersOwn
<1>. QED BY <1>1, <1>2, <1>3, <1>4 DEF Next, Outside

(* What the ETags vouch for, for any writers and whatever fails, edits or  *)
(* lands late.                                                             *)
THEOREM OwnInvariant == Spec => []OwnInv
<1>1. Init => OwnInv
  <2>1. DOMAIN <<>> = {} /\ NoJob.todo = <<>> /\ NoJob.done = <<>>
    BY DEF NoJob
  <2>. QED BY <2>1, InitTypes DEF OwnInv, Init, OwnWrites, Distinct, Vouched, OneEach
<1>2. OwnInv /\ [Next]_aumVars => OwnInv'
  BY StepKeepsTypes, StepKeepsOwn DEF OwnInv
<1>. QED BY <1>1, <1>2, PTL DEF Spec

(* NothingUnseenOverwritten, without any assumption on the calls: a put    *)
(* that lands replaces what was compared; a rollback replaces the value    *)
(* that came with the answer of the put, whosever it is.                   *)
THEOREM UnseenIsKept == Spec => NothingUnseenOverwritten
<1>. DEFINE B(w) == /\ at[w] = "putting" /\ at'[w] \in {"asking", "verifying"}
                        => gw[ThisWrite(w).key] = job[w].snap[ThisWrite(w).key]
                    /\ Restores(w) => gw[Receipt(w).key] = Receipt(w).value
            A == \A w \in Writers : B(w)
<1>1. ASSUME OwnInv, Next PROVE A
  <2>0. AumTypes /\ \A v \in Writers : OwnWrites(v)
    BY <1>1 DEF OwnInv
  <2>. SUFFICES ASSUME NEW w \in Writers PROVE B(w)
    OBVIOUS
  <2>1. CASE Work(w) \/ Failure(w)
    <3>1. at[w] = "putting" /\ at'[w] \in {"asking", "verifying"} => Writing(w, ThisWrite(w))
      BY <2>0, <2>1, HandlerShape DEF Returns, Moves, Compares, Passes, Puts, Unanswered, Learns, Undoes
    <3>2. Writing(w, ThisWrite(w)) => ThisWrite(w).key \in job[w].fresh
      BY DEF Writing
    <3>3. at[w] = "restoring" /\ gw' # gw => job[w].done # <<>> /\ Writing(w, RestoreOf(w))
      BY <2>0, <2>1, HandlerShape DEF Returns, Moves, Compares, Passes, Puts, Unanswered, Learns, Undoes, Quiet
    <3>4. at[w] = "restoring" /\ gw' # gw => Receipt(w).key \in job[w].fresh /\ Len(job[w].done) \in DOMAIN job[w].done
      BY <2>0, <3>3, ReceiptTyped DEF Writing
    <3>5. OwnWrites(w)
      BY <2>0
    <3>. QED BY <3>1, <3>2, <3>4, <3>5 DEF OwnWrites, Vouched, Receipt, Restores
  <2>2. CASE ~(Work(w) \/ Failure(w))
    <3>1. at'[w] = at[w] \/ at[w] = "idle"
      <4>1. ASSUME NEW v \in Writers, Request(v) \/ Expire(v) PROVE at'[w] = at[w] \/ at[w] = "idle"
        <5>1. at[v] = "idle" /\ \A x \in Writers \ {v} : at'[x] = at[x]
          BY <2>0, <4>1, BeginTypes DEF Begun
        <5>. QED BY <5>1
      <4>2. ASSUME NEW v \in Writers, Work(v) \/ Failure(v) PROVE at'[w] = at[w]
        BY <2>0, <2>2, <4>2, WorkTypes, OthersKeep
      <4>3. Outside => at'[w] = at[w]
        BY <2>0, OutsideStep
      <4>. QED BY <1>1, <4>1, <4>2, <4>3 DEF Next, Outside
    <3>. QED BY <3>1 DEF Restores
  <2>. QED BY <2>1, <2>2
<1>2. OwnInv /\ [Next]_aumVars => [A]_aumVars
  BY <1>1
<1>. QED BY <1>2, OwnInvariant, PTL DEF Spec, NothingUnseenOverwritten

-----------------------------------------------------------------------------
(* ------------------ what the lease adds while calls are quick ------------ *)
(* What a handler's step does to the tables and the bounds. *)
LEMMA TablesStep ==
  ASSUME AumTypes, NEW w \in Writers, Work(w) \/ Failure(w)
  PROVE  /\ \/ managers' = managers
            \/ at[w] = "mapping" /\ at'[w] = "idle" /\ managers' \subseteq managers \cup {job[w].target}
            \/ at[w] = "revoking" /\ at'[w] = "checking"
         /\ at[w] = "revoking" /\ at'[w] = "checking" => managers' = managers \ {job[w].target}
         /\ boosts' = boosts \/ RecordBoost(w) \/ StoreOutcome(w)
         /\ spent'.slow = spent.slow /\ spent'.edits = spent.edits
         /\ "later" \notin PutFailures => late' \subseteq late
<1>0. Spend("faults") => spent'.slow = spent.slow /\ spent'.edits = spent.edits
  BY DEF AumTypes, Spend
<1>1. CASE RecordBoost(w) \/ Applied(w) \/ StoreOutcome(w) \/ StartRestore(w)
  BY <1>1 DEF RecordBoost, Applied, StoreOutcome, StartRestore
<1>2. CASE MapManager(w)
  BY <1>2 DEF MapManager, Finish, Goto, AumTypes
<1>3. CASE RevokeManager(w)
  BY <1>3 DEF RevokeManager, Goto, AumTypes
<1>4. CASE CompareFails(w) \/ PutRefused(w) \/ ReadBackFails(w) \/ GetFails(w)
  BY <1>0, <1>4, GivesUp DEF CompareFails, PutRefused, ReadBackFails, GetFails, Fault
<1>5. CASE Compare(w) \/ PutLands(w) \/ PutAsks(w) \/ Asks(w) \/ ReadBack(w)
  BY <1>5, ComparesOn, PutsOn, AsksAfter, LearnsOn, ReadsBack
<1>6. CASE PutErrors(w)
  BY <1>0, <1>6, PutBreaks
<1>7. CASE SkipRestore(w) \/ RestoreRefused(w) \/ (CallFails(w) /\ at[w] = "restoring")
  BY <1>0, <1>7, RestoreEnds
<1>8. CASE RestoreLands(w)
  BY <1>8, RestoresOn
<1>9. CASE CallFails(w) /\ at[w] # "restoring"
  BY <1>0, <1>9, CallBreaks
<1>10. CASE Crash(w)
  BY <1>0, <1>10, Dies
<1>11. CASE LoseLease(w)
  BY <1>0, <1>11, LosesLease
<1>. QED BY <1>1, <1>2, <1>3, <1>4, <1>5, <1>6, <1>7, <1>8, <1>9, <1>10, <1>11 DEF Work, Failure

(* What check_lease finds is so, and a call under way is its holder's.     *)
Leased(w) ==
    /\ valid[w] => lease = w /\ at[w] # "idle"
    /\ spent.slow = 0 /\ at[w] \in Calling => lease = w

LEMMA StepKeepsLease ==
  ASSUME AumTypes, \A v \in Writers : Leased(v), [Next]_aumVars
  PROVE  \A v \in Writers : Leased(v)'
<1>1. CASE UNCHANGED aumVars
  BY <1>1 DEF aumVars, Leased
<1>2. ASSUME NEW w \in Writers, Request(w) \/ Expire(w) PROVE \A v \in Writers : Leased(v)'
  <2>1. PICK phase, target, boost, todo : Begun(w, phase, target, boost, todo)
    BY <1>2, BeginTypes
  <2>. QED BY <2>1, AumConstants DEF Begun, Leased
<1>3. ASSUME NEW w \in Writers, Work(w) \/ Failure(w) PROVE \A v \in Writers : Leased(v)'
  <2>1. spent'.slow = spent.slow
    BY <1>3, TablesStep
  <2>2. /\ lease' = lease \/ (lease = w /\ lease' = NoWriter)
        /\ at'[w] # "idle" => lease' = lease
        /\ valid'[w] => valid[w] /\ at'[w] # "idle"
    BY <1>3, WorkTypes DEF Quiet, Writing, GoesOn
  <2>3. ASSUME NEW v \in Writers \ {w} PROVE Leased(v)'
    <3>1. at'[v] = at[v] /\ valid'[v] = valid[v]
      BY <1>3, WorkTypes, OthersKeep
    <3>. QED BY <2>1, <2>2, <3>1 DEF Leased
  <2>4. at'[w] \in Calling => at'[w] # "idle" /\ (at[w] \in Calling \/ valid[w])
    BY <1>3, HandlerShape DEF Calling, Returns, Moves, Compares, Passes, Puts, Unanswered, Learns, Undoes
  <2>5. Leased(w)'
    BY <2>1, <2>2, <2>4 DEF Leased
  <2>. QED BY <2>3, <2>5
<1>4. CASE LeaseExpires
  <2>1. ~valid[lease] /\ lease' = NoWriter /\ at' = at /\ valid' = valid
        /\ spent' = IF at[lease] \in Calling THEN [spent EXCEPT !.slow = 1] ELSE spent
    BY <1>4 DEF LeaseExpires
  <2>2. at[lease] \in Calling => spent'.slow = 1
    BY <2>1 DEF AumTypes
  <2>3. at[lease] \notin Calling => spent'.slow = spent.slow
    BY <2>1
  <2>. QED BY <2>1, <2>2, <2>3 DEF Leased
<1>5. CASE LateLands \/ ExternalEdit \/ \E b \in BoostIds : BoostDue(b)
  <2>1. UNCHANGED <<at, valid, lease>>
    BY <1>5 DEF LateLands, ExternalEdit, BoostDue
  <2>2. spent'.slow = 0 => spent.slow = 0
    BY <1>5 DEF LateLands, ExternalEdit, BoostDue, Spend, AumTypes
  <2>. QED BY <2>1, <2>2 DEF Leased
<1>. QED BY <1>1, <1>2, <1>3, <1>4, <1>5 DEF Next

(* A holder that goes on keeps the units of the managers in what it has    *)
(* still to write and in what it would go back to.                         *)
Grants(w) ==
    lease = w /\ at[w] # "idle" =>
        /\ managers \subseteq Catalog(job[w].snap)
        /\ at[w] = "mapping" => job[w].target \in Catalog(gw)
        /\ at[w] \notin {"rolling", "restoring"} => KeepsManaged(at[w], job[w].target, job[w].todo)
GrantsKept == Undisturbed => managers \subseteq Catalog(gw) /\ \A w \in Writers : Grants(w)

LEMMA BeginGrants ==
  ASSUME AumTypes, NEW w \in Writers, Request(w) \/ Expire(w), GrantsKept
  PROVE  GrantsKept'
<1>1. PICK phase, target, boost, todo : Begun(w, phase, target, boost, todo)
  BY BeginTypes
<1>2. /\ job'[w].todo = todo /\ job'[w].snap = gw /\ job'[w].target = target /\ at'[w] = phase /\ lease' = w
      /\ gw' = gw /\ managers' = managers /\ SoundBegin(phase, target, boost, todo)
      /\ Undisturbed' => Undisturbed
  BY <1>1 DEF Begun, Undisturbed
<1>3. SUFFICES ASSUME Undisturbed PROVE managers' \subseteq Catalog(gw') /\ \A v \in Writers : Grants(v)'
  BY <1>2 DEF GrantsKept
<1>4. managers \subseteq Catalog(gw)
  BY <1>3 DEF GrantsKept
<1>5. Grants(w)'
  BY <1>2, <1>4 DEF Grants, SoundBegin, KeepsManaged
<1>6. \A v \in Writers \ {w} : Grants(v)'
  BY <1>2 DEF Grants
<1>. QED BY <1>2, <1>4, <1>5, <1>6

LEMMA WorkGrants ==
  ASSUME AumTypes, NEW w \in Writers, Work(w) \/ Failure(w), \A v \in Writers : Leased(v), GrantsKept
  PROVE  GrantsKept'
<1>1. SUFFICES ASSUME Undisturbed PROVE managers' \subseteq Catalog(gw') /\ \A v \in Writers : Grants(v)'
  BY TablesStep DEF GrantsKept, Undisturbed
<1>2. managers \subseteq Catalog(gw) /\ (\A v \in Writers : Grants(v)) /\ (at[w] \in Calling => lease = w)
  BY <1>1 DEF GrantsKept, Undisturbed, Leased
<1>3. /\ lease' = lease \/ (lease = w /\ lease' = NoWriter)
      /\ \A v \in Writers \ {w} : at'[v] = at[v] /\ SameJob(job'[v], job[v])
  BY WorkTypes, OthersKeep DEF Quiet, Writing, GoesOn
<1>4. CASE lease # w
  <2>1. at[w] \notin Calling
    BY <1>2, <1>4
  <2>2. gw' = gw /\ managers' = managers
    BY <2>1, HandlerShape, TablesStep DEF Calling, Returns, Moves, Compares, Passes, Puts, Unanswered, Learns, Undoes, Quiet
  <2>3. \A v \in Writers \ {w} : Grants(v)'
    BY <1>2, <1>3, <1>4, <2>2 DEF Grants, SameJob, KeepsManaged
  <2>4. Grants(w)'
    BY <1>3, <1>4, AumConstants DEF Grants
  <2>. QED BY <1>2, <2>2, <2>3, <2>4
<1>5. CASE lease = w
  <2>1. \A v \in Writers \ {w} : Grants(v)'
    BY <1>3, <1>5, AumConstants DEF Grants
  <2>2. at[w] # "idle" => Grants(w) /\ lease = w
    BY <1>2, <1>5
  <2>3. CASE at[w] = "mapping" /\ managers' # managers
    <3>1. at'[w] = "idle" /\ managers' \subseteq managers \cup {job[w].target} /\ job[w].target \in Catalog(gw)
      BY <2>2, <2>3, TablesStep DEF Grants
    <3>2. gw' = gw
      BY <2>3, <3>1, HandlerShape DEF Returns, Moves, Compares, Passes, Puts, Unanswered, Learns, Undoes, Quiet
    <3>. QED BY <1>2, <2>1, <3>1, <3>2 DEF Grants
  <2>4. CASE at[w] = "revoking" /\ at'[w] = "checking"
    <3>1. managers' = managers \ {job[w].target}
      BY <2>4, TablesStep
    <3>2. gw' = gw /\ SameJob(job'[w], job[w])
      BY <2>4, HandlerShape DEF Returns, Moves, Compares, Passes, Puts, Unanswered, Learns, Undoes, Quiet, Unchanged
    <3>3. KeepsManaged("checking", job[w].target, job[w].todo)'
      BY <2>2, <2>4, <3>1, <3>2 DEF Grants, KeepsManaged, SameJob
    <3>4. Grants(w)'
      BY <2>2, <2>4, <3>1, <3>2, <3>3 DEF Grants, SameJob
    <3>. QED BY <1>2, <2>1, <3>1, <3>2, <3>4
  <2>5. CASE managers' = managers /\ ~(at[w] = "revoking" /\ at'[w] = "checking")
    <3>1. managers \subseteq Catalog(gw')
      <4>1. ASSUME at[w] = "putting", job[w].todo # <<>>, Writing(w, ThisWrite(w)) PROVE managers \subseteq Catalog(gw')
        <5>1. ThisWrite(w) \in WriteRecords /\ ThisWrite(w) = job[w].todo[1] /\ 1 \in DOMAIN job[w].todo
          BY <4>1, ThisWriteTyped
        <5>2. ThisWrite(w).key = "reg" => managers \subseteq DOMAIN ThisWrite(w).value
          BY <2>2, <4>1, <5>1 DEF Grants, KeepsManaged
        <5>3. ThisWrite(w).key = "reg" => gw'["reg"] = ThisWrite(w).value
          BY <4>1, <5>1, Landed DEF Writing, AumTypes
        <5>4. ThisWrite(w).key # "reg" => gw'["reg"] = gw["reg"]
          BY <4>1, <5>1, Landed DEF Writing, AumTypes, Keys
        <5>. QED BY <1>2, <5>2, <5>3, <5>4 DEF Catalog
      <4>2. ASSUME at[w] = "restoring", job[w].done # <<>>, Writing(w, RestoreOf(w)) PROVE managers \subseteq Catalog(gw')
        <5>1. RestoreOf(w) \in WriteRecords /\ RestoreOf(w).value = job[w].snap[RestoreOf(w).key]
          BY <4>2, ReceiptTyped
        <5>2. managers \subseteq DOMAIN job[w].snap["reg"]
          BY <2>2, <4>2 DEF Grants, Catalog
        <5>3. RestoreOf(w).key = "reg" => gw'["reg"] = job[w].snap["reg"]
          BY <4>2, <5>1, Landed DEF Writing, AumTypes
        <5>4. RestoreOf(w).key # "reg" => gw'["reg"] = gw["reg"]
          BY <4>2, <5>1, Landed DEF Writing, AumTypes, Keys
        <5>. QED BY <1>2, <5>2, <5>3, <5>4 DEF Catalog
      <4>3. \/ gw' = gw
            \/ at[w] = "putting" /\ job[w].todo # <<>> /\ Writing(w, ThisWrite(w))
            \/ at[w] = "restoring" /\ job[w].done # <<>> /\ Writing(w, RestoreOf(w))
        BY HandlerShape DEF Returns, Moves, Compares, Passes, Puts, Unanswered, Learns, Undoes, Quiet
      <4>. QED BY <1>2, <4>1, <4>2, <4>3
    <3>2. CASE Returns(w)
      BY <2>1, <2>5, <3>1, <3>2 DEF Returns, Grants
    <3>3. CASE Moves(w)
      <4>1. KeepsManaged(at[w], job[w].target, job[w].todo) => KeepsManaged(at[w], job[w].target, job[w].todo)'
        BY <2>5, <3>3 DEF Moves, Unchanged, SameJob, KeepsManaged
      <4>. QED BY <2>1, <2>2, <2>5, <3>1, <3>3, <4>1 DEF Moves, Grants, Unchanged, SameJob, Quiet
    <3>4. CASE Compares(w) \/ Puts(w) \/ Learns(w) \/ (Unanswered(w) /\ at'[w] = "asking")
      <4>1. /\ at[w] \in {"checking", "putting", "asking"} /\ at'[w] \in {"putting", "asking", "verifying"}
            /\ job'[w].todo = job[w].todo /\ job'[w].snap = job[w].snap /\ job'[w].target = job[w].target
        BY <3>4 DEF Compares, Puts, Learns, Unanswered, SameJob
      <4>2. Grants(w)'
        BY <2>2, <2>5, <4>1 DEF Grants, KeepsManaged
      <4>. QED BY <2>1, <2>5, <3>1, <4>2
    <3>5. CASE (Unanswered(w) /\ at'[w] = "rolling") \/ Undoes(w)
      <4>1. at'[w] = "rolling" /\ at[w] # "idle" /\ job'[w].snap = job[w].snap
        BY <3>5 DEF Unanswered, Undoes, Restored, SameJob
      <4>2. Grants(w)'
        BY <2>2, <2>5, <4>1 DEF Grants
      <4>. QED BY <2>1, <2>5, <3>1, <4>2
    <3>6. CASE Passes(w)
      <4>1. job'[w].todo = Rest(w) /\ job'[w].snap = job[w].snap /\ at'[w] = "checking" /\ at[w] \in {"checking", "verifying"}
            /\ job'[w].target = job[w].target /\ job[w].todo # <<>>
        BY <3>6 DEF Passes
      <4>2. \A i \in DOMAIN Rest(w) : i + 1 \in DOMAIN job[w].todo /\ Rest(w)[i] = job[w].todo[i + 1]
        BY <4>1, ThisWriteTyped
      <4>3. KeepsManaged(at[w], job[w].target, job[w].todo) /\ managers \subseteq Catalog(job[w].snap)
        BY <2>2, <4>1 DEF Grants
      <4>4. KeepsManaged("checking", job[w].target, job[w].todo)'
        BY <2>5, <4>1, <4>2, <4>3 DEF KeepsManaged
      <4>. QED BY <2>1, <2>5, <3>1, <4>1, <4>3, <4>4 DEF Grants
    <3>. QED BY <3>2, <3>3, <3>4, <3>5, <3>6, HandlerShape DEF Unanswered
  <2>. QED BY <2>3, <2>4, <2>5, TablesStep
<1>. QED BY <1>4, <1>5

LEMMA StepKeepsGrants ==
  ASSUME AumTypes, \A v \in Writers : Leased(v), GrantsKept, [Next]_aumVars
  PROVE  GrantsKept'
<1>1. CASE UNCHANGED aumVars
  BY <1>1 DEF aumVars, GrantsKept, Undisturbed, Grants, KeepsManaged
<1>2. CASE Outside
  <2>1. SUFFICES ASSUME Undisturbed' PROVE managers' \subseteq Catalog(gw') /\ \A w \in Writers : Grants(w)'
    BY DEF GrantsKept
  <2>2. /\ spent' = spent /\ gw' = gw /\ managers' = managers /\ at' = at /\ (lease' = lease \/ lease' = NoWriter)
        /\ \A v \in Writers : SameJob(job'[v], job[v])
    BY <1>2, <2>1, OutsideStep DEF Undisturbed
  <2>3. managers \subseteq Catalog(gw) /\ \A w \in Writers : Grants(w)
    BY <2>1, <2>2 DEF GrantsKept, Undisturbed
  <2>. QED BY <2>2, <2>3, AumConstants DEF Grants, SameJob, KeepsManaged
<1>. QED BY <1>1, <1>2, BeginGrants, WorkGrants DEF Next, Outside

(* NoGrantWithoutUnit, for any catalog and writers: a manager group that   *)
(* is mapped, a unit that is removed and a rollback that is under way meet *)
(* in no order that leaves a group to a unit the catalog does not have.    *)
GrantInv == AumTypes /\ (\A w \in Writers : Leased(w)) /\ GrantsKept

THEOREM GrantsHaveUnits == Spec => []NoGrantWithoutUnit
<1>1. Init => GrantInv
  BY InitTypes DEF Init, GrantInv, Leased, Calling, GrantsKept, Grants
<1>2. GrantInv /\ [Next]_aumVars => GrantInv'
  BY StepKeepsTypes, StepKeepsLease, StepKeepsGrants DEF GrantInv
<1>3. GrantInv => NoGrantWithoutUnit
  BY DEF GrantInv, GrantsKept, NoGrantWithoutUnit
<1>. QED BY <1>1, <1>2, <1>3, PTL DEF Spec

-----------------------------------------------------------------------------
(* --------------------------- boosts that are over ------------------------ *)
(* No call is left behind, none outlasts its lease, and no other tool      *)
(* edits.                                                                  *)
Quick == ~SlowCalls /\ "later" \notin PutFailures /\ MaxEdits = 0
Calm == late = {} /\ spent.slow = 0

(* What a writer writes, or wrote, differs from its snapshot in the limit  *)
(* of its target alone.                                                    *)
Narrow(w) ==
    /\ OnlyOf(job[w].target, job[w].todo, job[w].snap)
    /\ OnlyOf(job[w].target, job[w].done, job[w].snap)

(* The boost a holder works on is not over. *)
BoostLives(w) ==
    lease = w /\ at[w] # "idle" /\ job[w].boost # NoBoost
        => boosts[job[w].boost].state \notin {"expired", "superseded"}

(* While nothing is late the value a put asks for is the one it wrote.     *)
Named(w) == at[w] = "asking" => gw[ThisWrite(w).key] = ThisWrite(w).value

LEMMA StepKeepsCalm ==
  ASSUME Quick, AumTypes, Calm, [Next]_aumVars
  PROVE  Calm' /\ (gw' # gw => \E w \in Writers : Work(w) \/ Failure(w))
<1>1. CASE UNCHANGED aumVars
  BY <1>1 DEF aumVars, Calm
<1>2. ASSUME NEW w \in Writers, Request(w) \/ Expire(w) PROVE Calm' /\ gw' = gw
  <2>1. \E phase, target, boost, todo : Begun(w, phase, target, boost, todo)
    BY <1>2, BeginTypes
  <2>. QED BY <2>1 DEF Begun, Calm
<1>3. ASSUME NEW w \in Writers, Work(w) \/ Failure(w) PROVE Calm'
  BY <1>3, TablesStep DEF Calm, Quick
<1>4. CASE Outside
  <2>1. spent.edits \in Nat
    BY DEF AumTypes
  <2>2. gw' = gw /\ spent' = spent /\ late' \subseteq late
    BY <1>4, <2>1, OutsideStep DEF Calm, Quick
  <2>. QED BY <2>2 DEF Calm
<1>. QED BY <1>1, <1>2, <1>3, <1>4 DEF Next, Outside

LEMMA BeginNarrow ==
  ASSUME AumTypes, NEW w \in Writers, Request(w) \/ Expire(w), \A v \in Writers : Narrow(v) /\ BoostLives(v)
  PROVE  \A v \in Writers : Narrow(v)' /\ BoostLives(v)'
<1>1. PICK phase, target, boost, todo : Begun(w, phase, target, boost, todo)
  BY BeginTypes
<1>2. /\ job'[w].todo = todo /\ job'[w].done = <<>> /\ job'[w].snap = gw /\ job'[w].target = target
      /\ job'[w].boost = boost /\ lease' = w /\ boosts' = boosts /\ DOMAIN <<>> = {}
      /\ SoundBegin(phase, target, boost, todo)
      /\ \A x \in Writers \ {w} : job'[x] = job[x] /\ at'[x] = at[x]
  BY <1>1 DEF Begun
<1>3. Narrow(w)' /\ BoostLives(w)'
  BY <1>2 DEF SoundBegin, Narrow, OnlyOf, BoostLives
<1>4. \A v \in Writers \ {w} : Narrow(v)' /\ BoostLives(v)'
  BY <1>2 DEF Narrow, BoostLives
<1>. QED BY <1>3, <1>4

LEMMA WorkNarrow ==
  ASSUME AumTypes, NEW w \in Writers, Work(w) \/ Failure(w), Narrow(w), Named(w)
  PROVE  Narrow(w)'
<1>1. CASE Returns(w)
  <2>1. job'[w] = NoJob
    BY <1>1 DEF Returns, Quiet, Writing, GoesOn
  <2>2. DOMAIN <<>> = {} /\ NoJob.todo = <<>> /\ NoJob.done = <<>>
    BY DEF NoJob
  <2>. QED BY <2>1, <2>2 DEF Narrow, OnlyOf
<1>2. CASE Moves(w) \/ Compares(w) \/ Unanswered(w)
  BY <1>2 DEF Moves, Unchanged, Compares, Unanswered, SameJob, Narrow
<1>3. CASE Passes(w)
  <2>1. \A i \in DOMAIN Rest(w) : i + 1 \in DOMAIN job[w].todo /\ Rest(w)[i] = job[w].todo[i + 1]
    BY <1>3, ThisWriteTyped DEF Passes
  <2>. QED BY <1>3, <2>1 DEF Passes, Narrow, OnlyOf
<1>4. CASE Puts(w) \/ Learns(w)
  <2>. DEFINE x == ThisWrite(w)
              d == Append(job[w].done, x)
  <2>1. x \in WriteRecords /\ x = job[w].todo[1] /\ 1 \in DOMAIN job[w].todo /\ job[w].done \in Seq(WriteRecords)
    BY <1>4, ThisWriteTyped DEF Puts, Learns, AumTypes, JobRecords
  <2>2. \A i \in DOMAIN d : d[i] = x \/ (i \in DOMAIN job[w].done /\ d[i] = job[w].done[i])
    BY <2>1, Appended
  <2>3. job'[w].done = d /\ job'[w].todo = job[w].todo /\ job'[w].target = job[w].target /\ job'[w].snap = job[w].snap
    BY <1>4, FoundTyped DEF Puts, Learns, Named
  <2>. HIDE DEF d, x
  <2>4. OnlyOf(job[w].target, d, job[w].snap)
    BY <2>1, <2>2 DEF Narrow, OnlyOf
  <2>. QED BY <2>3, <2>4 DEF Narrow
<1>5. CASE Undoes(w)
  BY <1>5 DEF Undoes, Restored, Narrow, OnlyOf
<1>. QED BY <1>1, <1>2, <1>3, <1>4, <1>5, HandlerShape

LEMMA WorkLives ==
  ASSUME AumTypes, Calm, NEW w \in Writers, Work(w) \/ Failure(w), \A v \in Writers : Leased(v) /\ BoostLives(v)
  PROVE  \A v \in Writers : BoostLives(v)'
<1>0. /\ lease' = lease \/ (lease = w /\ lease' = NoWriter)
      /\ \A v \in Writers \ {w} : at'[v] = at[v] /\ SameJob(job'[v], job[v])
  BY WorkTypes, OthersKeep DEF Quiet, Writing, GoesOn
<1>1. CASE RecordBoost(w)
  <2>1. lease = w
    BY <1>1 DEF RecordBoost, Leased, Calm, Calling
  <2>2. /\ job' = job /\ lease' = lease
        /\ boosts' = [boosts EXCEPT ![job[w].boost] =
             [state |-> "pending", target |-> job[w].target, limit |-> job[w].amount,
              previous |-> Limit(job[w].snap, job[w].target)]]
    BY <1>1 DEF RecordBoost
  <2>3. job[w].boost # NoBoost => job[w].boost \in BoostIds
    BY DEF AumTypes, JobRecords
  <2>4. job[w].boost # NoBoost => boosts'[job[w].boost].state = "pending"
    BY <2>2, <2>3 DEF AumTypes
  <2>. QED BY <2>1, <2>2, <2>4 DEF BoostLives
<1>2. CASE StoreOutcome(w)
  <2>1. lease = w
    BY <1>2 DEF StoreOutcome, Leased, Calm, Calling
  <2>2. lease' = NoWriter
    BY <1>2, <2>1 DEF StoreOutcome, Finish
  <2>. QED BY <2>2, AumConstants DEF BoostLives
<1>3. CASE boosts' = boosts
  <2>1. ASSUME NEW v \in Writers \ {w} PROVE BoostLives(v)'
    BY <1>0, <1>3, <2>1, AumConstants DEF BoostLives, SameJob
  <2>2. at'[w] = "idle" \/ (at[w] # "idle" /\ job'[w].boost = job[w].boost)
    BY HandlerShape DEF Returns, Moves, Unchanged, Compares, Passes, Puts, Unanswered, Learns, Undoes, Restored, SameJob
  <2>3. BoostLives(w)'
    BY <1>0, <1>3, <2>2, AumConstants DEF BoostLives
  <2>. QED BY <2>1, <2>3
<1>. QED BY <1>1, <1>2, <1>3, TablesStep

CalmInv == OwnInv /\ Calm /\ \A w \in Writers : Leased(w) /\ Narrow(w) /\ Named(w) /\ BoostLives(w)

LEMMA StepKeepsNamed ==
  ASSUME CalmInv, Quick, [Next]_aumVars
  PROVE  \A w \in Writers : Named(w)'
<1>0. AumTypes /\ Calm /\ \A w \in Writers : Leased(w) /\ Named(w)
  BY DEF CalmInv, OwnInv
<1>1. CASE UNCHANGED aumVars
  BY <1>0, <1>1 DEF aumVars, Named, ThisWrite
<1>2. ASSUME NEW w \in Writers, Request(w) \/ Expire(w) PROVE \A v \in Writers : Named(v)'
  <2>1. PICK phase, target, boost, todo : Begun(w, phase, target, boost, todo)
    BY <1>0, <1>2, BeginTypes
  <2>2. /\ at'[w] # "asking" /\ gw' = gw
        /\ \A x \in Writers \ {w} : job'[x] = job[x] /\ at'[x] = at[x]
    BY <2>1 DEF Begun
  <2>. QED BY <1>0, <2>2 DEF Named, ThisWrite
<1>3. ASSUME NEW w \in Writers, Work(w) \/ Failure(w) PROVE \A v \in Writers : Named(v)'
  <2>1. ASSUME at'[w] = "asking"
        PROVE  gw'[ThisWrite(w)'.key] = ThisWrite(w)'.value
    <3>1. CASE Moves(w)
      <4>1. at[w] = "asking" /\ gw' = gw /\ job'[w].todo = job[w].todo
        BY <2>1, <3>1 DEF Moves, Unchanged, SameJob, Quiet
      <4>. QED BY <1>0, <4>1 DEF Named, ThisWrite
    <3>2. CASE Unanswered(w)
      <4>1. Writing(w, ThisWrite(w)) /\ job'[w].todo = job[w].todo
        BY <2>1, <3>2 DEF Unanswered, SameJob
      <4>2. gw'[ThisWrite(w).key] = ThisWrite(w).value
        BY <1>0, <4>1, Landed DEF Writing, AumTypes
      <4>. QED BY <4>1, <4>2 DEF ThisWrite
    <3>. QED BY <1>0, <1>3, <2>1, <3>1, <3>2, HandlerShape DEF Returns, Compares, Passes, Puts, Learns, Undoes
  <2>2. ASSUME NEW v \in Writers \ {w}, at'[v] = "asking"
        PROVE  gw'[ThisWrite(v)'.key] = ThisWrite(v)'.value
    <3>1. at[v] = "asking" /\ job'[v].todo = job[v].todo
      BY <1>0, <1>3, <2>2, WorkTypes, OthersKeep DEF SameJob
    <3>2. lease = v
      BY <1>0, <3>1 DEF Leased, Calm, Calling
    <3>3. at[w] \notin {"putting", "restoring"}
      BY <1>0, <3>2 DEF Leased, Calm, Calling
    <3>4. gw' = gw
      BY <1>0, <1>3, <3>3, HandlerShape DEF Returns, Moves, Compares, Passes, Puts, Unanswered, Learns, Undoes, Quiet
    <3>. QED BY <1>0, <3>1, <3>4 DEF Named, ThisWrite
  <2>. QED BY <2>1, <2>2 DEF Named
<1>4. CASE Outside
  <2>1. spent.edits \in Nat
    BY <1>0 DEF AumTypes
  <2>2. at' = at /\ gw' = gw /\ \A v \in Writers : SameJob(job'[v], job[v])
    BY <1>0, <1>4, <2>1, OutsideStep DEF Calm, Quick
  <2>. QED BY <1>0, <2>2 DEF Named, SameJob, ThisWrite
<1>. QED BY <1>1, <1>2, <1>3, <1>4 DEF Next, Outside

LEMMA StepKeepsNarrow ==
  ASSUME CalmInv, Quick, [Next]_aumVars
  PROVE  \A w \in Writers : Narrow(w)' /\ BoostLives(w)'
<1>0. AumTypes /\ Calm /\ \A w \in Writers : Leased(w) /\ Narrow(w) /\ Named(w) /\ BoostLives(w)
  BY DEF CalmInv, OwnInv
<1>1. CASE UNCHANGED aumVars
  BY <1>0, <1>1 DEF aumVars, Narrow, BoostLives
<1>2. ASSUME NEW w \in Writers, Request(w) \/ Expire(w) PROVE \A v \in Writers : Narrow(v)' /\ BoostLives(v)'
  BY <1>0, <1>2, BeginNarrow
<1>3. ASSUME NEW w \in Writers, Work(w) \/ Failure(w) PROVE \A v \in Writers : Narrow(v)' /\ BoostLives(v)'
  <2>1. \A v \in Writers \ {w} : SameJob(job'[v], job[v])
    BY <1>0, <1>3, WorkTypes, OthersKeep
  <2>2. \A v \in Writers \ {w} : Narrow(v)'
    BY <1>0, <2>1 DEF Narrow, SameJob
  <2>. QED BY <1>0, <1>3, <2>2, WorkNarrow, WorkLives
<1>4. CASE Outside
  <2>1. /\ at' = at /\ boosts' = boosts /\ (lease' = lease \/ lease' = NoWriter)
        /\ \A v \in Writers : SameJob(job'[v], job[v])
    BY <1>0, <1>4, OutsideStep
  <2>. QED BY <1>0, <2>1, AumConstants DEF Narrow, BoostLives, SameJob
<1>. QED BY <1>1, <1>2, <1>3, <1>4 DEF Next, Outside

THEOREM CalmInvariant == ASSUME Quick PROVE Spec => []CalmInv
<1>1. Init => CalmInv
  <2>. SUFFICES ASSUME Init PROVE CalmInv
    OBVIOUS
  <2>1. DOMAIN <<>> = {} /\ NoJob.todo = <<>> /\ NoJob.done = <<>>
    BY DEF NoJob
  <2>2. \A w \in Writers : OwnWrites(w) /\ Narrow(w)
    BY <2>1 DEF Init, OwnWrites, Distinct, Vouched, OneEach, Narrow, OnlyOf
  <2>3. Calm /\ \A w \in Writers : Leased(w) /\ Named(w) /\ BoostLives(w)
    BY DEF Init, Calm, Leased, Named, BoostLives, Calling
  <2>. QED BY <2>2, <2>3, InitTypes DEF CalmInv, OwnInv
<1>2. CalmInv /\ [Next]_aumVars => CalmInv'
  <2>. SUFFICES ASSUME CalmInv, [Next]_aumVars PROVE CalmInv'
    OBVIOUS
  <2>1. AumTypes /\ (\A w \in Writers : OwnWrites(w)) /\ Calm /\ (\A w \in Writers : Leased(w))
    BY DEF CalmInv, OwnInv
  <2>2. OwnInv'
    BY <2>1, StepKeepsTypes, StepKeepsOwn DEF OwnInv
  <2>3. Calm' /\ \A w \in Writers : Leased(w)'
    BY <2>1, StepKeepsCalm, StepKeepsLease
  <2>. QED BY <2>2, <2>3, StepKeepsNarrow, StepKeepsNamed DEF CalmInv
<1>. QED BY <1>1, <1>2, PTL DEF Spec

(* Two configurations agree about t. *)
SameFor(t, d, c) == Limit(d, t) = Limit(c, t) /\ (t \in Targets(d) <=> t \in Targets(c))

(* The limit of t depends on its own entry alone.                          *)
LEMMA LimitOf ==
  ASSUME NEW c \in Configs, NEW d \in Configs, NEW t \in Scopes, NEW x, t # x,
         d.reg = c.reg \/ SameButFor(x, d.reg, c.reg), d.ovr = c.ovr \/ SameButFor(x, d.ovr, c.ovr)
  PROVE  SameFor(t, d, c)
<1>. USE DEF SameFor, Targets
<1>1. DOMAIN c.reg \subseteq Units /\ DOMAIN d.reg \subseteq Units /\ DOMAIN c.ovr \subseteq Users /\ DOMAIN d.ovr \subseteq Users
  BY DEF Configs, MapsOf
<1>2. CASE t \in Units \cup Users
  BY <1>2 DEF SameButFor, Limit, Catalog
<1>3. CASE t \notin Units \cup Users
  BY <1>1, <1>3 DEF Limit, Catalog
<1>. QED BY <1>2, <1>3

(* A write changes the limit of its writer's target, and of nobody else.   *)
LEMMA WriteIsNarrow ==
  ASSUME AumTypes, NEW w \in Writers, Work(w) \/ Failure(w), OwnWrites(w), Narrow(w), NEW t \in Scopes, t # job[w].target
  PROVE  SameFor(t, gw', gw)
<1>0. gw \in Configs /\ \A c \in Configs : c["reg"] = c.reg /\ c["ovr"] = c.ovr
  BY DEF AumTypes
<1>1. ASSUME NEW x \in WriteRecords, gw' = With(gw, x.key, x.value),
             x.key = "reg" => SameButFor(job[w].target, x.value, gw.reg),
             x.key = "ovr" => SameButFor(job[w].target, x.value, gw.ovr)
      PROVE  SameFor(t, gw', gw)
  <2>1. gw' \in Configs /\ gw'[x.key] = x.value /\ \A k \in Keys \ {x.key} : gw'[k] = gw[k]
    BY <1>0, <1>1, Landed
  <2>2. gw'.reg = gw.reg \/ SameButFor(job[w].target, gw'.reg, gw.reg)
    BY <1>0, <1>1, <2>1 DEF Keys
  <2>3. gw'.ovr = gw.ovr \/ SameButFor(job[w].target, gw'.ovr, gw.ovr)
    BY <1>0, <1>1, <2>1 DEF Keys
  <2>. QED BY <1>0, <2>1, <2>2, <2>3, LimitOf
<1>2. ASSUME at[w] = "putting", job[w].todo # <<>>, Writing(w, ThisWrite(w)) PROVE SameFor(t, gw', gw)
  <2>. DEFINE x == ThisWrite(w)
  <2>1. x \in WriteRecords /\ x = job[w].todo[1] /\ 1 \in DOMAIN job[w].todo /\ gw' = With(gw, x.key, x.value)
        /\ x.key \in job[w].fresh
    BY <1>2, ThisWriteTyped DEF Writing
  <2>2. gw[x.key] = job[w].snap[x.key]
    BY <1>2, <2>1 DEF OwnWrites, Vouched
  <2>3. /\ x.key = "reg" => SameButFor(job[w].target, x.value, job[w].snap.reg)
        /\ x.key = "ovr" => SameButFor(job[w].target, x.value, job[w].snap.ovr)
    BY <2>1 DEF Narrow, OnlyOf
  <2>. HIDE DEF x
  <2>4. job[w].snap \in Configs
    BY DEF AumTypes, JobRecords
  <2>. QED BY <1>0, <1>1, <2>1, <2>2, <2>3, <2>4
<1>3. ASSUME at[w] = "restoring", job[w].done # <<>>, Writing(w, RestoreOf(w)) PROVE SameFor(t, gw', gw)
  <2>. DEFINE x == RestoreOf(w)
              n == Len(job[w].done)
  <2>1. /\ x \in WriteRecords /\ x.key = job[w].done[n].key /\ n \in DOMAIN job[w].done
        /\ x.value = job[w].snap[x.key] /\ gw' = With(gw, x.key, x.value) /\ x.key \in job[w].fresh
    BY <1>3, ReceiptTyped DEF Writing, Receipt
  <2>2. gw[x.key] = job[w].done[n].value
    BY <2>1 DEF OwnWrites, Vouched
  <2>3. /\ x.key = "reg" => SameButFor(job[w].target, job[w].done[n].value, job[w].snap.reg)
        /\ x.key = "ovr" => SameButFor(job[w].target, job[w].done[n].value, job[w].snap.ovr)
    BY <2>1 DEF Narrow, OnlyOf
  <2>. HIDE DEF x, n
  <2>4. job[w].snap \in Configs
    BY DEF AumTypes, JobRecords
  <2>5. \A f, g : SameButFor(job[w].target, f, g) => SameButFor(job[w].target, g, f)
    BY DEF SameButFor
  <2>. QED BY <1>0, <1>1, <2>1, <2>2, <2>3, <2>4, <2>5
<1>4. \/ gw' = gw
      \/ at[w] = "putting" /\ job[w].todo # <<>> /\ Writing(w, ThisWrite(w))
      \/ at[w] = "restoring" /\ job[w].done # <<>> /\ Writing(w, RestoreOf(w))
  BY HandlerShape DEF Returns, Moves, Compares, Passes, Puts, Unanswered, Learns, Undoes, Quiet
<1>. QED BY <1>2, <1>3, <1>4 DEF SameFor

(* BoostStaysOver, for any boosts and writers: what is under way for a     *)
(* boost ends before another handler can record the boost as over.         *)
THEOREM BoostIsOver == ASSUME Quick PROVE Spec => BoostStaysOver
<1>. DEFINE A == \A b \in BoostIds :
        LET t == boosts[b].target
            back == /\ boosts[b].state = "expired"
                    /\ Limit(gw, t) # boosts[b].limit /\ Limit(gw', t) = boosts[b].limit
        IN back => \E w \in Writers : job[w].target = t /\ job[w].boost # b
<1>1. ASSUME CalmInv, Next PROVE A
  <2>. SUFFICES ASSUME NEW b \in BoostIds, boosts[b].state = "expired",
                       Limit(gw, boosts[b].target) # Limit(gw', boosts[b].target)
                PROVE  \E w \in Writers : job[w].target = boosts[b].target /\ job[w].boost # b
    OBVIOUS
  <2>1. AumTypes /\ Calm /\ \A w \in Writers : OwnWrites(w) /\ Leased(w) /\ Narrow(w) /\ BoostLives(w)
    BY <1>1 DEF CalmInv, OwnInv
  <2>2. gw' # gw
    OBVIOUS
  <2>3. PICK w \in Writers : Work(w) \/ Failure(w)
    BY <1>1, <2>1, <2>2, StepKeepsCalm
  <2>4. at[w] \in {"putting", "restoring"}
    BY <2>1, <2>2, <2>3, HandlerShape DEF Returns, Moves, Compares, Passes, Puts, Unanswered, Learns, Undoes, Quiet
  <2>5. lease = w /\ at[w] # "idle"
    BY <2>1, <2>4 DEF Leased, Calm, Calling
  <2>6. job[w].boost # b
    BY <2>1, <2>5, AumConstants DEF BoostLives
  <2>7. boosts[b].target \in Scopes
    BY <2>1 DEF AumTypes, BoostRecords
  <2>8. job[w].target = boosts[b].target
    BY <2>1, <2>3, <2>7, WriteIsNarrow DEF SameFor
  <2>. QED BY <2>6, <2>8
<1>2. CalmInv /\ [Next]_aumVars => [A]_aumVars
  BY <1>1
<1>. QED BY <1>2, CalmInvariant, PTL DEF Spec, BoostStaysOver

-----------------------------------------------------------------------------
(* ------------------ the budgets as the ledger sees them ------------------ *)
(* A live boost is above what it restores, its target is there, and it is  *)
(* the only one of its target.                                             *)
Records ==
    /\ \A b \in BoostIds : Live(b) =>
        boosts[b].previous < boosts[b].limit /\ boosts[b].target \in Targets(gw)
    /\ \A a, b \in BoostIds : Live(a) /\ Live(b) /\ boosts[a].target = boosts[b].target => a = b

(* Every write of s gives the target of j the amount of j.                 *)
Makes(j, s) == \A i \in DOMAIN s :
    s[i].key = KeyOf(j.target) /\ s[i].value = Changed(j.snap, j.target, j.amount)

(* What a change is admitted with: the boosts table is the one it was      *)
(* checked against, and a boost or its end is about one limit.             *)
Authorised(phase, kind, target, amount, boost, todo) ==
    /\ boost = NoBoost /\ phase # "mapping" => Boosting(target) = {}
    /\ boost # NoBoost =>
        /\ target \in Targets(gw) /\ amount \in Nat /\ boost \in BoostIds
        /\ todo \in {<<>>, WriteLimit(target, amount)}
        /\ \/ /\ kind = "boost" /\ phase = "recording" /\ ~Live(boost)
              /\ Boosting(target) = {} /\ Limit(gw, target) < amount
           \/ /\ kind \in {"expired", "superseded"} /\ phase = "checking" /\ Live(boost)
              /\ boosts[boost].target = target /\ boosts[boost].previous = amount
              /\ todo = <<>> <=> Limit(gw, target) # boosts[boost].limit

LEMMA RequestAuthorised ==
  ASSUME AumTypes, Records, NEW w \in Writers, Request(w) \/ Expire(w)
  PROVE  \E phase, kind, target, amount, boost, todo :
            /\ Begin(w, phase, kind, target, amount, boost, todo)
            /\ Authorised(phase, kind, target, amount, boost, todo)
<1>a. \A t : (t \notin Targets(gw) => Boosting(t) = {}) /\ Targets(gw) = Catalog(gw) \cup Users
  BY DEF Records, Boosting, Targets
<1>1. CASE SetBudget(w)
  <2>1. PICK t \in Targets(gw), amount \in Amounts \cup {0} :
            PlanAccepted(t, amount, FALSE) /\ Begin(w, "checking", "set", t, amount, NoBoost, WriteLimit(t, amount))
    BY <1>1 DEF SetBudget
  <2>2. Boosting(t) = {}
    BY <2>1 DEF PlanAccepted
  <2>. QED BY <2>1, <2>2 DEF Authorised
<1>2. CASE Boost(w)
  <2>1. PICK t \in Targets(gw), amount \in Amounts :
          /\ PlanAccepted(t, amount, FALSE)
          /\ Baseline(t) > 0 /\ amount > Baseline(t)
          /\ \E b \in UnusedBoosts : Begin(w, "recording", "boost", t, amount, b, WriteLimit(t, amount))
    BY <1>2 DEF Boost
  <2>2. PICK b \in UnusedBoosts : Begin(w, "recording", "boost", t, amount, b, WriteLimit(t, amount))
    BY <2>1
  <2>3. Boosting(t) = {}
    BY <2>1 DEF PlanAccepted
  <2>4. b \in BoostIds /\ ~Live(b) /\ amount \in Nat
    BY AumConstants DEF UnusedBoosts, NoRecord, Live
  <2>5. Limit(gw, t) < amount
    <3>1. Limit(gw, t) \in Nat /\ gw.tier \in Nat
      BY LimitTyped, <2>4 DEF AumTypes, Configs
    <3>. QED BY <2>1, <2>4, <3>1 DEF Baseline
  <2>. QED BY <2>2, <2>3, <2>4, <2>5, AumConstants DEF Authorised
<1>3. CASE AddUnit(w)
  <2>1. PICK x \in Units \ Catalog(gw) : \E todo : Begin(w, "checking", "add", x, 0, NoBoost, todo)
    BY <1>3 DEF AddUnit
  <2>2. x \notin Targets(gw)
    BY RegistryConstants, <1>a
  <2>. QED BY <1>a, <2>1, <2>2 DEF Authorised
<1>4. CASE MoveUnit(w)
  <2>1. PICK x \in Catalog(gw), p \in Catalog(gw) \cup {NoUnit} :
          LET c == Rows(Catalog(gw), Under(x, p))
          IN  c # gw /\ CatalogAccepted(c) /\ Begin(w, "checking", "move", x, 0, NoBoost, Writes(c))
    BY <1>4 DEF MoveUnit
  <2>. DEFINE c == Rows(Catalog(gw), Under(x, p))
  <2>2. c # gw /\ CatalogAccepted(c) /\ Begin(w, "checking", "move", x, 0, NoBoost, Writes(c))
    BY <2>1
  <2>3. ParentIn(c, x) # ParentIn(gw, x)
    <3>0. gw \in Configs /\ x \in Units /\ x \notin Users /\ NoUnit \notin Units
      BY RegistryConstants DEF AumTypes, Configs, MapsOf, Catalog
    <3>1. [y \in Catalog(gw) |-> IF y \in Catalog(gw) THEN gw.reg[y] ELSE 0] = gw.reg
      BY <3>0 DEF Catalog, Configs, MapsOf
    <3>2. c = [gw EXCEPT !.reg = gw.reg, !.par = Under(x, p)]
      BY <3>1 DEF Rows
    <3>3. c.par = Under(x, p) /\ (Under(x, p) = gw.par => c = gw)
      BY <3>0, <3>2 DEF Configs
    <3>4. IsMap(gw.par, Units, Units)
      BY <3>0, ConfigOf DEF IsConfig
    <3>5. ASSUME ParentIn(c, x) = ParentIn(gw, x) PROVE Under(x, p) = gw.par
      <4>1. CASE p = NoUnit
        <5>1. Under(x, p) = Unparented(x)
          BY <4>1 DEF Under
        <5>2. x \notin DOMAIN Unparented(x)
          BY DEF Unparented
        <5>3. x \notin DOMAIN gw.par
          BY <3>0, <3>3, <3>4, <3>5, <5>1, <5>2 DEF ParentIn, IsMap
        <5>. QED BY <3>4, <5>1, <5>3 DEF Unparented, IsMap
      <4>2. CASE p # NoUnit
        <5>1. Under(x, p) = Assigned(gw.par, x, p) /\ p \in Units
          BY <3>0, <4>2 DEF Under, AumTypes, Configs, MapsOf, Catalog
        <5>2. ParentIn(c, x) = p
          BY <3>0, <3>3, <5>1 DEF ParentIn, Assigned
        <5>3. x \in DOMAIN gw.par /\ gw.par[x] = p
          BY <3>0, <3>5, <4>2, <5>2 DEF ParentIn
        <5>. QED BY <3>4, <5>1, <5>3 DEF Assigned, IsMap
      <4>. QED BY <4>1, <4>2
    <3>. QED BY <2>2, <3>3, <3>5
  <2>4. Boosting(x) = {}
    BY <2>2, <2>3 DEF CatalogAccepted
  <2>. QED BY <2>2, <2>4 DEF Authorised
<1>5. CASE RemoveUnit(w)
  <2>1. PICK x \in Catalog(gw) :
          LET c == Rows(Catalog(gw) \ {x}, Unparented(x))
          IN  /\ CatalogAccepted(c)
              /\ Begin(w, IF x \in managers THEN "revoking" ELSE "checking", "remove", x, 0, NoBoost, Writes(c))
    BY <1>5 DEF RemoveUnit
  <2>. DEFINE c == Rows(Catalog(gw) \ {x}, Unparented(x))
              phase == IF x \in managers THEN "revoking" ELSE "checking"
  <2>2. CatalogAccepted(c) /\ Begin(w, phase, "remove", x, 0, NoBoost, Writes(c))
    BY <2>1
  <2>3. x \notin Catalog(c)
    BY DEF Rows, Catalog, AumTypes, Configs
  <2>4. Boosting(x) = {}
    BY <2>2, <2>3 DEF CatalogAccepted
  <2>. QED BY <2>2, <2>4 DEF Authorised
<1>6. CASE SetTier(w)
  <2>1. PICK amount, todo : Begin(w, "checking", "tier", NoUnit, amount, NoBoost, todo)
    BY <1>6 DEF SetTier
  <2>2. NoUnit \notin Targets(gw)
    BY RegistryConstants, <1>a DEF AumTypes, Configs, MapsOf, Catalog
  <2>. QED BY <1>a, <2>1, <2>2 DEF Authorised
<1>7. CASE SetManager(w)
  <2>1. PICK x, group : Begin(w, "mapping", "manager", x, group, NoBoost, <<>>)
    BY <1>7 DEF SetManager
  <2>. QED BY <2>1 DEF Authorised
<1>8. CASE Expire(w)
  <2>1. PICK b \in due :
          LET t == boosts[b].target
              current == Limit(gw, t)
              previous == boosts[b].previous
          IN  /\ Live(b) /\ t \in Targets(gw)
              /\ Begin(w, "checking",
                     IF current \in {boosts[b].limit, previous} THEN "expired" ELSE "superseded",
                     t, previous, b,
                     IF current = boosts[b].limit THEN WriteLimit(t, previous) ELSE <<>>)
    BY <1>8 DEF Expire
  <2>. DEFINE t == boosts[b].target
              previous == boosts[b].previous
              kind == IF Limit(gw, t) \in {boosts[b].limit, previous} THEN "expired" ELSE "superseded"
              todo == IF Limit(gw, t) = boosts[b].limit THEN WriteLimit(t, previous) ELSE <<>>
  <2>2. Live(b) /\ t \in Targets(gw) /\ Begin(w, "checking", kind, t, previous, b, todo)
    BY <2>1
  <2>3. b \in BoostIds /\ previous \in Nat /\ b # NoBoost
    BY AumConstants DEF AumTypes, BoostRecords
  <2>4. kind \in {"expired", "superseded"} /\ (todo = <<>> <=> Limit(gw, t) # boosts[b].limit)
        /\ todo \in {<<>>, WriteLimit(t, previous)}
    BY DEF WriteLimit
  <2>5. Authorised("checking", kind, t, previous, b, todo)
    BY <2>2, <2>3, <2>4 DEF Authorised
  <2>. QED BY <2>2, <2>5
<1>. QED BY <1>1, <1>2, <1>3, <1>4, <1>5, <1>6, <1>7, <1>8 DEF Request

(* The named value of t decides its limit. *)
LEMMA WrittenLimit ==
  ASSUME NEW c \in Configs, NEW d \in Configs, NEW t \in Targets(c)
  PROVE  /\ d[KeyOf(t)] = c[KeyOf(t)] => Limit(d, t) = Limit(c, t) /\ t \in Targets(d)
         /\ \A a \in Nat : d[KeyOf(t)] = Changed(c, t, a) => Limit(d, t) = a /\ t \in Targets(d)
<1>0. /\ DOMAIN c.reg \subseteq Units /\ DOMAIN d.reg \subseteq Units /\ Units \cap Users = {}
      /\ c["reg"] = c.reg /\ d["reg"] = d.reg /\ c["ovr"] = c.ovr /\ d["ovr"] = d.ovr
      /\ c.reg \in [DOMAIN c.reg -> Nat]
  BY RegistryConstants DEF Configs, MapsOf
<1>1. CASE t \in Users
  <2>1. KeyOf(t) = "ovr" /\ t \in Targets(d) /\ t \notin Catalog(c) /\ t \notin Catalog(d)
    BY <1>0, <1>1 DEF KeyOf, Targets, Catalog
  <2>2. ASSUME NEW a \in Nat, d.ovr = Changed(c, t, a) PROVE Limit(d, t) = a
    BY <1>1, <2>1, <2>2 DEF Limit, Changed, Assigned
  <2>. QED BY <1>0, <2>1, <2>2 DEF Limit
<1>2. CASE t \notin Users
  <2>1. KeyOf(t) = "reg" /\ t \in DOMAIN c.reg
    BY <1>0, <1>2 DEF KeyOf, Targets, Catalog
  <2>2. ASSUME NEW a \in Nat, d.reg = Changed(c, t, a) PROVE Limit(d, t) = a /\ t \in Catalog(d)
    BY <1>0, <1>2, <2>1, <2>2 DEF Limit, Changed, Catalog
  <2>. QED BY <1>0, <2>1, <2>2 DEF Limit, Targets, Catalog
<1>. QED BY <1>1, <1>2
(* The boost of a handler, its target's limit and what it would make of it *)
(* fit together: a boost goes from what it restores to its limit, an end   *)
(* back, and whoever is about to store the end has left the limit.         *)
Planned(w) ==
    LET j == job[w]
        base == Limit(j.snap, j.target)
        now == Limit(gw, j.target)
        record == boosts[j.boost]
    IN  j.boost # NoBoost =>
        /\ at[w] \notin {"mapping", "revoking"} /\ j.kind \in Boostings
        /\ j.target \in Targets(j.snap) /\ j.target \in Targets(gw)
        /\ Makes(j, j.todo) /\ Makes(j, j.done)
        /\ now \in {base, j.amount}
        /\ at[w] \in {"asking", "verifying"} => now = j.amount
        /\ at[w] = "recording" => /\ j.kind = "boost" /\ ~Live(j.boost) /\ Boosting(j.target) = {}
                                  /\ now = base /\ base < j.amount
        /\ at[w] # "recording" => /\ Live(j.boost) /\ record.target = j.target
                                  /\ j.kind = "boost" => record.limit = j.amount /\ record.previous = base
        /\ j.kind # "boost" =>
            /\ record.previous = j.amount
            /\ j.todo # <<>> \/ j.done # <<>> => base = record.limit
            /\ at[w] = "storing" \/ (at[w] = "checking" /\ j.todo = <<>>) => now # record.limit

(* Nothing but a boost is done with a boosted target. *)
Alone(w) == job[w].boost = NoBoost /\ at[w] # "mapping" => Boosting(job[w].target) = {}
Held(w) == lease = w /\ at[w] # "idle" => Planned(w) /\ Alone(w)

(* What a boost or its end makes of the limit of its target. *)
LEMMA LimitNext ==
  ASSUME AumTypes, NEW w \in Writers, Work(w) \/ Failure(w), Planned(w), job[w].boost # NoBoost
  PROVE  LET j == job[w]
         IN  /\ j.target \in Targets(gw')
             /\ Limit(gw', j.target) \in {Limit(j.snap, j.target), j.amount}
             /\ j.todo # <<>> /\ Writing(w, ThisWrite(w)) => Limit(gw', j.target) = j.amount
             /\ at[w] \notin {"putting", "restoring"} => gw' = gw
<1>. DEFINE j == job[w]
            k == KeyOf(j.target)
<1>0. /\ gw \in Configs /\ j.snap \in Configs /\ j.amount \in Nat /\ j.target \in Targets(j.snap)
      /\ j.target \in Targets(gw) /\ Limit(gw, j.target) \in {Limit(j.snap, j.target), j.amount}
      /\ Makes(j, j.todo) /\ Makes(j, j.done)
  BY DEF AumTypes, JobRecords, Planned
<1>1. ASSUME j.todo # <<>>, Writing(w, ThisWrite(w))
      PROVE  j.target \in Targets(gw') /\ Limit(gw', j.target) = j.amount
  <2>1. /\ ThisWrite(w) \in WriteRecords /\ ThisWrite(w).key = k
        /\ ThisWrite(w).value = Changed(j.snap, j.target, j.amount)
    BY <1>0, <1>1, ThisWriteTyped DEF Makes
  <2>2. gw' \in Configs /\ gw'[k] = Changed(j.snap, j.target, j.amount)
    BY <1>0, <1>1, <2>1, Landed DEF Writing
  <2>. HIDE DEF j, k
  <2>. QED BY <1>0, <2>2, WrittenLimit DEF k
<1>2. ASSUME j.done # <<>>, Writing(w, RestoreOf(w))
      PROVE  j.target \in Targets(gw') /\ Limit(gw', j.target) = Limit(j.snap, j.target)
  <2>1. RestoreOf(w) \in WriteRecords /\ RestoreOf(w).key = k /\ RestoreOf(w).value = j.snap[k]
    BY <1>0, <1>2, ReceiptTyped DEF Makes, Receipt
  <2>2. gw' \in Configs /\ gw'[k] = j.snap[k]
    BY <1>0, <1>2, <2>1, Landed DEF Writing
  <2>. HIDE DEF j, k
  <2>. QED BY <1>0, <2>2, WrittenLimit DEF k
<1>3. \/ gw' = gw
      \/ at[w] = "putting" /\ j.todo # <<>> /\ Writing(w, ThisWrite(w))
      \/ at[w] = "restoring" /\ j.done # <<>> /\ Writing(w, RestoreOf(w))
  BY HandlerShape DEF Returns, Moves, Compares, Passes, Puts, Unanswered, Learns, Undoes, Quiet
<1>. HIDE DEF j
<1>. QED BY <1>0, <1>1, <1>2, <1>3 DEF j
(* A handler that goes on keeps to its plan, as long as the table is left alone. *)
LEMMA PlanGoesOn ==
  ASSUME AumTypes, NEW w \in Writers, Work(w) \/ Failure(w), ~RecordBoost(w), boosts' = boosts,
         Records, Planned(w), Named(w), at'[w] # "idle"
  PROVE  Planned(w)'
<1>. SUFFICES ASSUME job'[w].boost # NoBoost PROVE Planned(w)'
  BY DEF Planned
<1>1. \/ Moves(w) /\ (at[w] = "recording" => at'[w] = "recording")
      \/ Compares(w) \/ Passes(w) \/ Puts(w) \/ Unanswered(w) \/ Learns(w) \/ Undoes(w)
  BY HandlerShape DEF Returns, Moves
<1>2. /\ job'[w].kind = job[w].kind /\ job'[w].target = job[w].target /\ job'[w].amount = job[w].amount
      /\ job'[w].boost = job[w].boost /\ job'[w].snap = job[w].snap
  BY <1>1 DEF Moves, Unchanged, Compares, Passes, Puts, Unanswered, Learns, Undoes, Restored, SameJob
<1>3. LET j == job[w]
      IN  /\ j.target \in Targets(gw')
          /\ Limit(gw', j.target) \in {Limit(j.snap, j.target), j.amount}
          /\ j.todo # <<>> /\ Writing(w, ThisWrite(w)) => Limit(gw', j.target) = j.amount
          /\ at[w] \notin {"putting", "restoring"} => gw' = gw
  BY <1>2, LimitNext
<1>4. \A b \in BoostIds : Live(b)' = Live(b)
  BY DEF Live
<1>5. Live(job[w].boost)' = Live(job[w].boost) /\ Boosting(job[w].target)' = Boosting(job[w].target)
  BY <1>2, <1>4 DEF Boosting, Live
<1>6. CASE Moves(w) \/ Compares(w) \/ (Unanswered(w) /\ at'[w] = "rolling")
  <2>1. job'[w].todo = job[w].todo /\ job'[w].done = job[w].done
    BY <1>6 DEF Moves, Unchanged, Compares, Unanswered, Learns, SameJob
  <2>2. /\ at[w] = "recording" <=> at'[w] = "recording"
        /\ at'[w] \in {"asking", "verifying"} => at[w] = at'[w]
        /\ at'[w] \in {"mapping", "revoking"} => at'[w] = at[w]
        /\ at'[w] = "checking" => at[w] \in {"checking", "revoking"}
        /\ at'[w] = "storing" => at[w] = "storing" \/ (at[w] = "checking" /\ job[w].todo = <<>>)
    BY <1>1, <1>6 DEF Moves, Compares, Unanswered, Learns
  <2>3. at'[w] \in {"checking", "storing", "asking", "verifying", "recording"} => gw' = gw
    BY <1>3, <2>2
  <2>. QED BY <1>2, <1>3, <1>5, <2>1, <2>2, <2>3 DEF Planned, Makes
<1>7. CASE Passes(w)
  <2>1. /\ job[w].todo # <<>> /\ job'[w].todo = Rest(w) /\ job'[w].done = job[w].done
        /\ at[w] \in {"checking", "verifying"} /\ at'[w] = "checking" /\ gw' = gw
        /\ at[w] = "checking" => gw[ThisWrite(w).key] = ThisWrite(w).value
    BY <1>7 DEF Passes, Quiet
  <2>2. Makes(job[w], Rest(w))
    BY <1>2, <2>1, ThisWriteTyped DEF Planned, Makes
  <2>3. Limit(gw, job[w].target) = job[w].amount
    <3>1. CASE at[w] = "verifying"
      BY <1>2, <3>1 DEF Planned
    <3>2. CASE at[w] = "checking"
      <4>1. gw[KeyOf(job[w].target)] = Changed(job[w].snap, job[w].target, job[w].amount)
        BY <1>2, <2>1, <3>2, ThisWriteTyped DEF Planned, Makes
      <4>2. /\ gw \in Configs /\ job[w].snap \in Configs /\ job[w].amount \in Nat
            /\ job[w].target \in Targets(job[w].snap)
        BY <1>2 DEF Planned, AumTypes, JobRecords
      <4>. QED BY <4>1, <4>2, WrittenLimit
    <3>. QED BY <2>1, <3>1, <3>2
  <2>4. job[w].kind # "boost" => job[w].amount < boosts[job[w].boost].limit
    <3>1. job[w].boost \in BoostIds
      BY <1>2 DEF AumTypes, JobRecords
    <3>. QED BY <1>2, <2>1, <3>1 DEF Planned, Records
  <2>5. job[w].kind # "boost" => Limit(gw, job[w].target) # boosts[job[w].boost].limit
    <3>1. job[w].boost \in BoostIds
      BY <1>2 DEF AumTypes, JobRecords
    <3>2. boosts[job[w].boost].limit \in Nat /\ job[w].amount \in Nat
      BY <3>1 DEF AumTypes, BoostRecords, JobRecords
    <3>. QED BY <2>3, <2>4, <3>2
  <2>. QED BY <1>2, <1>3, <1>5, <2>1, <2>2, <2>3, <2>5 DEF Planned, Makes
<1>8. CASE Puts(w) \/ Learns(w)
  <2>. DEFINE x == ThisWrite(w)
              d == Append(job[w].done, x)
  <2>1. x \in WriteRecords /\ x = job[w].todo[1] /\ 1 \in DOMAIN job[w].todo /\ job[w].done \in Seq(WriteRecords)
    BY <1>8, ThisWriteTyped DEF Puts, Learns, AumTypes, JobRecords
  <2>2. \A i \in DOMAIN d : d[i] = x \/ (i \in DOMAIN job[w].done /\ d[i] = job[w].done[i])
    BY <2>1, Appended
  <2>3. /\ job'[w].done = d /\ job'[w].todo = job[w].todo /\ job[w].todo # <<>>
        /\ at[w] \in {"putting", "asking"} /\ at'[w] = "verifying"
    BY <1>8, FoundTyped DEF Puts, Learns, Named
  <2>. HIDE DEF d, x
  <2>4. Makes(job[w], d)
    BY <1>2, <2>1, <2>2 DEF Planned, Makes
  <2>5. Limit(gw', job[w].target) = job[w].amount
    <3>1. CASE Puts(w)
      BY <1>3, <3>1 DEF Puts
    <3>2. CASE Learns(w)
      BY <1>2, <3>2 DEF Learns, Quiet, Planned
    <3>. QED BY <1>8, <3>1, <3>2
  <2>. QED BY <1>2, <1>3, <1>5, <2>3, <2>4, <2>5 DEF Planned, Makes
<1>9. CASE Undoes(w)
  <2>1. /\ at[w] \in {"rolling", "restoring"} /\ at'[w] = "rolling" /\ job[w].done # <<>>
        /\ job'[w].todo = job[w].todo
        /\ \A i \in DOMAIN job'[w].done : i \in DOMAIN job[w].done /\ job'[w].done[i] = job[w].done[i]
    BY <1>9 DEF Undoes, Restored
  <2>2. Makes(job'[w], job'[w].done) /\ Makes(job'[w], job'[w].todo)
    BY <1>2, <2>1 DEF Planned, Makes
  <2>. QED BY <1>2, <1>3, <1>5, <2>1, <2>2 DEF Planned
<1>10. CASE Unanswered(w) /\ at'[w] = "asking"
  <2>1. /\ Limit(gw', job[w].target) = job[w].amount /\ at[w] = "putting"
        /\ job'[w].todo = job[w].todo /\ job'[w].done = job[w].done
    BY <1>3, <1>10 DEF Unanswered, SameJob
  <2>. QED BY <1>2, <1>3, <1>5, <1>10, <2>1 DEF Planned, Makes
<1>. QED BY <1>1, <1>6, <1>7, <1>8, <1>9, <1>10 DEF Unanswered
LedgerInv == CalmInv /\ Records /\ \A w \in Writers : Held(w)

LEMMA RecordedBoost ==
  ASSUME AumTypes, Records, NEW w \in Writers, RecordBoost(w), lease = w, Held(w)
  PROVE  /\ Records' /\ \A v \in Writers : Held(v)'
         /\ \A c \in BoostIds : c # job[w].boost => boosts'[c] = boosts[c]
         /\ job[w].boost \in BoostIds =>
              /\ ~Live(job[w].boost) /\ Boosting(job[w].target) = {}
              /\ boosts'[job[w].boost].target = job[w].target
              /\ boosts'[job[w].boost].limit # Limit(gw, job[w].target)
<1>. DEFINE b == job[w].boost
            base == Limit(job[w].snap, job[w].target)
            r == [state |-> "pending", target |-> job[w].target, limit |-> job[w].amount, previous |-> base]
<1>1. /\ at[w] = "recording" /\ at' = [at EXCEPT ![w] = "checking"]
      /\ boosts' = [boosts EXCEPT ![b] = r] /\ UNCHANGED <<gw, lease, job>>
  BY DEF RecordBoost, Goto
<1>2. at'[w] = "checking" /\ w # NoWriter
  BY <1>1, AumConstants DEF AumTypes
<1>3. ASSUME NEW v \in Writers \ {w} PROVE Held(v)'
  BY <1>1 DEF Held
<1>4. b \in BoostIds \/ b = NoBoost
  BY DEF AumTypes, JobRecords
<1>5. CASE b = NoBoost
  <2>1. boosts' = boosts
    BY <1>1, <1>5, AumConstants DEF AumTypes
  <2>2. Records' /\ (\A t : Boosting(t)' = Boosting(t))
    BY <1>1, <2>1 DEF Records, Live, Boosting
  <2>3. Held(w)'
    BY <1>1, <1>2, <1>5, <2>2 DEF Held, Alone, Planned
  <2>. QED BY <1>3, <1>5, <2>1, <2>2, <2>3, AumConstants
<1>6. CASE b \in BoostIds
  <2>1. /\ job[w].kind = "boost" /\ ~Live(b) /\ Boosting(job[w].target) = {}
        /\ Limit(gw, job[w].target) = base /\ base < job[w].amount /\ b # NoBoost
        /\ job[w].target \in Targets(gw) /\ job[w].target \in Targets(job[w].snap)
        /\ Makes(job[w], job[w].todo) /\ Makes(job[w], job[w].done)
    BY <1>1, <1>6, AumConstants DEF Held, Planned
  <2>2. base \in Nat /\ job[w].amount \in Nat
    BY <2>1, LimitTyped DEF AumTypes, JobRecords
  <2>3. boosts'[b] = r /\ \A c \in BoostIds \ {b} : boosts'[c] = boosts[c]
    BY <1>1, <1>6 DEF AumTypes
  <2>4. /\ boosts'[b].state = "pending" /\ boosts'[b].target = job[w].target
        /\ boosts'[b].limit = job[w].amount /\ boosts'[b].previous = base
    BY <2>3
  <2>. HIDE DEF base, r
  <2>5. Live(b)' /\ \A c \in BoostIds \ {b} : Live(c)' = Live(c)
    BY <1>1, <2>3, <2>4 DEF Live
  <2>6. \A c \in BoostIds : Live(c) => boosts[c].target # job[w].target
    BY <2>1 DEF Boosting
  <2>7. Records'
    BY <1>1, <1>6, <2>1, <2>3, <2>4, <2>5, <2>6 DEF Records
  <2>8. Planned(w)'
    BY <1>1, <1>2, <2>1, <2>4, <2>5 DEF Planned, Makes, base, Boostings
  <2>9. Held(w)'
    BY <1>1, <2>1, <2>8 DEF Held, Alone
  <2>10. boosts'[b].limit # Limit(gw, job[w].target)
    BY <2>1, <2>2, <2>4
  <2>. QED BY <1>3, <2>1, <2>3, <2>4, <2>7, <2>9, <2>10
<1>. QED BY <1>4, <1>5, <1>6

LEMMA StoredOutcome ==
  ASSUME AumTypes, Records, NEW w \in Writers, StoreOutcome(w), lease = w, Held(w)
  PROVE  /\ Records' /\ \A v \in Writers : Held(v)'
         /\ \A c \in BoostIds : /\ boosts'[c].target = boosts[c].target /\ boosts'[c].limit = boosts[c].limit
                                /\ boosts'[c].previous = boosts[c].previous
                                /\ Live(c)' => Live(c)
                                /\ Live(c) => \/ Live(c)'
                                              \/ Limit(gw, boosts[c].target) # boosts[c].limit
<1>. DEFINE b == job[w].boost
            o == IF job[w].kind = "boost" THEN "active" ELSE job[w].kind
<1>1. /\ at[w] = "storing" /\ lease' = NoWriter /\ gw' = gw /\ boosts' = [boosts EXCEPT ![b].state = o]
      /\ job[w].kind \in Boostings
  BY DEF StoreOutcome, Finish, AumTypes
<1>2. o \in {"active", "expired", "superseded"} /\ (o = "active" <=> job[w].kind = "boost")
  BY <1>1 DEF Boostings
<1>. HIDE DEF o
<1>3. \A c \in BoostIds : /\ boosts'[c].target = boosts[c].target /\ boosts'[c].limit = boosts[c].limit
                          /\ boosts'[c].previous = boosts[c].previous
                          /\ c # b => boosts'[c] = boosts[c]
                          /\ c = b => boosts'[c].state = o
  BY <1>1 DEF AumTypes, BoostRecords
<1>4. b \in BoostIds => Live(b) /\ (job[w].kind # "boost" => Limit(gw, boosts[b].target) # boosts[b].limit)
  BY <1>1, AumConstants DEF Held, Planned
<1>5. \A c \in BoostIds : /\ Live(c)' => Live(c)
                          /\ Live(c) => Live(c)' \/ Limit(gw, boosts[c].target) # boosts[c].limit
  BY <1>2, <1>3, <1>4 DEF Live
<1>6. Records'
  BY <1>1, <1>3, <1>5 DEF Records
<1>. QED BY <1>1, <1>3, <1>5, <1>6, AumConstants DEF Held
(* What w does without the table: it writes the limit of its target, or nothing. *)
LEMMA ValuesKept ==
  ASSUME AumTypes, Calm, Records, NEW w \in Writers, Work(w) \/ Failure(w), ~RecordBoost(w), boosts' = boosts,
         OwnWrites(w), Narrow(w), Named(w), \A v \in Writers : Leased(v) /\ Held(v)
  PROVE  /\ Records' /\ \A v \in Writers : Held(v)'
         /\ gw' # gw => lease = w /\ at[w] \in {"putting", "restoring"}
<1>1. /\ lease' = lease \/ (lease = w /\ lease' = NoWriter)
      /\ \A v \in Writers \ {w} : at'[v] = at[v] /\ SameJob(job'[v], job[v])
  BY WorkTypes, OthersKeep DEF Quiet, Writing, GoesOn
<1>2. gw' # gw => at[w] \in {"putting", "restoring"}
  BY HandlerShape DEF Returns, Moves, Compares, Passes, Puts, Unanswered, Learns, Undoes, Quiet
<1>3. at[w] \in {"putting", "restoring"} => lease = w
  BY DEF Leased, Calm, Calling
<1>4. \A b \in BoostIds : Live(b)' = Live(b)
  BY DEF Live
<1>5. \A t : Boosting(t)' = {b \in BoostIds : Live(b) /\ boosts[b].target = t}
  BY <1>4 DEF Boosting
<1>6. ASSUME NEW b \in BoostIds, Live(b) PROVE boosts[b].target \in Targets(gw')
  <2>1. boosts[b].target \in Targets(gw) /\ boosts[b].target \in Scopes
    BY <1>6 DEF Records, AumTypes, BoostRecords
  <2>2. CASE gw' = gw
    BY <2>1, <2>2
  <2>3. CASE gw' # gw /\ boosts[b].target # job[w].target
    BY <2>1, <2>3, WriteIsNarrow DEF SameFor
  <2>4. CASE gw' # gw /\ boosts[b].target = job[w].target
    <3>1. Planned(w) /\ Alone(w) /\ at[w] # "mapping"
      BY <1>2, <1>3, <2>4 DEF Held
    <3>2. job[w].boost # NoBoost
      BY <1>6, <2>4, <3>1 DEF Alone, Boosting
    <3>. QED BY <2>4, <3>1, <3>2, LimitNext
  <2>. QED BY <2>2, <2>3, <2>4
<1>7. Records'
  BY <1>4, <1>6 DEF Records
<1>8. ASSUME NEW v \in Writers \ {w}, lease' = v, at'[v] # "idle" PROVE Planned(v)' /\ Alone(v)'
  <2>1. lease = v /\ gw' = gw /\ at'[v] = at[v] /\ SameJob(job'[v], job[v])
    BY <1>1, <1>2, <1>3, <1>8, AumConstants
  <2>2. Planned(v) /\ Alone(v)
    BY <1>8, <2>1 DEF Held
  <2>3. Planned(v)'
    BY <1>4, <1>5, <2>1, <2>2 DEF Planned, SameJob, Makes, Live, Boosting
  <2>4. Alone(v)'
    BY <1>5, <2>1, <2>2 DEF Alone, SameJob, Boosting
  <2>. QED BY <2>3, <2>4
<1>9. ASSUME lease' = w, at'[w] # "idle" PROVE Planned(w)' /\ Alone(w)'
  <2>1. lease = w /\ at[w] # "idle" /\ job'[w].boost = job[w].boost /\ job'[w].target = job[w].target
        /\ (at[w] = "mapping" => at'[w] = "mapping")
    BY <1>1, <1>9, AumConstants, HandlerShape
       DEF Returns, Moves, Unchanged, Compares, Passes, Puts, Unanswered, Learns, Undoes, Restored, SameJob
  <2>2. Planned(w) /\ Alone(w)
    BY <2>1 DEF Held
  <2>3. Planned(w)'
    BY <1>9, <2>2, PlanGoesOn
  <2>4. Alone(w)'
    BY <1>5, <2>1, <2>2 DEF Alone, Boosting
  <2>. QED BY <2>3, <2>4
<1>. QED BY <1>2, <1>3, <1>7, <1>8, <1>9 DEF Held

LEMMA BeginHeld ==
  ASSUME AumTypes, Records, NEW w \in Writers, Request(w) \/ Expire(w)
  PROVE  Records' /\ (\A v \in Writers : Held(v)') /\ UNCHANGED <<gw, boosts>>
<1>1. PICK phase, kind, target, amount, boost, todo :
            /\ Begin(w, phase, kind, target, amount, boost, todo)
            /\ Authorised(phase, kind, target, amount, boost, todo)
  BY RequestAuthorised
<1>. DEFINE j == [NoJob EXCEPT !.kind = kind, !.target = target, !.amount = amount, !.boost = boost,
                                !.todo = todo, !.snap = gw]
<1>2. /\ job' = [job EXCEPT ![w] = j] /\ at' = [at EXCEPT ![w] = phase] /\ lease' = w /\ UNCHANGED <<gw, boosts>>
  BY <1>1 DEF Begin, Goto
<1>3. /\ j.kind = kind /\ j.target = target /\ j.amount = amount /\ j.boost = boost /\ j.todo = todo
      /\ j.done = <<>> /\ j.snap = gw
  BY DEF NoJob
<1>. HIDE DEF j
<1>4. job'[w] = j /\ at'[w] = phase
  BY <1>2 DEF AumTypes
<1>5. \A t : Boosting(t)' = Boosting(t)
  BY <1>2 DEF Boosting, Live
<1>6. Records'
  BY <1>2 DEF Records, Live
<1>7. Alone(w)'
  BY <1>1, <1>3, <1>4, <1>5 DEF Authorised, Alone
<1>8. Planned(w)'
  <2>. SUFFICES ASSUME boost # NoBoost PROVE Planned(w)'
    BY <1>3, <1>4 DEF Planned
  <2>1. Makes(j, todo) /\ Makes(j, <<>>)
    BY <1>1, <1>3 DEF Authorised, Makes, WriteLimit
  <2>2. Live(boost)' = Live(boost)
    BY <1>2 DEF Live
  <2>. QED BY <1>1, <1>2, <1>3, <1>4, <1>5, <2>1, <2>2 DEF Authorised, Planned, Boostings
<1>. QED BY <1>2, <1>6, <1>7, <1>8 DEF Held

LEMMA StepKeepsLedger ==
  ASSUME LedgerInv, Quick, [Next]_aumVars
  PROVE  Records' /\ \A w \in Writers : Held(w)'
<1>0. AumTypes /\ Calm /\ Records /\ \A w \in Writers : OwnWrites(w) /\ Leased(w) /\ Narrow(w) /\ Named(w) /\ Held(w)
  BY DEF LedgerInv, CalmInv, OwnInv
<1>1. CASE UNCHANGED aumVars
  BY <1>0, <1>1 DEF aumVars, Records, Held, Planned, Alone, Makes, Live, Boosting
<1>2. ASSUME NEW w \in Writers, Request(w) \/ Expire(w) PROVE Records' /\ \A v \in Writers : Held(v)'
  BY <1>0, <1>2, BeginHeld
<1>3. ASSUME NEW w \in Writers, Work(w) \/ Failure(w) PROVE Records' /\ \A v \in Writers : Held(v)'
  <2>1. RecordBoost(w) \/ StoreOutcome(w) => lease = w
    BY <1>0 DEF RecordBoost, StoreOutcome, Leased, Calm, Calling
  <2>2. CASE RecordBoost(w)
    BY <1>0, <2>1, <2>2, RecordedBoost
  <2>3. CASE StoreOutcome(w)
    BY <1>0, <2>1, <2>3, StoredOutcome
  <2>4. CASE ~RecordBoost(w) /\ ~StoreOutcome(w)
    <3>1. boosts' = boosts
      BY <1>0, <1>3, <2>4, TablesStep
    <3>. QED BY <1>0, <1>3, <2>4, <3>1, ValuesKept
  <2>. QED BY <2>2, <2>3, <2>4
<1>4. CASE Outside
  <2>1. /\ at' = at /\ boosts' = boosts /\ (lease' = lease \/ lease' = NoWriter)
        /\ \A v \in Writers : SameJob(job'[v], job[v])
    BY <1>0, <1>4, OutsideStep
  <2>2. gw' = gw
    <3>1. spent.edits \in Nat
      BY <1>0 DEF AumTypes
    <3>. QED BY <1>0, <1>4, <3>1, OutsideStep DEF Calm, Quick
  <2>3. Records'
    BY <1>0, <2>1, <2>2 DEF Records, Live
  <2>4. ASSUME NEW v \in Writers, lease' = v, at'[v] # "idle" PROVE Planned(v)' /\ Alone(v)'
    <3>1. Planned(v) /\ Alone(v)
      BY <1>0, <2>1, <2>4, AumConstants DEF Held
    <3>2. Planned(v)'
      BY <2>1, <2>2, <3>1 DEF Planned, SameJob, Makes, Live, Boosting
    <3>. QED BY <2>1, <3>1, <3>2 DEF Alone, SameJob, Live, Boosting
  <2>. QED BY <2>3, <2>4 DEF Held
<1>. QED BY <1>1, <1>2, <1>3, <1>4 DEF Next, Outside
-----------------------------------------------------------------------------
(* ----------------------------- the refinement ---------------------------- *)
Pick(S) == CHOOSE b \in S : TRUE

(* What the ledger shows of x, for the values c, the records r and the     *)
(* boosts S that are in force.                                             *)
PermanentOf(c, r, S, x) ==
    IF x \notin Targets(c) THEN 0 ELSE IF S = {} THEN Limit(c, x) ELSE r[Pick(S)].previous
BoostedOf(c, S, x) == IF S = {} THEN NoBoost ELSE Limit(c, x)

LEMMA Shown ==
  /\ permanentLimit = [x \in Units \cup Users |-> PermanentOf(gw, boosts, InForce(x), x)]
  /\ boostedLimit = [x \in Units \cup Users |-> BoostedOf(gw, InForce(x), x)]
  BY DEF permanentLimit, boostedLimit, PermanentOf, BoostedOf, Pick

LEMMA ShownNext ==
  /\ permanentLimit' = [x \in Units \cup Users |-> PermanentOf(gw', boosts', InForce(x)', x)]
  /\ boostedLimit' = [x \in Units \cup Users |-> BoostedOf(gw', InForce(x)', x)]
  BY DEF permanentLimit, boostedLimit, PermanentOf, BoostedOf, Pick

LEMMA Picked ==
  /\ \A S : S # {} => Pick(S) \in S
  /\ \A b : Pick({b}) = b
  BY DEF Pick

(* The ledger shows the same of x. *)
Still(x) == permanentLimit'[x] = permanentLimit[x] /\ boostedLimit'[x] = boostedLimit[x]

LEMMA StillShown ==
  ASSUME NEW x \in Units \cup Users, SameFor(x, gw', gw), InForce(x)' = InForce(x),
         \A b \in InForce(x) : boosts'[b].previous = boosts[b].previous
  PROVE  Still(x)
<1>1. InForce(x) # {} => boosts'[Pick(InForce(x))].previous = boosts[Pick(InForce(x))].previous
  BY Picked
<1>2. /\ permanentLimit[x] = PermanentOf(gw, boosts, InForce(x), x) /\ boostedLimit[x] = BoostedOf(gw, InForce(x), x)
      /\ permanentLimit'[x] = PermanentOf(gw', boosts', InForce(x)', x)
      /\ boostedLimit'[x] = BoostedOf(gw', InForce(x)', x)
  BY Shown, ShownNext
<1>. QED BY <1>1, <1>2 DEF PermanentOf, BoostedOf, SameFor, Still

LEMMA NothingShown ==
  ASSUME \A x \in Units \cup Users : Still(x)
  PROVE  UNCHANGED <<permanentLimit, boostedLimit>>
<1>1. permanentLimit' = permanentLimit
  BY Shown, ShownNext DEF Still
<1>2. boostedLimit' = boostedLimit
  BY Shown, ShownNext DEF Still
<1>. QED BY <1>1, <1>2

(* A step about t alone. *)
LEMMA OneShown ==
  ASSUME NEW t \in Units \cup Users, \A x \in (Units \cup Users) \ {t} : Still(x)
  PROVE  /\ permanentLimit' = [permanentLimit EXCEPT ![t] = permanentLimit'[t]]
         /\ boostedLimit' = [boostedLimit EXCEPT ![t] = boostedLimit'[t]]
         /\ permanentLimit'[t] = permanentLimit[t] => permanentLimit' = permanentLimit
         /\ boostedLimit'[t] = boostedLimit[t] => boostedLimit' = boostedLimit
<1>1. permanentLimit' = [permanentLimit EXCEPT ![t] = permanentLimit'[t]]
  BY Shown, ShownNext DEF Still
<1>2. boostedLimit' = [boostedLimit EXCEPT ![t] = boostedLimit'[t]]
  BY Shown, ShownNext DEF Still
<1>3. permanentLimit'[t] = permanentLimit[t] => permanentLimit' = permanentLimit
  BY Shown, ShownNext DEF Still
<1>4. boostedLimit'[t] = boostedLimit[t] => boostedLimit' = boostedLimit
  BY Shown, ShownNext DEF Still
<1>. QED BY <1>1, <1>2, <1>3, <1>4
(* A change of the limit of one target is a step of the ledger. *)
LEMMA WriteShown ==
  ASSUME AumTypes, AumTypes', Calm, Records, NEW w \in Writers, Work(w) \/ Failure(w), boosts' = boosts, gw' # gw,
         OwnWrites(w), Narrow(w), Leased(w), Held(w)
  PROVE  [Ledger!Next]_<<permanentLimit, boostedLimit>>
<1>. DEFINE t == job[w].target
            b == job[w].boost
<1>1. at[w] \in {"putting", "restoring"}
  BY HandlerShape DEF Returns, Moves, Compares, Passes, Puts, Unanswered, Learns, Undoes, Quiet
<1>2. Planned(w) /\ Alone(w)
  BY <1>1 DEF Held, Leased, Calm, Calling
<1>3. \A x : Boosting(x)' = Boosting(x)
  BY DEF Boosting, Live
<1>4. \A x \in (Units \cup Users) \ {t} : Still(x)
  <2>. SUFFICES ASSUME NEW x \in Units \cup Users, x # t PROVE Still(x)
    OBVIOUS
  <2>1. SameFor(x, gw', gw)
    BY WriteIsNarrow DEF Scopes
  <2>2. InForce(x)' = InForce(x)
    BY <1>3, <2>1 DEF InForce, SameFor
  <2>. QED BY <2>1, <2>2, StillShown
<1>5. CASE t \notin Units \cup Users
  BY <1>4, <1>5, NothingShown
<1>6. CASE t \in Units \cup Users
  <2>. HIDE DEF t
  <2>1. /\ permanentLimit' = [permanentLimit EXCEPT ![t] = permanentLimit'[t]]
        /\ boostedLimit' = [boostedLimit EXCEPT ![t] = boostedLimit'[t]]
        /\ permanentLimit'[t] = permanentLimit[t] => permanentLimit' = permanentLimit
        /\ boostedLimit'[t] = boostedLimit[t] => boostedLimit' = boostedLimit
    BY <1>4, <1>6, OneShown
  <2>2. /\ permanentLimit[t] = PermanentOf(gw, boosts, InForce(t), t) /\ boostedLimit[t] = BoostedOf(gw, InForce(t), t)
        /\ DOMAIN permanentLimit = Units \cup Users /\ DOMAIN boostedLimit = Units \cup Users
    BY <1>6, Shown
  <2>3. CASE b = NoBoost
    <3>1. Boosting(t) = {}
      BY <1>1, <1>2, <2>3 DEF Alone, t
    <3>2. InForce(t) = {}
      BY <3>1 DEF InForce
    <3>3. \A x : x = t => InForce(x)' = {}
      BY <1>3, <3>1 DEF InForce
    <3>4. permanentLimit'[t] = PermanentOf(gw', boosts', {}, t) /\ boostedLimit'[t] = BoostedOf(gw', {}, t)
      BY <1>6, <3>3, ShownNext
    <3>5. permanentLimit'[t] \in Nat
      <4>1. t \in Targets(gw') => Limit(gw', t) \in Nat
        BY LimitTyped DEF AumTypes
      <4>. QED BY <3>4, <4>1 DEF PermanentOf
    <3>6. boostedLimit' = boostedLimit /\ boostedLimit[t] = NoBoost
      BY <2>1, <2>2, <3>2, <3>4 DEF BoostedOf
    <3>. QED BY <1>6, <2>1, <3>5, <3>6 DEF Ledger!Next, Ledger!Edit
  <2>4. CASE b # NoBoost
    <3>. DEFINE lo == boosts[b].previous
                hi == boosts[b].limit
    <3>1. /\ b \in BoostIds /\ Live(b) /\ boosts[b].target = t /\ lo \in Nat /\ hi \in Nat /\ lo < hi
          /\ t \in Targets(gw) /\ Limit(gw, t) \in {lo, hi}
          /\ {Limit(job[w].snap, t), job[w].amount} = {lo, hi}
      <4>1. b \in BoostIds
        BY <2>4 DEF AumTypes, JobRecords
      <4>2. Live(b) /\ boosts[b].target = t /\ lo < hi /\ t \in Targets(gw)
        BY <1>1, <1>2, <2>4, <4>1 DEF Planned, Records, t
      <4>3. job[w].todo # <<>> \/ job[w].done # <<>>
        BY <1>1 DEF AumTypes
      <4>4. {Limit(job[w].snap, t), job[w].amount} = {lo, hi}
        BY <1>1, <1>2, <2>4, <4>3 DEF Planned, t
      <4>5. Limit(gw, t) \in {lo, hi}
        BY <1>2, <2>4, <4>4 DEF Planned, t
      <4>. QED BY <4>1, <4>2, <4>4, <4>5 DEF AumTypes, BoostRecords
    <3>2. t \in Targets(gw') /\ Limit(gw', t) \in {lo, hi}
      BY <1>2, <2>4, <3>1, LimitNext DEF t
    <3>3. Boosting(t) = {b}
      BY <3>1 DEF Records, Boosting
    <3>4. InForce(t) = IF Limit(gw, t) = hi THEN {b} ELSE {}
      BY <3>3 DEF InForce
    <3>5. \A x : x = t => InForce(x)' = IF Limit(gw', t) = hi THEN {b} ELSE {}
      BY <1>3, <3>3 DEF InForce
    <3>6. /\ permanentLimit[t] = lo
          /\ boostedLimit[t] = IF Limit(gw, t) = hi THEN hi ELSE NoBoost
      BY <2>2, <3>1, <3>4, Picked DEF PermanentOf, BoostedOf
    <3>7. /\ permanentLimit'[t] = lo
          /\ boostedLimit'[t] = IF Limit(gw', t) = hi THEN hi ELSE NoBoost
      <4>1. /\ permanentLimit'[t] = PermanentOf(gw', boosts', IF Limit(gw', t) = hi THEN {b} ELSE {}, t)
            /\ boostedLimit'[t] = BoostedOf(gw', IF Limit(gw', t) = hi THEN {b} ELSE {}, t)
        BY <1>6, <3>5, ShownNext
      <4>. QED BY <3>1, <3>2, <4>1, Picked DEF PermanentOf, BoostedOf
    <3>. HIDE DEF lo, hi, b
    <3>8. permanentLimit' = permanentLimit
      BY <2>1, <2>2, <3>6, <3>7
    <3>9. CASE Limit(gw', t) # hi
      <4>1. Ledger!EndBoost(t)
        BY <2>1, <3>7, <3>8, <3>9 DEF Ledger!EndBoost
      <4>. QED BY <1>6, <4>1 DEF Ledger!Next
    <3>10. CASE Limit(gw', t) = hi /\ Limit(gw, t) = hi
      <4>1. boostedLimit' = boostedLimit
        BY <2>1, <2>2, <3>6, <3>7, <3>10
      <4>. QED BY <3>8, <4>1
    <3>11. CASE Limit(gw', t) = hi /\ Limit(gw, t) # hi
      <4>1. Ledger!StartBoost(t)
        BY <2>1, <3>1, <3>6, <3>7, <3>8, <3>11 DEF Ledger!StartBoost
      <4>. QED BY <1>6, <4>1 DEF Ledger!Next
    <3>. QED BY <3>9, <3>10, <3>11
  <2>. QED BY <2>3, <2>4
<1>. QED BY <1>5, <1>6

(* A boost is recorded before its limit is in force, and over when its     *)
(* limit no longer is: the ledger sees neither.                            *)
LEMMA TableShown ==
  ASSUME AumTypes, Records, NEW w \in Writers, RecordBoost(w) \/ StoreOutcome(w), lease = w, Held(w)
  PROVE  UNCHANGED <<permanentLimit, boostedLimit>>
<1>. SUFFICES ASSUME NEW x \in Units \cup Users PROVE Still(x)
  BY NothingShown
<1>1. gw' = gw /\ SameFor(x, gw', gw)
  BY DEF RecordBoost, StoreOutcome, SameFor
<1>2. CASE RecordBoost(w)
  <2>1. /\ \A c \in BoostIds : c # job[w].boost => boosts'[c] = boosts[c]
        /\ job[w].boost \in BoostIds =>
              /\ ~Live(job[w].boost) /\ Boosting(job[w].target) = {}
              /\ boosts'[job[w].boost].target = job[w].target
              /\ boosts'[job[w].boost].limit # Limit(gw, job[w].target)
    BY <1>2, RecordedBoost
  <2>2. InForce(x)' = {c \in BoostIds : Live(c)' /\ boosts'[c].target = x /\ Limit(gw, x) = boosts'[c].limit}
    BY <1>1 DEF InForce, Boosting
  <2>3. InForce(x) = {c \in BoostIds : Live(c) /\ boosts[c].target = x /\ Limit(gw, x) = boosts[c].limit}
    BY DEF InForce, Boosting
  <2>4. \A c \in BoostIds : c # job[w].boost => Live(c)' = Live(c)
    BY <2>1 DEF Live
  <2>5. InForce(x)' = InForce(x)
    BY <2>1, <2>2, <2>3, <2>4
  <2>6. \A c \in InForce(x) : boosts'[c].previous = boosts[c].previous
    BY <2>1, <2>3
  <2>. QED BY <1>1, <2>5, <2>6, StillShown
<1>3. CASE StoreOutcome(w)
  <2>1. \A c \in BoostIds : /\ boosts'[c].target = boosts[c].target /\ boosts'[c].limit = boosts[c].limit
                            /\ boosts'[c].previous = boosts[c].previous
                            /\ Live(c)' => Live(c)
                            /\ Live(c) => Live(c)' \/ Limit(gw, boosts[c].target) # boosts[c].limit
    BY <1>3, StoredOutcome
  <2>2. InForce(x)' = {c \in BoostIds : Live(c)' /\ boosts'[c].target = x /\ Limit(gw, x) = boosts'[c].limit}
    BY <1>1 DEF InForce, Boosting
  <2>3. InForce(x) = {c \in BoostIds : Live(c) /\ boosts[c].target = x /\ Limit(gw, x) = boosts[c].limit}
    BY DEF InForce, Boosting
  <2>4. InForce(x)' = InForce(x)
    BY <2>1, <2>2, <2>3
  <2>. QED BY <1>1, <2>1, <2>3, <2>4, StillShown
<1>. QED BY <1>2, <1>3

LEMMA StepShown ==
  ASSUME LedgerInv, Quick, [Next]_aumVars
  PROVE  [Ledger!Next]_<<permanentLimit, boostedLimit>>
<1>0. AumTypes /\ Calm /\ Records /\ \A w \in Writers : OwnWrites(w) /\ Leased(w) /\ Narrow(w) /\ Held(w)
  BY DEF LedgerInv, CalmInv, OwnInv
<1>1. CASE gw' = gw /\ boosts' = boosts
  BY <1>1 DEF permanentLimit, boostedLimit, InForce, Boosting, Live
<1>2. CASE gw' # gw \/ boosts' # boosts
  <2>1. PICK w \in Writers : Work(w) \/ Failure(w)
    <3>1. Outside => gw' = gw /\ boosts' = boosts
      <4>1. spent.edits \in Nat
        BY <1>0 DEF AumTypes
      <4>. QED BY <1>0, <4>1, OutsideStep DEF Calm, Quick
    <3>2. \A w \in Writers : Request(w) \/ Expire(w) => gw' = gw /\ boosts' = boosts
      BY <1>0, BeginHeld
    <3>3. ~UNCHANGED aumVars
      BY <1>2 DEF aumVars
    <3>. QED BY <1>2, <3>1, <3>2, <3>3 DEF Next, Outside
  <2>2. RecordBoost(w) \/ StoreOutcome(w) => lease = w
    BY <1>0 DEF RecordBoost, StoreOutcome, Leased, Calm, Calling
  <2>3. CASE RecordBoost(w) \/ StoreOutcome(w)
    BY <1>0, <2>2, <2>3, TableShown
  <2>4. CASE ~(RecordBoost(w) \/ StoreOutcome(w))
    <3>1. boosts' = boosts
      BY <1>0, <2>1, <2>4, TablesStep
    <3>2. AumTypes'
      BY <1>0, StepKeepsTypes
    <3>. QED BY <1>0, <1>2, <2>1, <3>1, <3>2, WriteShown
  <2>. QED BY <2>3, <2>4
<1>. QED BY <1>1, <1>2

(* Every live boost is one of its target, above what it restores, and the  *)
(* handler that holds the lease keeps to the plan it was admitted with.    *)
THEOREM LedgerInvariant == ASSUME Quick PROVE Spec => []LedgerInv
<1>1. Init => Records /\ \A w \in Writers : Held(w)
  BY DEF Init, Records, Held, Live, NoRecord
<1>2. CalmInv /\ CalmInv' /\ (Records /\ \A w \in Writers : Held(w)) /\ [Next]_aumVars
        => (Records /\ \A w \in Writers : Held(w))'
  BY StepKeepsLedger DEF LedgerInv
<1>. QED BY <1>1, <1>2, CalmInvariant, PTL DEF Spec, LedgerInv

(* AumBudgets implements BudgetLedger, for any catalog, any requests and   *)
(* any writers that are Quick: a boost that ends, is rolled back or is cut *)
(* short by a crash leaves exactly the limit it started from, nobody edits *)
(* a budget while a boost owns it, and no write touches two targets.       *)
THEOREM ServiceImplementsLedger == ASSUME Quick PROVE Spec => ImplementsLedger
<1>1. Init => Ledger!Init
  <2>. SUFFICES ASSUME Init PROVE Ledger!Init
    OBVIOUS
  <2>1. gw \in Configs
    BY AumConstants, ConfigOf DEF Init
  <2>2. \A x : InForce(x) = {}
    BY DEF Init, InForce, Boosting, Live, NoRecord
  <2>3. \A x \in Units \cup Users : PermanentOf(gw, boosts, {}, x) \in Nat
    BY <2>1, LimitTyped DEF PermanentOf
  <2>4. permanentLimit = [x \in Units \cup Users |-> PermanentOf(gw, boosts, {}, x)]
    BY <2>2, Shown
  <2>5. boostedLimit = [x \in Units \cup Users |-> NoBoost]
    BY <2>2, Shown DEF BoostedOf
  <2>. QED BY <2>3, <2>4, <2>5 DEF Ledger!Init
<1>2. LedgerInv /\ [Next]_aumVars => [Ledger!Next]_<<permanentLimit, boostedLimit>>
  BY StepShown
<1>. QED BY <1>1, <1>2, LedgerInvariant, PTL DEF Spec, ImplementsLedger, Ledger!Spec, Ledger!ledgerVars
=============================================================================
