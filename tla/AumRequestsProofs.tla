--------------------------- MODULE AumRequestsProofs ---------------------------
(***************************************************************************)
(* For any callers, scopes, requests and handlers: while no call outlasts  *)
(* the lease it was sent under, what a handler stores is decided on what   *)
(* is still so, by somebody who still may, and is announced.               *)
(***************************************************************************)
EXTENDS AumRequests, TLAPS

-----------------------------------------------------------------------------
(* ------------------------- configurations ------------------------------- *)
(* The values a configuration is made of. *)
ParentMaps == UNION {[S -> Units] : S \in SUBSET Units}
Configs == [reg : UNION {[S -> Nat] : S \in SUBSET Units}, par : ParentMaps,
            ovr : UNION {[S -> Nat] : S \in SUBSET Users}, tier : Nat]

LEMMA MapOf ==
  ASSUME NEW f, NEW S, NEW T
  PROVE  IsMap(f, S, T) <=> f \in UNION {[D -> T] : D \in SUBSET S}
<1>1. IsMap(f, S, T) => f \in UNION {[D -> T] : D \in SUBSET S}
  BY DEF IsMap
<1>2. f \in UNION {[D -> T] : D \in SUBSET S} => IsMap(f, S, T)
  BY DEF IsMap
<1>. QED BY <1>1, <1>2

LEMMA ConfigOf == ASSUME NEW c PROVE IsConfig(c) <=> c \in Configs
<1>1. IsConfig(c) => c \in Configs
  BY MapOf DEF IsConfig, Configs, ParentMaps
<1>2. c \in Configs => IsConfig(c)
  BY MapOf DEF IsConfig, Configs, ParentMaps
<1>. QED BY <1>1, <1>2

LEMMA AssignedMap ==
  ASSUME NEW f, NEW S, NEW T, IsMap(f, S, T), NEW x \in S, NEW v \in T
  PROVE  IsMap(Assigned(f, x, v), S, T) /\ x \in DOMAIN Assigned(f, x, v) /\ Assigned(f, x, v)[x] = v
  BY DEF IsMap, Assigned

(* What parse_registry reads of a catalog: its units are units, and every  *)
(* unit or person has a parent or none.                                    *)
LEMMA CatalogTypes ==
  ASSUME NEW c \in Configs
  PROVE  /\ Catalog(c) \subseteq Units /\ Catalog(c) \cap Users = {} /\ Targets(c) \subseteq Units \cup Users
         /\ \A t : ParentIn(c, t) \in Units \cup {NoUnit} /\ Limit(c, t) \in Nat
<1>1. IsMap(c.reg, Units, Nat) /\ IsMap(c.par, Units, Units) /\ IsMap(c.ovr, Users, Nat)
  BY ConfigOf DEF IsConfig
<1>. QED BY <1>1, RegistryConstants DEF IsMap, Catalog, Targets, ParentIn, Limit

(* The limit written is the limit read, and nothing else moves.            *)
LEMMA LimitWritten ==
  ASSUME NEW c \in Configs, NEW t \in Targets(c), NEW a \in Nat
  PROVE  /\ WithLimit(c, t, a) \in Configs /\ Limit(WithLimit(c, t, a), t) = a
         /\ Catalog(WithLimit(c, t, a)) = Catalog(c) /\ WithLimit(c, t, a).par = c.par
<1>0. IsMap(c.reg, Units, Nat) /\ IsMap(c.ovr, Users, Nat) /\ Catalog(c) \cap Users = {}
  BY ConfigOf, CatalogTypes DEF IsConfig
<1>1. CASE t \notin Users
  <2>. DEFINE reg == [c.reg EXCEPT ![t] = a]
  <2>1. t \in Catalog(c) /\ WithLimit(c, t, a) = [c EXCEPT !.reg = reg]
    BY <1>1 DEF Targets, WithLimit, With, KeyOf, Changed, Configs
  <2>2. IsMap(reg, Units, Nat) /\ DOMAIN reg = DOMAIN c.reg /\ reg[t] = a
    BY <1>0, <2>1 DEF IsMap, Catalog
  <2>3. reg \in UNION {[S -> Nat] : S \in SUBSET Units}
    BY <2>2, MapOf
  <2>. HIDE DEF reg
  <2>. QED BY <2>1, <2>2, <2>3 DEF Configs, Catalog, Limit
<1>2. CASE t \in Users
  <2>. DEFINE ovr == IF a = 0 THEN [u \in DOMAIN c.ovr \ {t} |-> c.ovr[u]] ELSE Assigned(c.ovr, t, a)
  <2>1. WithLimit(c, t, a) = [c EXCEPT !.ovr = ovr]
    BY <1>2 DEF WithLimit, With, KeyOf, Changed, Configs
  <2>2. IsMap(ovr, Users, Nat) /\ (IF t \in DOMAIN ovr THEN ovr[t] ELSE 0) = a
    <3>1. CASE a = 0
      BY <1>0, <3>1 DEF IsMap
    <3>2. CASE a # 0
      <4>1. ovr = Assigned(c.ovr, t, a)
        BY <3>2
      <4>2. IsMap(ovr, Users, Nat) /\ t \in DOMAIN ovr /\ ovr[t] = a
        BY <1>0, <1>2, <4>1, AssignedMap
      <4>. QED BY <4>2
    <3>. QED BY <3>1, <3>2
  <2>3. ovr \in UNION {[S -> Nat] : S \in SUBSET Users}
    BY <2>2, MapOf
  <2>. HIDE DEF ovr
  <2>4. t \notin Catalog(c)
    BY <1>0, <1>2
  <2>. QED BY <2>1, <2>2, <2>3, <2>4 DEF Configs, Catalog, Limit
<1>. QED BY <1>1, <1>2

(* A changed limit moves nobody, so the configuration still parses and the *)
(* scopes of the managers stay.                                            *)
LEMMA SameTree ==
  ASSUME NEW c, NEW d, Catalog(c) = Catalog(d), c.par = d.par
  PROVE  /\ Parses(c) <=> Parses(d)
         /\ \A t : ParentIn(c, t) = ParentIn(d, t)
         /\ \A p, m, t : MayWrite(p, c, m, t) <=> MayWrite(p, d, m, t)
<1>1. \A t : ParentIn(c, t) = ParentIn(d, t)
  BY DEF ParentIn
<1>2. Parses(c) <=> Parses(d)
  BY DEF Parses
<1>3. \A p, m : Organizations(p, c, m) = Organizations(p, d, m)
  BY <1>1 DEF Organizations
<1>4. \A p, m : Departments(p, c, m) = Departments(p, d, m)
  BY <1>1, <1>3 DEF Departments
<1>5. \A p, m : Leaves(p, c, m) = Leaves(p, d, m)
  BY <1>3, <1>4 DEF Leaves
<1>6. \A p, m, t : MayWrite(p, c, m, t) <=> MayWrite(p, d, m, t)
  BY <1>1, <1>3, <1>5 DEF MayWrite
<1>. QED BY <1>1, <1>2, <1>6
-----------------------------------------------------------------------------
(* --------------------------- the invariant ------------------------------ *)
Looks == [config : Configs, mapped : Mappings, request : Requests]
Calls == [what : Whats, who : Persons \cup {NoPerson}, call : Nat, id : RequestIds \cup {NoUnit},
          target : Units \cup Users \cup {NoUnit}, limit : Nat, override : BOOLEAN, group : Groups \cup {NoGroup},
          seen : Looks \cup {<<>>}, rows : ParentMaps \cup Usages, config : Configs \cup {<<>>},
          mapped : Mappings \cup {<<>>}]
Types == ReqTypeOK /\ job \in [Handlers -> Calls]

(* The phases a handler keeps its lease in: no call outlasts it.           *)
Holding == {"intent", "applying", "threshold", "storing", "closing"}
LeaseHeld == \A h \in Handlers : valid[h] \/ at[h] \in Holding => lease = h

(* Calls have numbers of their own, and none that failed goes on.          *)
CallNumbers ==
    /\ \A e \in audit : e.call <= spent.calls
    /\ \A h \in Handlers : job[h].call <= spent.calls
    /\ \A h, g \in Handlers : job[h].call # 0 /\ job[h].call = job[g].call => h = g
    /\ \A h \in Handlers : \A e \in audit : e.call # 0 /\ e.call = job[h].call => e.outcome # "failed"

(* Whoever may change something has its intent in the trail.               *)
Announced(h) ==
    at[h] \in {"checking", "applying", "threshold", "storing"} =>
        [call |-> job[h].call, what |-> job[h].what, outcome |-> "intent"] \in audit

(* What a caller looked at is the request as it is, or an earlier version. *)
SeenBefore(h) ==
    at[h] = "looked" =>
        /\ job[h].id \in RequestIds /\ job[h].seen \in Looks
        /\ job[h].seen.request.version <= requests[job[h].id].version
        /\ job[h].seen.request.version = requests[job[h].id].version
              => job[h].seen.request = requests[job[h].id]

(* The handler has had the lease ever since its call was admitted.         *)
Sure(h) == at[h] \in {"intent", "applying", "threshold", "storing"} \/ (at[h] = "checking" /\ valid[h])
HasApplied(h) == at[h] = "threshold" \/ (at[h] = "storing" /\ job[h].what = "approve")
Deciding == {"approve", "reject", "escalate"}
MayTake(p, m, r, what, override) ==
    MayDecide(p, m, r) \/ (IsAdmin(p) /\ override) \/ (what = "escalate" /\ r.requester = p)

(* The configuration is the one of the admission, or has the limit in it.  *)
Configured(h) ==
    /\ job[h].config \in Configs /\ job[h].mapped = mappings
    /\ ~HasApplied(h) => gw = job[h].config
    /\ HasApplied(h) =>
        /\ job[h].what \in {"set", "approve"}
        /\ Catalog(gw) = Catalog(job[h].config) /\ gw.par = job[h].config.par
        /\ Limit(gw, job[h].target) = job[h].limit
    /\ at[h] \in {"applying", "threshold", "storing"} => Planned(h)
    /\ job[h].what = "set" =>
        /\ job[h].target \in Targets(job[h].config)
        /\ SeenRevision(h) = [config |-> job[h].config, mapped |-> mappings]
    /\ job[h].what = "move" =>
        job[h].rows \in ParentMaps /\ Parses([job[h].config EXCEPT !.par = job[h].rows])

(* The request is the one the caller saw, and the caller may decide it.    *)
Requested(h) ==
    /\ job[h].what = "ask" => job[h].id \in RequestIds /\ requests[job[h].id] = NoRequest
    /\ job[h].what \in Deciding =>
        /\ job[h].id \in RequestIds /\ job[h].seen \in Looks
        /\ requests[job[h].id] = job[h].seen.request /\ job[h].seen.request.state = "pending"
        /\ job[h].target = job[h].seen.request.target /\ job[h].limit = job[h].seen.request.limit
        /\ MayTake(job[h].who, job[h].mapped, job[h].seen.request, job[h].what, job[h].override)

Faithful(h) ==
    /\ at[h] = "applying" => Writing(h)
    /\ Sure(h) /\ job[h].what # "warn" => Configured(h) /\ Requested(h)

Own(h) == Announced(h) /\ SeenBefore(h) /\ Faithful(h)

RequestInv ==
    /\ Types /\ LeaseHeld /\ CallNumbers
    /\ \A h \in Handlers : Own(h)

-----------------------------------------------------------------------------
(* ------------------------------- types ---------------------------------- *)
LEMMA NoCallIsCall == NoCall \in Calls /\ NoRequest \in Requests
<1>1. <<>> \in ParentMaps
  BY DEF ParentMaps
<1>2. NoRequest \in Requests
  BY DEF NoRequest, Requests
<1>3. <<>> \in ParentMaps \cup Usages
  BY <1>1
<1>4. NoCall \in Calls
  BY <1>3 DEF NoCall, Calls, Whats
<1>. QED BY <1>2, <1>4

LEMMA InitRequests == Init => RequestInv
<1>. SUFFICES ASSUME Init PROVE RequestInv
  OBVIOUS
<1>1. ReqTypeOK
  BY RequestConstants DEF Init, ReqTypeOK, Usages, Phases
<1>2. Types
  BY <1>1, NoCallIsCall DEF Init, Types
<1>3. LeaseHeld
  BY DEF Init, LeaseHeld, Holding
<1>4. CallNumbers
  BY DEF Init, CallNumbers, NoCall
<1>5. \A h \in Handlers : Own(h)
  BY DEF Init, Own, Announced, SeenBefore, Faithful, Sure
<1>. QED BY <1>2, <1>3, <1>4, <1>5 DEF RequestInv

(* The fields a call gets when it is admitted. *)
LEMMA AdmittedCall ==
  ASSUME Types, NEW call \in Calls
  PROVE  LET j == [call EXCEPT !.call = spent.calls + 1, !.config = gw, !.mapped = mappings]
         IN  /\ j \in Calls /\ j.call = spent.calls + 1 /\ j.config = gw /\ j.mapped = mappings
             /\ j.what = call.what /\ j.who = call.who /\ j.id = call.id /\ j.target = call.target
             /\ j.limit = call.limit /\ j.override = call.override /\ j.seen = call.seen /\ j.rows = call.rows
<1>1. gw \in Configs /\ mappings \in Mappings /\ spent.calls + 1 \in Nat
  BY ConfigOf DEF Types, ReqTypeOK
<1>. DEFINE j == [call EXCEPT !.call = spent.calls + 1, !.config = gw, !.mapped = mappings]
<1>2. j \in Calls
  BY <1>1 DEF Calls
<1>3. j.call = spent.calls + 1 /\ j.config = gw /\ j.mapped = mappings
  BY <1>1 DEF Calls
<1>4. /\ j.what = call.what /\ j.who = call.who /\ j.id = call.id /\ j.target = call.target
      /\ j.limit = call.limit /\ j.override = call.override /\ j.seen = call.seen /\ j.rows = call.rows
  BY DEF Calls
<1>. QED BY <1>2, <1>3, <1>4

(* What every step of a handler does to its own place, and to no other's.  *)
LEMMA GotoShape ==
  ASSUME Types, NEW h \in Handlers, NEW phase \in Phases, Goto(h, phase)
  PROVE  at' \in [Handlers -> Phases] /\ at'[h] = phase /\ \A g \in Handlers \ {h} : at'[g] = at[g]
  BY DEF Types, ReqTypeOK, Goto

LEMMA JobShape ==
  ASSUME Types, NEW h \in Handlers, NEW j \in Calls, job' = [job EXCEPT ![h] = j]
  PROVE  job' \in [Handlers -> Calls] /\ job'[h] = j /\ \A g \in Handlers \ {h} : job'[g] = job[g]
  BY DEF Types

LEMMA FinishShape ==
  ASSUME Types, NEW h \in Handlers, Finish(h)
  PROVE  /\ at' \in [Handlers -> Phases] /\ at'[h] = "idle" /\ \A g \in Handlers \ {h} : at'[g] = at[g]
         /\ job' \in [Handlers -> Calls] /\ job'[h] = NoCall /\ \A g \in Handlers \ {h} : job'[g] = job[g]
         /\ valid' \in [Handlers -> BOOLEAN] /\ ~valid'[h] /\ \A g \in Handlers \ {h} : valid'[g] = valid[g]
         /\ lease' \in Handlers \cup {NoHandler} /\ \A g \in Handlers \ {h} : lease = g => lease' = g
<1>1. "idle" \in Phases
  BY DEF Phases
<1>. QED BY <1>1, GotoShape, JobShape, NoCallIsCall DEF Finish, Types, ReqTypeOK

LEMMA AdmitShape ==
  ASSUME Types, NEW h \in Handlers, NEW call \in Calls, Admit(h, call)
  PROVE  /\ at' \in [Handlers -> Phases] /\ at'[h] = "intent" /\ \A g \in Handlers \ {h} : at'[g] = at[g]
         /\ job' \in [Handlers -> Calls] /\ \A g \in Handlers \ {h} : job'[g] = job[g]
         /\ valid' \in [Handlers -> BOOLEAN] /\ \A g \in Handlers \ {h} : valid'[g] = valid[g]
         /\ lease = NoHandler /\ lease' = h
         /\ spent' \in [calls : Nat, faults : Nat] /\ spent'.calls = spent.calls + 1
         /\ job'[h].call = spent.calls + 1 /\ job'[h].config = gw /\ job'[h].mapped = mappings
         /\ job'[h].what = call.what /\ job'[h].who = call.who /\ job'[h].id = call.id
         /\ job'[h].target = call.target /\ job'[h].limit = call.limit /\ job'[h].override = call.override
         /\ job'[h].seen = call.seen /\ job'[h].rows = call.rows
         /\ UNCHANGED <<gw, mappings, requests, audit, usage, warned>>
<1>. DEFINE j == [call EXCEPT !.call = spent.calls + 1, !.config = gw, !.mapped = mappings]
<1>1. /\ j \in Calls /\ j.call = spent.calls + 1 /\ j.config = gw /\ j.mapped = mappings
      /\ j.what = call.what /\ j.who = call.who /\ j.id = call.id /\ j.target = call.target
      /\ j.limit = call.limit /\ j.override = call.override /\ j.seen = call.seen /\ j.rows = call.rows
  BY AdmittedCall
<1>2. job' = [job EXCEPT ![h] = j]
  BY DEF Admit
<1>. HIDE DEF j
<1>3. job' \in [Handlers -> Calls] /\ job'[h] = j /\ \A g \in Handlers \ {h} : job'[g] = job[g]
  BY <1>1, <1>2, JobShape
<1>4. "intent" \in Phases
  BY DEF Phases
<1>5. at' \in [Handlers -> Phases] /\ at'[h] = "intent" /\ \A g \in Handlers \ {h} : at'[g] = at[g]
  BY <1>4, GotoShape DEF Admit
<1>6. spent' \in [calls : Nat, faults : Nat] /\ spent'.calls = spent.calls + 1
  BY DEF Admit, Types, ReqTypeOK
<1>7. valid' \in [Handlers -> BOOLEAN] /\ \A g \in Handlers \ {h} : valid'[g] = valid[g]
  BY DEF Admit, Types, ReqTypeOK
<1>. QED BY <1>1, <1>3, <1>5, <1>6, <1>7 DEF Admit

LEMMA FaultShape ==
  ASSUME Types, Fault
  PROVE  spent' \in [calls : Nat, faults : Nat] /\ spent'.calls = spent.calls
  BY DEF Types, ReqTypeOK, Fault

(* The outcome of a call in the trail. *)
LEMMA RecordShape ==
  ASSUME Types, NEW h \in Handlers, NEW outcome \in {"intent", "succeeded", "failed"}, Record(h, outcome)
  PROVE  /\ audit' \subseteq [call : Nat, what : Whats, outcome : {"intent", "succeeded", "failed"}]
         /\ audit' = audit \cup {[call |-> job[h].call, what |-> job[h].what, outcome |-> outcome]}
<1>1. job[h].call \in Nat /\ job[h].what \in Whats
  BY DEF Types, Calls
<1>. QED BY <1>1 DEF Record, Types, ReqTypeOK

-----------------------------------------------------------------------------
(* --------------------- what the others may rely on ---------------------- *)
Grows == \A r \in RequestIds : requests'[r] = requests[r] \/ requests'[r].version > requests[r].version

(* A handler that is not the one that steps keeps what it relies on: the   *)
(* trail and the requests only grow, and only the holder of the lease      *)
(* changes what was read under it.                                         *)
LEMMA Bystander ==
  ASSUME RequestInv, NEW g \in Handlers, at'[g] = at[g], job'[g] = job[g], valid'[g] => valid[g],
         audit \subseteq audit', Grows, requests' \in [RequestIds -> Requests],
         lease # g \/ UNCHANGED <<gw, mappings, requests>>
  PROVE  Own(g)'
<1>1. Announced(g)'
  BY DEF RequestInv, Own, Announced
<1>2. SeenBefore(g)'
  <2>. SUFFICES ASSUME at[g] = "looked" PROVE SeenBefore(g)'
    BY DEF SeenBefore
  <2>. DEFINE id == job[g].id
              r == job[g].seen.request
  <2>1. /\ id \in RequestIds /\ job[g].seen \in Looks /\ r.version <= requests[id].version
        /\ r.version = requests[id].version => r = requests[id]
    BY DEF RequestInv, Own, SeenBefore
  <2>2. r.version \in Nat /\ requests[id].version \in Nat /\ requests'[id].version \in Nat
    BY <2>1 DEF RequestInv, Types, ReqTypeOK, Looks, Requests
  <2>3. requests'[id] = requests[id] \/ requests'[id].version > requests[id].version
    BY <2>1 DEF Grows
  <2>4. r.version <= requests'[id].version /\ (r.version = requests'[id].version => r = requests'[id])
    BY <2>1, <2>2, <2>3
  <2>. QED BY <2>1, <2>4 DEF SeenBefore
<1>3. Faithful(g)'
  <2>1. at'[g] = "applying" => Writing(g)'
    BY DEF RequestInv, Own, Faithful, Writing
  <2>2. Sure(g)' => Sure(g)
    BY DEF Sure
  <2>3. Sure(g) => lease = g
    BY DEF Sure, RequestInv, LeaseHeld, Holding
  <2>4. ASSUME Sure(g)', job'[g].what # "warn" PROVE Configured(g)' /\ Requested(g)'
    <3>1. Configured(g) /\ Requested(g) /\ UNCHANGED <<gw, mappings, requests>>
      BY <2>2, <2>3, <2>4 DEF RequestInv, Own, Faithful
    <3>2. Configured(g)'
      BY <3>1 DEF Configured, HasApplied, Planned, SeenRevision
    <3>3. Requested(g)'
      BY <3>1 DEF Requested
    <3>. QED BY <3>2, <3>3
  <2>. QED BY <2>1, <2>4 DEF Faithful
<1>. QED BY <1>1, <1>2, <1>3 DEF Own

(* So a step of one handler is about that handler. *)
LEMMA OneHandler ==
  ASSUME RequestInv, NEW h \in Handlers,
         \A g \in Handlers \ {h} : at'[g] = at[g] /\ job'[g] = job[g] /\ (valid'[g] => valid[g]),
         audit \subseteq audit', Grows, lease = h \/ UNCHANGED <<gw, mappings, requests>>,
         Types', LeaseHeld', CallNumbers', Own(h)'
  PROVE  RequestInv'
<1>1. requests' \in [RequestIds -> Requests]
  BY DEF Types, ReqTypeOK
<1>2. ASSUME NEW g \in Handlers \ {h} PROVE Own(g)'
  BY <1>1, <1>2, Bystander
<1>. QED BY <1>2 DEF RequestInv
-----------------------------------------------------------------------------
(* ------------------------ leases and numbers ---------------------------- *)
LEMMA MoveLease ==
  ASSUME Types, LeaseHeld, NEW h \in Handlers, NEW phase \in Phases, Goto(h, phase),
         UNCHANGED <<lease, valid>>, phase \in Holding => lease = h
  PROVE  LeaseHeld'
  BY GotoShape DEF LeaseHeld

LEMMA FinishLease ==
  ASSUME Types, LeaseHeld, NEW h \in Handlers, Finish(h)
  PROVE  LeaseHeld'
  BY FinishShape DEF LeaseHeld, Holding

LEMMA AdmitLease ==
  ASSUME Types, LeaseHeld, NEW h \in Handlers, NEW call \in Calls, Admit(h, call)
  PROVE  LeaseHeld'
  BY AdmitShape, RequestConstants DEF LeaseHeld, Holding

(* The trail may gain the record of h's call; h goes on, unless it failed. *)
LEMMA SameNumbers ==
  ASSUME Types, CallNumbers, NEW h \in Handlers, UNCHANGED job, spent'.calls = spent.calls,
         audit' = audit \/ \E outcome \in {"intent", "succeeded"} : Record(h, outcome)
  PROVE  CallNumbers'
<1>1. ASSUME NEW e \in audit' PROVE e \in audit \/ (e.call = job[h].call /\ e.outcome # "failed")
  BY <1>1 DEF Record
<1>. QED BY <1>1 DEF CallNumbers

LEMMA DropNumbers ==
  ASSUME Types, CallNumbers, NEW h \in Handlers, spent'.calls = spent.calls,
         job'[h].call = 0, \A g \in Handlers \ {h} : job'[g] = job[g],
         audit' = audit \/ \E outcome \in {"intent", "succeeded", "failed"} : Record(h, outcome)
  PROVE  CallNumbers'
<1>0. spent.calls \in Nat /\ \A g \in Handlers : job[g].call \in Nat
  BY DEF Types, ReqTypeOK, Calls
<1>1. ASSUME NEW e \in audit' PROVE e \in audit \/ e.call = job[h].call
  BY <1>1 DEF Record
<1>2. \A e \in audit' : e.call <= spent.calls
  BY <1>1 DEF CallNumbers
<1>3. ASSUME NEW g \in Handlers, NEW e \in audit', e.call # 0, e.call = job'[g].call PROVE e.outcome # "failed"
  <2>1. g # h /\ job'[g] = job[g]
    BY <1>3
  <2>2. e \in audit
    BY <1>1, <1>3, <2>1 DEF CallNumbers
  <2>. QED BY <1>3, <2>1, <2>2 DEF CallNumbers
<1>4. \A g, k \in Handlers : job'[g].call # 0 /\ job'[g].call = job'[k].call => g = k
  BY DEF CallNumbers
<1>5. \A g \in Handlers : job'[g].call <= spent.calls
  BY <1>0 DEF CallNumbers
<1>. QED BY <1>2, <1>3, <1>4, <1>5 DEF CallNumbers

LEMMA AdmitNumbers ==
  ASSUME Types, CallNumbers, NEW h \in Handlers, NEW call \in Calls, Admit(h, call)
  PROVE  CallNumbers'
<1>0. /\ spent.calls \in Nat /\ \A g \in Handlers : job[g].call \in Nat
      /\ \A e \in audit : e.call \in Nat
  BY DEF Types, ReqTypeOK, Calls
<1>1. /\ job'[h].call = spent.calls + 1 /\ spent'.calls = spent.calls + 1 /\ audit' = audit
      /\ \A g \in Handlers \ {h} : job'[g] = job[g]
  BY AdmitShape
<1>2. /\ \A g \in Handlers : job[g].call < spent.calls + 1
      /\ \A e \in audit : e.call < spent.calls + 1
  BY <1>0 DEF CallNumbers
<1>3. \A g, k \in Handlers : job'[g].call # 0 /\ job'[g].call = job'[k].call => g = k
  BY <1>0, <1>1, <1>2 DEF CallNumbers
<1>4. \A g \in Handlers : \A e \in audit : e.call # 0 /\ e.call = job'[g].call => e.outcome # "failed"
  BY <1>0, <1>1, <1>2 DEF CallNumbers
<1>5. \A g \in Handlers : job'[g].call <= spent.calls + 1
  BY <1>0, <1>1, <1>2
<1>6. \A e \in audit : e.call <= spent.calls + 1
  BY <1>0, <1>2
<1>. QED BY <1>1, <1>3, <1>4, <1>5, <1>6 DEF CallNumbers

(* A call that is over, and one that only moves on. *)
LEMMA FinishKeeps ==
  ASSUME RequestInv, NEW h \in Handlers, Finish(h), UNCHANGED <<gw, mappings, usage>>,
         spent' \in [calls : Nat, faults : Nat], spent'.calls = spent.calls,
         requests' = requests,
         audit' = audit \/ \E outcome \in {"intent", "succeeded", "failed"} : Record(h, outcome)
  PROVE  RequestInv'
<1>1. Types'
  <2>1. audit' \subseteq [call : Nat, what : Whats, outcome : {"intent", "succeeded", "failed"}]
    BY RecordShape DEF RequestInv, Types, ReqTypeOK
  <2>. QED BY <2>1, FinishShape DEF RequestInv, Types, ReqTypeOK
<1>2. LeaseHeld'
  BY FinishLease DEF RequestInv
<1>3. CallNumbers'
  BY FinishShape, DropNumbers DEF RequestInv, NoCall
<1>4. Own(h)'
  BY FinishShape DEF RequestInv, Own, Announced, SeenBefore, Faithful, Sure
<1>5. audit \subseteq audit' /\ Grows
  BY DEF Record, Grows
<1>6. \A g \in Handlers \ {h} : at'[g] = at[g] /\ job'[g] = job[g] /\ (valid'[g] => valid[g])
  BY FinishShape DEF RequestInv
<1>. QED BY <1>1, <1>2, <1>3, <1>4, <1>5, <1>6, OneHandler

LEMMA MoveKeeps ==
  ASSUME RequestInv, NEW h \in Handlers, NEW phase \in Phases, Goto(h, phase),
         UNCHANGED <<usage, lease, valid, job>>, phase \in Holding => lease = h,
         spent' \in [calls : Nat, faults : Nat], spent'.calls = spent.calls,
         gw' \in Configs, Parses(gw'), mappings' \in Mappings, requests' \in [RequestIds -> Requests],
         Grows, lease = h \/ UNCHANGED <<gw, mappings, requests>>,
         audit' = audit \/ \E outcome \in {"intent", "succeeded"} : Record(h, outcome),
         Own(h)'
  PROVE  RequestInv'
<1>1. Types'
  <2>1. audit' \subseteq [call : Nat, what : Whats, outcome : {"intent", "succeeded", "failed"}]
    BY RecordShape DEF RequestInv, Types, ReqTypeOK
  <2>2. IsConfig(gw')
    BY ConfigOf
  <2>3. IsConfig(gw)' /\ Parses(gw)'
    BY <2>2
  <2>. QED BY <2>1, <2>3, GotoShape DEF RequestInv, Types, ReqTypeOK
<1>2. LeaseHeld'
  BY MoveLease DEF RequestInv
<1>3. CallNumbers'
  BY SameNumbers DEF RequestInv
<1>4. audit \subseteq audit'
  BY DEF Record
<1>5. \A g \in Handlers \ {h} : at'[g] = at[g] /\ job'[g] = job[g] /\ (valid'[g] => valid[g])
  BY GotoShape DEF RequestInv
<1>. QED BY <1>1, <1>2, <1>3, <1>4, <1>5, OneHandler
-----------------------------------------------------------------------------
(* ------------------------- what is written ------------------------------ *)
(* A handler that stores still has the lease, so what it computed when it  *)
(* began is computed from what is stored.                                  *)
LEMMA StoringSure ==
  ASSUME RequestInv, NEW h \in Handlers, at[h] \in {"applying", "threshold", "storing"}
  PROVE  /\ lease = h
         /\ job[h].what # "warn" => Configured(h) /\ Requested(h)
  BY DEF RequestInv, LeaseHeld, Holding, Own, Faithful, Sure

(* A decision is a newer version of the request that was looked at.        *)
LEMMA DecidedTypes ==
  ASSUME RequestInv, NEW h \in Handlers, at[h] = "storing",
         job[h].what \in {"ask", "approve", "reject", "escalate"}
  PROVE  LET id == job[h].id
         IN  /\ id \in RequestIds /\ Decided(h) \in Requests
             /\ Decided(h).version > requests[id].version
             /\ requests[id].state \in {"none", "pending"}
             /\ Decided(h).state = "approved" =>
                    /\ job[h].what = "approve"
                    /\ job[h].target = requests[id].target /\ job[h].limit = requests[id].limit
<1>. DEFINE id == job[h].id
            r == job[h].seen.request
<1>0. Configured(h) /\ Requested(h) /\ job[h].what # "warn"
  BY StoringSure
<1>1. job[h] \in Calls
  BY DEF RequestInv, Types
<1>2. CASE job[h].what = "ask"
  <2>1. id \in RequestIds /\ requests[id] = NoRequest
    BY <1>0, <1>2 DEF Requested
  <2>2. ParentIn(job[h].config, job[h].target) \in Units \cup {NoUnit}
    BY <1>0, CatalogTypes DEF Configured
  <2>3. Decided(h) = [state |-> "pending", target |-> job[h].target, limit |-> job[h].limit,
                      requester |-> job[h].who, approver |-> ParentIn(job[h].config, job[h].target),
                      version |-> 1]
    BY <1>2 DEF Decided
  <2>4. Decided(h) \in Requests /\ Decided(h).version = 1 /\ Decided(h).state = "pending"
    BY <1>1, <2>2, <2>3 DEF Calls, Requests
  <2>. QED BY <2>1, <2>4 DEF NoRequest
<1>3. CASE job[h].what \in Deciding
  <2>1. /\ id \in RequestIds /\ requests[id] = r /\ r.state = "pending" /\ job[h].seen \in Looks
        /\ job[h].target = r.target /\ job[h].limit = r.limit
    BY <1>0, <1>3 DEF Requested
  <2>2. r \in Requests /\ r.version \in Nat /\ r.version + 1 \in Nat
    BY <2>1 DEF Looks, Requests
  <2>3. ParentIn(job[h].config, r.approver) \in Units \cup {NoUnit}
    BY <1>0, CatalogTypes DEF Configured
  <2>4. \/ /\ job[h].what = "escalate"
           /\ Decided(h) = [r EXCEPT !.approver = ParentIn(job[h].config, r.approver), !.version = r.version + 1]
        \/ /\ job[h].what = "approve"
           /\ Decided(h) = [r EXCEPT !.state = "approved", !.version = r.version + 1]
        \/ /\ job[h].what = "reject"
           /\ Decided(h) = [r EXCEPT !.state = "rejected", !.version = r.version + 1]
    BY <1>3 DEF Deciding, Decided
  <2>. HIDE DEF r
  <2>5. Decided(h) \in Requests /\ Decided(h).version = r.version + 1
    BY <2>2, <2>3, <2>4 DEF Requests
  <2>6. Decided(h).state = "approved" => job[h].what = "approve"
    BY <2>1, <2>2, <2>4 DEF Requests
  <2>. QED BY <2>1, <2>2, <2>5, <2>6
<1>. QED BY <1>2, <1>3 DEF Deciding

LEMMA StoredEffect ==
  ASSUME RequestInv, NEW h \in Handlers, at[h] = "storing", Stored(h)
  PROVE  /\ mappings' \in Mappings /\ requests' \in [RequestIds -> Requests] /\ Grows
         /\ \A r \in RequestIds : requests[r].state \in {"approved", "rejected"} => requests'[r] = requests[r]
         /\ \A r \in RequestIds : requests[r].state = "pending" /\ requests'[r].state = "approved" =>
                /\ job[h].what = "approve" /\ r = job[h].id
                /\ job[h].target = requests[r].target /\ job[h].limit = requests[r].limit
<1>1. mappings' \in Mappings
  BY DEF Stored, RequestInv, Types, ReqTypeOK, Mappings, Calls
<1>2. CASE job[h].what \in {"ask", "approve", "reject", "escalate"}
  <2>. DEFINE id == job[h].id
  <2>1. /\ id \in RequestIds /\ Decided(h) \in Requests /\ Decided(h).version > requests[id].version
        /\ requests[id].state \in {"none", "pending"}
        /\ Decided(h).state = "approved" =>
             /\ job[h].what = "approve"
             /\ job[h].target = requests[id].target /\ job[h].limit = requests[id].limit
    BY <1>2, DecidedTypes
  <2>2. requests' = [requests EXCEPT ![id] = Decided(h)] /\ requests \in [RequestIds -> Requests]
    BY <1>2 DEF Stored, RequestInv, Types, ReqTypeOK
  <2>. HIDE DEF id
  <2>3. requests'[id] = Decided(h) /\ \A r \in RequestIds \ {id} : requests'[r] = requests[r]
    BY <2>1, <2>2
  <2>4. requests' \in [RequestIds -> Requests]
    BY <2>1, <2>2
  <2>5. Grows
    BY <2>1, <2>3 DEF Grows
  <2>. QED BY <1>1, <2>1, <2>3, <2>4, <2>5 DEF id
<1>3. CASE job[h].what \notin {"ask", "approve", "reject", "escalate"}
  <2>1. requests' = requests /\ requests \in [RequestIds -> Requests]
    BY <1>3 DEF Stored, RequestInv, Types, ReqTypeOK
  <2>. QED BY <1>1, <2>1 DEF Grows
<1>. QED BY <1>2, <1>3

(* What an apply writes is a configuration again, with the limit in it.    *)
LEMMA WrittenTypes ==
  ASSUME RequestInv, NEW h \in Handlers, at[h] = "applying"
  PROVE  /\ lease = h /\ Writing(h) /\ gw = job[h].config
         /\ Written(h) \in Configs /\ Parses(Written(h))
         /\ job[h].what # "move" =>
                /\ Limit(Written(h), job[h].target) = job[h].limit
                /\ Catalog(Written(h)) = Catalog(gw) /\ Written(h).par = gw.par
<1>1. lease = h /\ Writing(h) /\ job[h].what # "warn" /\ Configured(h)
  <2>1. Writing(h)
    BY DEF RequestInv, Own, Faithful
  <2>. QED BY <2>1, StoringSure DEF Writing
<1>2. gw = job[h].config /\ gw \in Configs /\ Parses(gw) /\ Planned(h)
  BY <1>1 DEF Configured, HasApplied, RequestInv, Types, ReqTypeOK
<1>3. CASE job[h].what = "move"
  <2>1. Written(h) = [gw EXCEPT !.par = job[h].rows] /\ job[h].rows \in ParentMaps /\ Parses(Written(h))
    BY <1>1, <1>2, <1>3 DEF Written, Configured
  <2>. QED BY <1>1, <1>2, <1>3, <2>1 DEF Configs
<1>4. CASE job[h].what # "move"
  <2>1. job[h].target \in Targets(gw) /\ job[h].limit \in Nat
    BY <1>1, <1>2, <1>4 DEF Configured, Writing, Planned, Plans, RequestInv, Types, Calls
  <2>2. Written(h) = WithLimit(gw, job[h].target, job[h].limit)
    BY <1>4 DEF Written
  <2>3. /\ Written(h) \in Configs /\ Limit(Written(h), job[h].target) = job[h].limit
        /\ Catalog(Written(h)) = Catalog(gw) /\ Written(h).par = gw.par
    BY <1>2, <2>1, <2>2, LimitWritten
  <2>4. Parses(Written(h))
    BY <1>2, <2>3, SameTree
  <2>. QED BY <1>1, <1>2, <2>3, <2>4
<1>. QED BY <1>3, <1>4
-----------------------------------------------------------------------------
(* --------------------------- step by step ------------------------------- *)
LEMMA TypeFacts ==
  ASSUME RequestInv
  PROVE  /\ gw \in Configs /\ Parses(gw) /\ mappings \in Mappings /\ requests \in [RequestIds -> Requests]
         /\ spent \in [calls : Nat, faults : Nat]
         /\ \A h \in Handlers : job[h] \in Calls /\ at[h] \in Phases
  BY ConfigOf DEF RequestInv, Types, ReqTypeOK

(* The intent is recorded; nothing else changes. *)
LEMMA IntendKeeps ==
  ASSUME RequestInv, NEW h \in Handlers, Intend(h)
  PROVE  RequestInv'
<1>1. /\ at[h] = "intent" /\ Record(h, "intent") /\ Goto(h, "checking") /\ "checking" \in Phases
      /\ UNCHANGED <<gw, mappings, requests, usage, warned, lease, valid, job, spent>>
  BY DEF Intend, Phases
<1>2. at'[h] = "checking"
  BY <1>1, GotoShape DEF RequestInv
<1>3. Announced(h)'
  BY <1>1 DEF Announced, Record
<1>4. SeenBefore(h)'
  BY <1>2 DEF SeenBefore
<1>5. Faithful(h)'
  <2>1. job[h].what # "warn" => Configured(h) /\ Requested(h)
    BY <1>1 DEF RequestInv, Own, Faithful, Sure
  <2>2. Configured(h) => Configured(h)'
    BY <1>1, <1>2 DEF Configured, HasApplied, SeenRevision
  <2>3. Requested(h) => Requested(h)'
    BY <1>1 DEF Requested
  <2>. QED BY <1>1, <1>2, <2>1, <2>2, <2>3 DEF Faithful
<1>6. "checking" \notin Holding /\ Grows
  BY <1>1 DEF Holding, Grows
<1>7. Own(h)'
  BY <1>3, <1>4, <1>5 DEF Own
<1>8. gw' \in Configs /\ Parses(gw') /\ mappings' \in Mappings /\ requests' \in [RequestIds -> Requests]
  BY <1>1, TypeFacts
<1>9. spent' \in [calls : Nat, faults : Nat] /\ spent'.calls = spent.calls
  BY <1>1, TypeFacts
<1>. QED BY <1>1, <1>6, <1>7, <1>8, <1>9, MoveKeeps

(* A valid lease has been held since the admission, and an approval's plan *)
(* is made of what is still so.                                            *)
LEMMA CheckKeeps ==
  ASSUME RequestInv, NEW h \in Handlers, Check(h)
  PROVE  RequestInv'
<1>. DEFINE phase == IF Writing(h) THEN "applying" ELSE "storing"
<1>1. /\ at[h] = "checking" /\ valid[h] /\ Planned(h) /\ Goto(h, phase) /\ phase \in Phases
      /\ UNCHANGED <<gw, mappings, requests, audit, usage, warned, lease, valid, job, spent>>
  BY DEF Check, Phases
<1>2. at'[h] = phase /\ phase \in {"applying", "storing"} /\ (phase = "applying" <=> Writing(h))
  BY <1>1, GotoShape DEF RequestInv
<1>3. lease = h
  BY <1>1 DEF RequestInv, LeaseHeld
<1>. HIDE DEF phase
<1>4. Announced(h)'
  BY <1>1 DEF Announced, RequestInv, Own
<1>5. SeenBefore(h)'
  BY <1>2 DEF SeenBefore
<1>6. Faithful(h)'
  <2>1. job[h].what # "warn" => Configured(h) /\ Requested(h)
    BY <1>1 DEF RequestInv, Own, Faithful, Sure
  <2>2. at'[h] = "applying" => Writing(h)'
    BY <1>1, <1>2 DEF Writing
  <2>3. ~HasApplied(h) /\ ~HasApplied(h)'
    BY <1>1, <1>2 DEF HasApplied, Writing
  <2>4. Planned(h)'
    BY <1>1 DEF Planned
  <2>5. Configured(h) => Configured(h)'
    BY <1>1, <2>3, <2>4 DEF Configured, SeenRevision
  <2>6. Requested(h) => Requested(h)'
    BY <1>1 DEF Requested
  <2>. QED BY <1>1, <2>1, <2>2, <2>5, <2>6 DEF Faithful
<1>7. Own(h)' /\ Grows
  BY <1>1, <1>4, <1>5, <1>6 DEF Own, Grows
<1>8. gw' \in Configs /\ Parses(gw') /\ mappings' \in Mappings /\ requests' \in [RequestIds -> Requests]
  BY <1>1, TypeFacts
<1>9. spent' \in [calls : Nat, faults : Nat] /\ spent'.calls = spent.calls
  BY <1>1, TypeFacts
<1>. QED BY <1>1, <1>3, <1>7, <1>8, <1>9, MoveKeeps

(* The limit is written into the configuration that was planned on. *)
LEMMA ApplyKeeps ==
  ASSUME RequestInv, NEW h \in Handlers, Apply(h)
  PROVE  RequestInv'
<1>. DEFINE phase == IF job[h].what = "move" THEN "closing" ELSE "threshold"
<1>1. /\ at[h] = "applying" /\ gw = job[h].config /\ gw' = Written(h) /\ Goto(h, phase) /\ phase \in Phases
      /\ UNCHANGED <<mappings, requests, audit, usage, warned, lease, valid, job, spent>>
  BY DEF Apply, Phases
<1>2. at'[h] = phase /\ phase \in {"closing", "threshold"} /\ (phase = "closing" <=> job[h].what = "move")
  BY <1>1, GotoShape DEF RequestInv
<1>3. /\ lease = h /\ Writing(h) /\ gw' \in Configs /\ Parses(gw')
      /\ job[h].what # "move" =>
             Limit(gw', job[h].target) = job[h].limit /\ Catalog(gw') = Catalog(gw) /\ gw'.par = gw.par
  BY <1>1, WrittenTypes
<1>. HIDE DEF phase
<1>4. Announced(h)'
  BY <1>1, <1>2 DEF Announced, RequestInv, Own
<1>5. SeenBefore(h)'
  BY <1>2 DEF SeenBefore
<1>6. Faithful(h)'
  <2>. SUFFICES ASSUME at'[h] = "threshold", job[h].what # "warn" PROVE Faithful(h)'
    BY <1>1, <1>2 DEF Faithful, Sure
  <2>1. Configured(h) /\ Requested(h)
    BY <1>1 DEF RequestInv, Own, Faithful, Sure
  <2>2. job[h].what \in {"set", "approve"}
    BY <1>2, <1>3 DEF Writing
  <2>3. Planned(h)'
    BY <1>1, <2>1 DEF Planned, Configured
  <2>4. HasApplied(h)' /\ Catalog(gw') = Catalog(job[h].config) /\ gw'.par = job[h].config.par
    BY <1>1, <1>3, <2>2 DEF HasApplied
  <2>5. Configured(h)'
    BY <1>1, <1>3, <2>1, <2>2, <2>3, <2>4 DEF Configured, SeenRevision, Catalog
  <2>6. Requested(h)'
    BY <1>1, <2>1 DEF Requested
  <2>. QED BY <2>5, <2>6 DEF Faithful
<1>7. Own(h)' /\ Grows
  BY <1>1, <1>4, <1>5, <1>6 DEF Own, Grows
<1>8. mappings' \in Mappings /\ requests' \in [RequestIds -> Requests]
  BY <1>1, TypeFacts
<1>9. spent' \in [calls : Nat, faults : Nat] /\ spent'.calls = spent.calls
  BY <1>1, TypeFacts
<1>. QED BY <1>1, <1>3, <1>7, <1>8, <1>9, MoveKeeps

(* The limit stands while the threshold is stored. *)
LEMMA ThresholdKeeps ==
  ASSUME RequestInv, NEW h \in Handlers, Threshold(h)
  PROVE  RequestInv'
<1>. DEFINE phase == IF job[h].what = "approve" THEN "storing" ELSE "closing"
<1>1. /\ at[h] = "threshold" /\ Goto(h, phase) /\ phase \in Phases
      /\ UNCHANGED <<gw, mappings, requests, audit, usage, warned, lease, valid, job, spent>>
  BY DEF Threshold, Phases
<1>2. at'[h] = phase /\ phase \in {"closing", "storing"} /\ (phase = "storing" <=> job[h].what = "approve")
  BY <1>1, GotoShape DEF RequestInv
<1>3. lease = h /\ (job[h].what # "warn" => Configured(h) /\ Requested(h))
  BY <1>1, StoringSure
<1>. HIDE DEF phase
<1>4. Announced(h)'
  BY <1>1, <1>2 DEF Announced, RequestInv, Own
<1>5. SeenBefore(h)'
  BY <1>2 DEF SeenBefore
<1>6. Faithful(h)'
  <2>. SUFFICES ASSUME at'[h] = "storing", job[h].what # "warn" PROVE Faithful(h)'
    BY <1>1, <1>2 DEF Faithful, Sure
  <2>1. Planned(h)' /\ HasApplied(h) /\ HasApplied(h)'
    BY <1>1, <1>2, <1>3 DEF Planned, Configured, HasApplied
  <2>2. Configured(h)'
    BY <1>1, <1>3, <2>1 DEF Configured, SeenRevision
  <2>3. Requested(h)'
    BY <1>1, <1>3 DEF Requested
  <2>. QED BY <2>2, <2>3 DEF Faithful
<1>7. Own(h)' /\ Grows
  BY <1>1, <1>4, <1>5, <1>6 DEF Own, Grows
<1>8. gw' \in Configs /\ Parses(gw') /\ mappings' \in Mappings /\ requests' \in [RequestIds -> Requests]
  BY <1>1, TypeFacts
<1>9. spent' \in [calls : Nat, faults : Nat] /\ spent'.calls = spent.calls
  BY <1>1, TypeFacts
<1>. QED BY <1>1, <1>3, <1>7, <1>8, <1>9, MoveKeeps

(* The request, group or warning is stored: nothing is left to be done but *)
(* to say so.                                                              *)
LEMMA DoneKeeps ==
  ASSUME RequestInv, NEW h \in Handlers, NEW phase \in {"closing", "failing"}, Goto(h, phase),
         UNCHANGED <<audit, usage, lease, valid, job>>,
         spent' \in [calls : Nat, faults : Nat], spent'.calls = spent.calls,
         phase = "closing" => lease = h,
         \/ UNCHANGED <<gw, mappings, requests>>
         \/ at[h] = "storing" /\ Stored(h) /\ gw' = gw
         \/ at[h] = "applying" /\ gw' = Written(h) /\ UNCHANGED <<mappings, requests>>
  PROVE  RequestInv'
<1>1. phase \in Phases /\ at'[h] = phase
  BY GotoShape DEF Phases, RequestInv
<1>2. Own(h)'
  BY <1>1 DEF Own, Announced, SeenBefore, Faithful, Sure
<1>3. CASE UNCHANGED <<gw, mappings, requests>>
  BY <1>1, <1>2, <1>3, TypeFacts, MoveKeeps DEF Grows, Holding
<1>4. CASE at[h] = "storing" /\ Stored(h) /\ gw' = gw
  BY <1>1, <1>2, <1>4, TypeFacts, StoringSure, StoredEffect, MoveKeeps
<1>5. CASE at[h] = "applying" /\ gw' = Written(h) /\ UNCHANGED <<mappings, requests>>
  <2>1. lease = h /\ gw' \in Configs /\ Parses(gw') /\ Grows
    BY <1>5, WrittenTypes DEF Grows
  <2>. QED BY <1>1, <1>2, <1>5, <2>1, TypeFacts, MoveKeeps
<1>. QED BY <1>3, <1>4, <1>5
(* Every way a call ends well, fails, or is left by its handler. *)
LEMMA WorkKeeps ==
  ASSUME RequestInv, NEW h \in Handlers, Work(h) \/ CallFails(h) \/ Leave(h)
  PROVE  RequestInv'
<1>1. CASE Store(h)
  BY <1>1, DoneKeeps, StoringSure, TypeFacts DEF Store
<1>2. CASE CheckFails(h)
  BY <1>2, DoneKeeps, TypeFacts DEF CheckFails
<1>3. CASE ApplyFails(h)
  <2>1. spent' \in [calls : Nat, faults : Nat] /\ spent'.calls = spent.calls
    BY <1>3, TypeFacts, FaultShape DEF ApplyFails, RequestInv
  <2>. QED BY <1>3, <2>1, DoneKeeps DEF ApplyFails
<1>4. CASE CallFails(h)
  <2>1. spent' \in [calls : Nat, faults : Nat] /\ spent'.calls = spent.calls
    BY <1>4, FaultShape DEF CallFails, RequestInv
  <2>2. CASE at[h] \in {"intent", "closing", "failing"}
    BY <1>4, <2>1, <2>2, FinishKeeps DEF CallFails
  <2>3. CASE at[h] \in {"threshold", "storing"}
    BY <1>4, <2>1, <2>3, DoneKeeps DEF CallFails
  <2>. QED BY <1>4, <2>2, <2>3 DEF CallFails
<1>5. CASE Close(h) \/ Fail(h) \/ Leave(h)
  BY <1>5, FinishKeeps, TypeFacts DEF Close, Fail, Leave
<1>. QED BY <1>1, <1>2, <1>3, <1>4, <1>5, IntendKeeps, CheckKeeps, ApplyKeeps, ThresholdKeeps DEF Work

(* A call without a number: a look, a measurement, a warning, a crash.     *)
LEMMA UnnumberedKeeps ==
  ASSUME RequestInv, NEW h \in Handlers, NEW phase \in Phases, Goto(h, phase),
         NEW j \in Calls, j.call = 0, job' = [job EXCEPT ![h] = j],
         UNCHANGED <<gw, mappings, requests, audit, usage>>,
         spent' \in [calls : Nat, faults : Nat], spent'.calls = spent.calls,
         lease' \in Handlers \cup {NoHandler}, valid' \in [Handlers -> BOOLEAN],
         \A g \in Handlers \ {h} : (valid'[g] => valid[g]) /\ (lease = g => lease' = g),
         valid'[h] \/ phase \in Holding => lease' = h,
         Own(h)'
  PROVE  RequestInv'
<1>1. /\ at' \in [Handlers -> Phases] /\ at'[h] = phase
      /\ job' \in [Handlers -> Calls] /\ job'[h] = j
      /\ \A g \in Handlers \ {h} : at'[g] = at[g] /\ job'[g] = job[g] /\ (valid'[g] => valid[g])
  BY GotoShape, JobShape DEF RequestInv
<1>2. Types'
  BY <1>1 DEF RequestInv, Types, ReqTypeOK
<1>3. LeaseHeld'
  BY <1>1 DEF RequestInv, LeaseHeld
<1>4. CallNumbers'
  BY <1>1, DropNumbers DEF RequestInv
<1>5. Grows
  BY DEF Grows
<1>. QED BY <1>1, <1>2, <1>3, <1>4, <1>5, OneHandler

(* What was looked at is what there is. *)
LEMMA LookKeeps ==
  ASSUME RequestInv, NEW h \in Handlers, Look(h)
  PROVE  RequestInv'
<1>1. PICK p \in Persons, r \in RequestIds :
         /\ at[h] = "idle" /\ Goto(h, "looked")
         /\ job' = [job EXCEPT ![h] = [NoCall EXCEPT !.who = p, !.id = r,
                !.seen = [config |-> gw, mapped |-> mappings, request |-> requests[r]]]]
         /\ UNCHANGED <<gw, mappings, requests, audit, usage, warned, lease, valid, spent>>
  BY DEF Look
<1>. DEFINE seen == [config |-> gw, mapped |-> mappings, request |-> requests[r]]
            j == [NoCall EXCEPT !.who = p, !.id = r, !.seen = seen]
<1>2. seen \in Looks /\ seen.request = requests[r] /\ requests[r].version \in Nat
  BY TypeFacts DEF Looks, Requests
<1>. HIDE DEF seen
<1>3. j \in Calls /\ j.call = 0 /\ j.id = r /\ j.seen = seen
  BY <1>2, NoCallIsCall DEF Calls, NoCall
<1>4. job' = [job EXCEPT ![h] = j]
  BY <1>1 DEF seen
<1>. HIDE DEF j
<1>5. at'[h] = "looked" /\ job'[h] = j
  BY <1>1, <1>3, <1>4, GotoShape, JobShape DEF RequestInv, Phases
<1>6. Own(h)'
  <2>1. requests'[r] = requests[r] /\ r \in RequestIds /\ seen.request.version <= requests[r].version
    BY <1>1, <1>2
  <2>2. SeenBefore(h)'
    BY <1>2, <1>3, <1>5, <2>1 DEF SeenBefore
  <2>. QED BY <1>5, <2>2 DEF Own, Announced, Faithful, Sure
<1>7. /\ lease' \in Handlers \cup {NoHandler} /\ valid' \in [Handlers -> BOOLEAN]
      /\ \A g \in Handlers \ {h} : (valid'[g] => valid[g]) /\ (lease = g => lease' = g)
      /\ valid'[h] => lease' = h
  BY <1>1 DEF RequestInv, Types, ReqTypeOK, LeaseHeld
<1>8. "looked" \in Phases \ Holding
  BY DEF Phases, Holding
<1>9. spent' \in [calls : Nat, faults : Nat] /\ spent'.calls = spent.calls
  BY <1>1, TypeFacts
<1>. QED BY <1>1, <1>3, <1>4, <1>6, <1>7, <1>8, <1>9, UnnumberedKeeps

LEMMA MeasureKeeps ==
  ASSUME RequestInv, NEW h \in Handlers, Measure(h)
  PROVE  RequestInv'
<1>. DEFINE j == [NoCall EXCEPT !.rows = usage]
<1>1. /\ Goto(h, "measured") /\ job' = [job EXCEPT ![h] = j]
      /\ UNCHANGED <<gw, mappings, requests, audit, usage, warned, lease, valid, spent>>
  BY DEF Measure
<1>2. j \in Calls /\ j.call = 0
  BY NoCallIsCall DEF Calls, NoCall, RequestInv, Types, ReqTypeOK
<1>. HIDE DEF j
<1>3. at'[h] = "measured" /\ "measured" \in Phases \ Holding
  BY <1>1, GotoShape DEF RequestInv, Phases, Holding
<1>4. Own(h)'
  BY <1>3 DEF Own, Announced, SeenBefore, Faithful, Sure
<1>5. /\ lease' \in Handlers \cup {NoHandler} /\ valid' \in [Handlers -> BOOLEAN]
      /\ \A g \in Handlers \ {h} : (valid'[g] => valid[g]) /\ (lease = g => lease' = g)
      /\ valid'[h] => lease' = h
  BY <1>1 DEF RequestInv, Types, ReqTypeOK, LeaseHeld
<1>6. spent' \in [calls : Nat, faults : Nat] /\ spent'.calls = spent.calls
  BY <1>1, TypeFacts
<1>. QED BY <1>1, <1>2, <1>3, <1>4, <1>5, <1>6, UnnumberedKeeps

(* A warning relies on nothing that was read. *)
LEMMA WarnKeeps ==
  ASSUME RequestInv, NEW h \in Handlers, Warn(h)
  PROVE  RequestInv'
<1>1. PICK t \in Targets(gw) :
         job' = [job EXCEPT ![h] = [NoCall EXCEPT !.what = "warn", !.target = t, !.limit = Limit(gw, t)]]
  BY DEF Warn
<1>. DEFINE j == [NoCall EXCEPT !.what = "warn", !.target = t, !.limit = Limit(gw, t)]
<1>2. /\ Goto(h, "intent") /\ lease = NoHandler /\ lease' = h /\ valid' = [valid EXCEPT ![h] = TRUE]
      /\ UNCHANGED <<gw, mappings, requests, audit, usage, warned, spent>>
  BY DEF Warn
<1>3. Limit(gw, t) \in Nat /\ t \in Units \cup Users
  BY TypeFacts, CatalogTypes
<1>4. j \in Calls /\ j.call = 0 /\ j.what = "warn" /\ job' = [job EXCEPT ![h] = j]
  <2>1. j.call = 0 /\ j.what = "warn"
    BY DEF NoCall
  <2>2. j \in Calls
    <3>1. "warn" \in Whats /\ Limit(gw, t) \in Nat /\ t \in Units \cup Users /\ NoCall \in Calls
      BY <1>3, NoCallIsCall DEF Whats
    <3>2. \A c \in Calls, what \in Whats, x \in Units \cup Users, limit \in Nat :
            [c EXCEPT !.what = what, !.target = x, !.limit = limit] \in Calls
      BY DEF Calls
    <3>. QED BY <3>1, <3>2
  <2>. QED BY <1>1, <2>1, <2>2
<1>. HIDE DEF j
<1>5. at'[h] = "intent" /\ "intent" \in Phases /\ job'[h] = j
  BY <1>2, <1>4, GotoShape, JobShape DEF RequestInv, Phases
<1>6. Own(h)'
  BY <1>4, <1>5 DEF Own, Announced, SeenBefore, Faithful
<1>7. /\ lease' \in Handlers \cup {NoHandler} /\ valid' \in [Handlers -> BOOLEAN]
      /\ \A g \in Handlers \ {h} : (valid'[g] => valid[g]) /\ (lease = g => lease' = g)
  BY <1>2, RequestConstants DEF RequestInv, Types, ReqTypeOK
<1>8. spent' \in [calls : Nat, faults : Nat] /\ spent'.calls = spent.calls
  BY <1>2, TypeFacts
<1>. QED BY <1>2, <1>4, <1>5, <1>6, <1>7, <1>8, UnnumberedKeeps

(* A handler dies and its lease stays until it expires. *)
LEMMA CrashKeeps ==
  ASSUME RequestInv, NEW h \in Handlers, Crash(h)
  PROVE  RequestInv'
<1>1. /\ Goto(h, "idle") /\ job' = [job EXCEPT ![h] = NoCall] /\ valid' = [valid EXCEPT ![h] = FALSE]
      /\ UNCHANGED <<gw, mappings, requests, audit, usage, warned, lease>>
  BY DEF Crash
<1>2. at'[h] = "idle" /\ "idle" \in Phases \ Holding
  BY <1>1, GotoShape DEF RequestInv, Phases, Holding
<1>3. Own(h)'
  BY <1>2 DEF Own, Announced, SeenBefore, Faithful, Sure
<1>4. NoCall \in Calls /\ NoCall.call = 0
  BY NoCallIsCall DEF NoCall
<1>5. /\ lease' \in Handlers \cup {NoHandler} /\ valid' \in [Handlers -> BOOLEAN] /\ ~valid'[h]
      /\ \A g \in Handlers \ {h} : (valid'[g] => valid[g]) /\ (lease = g => lease' = g)
  BY <1>1 DEF RequestInv, Types, ReqTypeOK
<1>6. spent' \in [calls : Nat, faults : Nat] /\ spent'.calls = spent.calls
  BY FaultShape DEF RequestInv, Crash
<1>. QED BY <1>1, <1>2, <1>3, <1>4, <1>5, <1>6, UnnumberedKeeps

(* Leases pass and usage grows; nobody who relies on a lease loses it.     *)
LEMMA OutsideKeeps ==
  ASSUME ~SlowCalls, RequestInv,
         (\E h \in Handlers : LoseLease(h)) \/ LeaseExpires \/ \E t \in Metered : Use(t)
  PROVE  RequestInv'
<1>1. /\ UNCHANGED <<gw, mappings, requests, audit, warned, at, job>>
      /\ valid' \in [Handlers -> BOOLEAN] /\ \A g \in Handlers : valid'[g] => valid[g]
      /\ lease' \in Handlers \cup {NoHandler} /\ usage' \in Usages
      /\ spent' \in [calls : Nat, faults : Nat] /\ spent'.calls = spent.calls
  <2>1. ASSUME NEW h \in Handlers, LoseLease(h)
        PROVE  /\ UNCHANGED <<gw, mappings, requests, audit, usage, warned, at, job, lease>>
               /\ valid' \in [Handlers -> BOOLEAN] /\ \A g \in Handlers : valid'[g] => valid[g]
               /\ spent' \in [calls : Nat, faults : Nat] /\ spent'.calls = spent.calls
    BY <2>1, FaultShape DEF LoseLease, RequestInv, Types, ReqTypeOK
  <2>2. CASE LeaseExpires
    BY <2>2 DEF LeaseExpires, RequestInv, Types, ReqTypeOK
  <2>3. ASSUME NEW t \in Metered, Use(t) PROVE usage' \in Usages
    <3>1. usage \in Usages /\ usage' = [usage EXCEPT ![t] = usage[t] + 1] /\ usage[t] < MaxUsage
      BY <2>3 DEF Use, RequestInv, Types, ReqTypeOK
    <3>2. t \in Units \cup Users => usage[t] + 1 \in 0..MaxUsage
      BY <3>1, RequestConstants DEF Usages
    <3>. QED BY <3>1, <3>2 DEF Usages
  <2>4. CASE \E t \in Metered : Use(t)
    BY <2>3, <2>4 DEF Use, RequestInv, Types, ReqTypeOK
  <2>. QED BY <2>1, <2>2, <2>4 DEF RequestInv, Types, ReqTypeOK
<1>2. Types'
  BY <1>1 DEF RequestInv, Types, ReqTypeOK
<1>3. LeaseHeld'
  <2>1. CASE LeaseExpires
    BY <2>1 DEF LeaseExpires, RequestInv, LeaseHeld, Holding, Calling
  <2>2. CASE lease' = lease
    BY <1>1, <2>2 DEF RequestInv, LeaseHeld
  <2>. QED BY <2>1, <2>2 DEF LoseLease, Use
<1>4. CallNumbers'
  BY <1>1 DEF RequestInv, CallNumbers
<1>5. \A g \in Handlers : Own(g)'
  <2>1. Grows /\ audit \subseteq audit' /\ requests' \in [RequestIds -> Requests]
    BY <1>1, TypeFacts DEF Grows
  <2>. QED BY <1>1, <2>1, Bystander
<1>. QED BY <1>2, <1>3, <1>4, <1>5 DEF RequestInv
-----------------------------------------------------------------------------
(* ----------------------------- admissions ------------------------------- *)
(* What a handler must have established when its call gets a number.       *)
LEMMA AdmitKeeps ==
  ASSUME RequestInv, NEW h \in Handlers, NEW call \in Calls, Admit(h, call),
         call.what = "set" =>
            call.target \in Targets(gw) /\ call.seen.config = gw /\ call.seen.mapped = mappings,
         call.what = "move" => call.rows \in ParentMaps /\ Parses([gw EXCEPT !.par = call.rows]),
         call.what = "ask" => call.id \in RequestIds /\ requests[call.id] = NoRequest,
         call.what \in Deciding =>
            /\ call.id \in RequestIds /\ call.seen \in Looks
            /\ requests[call.id] = call.seen.request /\ call.seen.request.state = "pending"
            /\ call.target = call.seen.request.target /\ call.limit = call.seen.request.limit
            /\ MayTake(call.who, mappings, call.seen.request, call.what, call.override)
  PROVE  RequestInv'
<1>1. /\ at' \in [Handlers -> Phases] /\ at'[h] = "intent" /\ \A g \in Handlers \ {h} : at'[g] = at[g]
      /\ job' \in [Handlers -> Calls] /\ \A g \in Handlers \ {h} : job'[g] = job[g]
      /\ valid' \in [Handlers -> BOOLEAN] /\ \A g \in Handlers \ {h} : valid'[g] = valid[g]
      /\ lease = NoHandler /\ lease' = h /\ spent' \in [calls : Nat, faults : Nat]
      /\ UNCHANGED <<gw, mappings, requests, audit, usage, warned>>
  BY AdmitShape DEF RequestInv
<1>2. /\ job'[h].config = gw /\ job'[h].mapped = mappings /\ job'[h].what = call.what /\ job'[h].who = call.who
      /\ job'[h].id = call.id /\ job'[h].target = call.target /\ job'[h].limit = call.limit
      /\ job'[h].override = call.override /\ job'[h].seen = call.seen /\ job'[h].rows = call.rows
  BY AdmitShape DEF RequestInv
<1>3. Types'
  BY <1>1 DEF RequestInv, Types, ReqTypeOK
<1>4. LeaseHeld' /\ CallNumbers'
  BY AdmitLease, AdmitNumbers DEF RequestInv
<1>5. Configured(h)'
  <2>1. ~HasApplied(h)' /\ at'[h] \notin {"applying", "threshold", "storing"}
    BY <1>1 DEF HasApplied
  <2>2. job'[h].config \in Configs /\ job'[h].mapped = mappings' /\ gw' = job'[h].config
    BY <1>1, <1>2, TypeFacts
  <2>3. job'[h].what = "set" =>
          /\ job'[h].target \in Targets(job'[h].config)
          /\ SeenRevision(h)' = [config |-> job'[h].config, mapped |-> mappings']
    BY <1>1, <1>2 DEF SeenRevision
  <2>4. job'[h].what = "move" =>
          job'[h].rows \in ParentMaps /\ Parses([job'[h].config EXCEPT !.par = job'[h].rows])
    BY <1>2
  <2>. QED BY <2>1, <2>2, <2>3, <2>4 DEF Configured
<1>6. Requested(h)'
  BY <1>1, <1>2 DEF Requested
<1>7. Own(h)'
  BY <1>1, <1>5, <1>6 DEF Own, Announced, SeenBefore, Faithful
<1>8. audit \subseteq audit' /\ Grows
  BY <1>1 DEF Grows
<1>. QED BY <1>1, <1>3, <1>4, <1>7, <1>8, OneHandler

(* A budget under the revision that was read. *)
LEMMA SetKeeps ==
  ASSUME RequestInv, NEW h \in Handlers, SetBudget(h)
  PROVE  RequestInv'
<1>1. PICK t \in Targets(gw), limit \in Asked :
         /\ at[h] = "looked" /\ SeenRevision(h) = Revision
         /\ Admit(h, [job[h] EXCEPT !.what = "set", !.target = t, !.limit = limit])
  BY DEF SetBudget
<1>. DEFINE call == [job[h] EXCEPT !.what = "set", !.target = t, !.limit = limit]
<1>2. t \in Units \cup Users /\ limit \in Nat /\ job[h] \in Calls
  BY TypeFacts, CatalogTypes, RequestConstants
<1>3. call \in Calls /\ call.what = "set" /\ call.target = t /\ call.seen = job[h].seen
  <2>1. "set" \in Whats
    BY DEF Whats
  <2>2. PICK j \in Calls : j = job[h]
    BY <1>2
  <2>3. call = [j EXCEPT !.what = "set", !.target = t, !.limit = limit]
    BY <2>2
  <2>. HIDE DEF call
  <2>4. call \in Calls
    BY <1>2, <2>1, <2>3 DEF Calls
  <2>5. call.what = "set" /\ call.target = t /\ call.seen = j.seen
    BY <2>3 DEF Calls
  <2>. QED BY <2>2, <2>4, <2>5
<1>4. job[h].seen.config = gw /\ job[h].seen.mapped = mappings
  BY <1>1 DEF SeenRevision, Revision
<1>5. Admit(h, call)
  BY <1>1
<1>. HIDE DEF call
<1>. QED BY <1>3, <1>4, <1>5, AdmitKeeps DEF Deciding

LEMMA AskKeeps ==
  ASSUME RequestInv, NEW h \in Handlers, Ask(h)
  PROVE  RequestInv'
<1>1. PICK p \in Persons, t \in Targets(gw), limit \in Asked, r \in RequestIds :
         /\ requests[r] = NoRequest
         /\ Admit(h, [NoCall EXCEPT !.what = "ask", !.who = p, !.id = r, !.target = t, !.limit = limit])
  BY DEF Ask
<1>. DEFINE call == [NoCall EXCEPT !.what = "ask", !.who = p, !.id = r, !.target = t, !.limit = limit]
<1>2. t \in Units \cup Users /\ limit \in Nat
  BY TypeFacts, CatalogTypes, RequestConstants
<1>3. call \in Calls /\ call.what = "ask" /\ call.id = r
  BY <1>2, NoCallIsCall DEF Calls, NoCall, Whats
<1>4. Admit(h, call)
  BY <1>1
<1>. HIDE DEF call
<1>. QED BY <1>1, <1>3, <1>4, AdmitKeeps DEF Deciding

(* A request at the version that was read is the request that was read.    *)
LEMMA DecideKeeps ==
  ASSUME RequestInv, NEW h \in Handlers, Decide(h)
  PROVE  RequestInv'
<1>. DEFINE r == requests[job[h].id]
<1>1. PICK what \in Deciding, override \in BOOLEAN :
         /\ at[h] = "looked" /\ r.state = "pending" /\ r.version = job[h].seen.request.version
         /\ override => IsAdmin(job[h].who)
         /\ MayDecide(job[h].who, mappings, r) \/ override \/ (what = "escalate" /\ r.requester = job[h].who)
         /\ Admit(h, [job[h] EXCEPT !.what = what, !.target = r.target, !.limit = r.limit, !.override = override])
  BY DEF Decide, Deciding
<1>. DEFINE call == [job[h] EXCEPT !.what = what, !.target = r.target, !.limit = r.limit, !.override = override]
<1>2. job[h].id \in RequestIds /\ job[h].seen \in Looks /\ r = job[h].seen.request
  BY <1>1 DEF RequestInv, Own, SeenBefore
<1>3. r \in Requests /\ job[h] \in Calls
  BY <1>2, TypeFacts
<1>4. /\ call \in Calls /\ call.what = what /\ call.target = r.target /\ call.limit = r.limit
      /\ call.override = override /\ call.who = job[h].who /\ call.id = job[h].id /\ call.seen = job[h].seen
  <2>1. /\ what \in Whats /\ r.target \in Units \cup Users \cup {NoUnit}
        /\ r.limit \in Nat /\ override \in BOOLEAN
    BY <1>3 DEF Requests, Deciding, Whats
  <2>2. PICK j \in Calls : j = job[h]
    BY <1>3
  <2>3. call = [j EXCEPT !.what = what, !.target = r.target, !.limit = r.limit, !.override = override]
    BY <2>2
  <2>. HIDE DEF call, r
  <2>4. call \in Calls
    BY <2>1, <2>3 DEF Calls
  <2>5. /\ call.what = what /\ call.target = r.target /\ call.limit = r.limit /\ call.override = override
        /\ call.who = j.who /\ call.id = j.id /\ call.seen = j.seen
    BY <2>3 DEF Calls
  <2>. QED BY <2>2, <2>4, <2>5
<1>5. MayTake(job[h].who, mappings, r, what, override)
  BY <1>1 DEF MayTake
<1>6. Admit(h, call)
  BY <1>1
<1>. HIDE DEF call, r
<1>. QED BY <1>1, <1>2, <1>4, <1>5, <1>6, AdmitKeeps DEF r, Deciding

(* A group, or a unit under another parent in a catalog that parses.       *)
LEMMA ConfigureKeeps ==
  ASSUME RequestInv, NEW h \in Handlers, Configure(h)
  PROVE  RequestInv'
<1>1. PICK p \in Persons, x \in Catalog(gw) :
        \/ \E g \in Groups \cup {NoGroup} :
             Admit(h, [NoCall EXCEPT !.what = "group", !.who = p, !.target = x, !.group = g])
        \/ \E parent \in Catalog(gw) \cup {NoUnit} :
             LET par == IF parent = NoUnit THEN [y \in DOMAIN gw.par \ {x} |-> gw.par[y]]
                        ELSE Assigned(gw.par, x, parent)
             IN  /\ Parses([gw EXCEPT !.par = par])
                 /\ Admit(h, [NoCall EXCEPT !.what = "move", !.who = p, !.target = x, !.rows = par])
  BY DEF Configure
<1>2. x \in Units
  BY TypeFacts, CatalogTypes
<1>3. ASSUME NEW g \in Groups \cup {NoGroup},
             Admit(h, [NoCall EXCEPT !.what = "group", !.who = p, !.target = x, !.group = g])
      PROVE  RequestInv'
  <2>. DEFINE call == [NoCall EXCEPT !.what = "group", !.who = p, !.target = x, !.group = g]
  <2>1. call \in Calls /\ call.what = "group"
    BY <1>2, NoCallIsCall DEF Calls, NoCall, Whats
  <2>2. Admit(h, call)
    BY <1>3
  <2>. HIDE DEF call
  <2>. QED BY <2>1, <2>2, AdmitKeeps DEF Deciding
<1>4. ASSUME NEW parent \in Catalog(gw) \cup {NoUnit}, NEW par,
             par = IF parent = NoUnit THEN [y \in DOMAIN gw.par \ {x} |-> gw.par[y]]
                   ELSE Assigned(gw.par, x, parent),
             Parses([gw EXCEPT !.par = par]),
             Admit(h, [NoCall EXCEPT !.what = "move", !.who = p, !.target = x, !.rows = par])
      PROVE  RequestInv'
  <2>. DEFINE call == [NoCall EXCEPT !.what = "move", !.who = p, !.target = x, !.rows = par]
  <2>1. IsMap(gw.par, Units, Units)
    BY TypeFacts, ConfigOf DEF IsConfig
  <2>2. IsMap(par, Units, Units)
    <3>1. CASE parent = NoUnit
      BY <1>4, <2>1, <3>1 DEF IsMap
    <3>2. CASE parent # NoUnit
      BY <1>2, <1>4, <2>1, <3>2, AssignedMap, TypeFacts, CatalogTypes
    <3>. QED BY <3>1, <3>2
  <2>3. par \in ParentMaps
    BY <2>2, MapOf DEF ParentMaps
  <2>4. call \in Calls /\ call.what = "move" /\ call.rows = par
    BY <1>2, <2>3, NoCallIsCall DEF Calls, NoCall, Whats
  <2>5. Admit(h, call)
    BY <1>4
  <2>. HIDE DEF call
  <2>. QED BY <1>4, <2>3, <2>4, <2>5, AdmitKeeps DEF Deciding
<1>. QED BY <1>1, <1>3, <1>4

LEMMA StepKeepsRequests ==
  ASSUME ~SlowCalls, RequestInv, [Next]_reqVars
  PROVE  RequestInv'
<1>1. CASE UNCHANGED reqVars
  <2>1. UNCHANGED <<gw, mappings, requests, audit, usage, lease, valid, at, job, spent>>
    BY <1>1 DEF reqVars
  <2>2. Types' /\ LeaseHeld' /\ CallNumbers'
    BY <2>1 DEF RequestInv, Types, ReqTypeOK, LeaseHeld, CallNumbers
  <2>3. Grows /\ audit \subseteq audit' /\ requests' \in [RequestIds -> Requests]
    BY <2>1, TypeFacts DEF Grows
  <2>4. \A g \in Handlers : Own(g)'
    BY <2>1, <2>3, Bystander
  <2>. QED BY <2>2, <2>4 DEF RequestInv
<1>2. ASSUME NEW h \in Handlers, Call(h) PROVE RequestInv'
  BY <1>2, LookKeeps, SetKeeps, AskKeeps, DecideKeeps, ConfigureKeeps, MeasureKeeps, WarnKeeps, WorkKeeps DEF Call
<1>. QED BY <1>1, <1>2, WorkKeeps, CrashKeeps, OutsideKeeps DEF Next

(* Whatever callers, handlers, failures and lost leases do, as long as no  *)
(* call outlasts its lease: what a handler relies on while it has the      *)
(* lease is so, and the configuration can always be read again.            *)
THEOREM RequestInvariant == ASSUME ~SlowCalls PROVE Spec => []RequestInv
  BY InitRequests, StepKeepsRequests, PTL DEF Spec
-----------------------------------------------------------------------------
(* ---------------------------- what it means ----------------------------- *)
(* Only a handler that applies or stores changes anything, and moves on.   *)
LEMMA Changers ==
  ASSUME RequestInv, [Next]_reqVars
  PROVE  \/ UNCHANGED <<gw, mappings, requests, warned>>
         \/ \E h \in Handlers :
              \/ at[h] = "applying" /\ at'[h] # at[h] /\ UNCHANGED <<mappings, requests, warned>>
              \/ at[h] = "storing" /\ at'[h] # at[h] /\ Stored(h) /\ gw' = gw
<1>0. {"threshold", "closing", "failing"} \subseteq Phases
  BY DEF Phases
<1>1. ASSUME NEW h \in Handlers, Call(h) PROVE UNCHANGED <<gw, mappings, requests, warned>>
  <2>1. ASSUME NEW call, Admit(h, call) PROVE UNCHANGED <<gw, mappings, requests, warned>>
    BY <2>1 DEF Admit
  <2>2. CASE SetBudget(h) \/ Ask(h)
    BY <2>1, <2>2 DEF SetBudget, Ask
  <2>3. CASE Decide(h) \/ Configure(h)
    BY <2>1, <2>3 DEF Decide, Configure
  <2>4. CASE Look(h) \/ Measure(h)
    BY <2>4 DEF Look, Measure
  <2>5. CASE Warn(h) \/ Leave(h)
    BY <2>5 DEF Warn, Leave
  <2>. QED BY <1>1, <2>2, <2>3, <2>4, <2>5 DEF Call
<1>2. ASSUME NEW h \in Handlers, Apply(h) \/ ApplyFails(h)
      PROVE  at[h] = "applying" /\ at'[h] # at[h] /\ UNCHANGED <<mappings, requests, warned>>
  <2>1. \E phase \in {"threshold", "closing", "failing"} : Goto(h, phase)
    BY <1>2 DEF Apply, ApplyFails
  <2>. QED BY <1>0, <1>2, <2>1, GotoShape DEF Apply, ApplyFails, RequestInv
<1>3. ASSUME NEW h \in Handlers, Store(h) \/ (CallFails(h) /\ at[h] = "storing" /\ Stored(h))
      PROVE  at[h] = "storing" /\ at'[h] # at[h] /\ Stored(h) /\ gw' = gw
  <2>1. \E phase \in {"closing", "failing"} : Goto(h, phase)
    BY <1>3 DEF Store, CallFails
  <2>. QED BY <1>0, <1>3, <2>1, GotoShape DEF Store, CallFails, RequestInv
<1>4. ASSUME NEW h \in Handlers, Work(h) \/ CallFails(h)
      PROVE  \/ UNCHANGED <<gw, mappings, requests, warned>>
             \/ at[h] = "applying" /\ at'[h] # at[h] /\ UNCHANGED <<mappings, requests, warned>>
             \/ at[h] = "storing" /\ at'[h] # at[h] /\ Stored(h) /\ gw' = gw
  <2>1. CASE CallFails(h)
    BY <1>3, <2>1 DEF CallFails
  <2>. QED BY <1>2, <1>3, <1>4, <2>1 DEF Work, Intend, Check, CheckFails, Threshold, Close, Fail
<1>5. ASSUME NEW h \in Handlers, Crash(h) \/ LoseLease(h) PROVE UNCHANGED <<gw, mappings, requests, warned>>
  BY <1>5 DEF Crash, LoseLease
<1>6. CASE LeaseExpires \/ \E t \in Metered : Use(t)
  BY <1>6 DEF LeaseExpires, Use
<1>. QED BY <1>1, <1>4, <1>5, <1>6 DEF Next, reqVars

(* DecidedOnce: whoever stores a decision stores the successor of what is  *)
(* there, and that is pending.                                             *)
THEOREM RequestsDecidedOnce == ASSUME ~SlowCalls PROVE Spec => DecidedOnce
<1>. DEFINE A == \A r \in RequestIds : requests[r].state \in {"approved", "rejected"} => requests'[r] = requests[r]
<1>1. ASSUME RequestInv, [Next]_reqVars PROVE A
  BY <1>1, Changers, StoredEffect
<1>. QED BY <1>1, RequestInvariant, PTL DEF Spec, DecidedOnce

(* ApprovedIsApplied: between the apply and the stored approval the lease  *)
(* is held, so the limit that was written stands.                          *)
THEOREM ApprovalIsApplied == ASSUME ~SlowCalls PROVE Spec => ApprovedIsApplied
<1>. DEFINE A == \A r \in RequestIds :
        requests[r].state = "pending" /\ requests'[r].state = "approved"
        => Limit(gw', requests[r].target) = requests[r].limit
<1>1. ASSUME RequestInv, [Next]_reqVars PROVE A
  <2>. SUFFICES ASSUME NEW r \in RequestIds, requests[r].state = "pending", requests'[r].state = "approved"
                PROVE  Limit(gw', requests[r].target) = requests[r].limit
    OBVIOUS
  <2>1. PICK h \in Handlers : at[h] = "storing" /\ Stored(h) /\ gw' = gw
    BY <1>1, Changers
  <2>2. job[h].what = "approve" /\ job[h].target = requests[r].target /\ job[h].limit = requests[r].limit
    BY <1>1, <2>1, StoredEffect
  <2>3. Limit(gw, job[h].target) = job[h].limit
    BY <1>1, <2>1, <2>2, StoringSure DEF Configured, HasApplied
  <2>. QED BY <2>1, <2>2, <2>3
<1>. QED BY <1>1, RequestInvariant, PTL DEF Spec, ApprovedIsApplied

(* DecisionAuthorised: the groups and the catalog are those of the         *)
(* admission, and an applied limit changes nobody's scope.                 *)
THEOREM DecisionIsAuthorised == ASSUME ~SlowCalls PROVE Spec => DecisionAuthorised
<1>. DEFINE A(h) ==
        LET r == requests[job[h].id]
            p == job[h].who
        IN at[h] = "storing" /\ at'[h] = "closing" /\ job[h].what \in {"approve", "reject", "escalate"}
           => /\ \/ MayDecide(p, mappings, r)
                 \/ IsAdmin(p) /\ job[h].override
                 \/ job[h].what = "escalate" /\ r.requester = p
              /\ job[h].what = "approve" => MayWrite(p, gw, mappings, r.target)
<1>1. ASSUME RequestInv, NEW h \in Handlers PROVE A(h)
  <2>. SUFFICES ASSUME at[h] = "storing", job[h].what \in {"approve", "reject", "escalate"}
                PROVE  A(h)
    OBVIOUS
  <2>1. Configured(h) /\ Requested(h)
    BY <1>1, StoringSure
  <2>2. /\ MayTake(job[h].who, mappings, requests[job[h].id], job[h].what, job[h].override)
        /\ job[h].target = requests[job[h].id].target
    BY <2>1 DEF Configured, Requested, Deciding
  <2>3. job[h].what = "approve" => MayWrite(job[h].who, gw, mappings, job[h].target)
    BY <2>1, SameTree DEF Configured, HasApplied, Planned, Plans
  <2>. QED BY <2>2, <2>3 DEF MayTake
<1>2. ASSUME RequestInv PROVE \A h \in Handlers : A(h)
  BY <1>1, <1>2
<1>. HIDE DEF A
<1>3. ASSUME RequestInv, [Next]_reqVars PROVE \A h \in Handlers : A(h)
  BY <1>2, <1>3
<1>. QED BY <1>3, RequestInvariant, PTL DEF Spec, DecisionAuthorised, A

(* ChangesWhatWasSeen: the revision, or the version, compared at the       *)
(* admission is still the one in force when the change is made.            *)
THEOREM SeenIsChanged == ASSUME ~SlowCalls PROVE Spec => ChangesWhatWasSeen
<1>. DEFINE A(h) ==
        /\ at[h] = "applying" /\ gw' # gw /\ job[h].what = "set"
            => SeenRevision(h) = Revision
        /\ at[h] = "storing" /\ at'[h] = "closing" /\ job[h].what \in {"approve", "reject", "escalate"}
            => requests[job[h].id] = job[h].seen.request
<1>1. ASSUME RequestInv, NEW h \in Handlers PROVE A(h)
  <2>1. ASSUME at[h] \in {"applying", "storing"}, job[h].what # "warn" PROVE Configured(h) /\ Requested(h)
    BY <1>1, <2>1, StoringSure
  <2>2. at[h] = "applying" /\ job[h].what = "set" => SeenRevision(h) = Revision
    BY <2>1 DEF Configured, HasApplied, Revision
  <2>3. at[h] = "storing" /\ job[h].what \in Deciding => requests[job[h].id] = job[h].seen.request
    BY <2>1 DEF Requested, Deciding
  <2>. QED BY <2>2, <2>3 DEF Deciding
<1>2. ASSUME RequestInv, [Next]_reqVars PROVE \A h \in Handlers : A(h)
  BY <1>1, <1>2
<1>. HIDE DEF A
<1>. QED BY <1>2, RequestInvariant, PTL DEF Spec, ChangesWhatWasSeen, A

(* EveryChangeAnnounced: the intent comes before the first write, and a    *)
(* number belongs to one call, which ends when it is recorded as failed.   *)
THEOREM ChangesAreAnnounced == ASSUME ~SlowCalls PROVE Spec => EveryChangeAnnounced
<1>. DEFINE A == gw' # gw \/ mappings' # mappings \/ requests' # requests \/ warned' # warned
        => \E h \in Handlers :
            /\ at[h] \in {"applying", "threshold", "storing"} /\ at'[h] # at[h]
            /\ [call |-> job[h].call, what |-> job[h].what, outcome |-> "intent"] \in audit
            /\ job[h].call # 0 =>
                [call |-> job[h].call, what |-> job[h].what, outcome |-> "failed"] \notin audit
<1>1. ASSUME RequestInv, [Next]_reqVars PROVE A
  <2>. SUFFICES ASSUME ~UNCHANGED <<gw, mappings, requests, warned>> PROVE A
    OBVIOUS
  <2>1. PICK h \in Handlers : at[h] \in {"applying", "storing"} /\ at'[h] # at[h]
    BY <1>1, Changers
  <2>2. [call |-> job[h].call, what |-> job[h].what, outcome |-> "intent"] \in audit
    BY <1>1, <2>1 DEF RequestInv, Own, Announced
  <2>3. ASSUME job[h].call # 0
        PROVE  [call |-> job[h].call, what |-> job[h].what, outcome |-> "failed"] \notin audit
    BY <1>1, <2>3 DEF RequestInv, CallNumbers
  <2>. QED BY <2>1, <2>2, <2>3
<1>. QED BY <1>1, RequestInvariant, PTL DEF Spec, EveryChangeAnnounced
=============================================================================
