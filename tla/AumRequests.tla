---------------------------- MODULE AumRequests ----------------------------
(***************************************************************************)
(* The callers of the AUM service: who may see and change what             *)
(* (auth.py, scope.py), budget requests and their decisions                *)
(* (workflows.py), the audit trail of every change (service.py) and the    *)
(* budget warnings of the quarter-hour timer (notifications.py).           *)
(*                                                                         *)
(* The writes of one handler to the gateway are one step here; AumBudgets  *)
(* has them one by one.  Boosts, removed units and edits by other tools    *)
(* are there too.  A caller looks first and acts on what it saw.           *)
(***************************************************************************)
EXTENDS AumRegistry

CONSTANTS
    Persons,        \* callers with an assigned AUM role
    Role,           \* Role[p]: what resolve_identity makes of the roles claim
    Holds,          \* Holds[p]: the groups of p's token
    Groups, NoGroup,
    Handlers, NoHandler, NoPerson,
    RequestIds,     \* bound: the requests of one behaviour
    Asked,          \* limits a request or an edit may ask for
    Percent,        \* the warning threshold
    StartConfig, StartMappings, StartRequests,
    Metered,        \* bound: the targets whose usage grows
    SlowCalls,      \* whether a call may outlast the lease it was sent under
    MaxCalls,       \* bound: changes that were admitted
    MaxUsage,       \* bound: tokens a target uses
    MaxFaults       \* bound: failed calls, crashes, lost leases

VARIABLES
    gw,         \* the gateway's configuration
    mappings,   \* the managers table: unit -> group
    requests,   \* the requests table
    audit,      \* the audit table: [call, what, outcome]
    usage,      \* tokens used by each target in the window
    warned,     \* the notifications table: [target, limit]
    lease, valid, at, job, spent    \* as in AumBudgets

reqVars == <<gw, mappings, requests, audit, usage, warned, lease, valid, at, job, spent>>

NoRequest == [state |-> "none", target |-> NoUnit, limit |-> 0, requester |-> NoPerson,
              approver |-> NoUnit, version |-> 0]
NoCall == [what |-> "none", who |-> NoPerson, call |-> 0, id |-> NoUnit, target |-> NoUnit,
           limit |-> 0, override |-> FALSE, group |-> NoGroup,
           seen |-> <<>>, rows |-> <<>>, config |-> <<>>, mapped |-> <<>>]
Phases == {"idle", "looked", "measured", "intent", "checking", "applying", "threshold",
           "storing", "closing", "failing"}
(* Phases in which a call is under way that changes something. *)
Calling == {"intent", "applying", "threshold", "storing", "closing", "failing"}

Whats == {"none", "set", "ask", "approve", "reject", "escalate", "group", "move", "warn"}
Mappings == [Units -> Groups \cup {NoGroup}]
Requests == [state : {"none", "pending", "approved", "rejected"}, target : Units \cup Users \cup {NoUnit},
             limit : Nat, requester : Persons \cup {NoPerson}, approver : Units \cup {NoUnit}, version : Nat]
Usages == [Units \cup Users -> 0..MaxUsage]

ASSUME RequestConstants ==
    /\ NoHandler \notin Handlers /\ Asked \subseteq Nat /\ MaxUsage \in Nat
    /\ IsConfig(StartConfig) /\ Parses(StartConfig) /\ StartMappings \in Mappings
    /\ \A start \in StartRequests : start \in [RequestIds -> Requests]

ReqTypeOK ==
    /\ IsConfig(gw) /\ Parses(gw)
    /\ mappings \in Mappings
    /\ requests \in [RequestIds -> Requests]
    /\ audit \subseteq [call : Nat, what : Whats, outcome : {"intent", "succeeded", "failed"}]
    /\ usage \in Usages
    /\ lease \in Handlers \cup {NoHandler} /\ valid \in [Handlers -> BOOLEAN]
    /\ at \in [Handlers -> Phases]
    /\ spent \in [calls : Nat, faults : Nat]

Init ==
    /\ gw = StartConfig /\ mappings = StartMappings
    /\ requests \in StartRequests
    /\ audit = {} /\ warned = {}
    /\ usage = [t \in Units \cup Users |-> 0]
    /\ lease = NoHandler
    /\ valid = [h \in Handlers |-> FALSE]
    /\ at = [h \in Handlers |-> "idle"]
    /\ job = [h \in Handlers |-> NoCall]
    /\ spent = [calls |-> 0, faults |-> 0]

-----------------------------------------------------------------------------
(* ------------------------ identities and scope -------------------------- *)
IsAdmin(p) == Role[p] = "admin"
Writes(p) == Role[p] # "viewer"

Managed(p, m, x) == m[x] \in Holds[p]
Organizations(p, c, m) == {x \in Catalog(c) : ParentIn(c, x) = NoUnit /\ Managed(p, m, x)}
Departments(p, c, m) == {x \in Catalog(c) : ParentIn(c, x) # NoUnit /\
    (Managed(p, m, x) \/ ParentIn(c, x) \in Organizations(p, c, m))}
Leaves(p, c, m) == Organizations(p, c, m) \cup Departments(p, c, m)

(* ManagerScope; administrators and viewers have none, a manager without   *)
(* groups the empty one.                                                   *)
MayRead(p, c, m, t) ==
    \/ Role[p] # "manager"
    \/ t \in Leaves(p, c, m)
    \/ t \in Users /\ Home[t] \in Leaves(p, c, m)
MayWrite(p, c, m, t) ==
    \/ IsAdmin(p)
    \/ /\ Role[p] = "manager"
       /\ \/ t \in Catalog(c) /\ ParentIn(c, t) \in Organizations(p, c, m)
          \/ t \in Users /\ Home[t] \in Leaves(p, c, m)

(* can_approve: never one's own request *)
MayDecide(p, m, r) ==
    /\ p # r.requester
    /\ IsAdmin(p) \/ (Role[p] = "manager" /\ r.approver # NoUnit /\ m[r.approver] \in Holds[p])

(* Mutant: the gateway's limits are written without the scope's consent. *)
PlansUnscoped(p, c, m, t, limit) == t \in Targets(c) /\ Fits(c, t, limit)
(* plan_budget without boosts *)
Plans(p, c, m, t, limit) == t \in Targets(c) /\ MayWrite(p, c, m, t) /\ Fits(c, t, limit)

(* ------------------------------ requests -------------------------------- *)
Goto(h, phase) == at' = [at EXCEPT ![h] = phase]
Fault == spent.faults < MaxFaults /\ spent' = [spent EXCEPT !.faults = @ + 1]

Finish(h) ==
    /\ Goto(h, "idle")
    /\ valid' = [valid EXCEPT ![h] = FALSE]
    /\ lease' = IF lease = h THEN NoHandler ELSE lease
    /\ job' = [job EXCEPT ![h] = NoCall]

(* GET budgets and GET budget-requests: what the caller acts on later *)
Visible(p, r) == IsAdmin(p) \/ p = r.requester \/ MayDecide(p, mappings, r)
Look(h) ==
    \E p \in Persons, r \in RequestIds :
        /\ at[h] = "idle" /\ Writes(p)
        /\ requests[r] # NoRequest => Visible(p, requests[r])
        /\ Goto(h, "looked")
        /\ job' = [job EXCEPT ![h] = [NoCall EXCEPT !.who = p, !.id = r,
                !.seen = [config |-> gw, mapped |-> mappings, request |-> requests[r]]]]
        /\ UNCHANGED <<gw, mappings, requests, audit, usage, warned, lease, valid, spent>>

(* Mutant: the change is not announced. *)
AdmitUnannounced(h, call) ==
    /\ spent.calls < MaxCalls /\ spent' = [spent EXCEPT !.calls = @ + 1]
    /\ lease = NoHandler /\ lease' = h
    /\ valid' = [valid EXCEPT ![h] = TRUE]
    /\ Goto(h, "checking")
    /\ job' = [job EXCEPT ![h] = [call EXCEPT !.call = spent.calls + 1, !.config = gw, !.mapped = mappings]]
    /\ UNCHANGED <<gw, mappings, requests, audit, usage, warned>>

(* store.lease() and prepare(): the change gets its number *)
Admit(h, call) ==
    /\ spent.calls < MaxCalls /\ spent' = [spent EXCEPT !.calls = @ + 1]
    /\ lease = NoHandler /\ lease' = h
    /\ valid' = [valid EXCEPT ![h] = TRUE]
    /\ Goto(h, "intent")
    /\ job' = [job EXCEPT ![h] = [call EXCEPT !.call = spent.calls + 1, !.config = gw, !.mapped = mappings]]
    /\ UNCHANGED <<gw, mappings, requests, audit, usage, warned>>

Revision == [config |-> gw, mapped |-> mappings]
SeenRevision(h) == [config |-> job[h].seen.config, mapped |-> job[h].seen.mapped]

(* Mutant: If-Match is not compared. *)
SetBlindly(h) ==
    \E t \in Targets(gw), limit \in Asked :
        /\ at[h] = "looked" /\ Plans(job[h].who, gw, mappings, t, limit)
        /\ Admit(h, [job[h] EXCEPT !.what = "set", !.target = t, !.limit = limit])

(* PUT budgets, with the revision that was read; the plan comes before the *)
(* audit record.                                                           *)
SetBudget(h) ==
    \E t \in Targets(gw), limit \in Asked :
        /\ at[h] = "looked" /\ SeenRevision(h) = Revision
        /\ Plans(job[h].who, gw, mappings, t, limit)
        /\ Admit(h, [job[h] EXCEPT !.what = "set", !.target = t, !.limit = limit])

(* POST budget-requests: the next level up decides, administrators decide  *)
(* for a unit without a parent.                                            *)
Ask(h) ==
    \E p \in Persons, t \in Targets(gw), limit \in Asked, r \in RequestIds :
        /\ at[h] = "idle" /\ requests[r] = NoRequest
        /\ Writes(p) /\ MayRead(p, gw, mappings, t)
        /\ Admit(h, [NoCall EXCEPT !.what = "ask", !.who = p, !.id = r, !.target = t, !.limit = limit])

(* Mutant: a request that was decided may be decided again. *)
DecideAgain(h) ==
    \E what \in {"approve", "reject", "escalate"}, override \in BOOLEAN :
        LET p == job[h].who
            r == requests[job[h].id]
        IN  /\ at[h] = "looked" /\ r # NoRequest
            /\ override => IsAdmin(p)
            /\ MayDecide(p, mappings, r) \/ override \/ (what = "escalate" /\ r.requester = p)
            /\ what = "escalate" => r.approver # NoUnit
            /\ Admit(h, [job[h] EXCEPT !.what = what, !.target = r.target, !.limit = r.limit, !.override = override])

(* POST budget-requests/<id>/<what> with the version that was read.  The   *)
(* requester may escalate, an administrator may override.                  *)
Decide(h) ==
    \E what \in {"approve", "reject", "escalate"}, override \in BOOLEAN :
        LET p == job[h].who
            r == requests[job[h].id]
        IN  /\ at[h] = "looked"
            /\ r.state = "pending" /\ r.version = job[h].seen.request.version
            /\ override => IsAdmin(p)
            /\ MayDecide(p, mappings, r) \/ override \/ (what = "escalate" /\ r.requester = p)
            /\ what = "escalate" => r.approver # NoUnit
            /\ Admit(h, [job[h] EXCEPT !.what = what, !.target = r.target, !.limit = r.limit, !.override = override])

(* PUT manager-groups and PUT catalog by an administrator *)
Configure(h) ==
    \E p \in Persons, x \in Catalog(gw) :
        /\ at[h] = "idle" /\ IsAdmin(p)
        /\ \/ \E g \in Groups \cup {NoGroup} :
                Admit(h, [NoCall EXCEPT !.what = "group", !.who = p, !.target = x, !.group = g])
           \/ \E parent \in Catalog(gw) \cup {NoUnit} :
                LET par == IF parent = NoUnit THEN [y \in DOMAIN gw.par \ {x} |-> gw.par[y]]
                           ELSE Assigned(gw.par, x, parent)
                    c == [gw EXCEPT !.par = par]
                IN  /\ c # gw /\ Parses(c)
                    /\ \A y \in Catalog(c) : c.reg[y] > 0 => Fits(c, y, c.reg[y])
                    /\ Admit(h, [NoCall EXCEPT !.what = "move", !.who = p, !.target = x, !.rows = par])

(* ------------------------------- the change ----------------------------- *)
Record(h, outcome) == audit' = audit \cup {[call |-> job[h].call, what |-> job[h].what, outcome |-> outcome]}

Intend(h) ==
    /\ at[h] = "intent"
    /\ Record(h, "intent")
    /\ Goto(h, "checking")
    /\ UNCHANGED <<gw, mappings, requests, usage, warned, lease, valid, job, spent>>

Writing(h) == job[h].what \in {"set", "approve", "move"}
Planned(h) == job[h].what = "approve" =>
    Plans(job[h].who, job[h].config, job[h].mapped, job[h].target, job[h].limit)

(* Mutant: an approval is stored before the budget is applied. *)
CheckStoringFirst(h) ==
    /\ at[h] = "checking" /\ valid[h] /\ Planned(h)
    /\ Goto(h, IF Writing(h) /\ job[h].what # "approve" THEN "applying" ELSE "storing")
    /\ UNCHANGED <<gw, mappings, requests, audit, usage, warned, lease, valid, job, spent>>

(* lease() at the start of work(), and the plan of an approval inside it *)
Check(h) ==
    /\ at[h] = "checking" /\ valid[h] /\ Planned(h)
    /\ Goto(h, IF Writing(h) THEN "applying" ELSE "storing")
    /\ UNCHANGED <<gw, mappings, requests, audit, usage, warned, lease, valid, job, spent>>

CheckFails(h) ==
    /\ at[h] = "checking" /\ ~(valid[h] /\ Planned(h))
    /\ Goto(h, "failing")
    /\ UNCHANGED <<gw, mappings, requests, audit, usage, warned, lease, valid, job, spent>>

Written(h) == IF job[h].what = "move" THEN [gw EXCEPT !.par = job[h].rows]
              ELSE WithLimit(gw, job[h].target, job[h].limit)

(* apply_values, as one step: each value is compared before it is written *)
Apply(h) ==
    /\ at[h] = "applying" /\ valid[h] /\ gw = job[h].config
    /\ gw' = Written(h)
    /\ Goto(h, IF job[h].what = "move" THEN "closing" ELSE "threshold")
    /\ UNCHANGED <<mappings, requests, audit, usage, warned, lease, valid, job, spent>>

ApplyFails(h) ==
    /\ at[h] = "applying"
    /\ Goto(h, "failing")
    /\ \/ ~(valid[h] /\ gw = job[h].config) /\ UNCHANGED <<gw, spent>>
       \/ Fault /\ UNCHANGED gw
       \/ valid[h] /\ gw = job[h].config /\ Fault /\ gw' = Written(h)  \* no answer
    /\ UNCHANGED <<mappings, requests, audit, usage, warned, lease, valid, job>>

(* store.put("budgets"): the warning threshold *)
Threshold(h) ==
    /\ at[h] = "threshold"
    /\ Goto(h, IF job[h].what = "approve" THEN "storing" ELSE "closing")
    /\ UNCHANGED <<gw, mappings, requests, audit, usage, warned, lease, valid, job, spent>>

(* The record as the handler computed it when it began. *)
Decided(h) ==
    LET r == job[h].seen.request
    IN CASE job[h].what = "ask" -> [state |-> "pending", target |-> job[h].target, limit |-> job[h].limit,
                requester |-> job[h].who, approver |-> ParentIn(job[h].config, job[h].target), version |-> 1]
         [] job[h].what = "escalate" -> [r EXCEPT !.approver = ParentIn(job[h].config, r.approver), !.version = @ + 1]
         [] job[h].what = "approve" -> [r EXCEPT !.state = "approved", !.version = @ + 1]
         [] job[h].what = "reject" -> [r EXCEPT !.state = "rejected", !.version = @ + 1]

Stored(h) ==
    /\ mappings' = IF job[h].what = "group" THEN [mappings EXCEPT ![job[h].target] = job[h].group] ELSE mappings
    /\ warned' = IF job[h].what = "warn" THEN warned \cup {[target |-> job[h].target, limit |-> job[h].limit]} ELSE warned
    /\ requests' = IF job[h].what \in {"ask", "approve", "reject", "escalate"}
                   THEN [requests EXCEPT ![job[h].id] = Decided(h)] ELSE requests

Store(h) ==
    /\ at[h] = "storing"
    /\ Stored(h)
    /\ Goto(h, "closing")
    /\ UNCHANGED <<gw, audit, usage, lease, valid, job, spent>>

Close(h) ==
    /\ at[h] = "closing"
    /\ Record(h, "succeeded")
    /\ Finish(h)
    /\ UNCHANGED <<gw, mappings, requests, usage, warned, spent>>

Fail(h) ==
    /\ at[h] = "failing"
    /\ Record(h, "failed")
    /\ Finish(h)
    /\ UNCHANGED <<gw, mappings, requests, usage, warned, spent>>

(* -------------------------- budget warnings ----------------------------- *)
Reached(t, used, c) == Limit(c, t) > 0 /\ used[t] * 100 >= Limit(c, t) * Percent

(* record_warnings: the usage is queried before the lease is taken *)
Measure(h) ==
    /\ at[h] = "idle" /\ \A g \in Handlers : at[g] # "measured" /\ job[g].what # "warn"
    /\ \E t \in Targets(gw) : Reached(t, usage, gw) /\ [target |-> t, limit |-> Limit(gw, t)] \notin warned
    /\ Goto(h, "measured")
    /\ job' = [job EXCEPT ![h] = [NoCall EXCEPT !.rows = usage]]
    /\ UNCHANGED <<gw, mappings, requests, audit, usage, warned, lease, valid, spent>>

(* and the limits under it: one warning at a time, the next is found by    *)
(* the loop, or by the next run.                                           *)
Warn(h) ==
    /\ at[h] = "measured" /\ lease = NoHandler
    /\ \E t \in Targets(gw) :
        /\ Reached(t, job[h].rows, gw) /\ [target |-> t, limit |-> Limit(gw, t)] \notin warned
        /\ job' = [job EXCEPT ![h] = [NoCall EXCEPT !.what = "warn", !.target = t, !.limit = Limit(gw, t)]]
    /\ lease' = h /\ valid' = [valid EXCEPT ![h] = TRUE]
    /\ Goto(h, "intent")
    /\ UNCHANGED <<gw, mappings, requests, audit, usage, warned, spent>>

Use(t) ==
    /\ usage[t] < MaxUsage
    /\ usage' = [usage EXCEPT ![t] = @ + 1]
    /\ UNCHANGED <<gw, mappings, requests, audit, warned, lease, valid, at, job, spent>>

(* ------------------------------- failures ------------------------------- *)
(* A table call fails, with or without having had its effect; the caller   *)
(* of a request that was only looked at goes away.                         *)
CallFails(h) ==
    /\ at[h] \in {"intent", "threshold", "storing", "closing", "failing"} /\ Fault
    /\ \/ UNCHANGED <<mappings, requests, warned>>
       \/ at[h] = "storing" /\ Stored(h)
    /\ IF at[h] \in {"intent", "closing", "failing"} THEN Finish(h)
       ELSE Goto(h, "failing") /\ UNCHANGED <<lease, valid, job>>
    /\ UNCHANGED <<gw, audit, usage>>

Leave(h) ==
    /\ at[h] \in {"looked", "measured"}
    /\ Finish(h)
    /\ UNCHANGED <<gw, mappings, requests, audit, usage, warned, spent>>

Crash(h) ==
    /\ at[h] \notin {"idle", "looked", "measured"} /\ Fault
    /\ Goto(h, "idle")
    /\ valid' = [valid EXCEPT ![h] = FALSE]
    /\ job' = [job EXCEPT ![h] = NoCall]
    /\ UNCHANGED <<gw, mappings, requests, audit, usage, warned, lease>>

LoseLease(h) ==
    /\ valid[h] /\ Fault
    /\ valid' = [valid EXCEPT ![h] = FALSE]
    /\ UNCHANGED <<gw, mappings, requests, audit, usage, warned, lease, at, job>>

LeaseExpires ==
    /\ lease # NoHandler /\ ~valid[lease]
    /\ SlowCalls \/ at[lease] \notin Calling
    /\ lease' = NoHandler
    /\ UNCHANGED <<gw, mappings, requests, audit, usage, warned, valid, at, job, spent>>

-----------------------------------------------------------------------------
Call(h) == Look(h) \/ SetBudget(h) \/ Ask(h) \/ Decide(h) \/ Configure(h) \/ Measure(h) \/ Warn(h) \/ Leave(h)
Work(h) == Intend(h) \/ Check(h) \/ CheckFails(h) \/ Apply(h) \/ ApplyFails(h) \/ Threshold(h)
           \/ Store(h) \/ Close(h) \/ Fail(h)
Next ==
    \/ \E h \in Handlers : Call(h) \/ Work(h) \/ CallFails(h) \/ Crash(h) \/ LoseLease(h)
    \/ LeaseExpires
    \/ \E t \in Metered : Use(t)

Spec == Init /\ [][Next]_reqVars

-----------------------------------------------------------------------------
(* A request is decided once: nothing that happens to it afterwards, and   *)
(* no handler that began before, changes the decision (decide, the         *)
(* stale_request conflict).                                                *)
DecidedOnce ==
    [][\A r \in RequestIds : requests[r].state \in {"approved", "rejected"} => requests'[r] = requests[r]]_reqVars

(* A request becomes approved only when the gateway enforces its limit     *)
(* (decide: apply_budget before the request is stored).                    *)
ApprovedIsApplied ==
    [][\A r \in RequestIds :
        requests[r].state = "pending" /\ requests'[r].state = "approved"
        => Limit(gw', requests[r].target) = requests[r].limit]_reqVars

(* Whoever a decision is stored for may take it at that moment, not only   *)
(* when the call began: never the requester except by an administrator's   *)
(* override or to escalate, and an approval is within the approver's scope *)
(* of the catalog and groups now in force (can_approve, require_write).    *)
DecisionAuthorised ==
    [][\A h \in Handlers :
        LET r == requests[job[h].id]
            p == job[h].who
        IN at[h] = "storing" /\ at'[h] = "closing" /\ job[h].what \in {"approve", "reject", "escalate"}
           => /\ \/ MayDecide(p, mappings, r)
                 \/ IsAdmin(p) /\ job[h].override
                 \/ job[h].what = "escalate" /\ r.requester = p
              /\ job[h].what = "approve" => MayWrite(p, gw, mappings, r.target)]_reqVars

(* A caller changes only what it saw: a budget under the revision it read, *)
(* a request at the version it read (stale_revision, stale_request).       *)
ChangesWhatWasSeen ==
    [][\A h \in Handlers :
        /\ at[h] = "applying" /\ gw' # gw /\ job[h].what = "set"
            => SeenRevision(h) = Revision
        /\ at[h] = "storing" /\ at'[h] = "closing" /\ job[h].what \in {"approve", "reject", "escalate"}
            => requests[job[h].id] = job[h].seen.request]_reqVars

(* Nothing is changed that the audit trail does not announce: a limit, a   *)
(* parent, a group or a request changes, and a warning goes out, only in a *)
(* call whose intent is recorded, and a call recorded as failed changes    *)
(* nothing afterwards (audit_change).  Warnings, call 0, are sent again.   *)
EveryChangeAnnounced ==
    [][gw' # gw \/ mappings' # mappings \/ requests' # requests \/ warned' # warned
        => \E h \in Handlers :
            /\ at[h] \in {"applying", "threshold", "storing"} /\ at'[h] # at[h]
            /\ [call |-> job[h].call, what |-> job[h].what, outcome |-> "intent"] \in audit
            /\ job[h].call # 0 =>
                [call |-> job[h].call, what |-> job[h].what, outcome |-> "failed"] \notin audit]_reqVars
=============================================================================
