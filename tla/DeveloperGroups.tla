---------------------------- MODULE DeveloperGroups ----------------------------
(***************************************************************************)
(* "aum developer add" and "aum developer remove" (developer_actions.py,   *)
(* developers.py): a person's direct memberships in the two tier groups    *)
(* and in the groups of the catalog's scopes are changed one Graph call at *)
(* a time, and the tier groups are then published as the gateway's allow   *)
(* lists, as the scheduled access sync also does.  Microsoft Graph answers *)
(* reads from replicas, other administrators change the same groups, and   *)
(* a call that fails at the client may have had its effect.  The gateway   *)
(* keeps its lists in named values and is its own authority (Direct).      *)
(***************************************************************************)
EXTENDS Naturals, Sequences, FiniteSets, SequencesExt

CONSTANTS
    People, NoPerson,
    Scopes, NoScope,    \* the Entra groups that back units and teams
    Admins,             \* runs of developer_change
    Forms,              \* those in the terminal UI, which apply a reviewed plan
    Timers,             \* scheduled runs of the access sync
    StartMembers,       \* the memberships a behaviour may start with
    MaxChanges,         \* bound: runs that are started
    Targets,            \* bound: the people whom the runs are about
    Edited,             \* bound: the memberships other administrators change
    MaxEdits,           \* bound: how often they do, and change the catalog
    MaxFaults,          \* bound: failed calls
    MaxTries            \* bound: publications within PUBLISH_RETRY_SECONDS

Tiers == {"standard", "premium"}
Other(tier) == CHOOSE t \in Tiers : t # tier
Groups == Tiers \cup Scopes
Runs == Admins \cup Timers

ASSUME DeveloperAssumption ==
    /\ Forms \subseteq Admins /\ Admins \cap Timers = {}
    /\ NoPerson \notin People \cup Runs
    /\ NoScope \notin Scopes /\ IsFiniteSet(Scopes)
    /\ StartMembers \subseteq [Groups -> SUBSET People]
    /\ Targets \subseteq People /\ Edited \subseteq People \X Groups
    /\ MaxChanges \in Nat /\ MaxEdits \in Nat /\ MaxFaults \in Nat /\ MaxTries \in Nat \ {0}

VARIABLES
    member,     \* member[g]: the direct members of a group
    lag,        \* <<person, group>> whose last change some replica does not have
    scopes,     \* the scopes in the gateway's catalog
    allow,      \* allow[t]: the published list of a tier
    op,         \* op[a]: where a run is
    spent

devVars == <<member, lag, scopes, allow, op, spent>>

(* A run that succeeded, failed or was refused is idle again. *)
Ended == {"idle", "previewed", "warned"}
Steps == Ended \cup {"last", "check", "write", "wait", "recheck", "readPremium", "readStandard",
                     "putPremium", "putStandard", "readBack"}
Idle == [step |-> "idle", person |-> NoPerson, want |-> "none", plan |-> <<>>, next |-> 1,
         last |-> {}, flags |-> {}, taken |-> {}, tries |-> 0, reviewed |-> <<>>,
         pending |-> [t \in Tiers |-> <<>>],
         clean |-> {}, alone |-> TRUE]
(* Histories: clean has the memberships that had settled when the run      *)
(* began and nobody else touched since; alone says that no other run wrote *)
(* a list since this one began to read the groups.                         *)

DevTypeOK ==
    /\ member \in [Groups -> SUBSET People] /\ lag \subseteq People \X Groups
    /\ scopes \subseteq Scopes /\ allow \in [Tiers -> SUBSET People]
    /\ \A a \in Runs :
        /\ op[a].step \in Steps /\ op[a].person \in People \cup {NoPerson}
        /\ op[a].next \in 1..Len(op[a].plan) + 1
        /\ op[a].flags \subseteq op[a].last /\ op[a].last \subseteq Tiers
        /\ op[a].tries <= MaxTries

Effective(members) == [standard |-> members["standard"] \ members["premium"], premium |-> members["premium"]]

Init ==
    /\ member \in StartMembers
    /\ lag = {} /\ scopes = Scopes
    /\ allow = Effective(member)
    /\ op = [a \in Runs |-> Idle]
    /\ spent = [changes |-> 0, edits |-> 0, faults |-> 0]

-----------------------------------------------------------------------------
At(a, step) == op[a].step = step
Spend(what) == spent' = [spent EXCEPT ![what] = @ + 1]
(* What a read may return: the truth wherever every replica has it. *)
GroupsOf(p) == {view \in SUBSET Groups :
                    \A g \in Groups : <<p, g>> \notin lag => (g \in view <=> p \in member[g])}
MembersOf(g) == {view \in SUBSET People :
                    \A p \in People : <<p, g>> \notin lag => (p \in view <=> p \in member[g])}
(* The tier the gateway gives a person: premium first. *)
TierOf(p) == IF p \in allow["premium"] THEN "premium"
             ELSE IF p \in allow["standard"] THEN "standard" ELSE "none"

(* The group changes of a run, in the order in which it makes them. *)
Put(g, present) == [group |-> g, present |-> present]
ChangesOtherFirst(want, unit) ==     \* mutant: leaves the old tier before it adds the new one
    IF want = "none"
    THEN <<Put("standard", FALSE), Put("premium", FALSE)>> \o
         [i \in 1..Cardinality(scopes) |-> Put(SetToSeq(scopes)[i], FALSE)]
    ELSE <<Put(Other(want), FALSE), Put(want, TRUE)>> \o
         (IF unit = NoScope THEN <<>> ELSE <<Put(unit, TRUE)>>)
Changes(want, unit) ==
    IF want = "none"
    THEN <<Put("standard", FALSE), Put("premium", FALSE)>> \o
         [i \in 1..Cardinality(scopes) |-> Put(SetToSeq(scopes)[i], FALSE)]
    ELSE <<Put(want, TRUE), Put(Other(want), FALSE)>> \o
         (IF unit = NoScope THEN <<>> ELSE <<Put(unit, TRUE)>>)
(* What the form shows: the person with the published tier, and the changes. *)
PlanOf(p) == [tier |-> TierOf(p), changes |-> Changes("none", NoScope)]

(* A membership changed by one run, in the histories of the others. *)
Disturb(by, pair) ==
    [a \in Runs |-> IF a = by THEN op[a] ELSE [op[a] EXCEPT !.clean = @ \ {pair}]]
Goes(a, step) == op' = [op EXCEPT ![a].step = step]
Ends(a) == op' = [op EXCEPT ![a] = Idle]
Pairs(p, groups) == {p} \X groups
Fault == spent.faults < MaxFaults /\ Spend("faults")

(* The form's preview of a removal. *)
Preview(a, p) ==
    /\ a \in Forms /\ op[a].step \in Ended
    /\ op' = [op EXCEPT ![a] = [Idle EXCEPT !.step = "previewed", !.person = p, !.reviewed = PlanOf(p)]]
    /\ UNCHANGED <<member, lag, scopes, allow, spent>>

(* Up to the first write: the state is read again, and a form's removal    *)
(* applies the plan that was reviewed or none.                             *)
SameAsReviewed(a, p) == op[a].reviewed = PlanOf(p)
Begin(a, p, want, unit) ==
    /\ spent.changes < MaxChanges
    /\ op[a].step \in Ended /\ unit \in scopes \cup {NoScope}
    /\ want = "none" => unit = NoScope
    /\ (want = "none" /\ a \in Forms) => op[a].step = "previewed" /\ op[a].person = p
    /\ op' = [op EXCEPT ![a] =
            IF want = "none" /\ a \in Forms /\ ~SameAsReviewed(a, p) THEN Idle ELSE
            [Idle EXCEPT !.step = IF want = "none" THEN "last" ELSE "check",
                         !.person = p, !.want = want, !.plan = Changes(want, unit),
                         !.reviewed = op[a].reviewed,
                         !.clean = ((People \X Tiers) \cup Pairs(p, scopes)) \ lag]]
    /\ Spend("changes") /\ UNCHANGED <<member, lag, scopes, allow>>

(* A tier whose only member, nested groups included, is the person. *)
OnlyMember(p, members) == members = {p}
FindLast(a) ==
    /\ At(a, "last")
    /\ \E mine \in GroupsOf(op[a].person), std \in MembersOf("standard"), prem \in MembersOf("premium") :
        LET seen == [standard |-> std, premium |-> prem]
        IN op' = [op EXCEPT ![a].step = "check",
                            ![a].last = {t \in Tiers \cap mine : OnlyMember(op[a].person, seen[t])}]
    /\ UNCHANGED <<member, lag, scopes, allow, spent>>

(* apply_membership: nothing is sent when the directory already says so. *)
Change(a) == op[a].plan[op[a].next]
Finished(a) == op[a].next > Len(op[a].plan)
KnownAsPublished(a, view) ==     \* mutant: the tier is taken from the lists
    (IF Change(a).group \in Tiers THEN op[a].person \in allow[Change(a).group] ELSE Change(a).group \in view) = Change(a).present
Known(a, view) == (Change(a).group \in view) = Change(a).present
Check(a) ==
    /\ At(a, "check")
    /\ IF Finished(a) THEN Goes(a, "recheck")
       ELSE \E view \in GroupsOf(op[a].person) :
            IF Known(a, view) THEN op' = [op EXCEPT ![a].next = @ + 1] ELSE Goes(a, "write")
    /\ UNCHANGED <<member, lag, scopes, allow, spent>>

(* Graph refuses to add a member it has or to remove one it has not. *)
Write(a) ==
    /\ At(a, "write")
    /\ LET p == op[a].person  g == Change(a).group  add == Change(a).present
       IN IF (p \in member[g]) = add
          THEN Ends(a) /\ UNCHANGED <<member, lag>>
          ELSE /\ member' = [member EXCEPT ![g] = IF add THEN @ \cup {p} ELSE @ \ {p}]
               /\ lag' = lag \cup {<<p, g>>}
               /\ op' = [Disturb(a, <<p, g>>) EXCEPT ![a].step = "wait"]
    /\ UNCHANGED <<scopes, allow, spent>>

(* "Graph transport failed": the call had its effect or not. *)
WriteFails(a) ==
    /\ At(a, "write") /\ Fault
    /\ LET p == op[a].person  g == Change(a).group
       IN \/ UNCHANGED <<member, lag>> /\ Ends(a)
          \/ /\ member' = [member EXCEPT ![g] = IF Change(a).present THEN @ \cup {p} ELSE @ \ {p}]
             /\ lag' = lag \cup {<<p, g>>}
             /\ op' = [Disturb(a, <<p, g>>) EXCEPT ![a] = Idle]
    /\ UNCHANGED <<scopes, allow>>

(* wait_membership: polls until the directory answers as wanted; after the *)
(* last poll the run ends, with the changes so far in place.               *)
Wait(a) ==
    /\ At(a, "wait")
    /\ \E view \in GroupsOf(op[a].person) :
        IF Known(a, view) THEN op' = [op EXCEPT ![a].step = "check", ![a].next = @ + 1] ELSE Ends(a)
    /\ UNCHANGED <<member, lag, scopes, allow, spent>>

(* Which of these tiers may be published empty: those that now read empty. *)
Recheck(a) ==
    /\ At(a, "recheck")
    /\ \E std \in MembersOf("standard"), prem \in MembersOf("premium") :
        LET seen == [standard |-> std, premium |-> prem]
        IN op' = [op EXCEPT ![a].step = "readPremium", ![a].flags = {t \in op[a].last : seen[t] = {}}, ![a].alone = TRUE]
    /\ UNCHANGED <<member, lag, scopes, allow, spent>>

-----------------------------------------------------------------------------
(* Sync-ClaudeAccess: both groups are read before either list is written;  *)
(* a list that would become empty is not written unless that was asked.    *)
Resync(a) ==
    /\ a \in Timers /\ op[a].step \in Ended /\ spent.changes < MaxChanges
    /\ op' = [op EXCEPT ![a] = [Idle EXCEPT !.step = "readPremium"]]
    /\ Spend("changes") /\ UNCHANGED <<member, lag, scopes, allow>>

MayWriteRead(a, t, list) == TRUE     \* mutant: no guard against an empty list
MayWrite(a, t, list) == list # {} \/ t \in op[a].flags \/ allow[t] = {}
ReadTier(a, t, from, to) ==
    /\ At(a, from)
    /\ \E view \in MembersOf(t) :
        LET list == view \ op[a].taken
        IN op' = [op EXCEPT ![a].step = to, ![a].taken = @ \cup list,
                            ![a].pending = IF MayWrite(a, t, list) THEN [@ EXCEPT ![t] = <<list>>] ELSE @]
    /\ UNCHANGED <<member, lag, scopes, allow, spent>>
WriteTier(a, t, from, to) ==
    /\ At(a, from)
    /\ allow' = [allow EXCEPT ![t] = IF op[a].pending[t] = <<>> THEN @ ELSE op[a].pending[t][1]]
    /\ op' = [b \in Runs |-> IF b = a THEN [op[a] EXCEPT !.step = to] ELSE [op[b] EXCEPT !.alone = FALSE]]
    /\ UNCHANGED <<member, lag, scopes, spent>>
PublishFails(a) ==
    /\ op[a].step \in {"readPremium", "readStandard", "putPremium", "putStandard", "readBack"} /\ Fault
    /\ Ends(a) /\ UNCHANGED <<member, lag, scopes, allow>>

(* The published tier of the person, against the one the run is about;     *)
(* another publication is tried until 90 seconds are over.                 *)
Again(a) == [op[a] EXCEPT !.step = "readPremium", !.tries = @ + 1, !.taken = {},
                          !.pending = Idle.pending, !.alone = TRUE]
ReadBack(a) ==
    /\ At(a, "readBack")
    /\ \/ /\ a \in Timers \/ TierOf(op[a].person) = op[a].want
          /\ Ends(a)
       \/ /\ a \in Admins /\ TierOf(op[a].person) # op[a].want
          /\ \/ op' = [op EXCEPT ![a] = [Idle EXCEPT !.step = "warned"]]
             \/ op[a].tries < MaxTries - 1 /\ op' = [op EXCEPT ![a] = Again(a)]
    /\ UNCHANGED <<member, lag, scopes, allow, spent>>

Publish(a) ==
    \/ ReadTier(a, "premium", "readPremium", "readStandard")
    \/ ReadTier(a, "standard", "readStandard", "putPremium")
    \/ WriteTier(a, "premium", "putPremium", "putStandard")
    \/ WriteTier(a, "standard", "putStandard", "readBack")
    \/ ReadBack(a)

-----------------------------------------------------------------------------
(* Other administrators, and the directory. *)
Edit(p, g) ==
    /\ spent.edits < MaxEdits
    /\ member' = [member EXCEPT ![g] = IF p \in @ THEN @ \ {p} ELSE @ \cup {p}]
    /\ lag' = lag \cup {<<p, g>>}
    /\ op' = Disturb(NoPerson, <<p, g>>)
    /\ Spend("edits") /\ UNCHANGED <<scopes, allow>>
EditCatalog(s) ==
    /\ spent.edits < MaxEdits
    /\ scopes' = IF s \in scopes THEN scopes \ {s} ELSE scopes \cup {s}
    /\ Spend("edits") /\ UNCHANGED <<member, lag, allow, op>>
Settle(x) ==
    /\ x \in lag /\ lag' = lag \ {x}
    /\ UNCHANGED <<member, scopes, allow, op, spent>>

Proceed(a) == FindLast(a) \/ Check(a) \/ Write(a) \/ Wait(a) \/ Recheck(a) \/ Publish(a)
Next ==
    \/ \E a \in Admins :
        \/ \E p \in Targets :
            Preview(a, p) \/ \E want \in Tiers \cup {"none"}, unit \in Scopes \cup {NoScope} : Begin(a, p, want, unit)
        \/ WriteFails(a)
    \/ \E a \in Timers : Resync(a)
    \/ \E a \in Runs : Proceed(a) \/ PublishFails(a)
    \/ \E x \in Edited : Edit(x[1], x[2])
    \/ \E s \in Scopes : EditCatalog(s)
    \/ \E x \in People \X Groups : Settle(x)
Spec == Init /\ [][Next]_devVars

-----------------------------------------------------------------------------
Running(a) == op[a].step \notin Ended
Writes(a, t) == op[a].step # op'[a].step /\ op[a].step = IF t = "premium" THEN "putPremium" ELSE "putStandard"

(* A change of tier adds the new group before it leaves the old one (the   *)
(* order of changes in developer_change, each verified before the next):   *)
(* at no moment of it is the person in neither tier group, so that no      *)
(* failure leaves them there, unless somebody else changes these groups.   *)
MoveKeepsEntitled ==
    \A a \in Admins :
        /\ op[a].want \in Tiers /\ op[a].next > 1
        /\ Pairs(op[a].person, Tiers) \subseteq op[a].clean
        => \E t \in Tiers : op[a].person \in member[t]

(* A run that publishes has made all its changes: whatever replica         *)
(* answered it, the person is in the groups of the plan and in no group    *)
(* the plan removes, unless somebody else changed them meanwhile or they   *)
(* had not settled when the run began.                                     *)
PublishedIsChanged ==
    \A a \in Admins :
        Running(a) /\ Finished(a) =>
            \A i \in DOMAIN op[a].plan :
                LET c == op[a].plan[i]
                IN <<op[a].person, c.group>> \in op[a].clean => ((op[a].person \in member[c.group]) = c.present)

(* docs/AUM.md:365-368.  An allow list with entries becomes empty only by  *)
(* a removal that found the person to be the tier's last member, and never *)
(* while somebody is in the group all the while; except that the list is   *)
(* checked when the groups are read, and another run may write it since.   *)
EmptiedOnPurpose ==
    [][\A a \in Runs, t \in Tiers :
        Writes(a, t) /\ op[a].alone /\ allow[t] # {} /\ allow'[t] = {} =>
            /\ a \in Admins /\ op[a].want = "none"
            /\ <<op[a].person, t>> \in op[a].clean => op[a].person \notin member[t]
            /\ \A q \in member[t] : <<q, t>> \notin op[a].clean]_devVars
=============================================================================
