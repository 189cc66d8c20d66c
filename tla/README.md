# TLA+ models of the Claude Code gateway

The repository deploys an API Management gateway in front of Claude models in
Microsoft Foundry, and keeps around it the data that decides who may call it, at
which tier and within which budget.  Most of the code is scripts run once by one
operator; the state that several actors change at the same time, and that must
survive failures, sits in a few places: the entitlement container and its lock,
the gateway's named values and the service that edits them, the Entra groups,
and the console through which administrators see and change all this.  This
directory models those places as state machines, checks them with TLC and proves
the central ones with TLAPS.

Paths below are relative to the repository; file names without a directory are
in `service/aum/aum_service` or `cli/finops/src/claude_finops`.

## The system

| Part | State it keeps | Operations | What is hard |
|---|---|---|---|
| **Apply lock** `sync/src/apply-lock.mjs` | one lease document in Cosmos DB (holder, expiry, ETag) | acquire (create, read, take over, wait), renew, release | expiry by clocks of different machines, lost answers, crashes with the lock held, a batch longer than the lease |
| **Projection sync** `sync/src/apply-projection.mjs`, `plan.mjs`, `graph.mjs`, exporter `scripts/Sync-ClaudeProjection.ps1` | one record per person (tier, business unit), status records | resolve groups, export a snapshot, plan, bulk write, publish a status | snapshots older than what is stored, full and targeted syncs that overlap, half-written batches, two group reads that are not one moment |
| **AUM budget service** `service.py`, `workflows.py`, `transactions.py`, `registry.py`, `storage.py`, `azure.py` | named values of the gateway (registry, parents, overrides, tiers), tables of boosts, requests, manager groups and audit events, one blob lease | budget edits, boosts, expiry by timer, catalog, tiers, managers, requests | several named values written one by one without a transaction, other writers without the lease, boosts that must end |
| **Front end of the service** `api.py`, `auth.py`, `scope.py`, `notifications.py` | none of its own but the warnings that were sent | identify, scope, route, warn | a decision taken on what was read minutes ago |
| **USD reconciliation** `usd_budgets.py`, `usd_reconcile.py`, `usd_service.py`, `usd_command.py`, the decision in `infra/policy.xml` | `usd-budgets`, `usd-budget-state` | set a budget or a price, price usage, publish who is stopped, admit | configuration that changes during a query, runs without the lease, figures that expire |
| **FinOps console, reading** `progressive.py`, `tui.py`, `principal_ui.py`, `http_backend.py`, `direct.py` | tabs, pages, the identity in the header, credentials of a connection | refresh, page, open a detail, connect | threads that outlive their refresh, an `az login` elsewhere |
| **FinOps console, writing** `screens.py`, `feature_screens.py`, `engine.py`, `service_writes.py` | forms, reviewed plans, running saves | preview, apply, sign out, quit | a second press, a lost answer, a form that is taken away |
| **Local profile** `publication_output.py`, `configure.py` | one file and its backups | save, verify, restore | two processes and an editor, a process that dies between |
| **Developers and access sync** `developer_actions.py`, `developers.py`, `scripts/Sync-ClaudeAccess.ps1` | Entra groups, the gateway's two allow lists | add, move, remove, publish | replicas that lag, several calls without a transaction, an empty list |
| **Publication boundary** `guarded_publication.py`, `publication_widgets.py` | origins of everything that was read | publish, defer, draw, copy, notify | callbacks of a framework that run much later |
| Resolver and gateway cache `resolver/src`, `infra/policy.xml` | pending lookups, cached entitlements | look up, join a lookup, cache | single flight with deadlines |
| Installer UI server `tools/installer-ui`, checkpoint and resume `scripts/ClaudeInstall*.ps1` | run records, an Azure session lease, a checkpoint file | admit, stream, recover, resume | two browsers, a restart in a run |
| Chargeback outbox, Turnstile apply, projection switch | outbox entries, Turnstile objects, the entitlement source | send once, apply with rollback, switch | a step that fails between two others |
| Templates, queries, guides, workstation set-up | none that runs here | | |

They interact through stored state only.  The exporter and the sync job read
Microsoft Graph and write the entitlement container in Cosmos DB under the apply
lock; the resolver reads it for the gateway, which caches the answer.  The AUM
service, the access sync and several scripts write the gateway's named values,
which the gateway policy reads at every request; the USD reconciler writes
another of them from what Log Analytics has counted.  The console reads and
changes all of this through the AUM service, through Turnstile, or directly.

What makes each part correct: the lock lets one run write at a time; a sync
never replaces newer knowledge by older, and what it publishes is what it
resolved; a boost always ends and ends where it started, allocations fit into
their parent, no write destroys an edit its author has not seen; a request is
decided once, by somebody who may, and approved means applied; nobody is served
beyond a dollar budget by figures older than they may be; the console shows
nothing of an earlier sign-in, writes a review once and says truly what became
of it; a profile in use can always be brought back; nobody loses both tiers by
a change of tier, and no allow list empties by accident.

## Modules

| Module | Role |
|---|---|
| `SerialApplies` | abstract: tenures of the lock never overlap, and writes happen inside them |
| `ApplyLock` | the lease document and the runs that contend for it |
| `ProjectionSync` | scans, snapshots, plans, writes and statuses, on top of an abstract lock |
| `AumRegistry` | the budget configuration and the headroom rule, as operators; used by the three modules below |
| `BudgetLedger` | abstract: permanent limits and boosts |
| `AumBudgets` | the writers of the AUM service against the named values |
| `AumRequests` | the callers of the AUM service: scopes, requests, decisions, audit trail, warnings |
| `UsdBudgets` | dollar budgets, the reconciler and the decision of the gateway |
| `ConsoleSession` | what the console shows, and for whom |
| `ConsoleChange` | a reviewed change and its save |
| `ProfileFile` | the profile, its lock and its backups |
| `DeveloperGroups` | developer changes and the publication of the tier groups |
| `GuardedPublication` | origins, and what passes them |
| `ApplyLockProofs`, `ProjectionSyncProofs` | proofs about the lock and the sync, and that both implement `SerialApplies` |
| `AumBudgetsProofs`, `AumRequestsProofs`, `UsdBudgetsProofs`, `ConsoleChangeProofs`, `DeveloperGroupsProofs` | proofs about the modules they are named after |
| `ConsoleSessionProofs` | proofs about `ConsoleSession`, `GuardedPublication` and `ProfileFile`, which have no name in common |
| `MC*` | values for TLC |

`ProjectionSync` takes the lock as the variable `owner`: it is acquired, lost
at any moment and released, which is what `ApplyLock` allows under its timing
assumption.  Both are checked against the same `SerialApplies`, so the seam
between them is a checked interface.

`AumBudgets`, `AumRequests` and `UsdBudgets` are three views of one service and
share its lease, its configuration rules and its conditional writes.  Each
spells out one part and takes the others as one step: `AumBudgets` every call to
the named values, `AumRequests` who calls and what is recorded about it,
`UsdBudgets` the two dollar documents and the clock.  `ConsoleChange` takes from
the authority it writes to that it executes a request or, if it is the AUM
service, refuses an outdated revision, which is what `AumRequests` shows of it.

### ApplyLock

Each remote call is two steps, because the code stamps a lease before the call
and remembers its renewal after it; `phase[r]` says where a run is, `etag[r]`
and `renewedAt[r]` are the fields of the `ApplyLock` object, `seen[r]` what the
last read returned.  Failures are calls that end in an error whether they took
effect or not (`AcquireErrors`, `RenewErrors`) and processes that die
(`Crash`).  Clocks differ by a fixed `Skew`.  After a read that found no
document the code replaces with an undefined ETag; Cosmos DB is taken to
refuse it.

The lock fences nothing by itself: Cosmos DB does not know of it when it
executes a batch.  It works because a batch is sent only while the lease is
young and ends before the lease does.  `Timely` says so in numbers: two calls of the
longest duration, the renewal interval and the clock difference fit into the
lease.  With 300 s and renewal after 100 s that leaves 100 s per call between
equal clocks.

### ProjectionSync

`member`, `records`, `legacy` and `statuses` are the directory and the
container; a run goes through `stage[r]`: scan (both tier groups one after the
other, each person later checked against the directory in the exporter), start,
lock, read, plan, write in chunks, renew, publish, release.  A batch may take
effect in part or not at all, with or without an answer.  A job reads the directory
itself and has a removal ceiling; a snapshot may be full or of one person.
`covered[u]` and `changedAt[u]` are history variables for the
properties only.  Business units are left out: they travel with the record and
decide nothing.

### AumBudgets

The named values are one record `gw` of four keys, each with an ETag.  ETags are
modelled by what they are used for: `job[w].fresh` is the set of keys whose
current ETag writer `w` knows, and any other write to the key removes it.  A
writer goes through lease and snapshot (`SetBudget`, `Boost`, `Expire`,
`AddUnit`, `MoveUnit`, `RemoveUnit`, `SetTier`, `SetManager`), then per value
`Compare`, the put, `ReadBack`, then `Applied` and the table record, or the
rollback of its receipts in reverse order.  A put is answered with the ETag of
what it wrote (`PutLands`), or with an operation to poll or no version
(`PutAsks`): then `NamedValues.put` gets the value before it returns
(`azure.py:86-93`, `:102`), and `Asks` puts into the receipt whatever value and
ETag are current by then, whosever they are.  A receipt is kept as the ETag
alone in the code; the model keeps the value that goes with it, for the
properties.  `GetFails` is any read between that fails while the lease is held:
the rollback that follows runs under a valid lease.  `valid[w]` is what
`check_lease` finds; `lease` is what the blob holds; a lost renewal makes the
first false before the second is gone.  The time of boosts is the set `due`:
every boost may become due at any moment after its record exists.

`PutFailures` says what a put without an answer may have done: nothing, its
effect, or its effect later, after the handler has returned (the code gives up
polling after 24 tries, and a request after 60 s).  `SlowCalls` says whether a
call may outlast a lease that was lost after the check.  The list that makes
the snapshot carries no ETags here, the weaker of the two cases the comparison
in `apply_values` accepts.

### AumRequests

A handler first looks (`Look`: the revision, the parents and groups, a
request at its version), and whatever it does afterwards carries what it saw in
`job[h].seen`; everything may change before `Admit` takes the lease and reads
the configuration again.  An admitted change is announced (`Intend`), planned
again inside the work (`Check`), applied, its warning threshold and its record
stored, and closed with its outcome; each of these is one step and each can
fail, with or without effect, or end with the handler.  `Apply` is the whole of
`apply_values` in one step, compared with the configuration the handler read.
`MayRead`, `MayWrite` and `MayDecide` are `scope.py` and `can_approve`;
`Measure` and `Warn` are the two halves of the warning timer, the usage being
queried before the lease is taken.

### UsdBudgets

Time is counted in ticks.  `doc` is what administrators decide, `state` what the
reconciler published last, with the policy revision, the time and the expiry;
`Decision(u)` is what the gateway policy makes of both and the clock.  A handler
reads its clock first, then both documents, queries the ledger (rows of the last
`Delay` ticks may be missing), compares revisions again and replaces the
document it knows.  `current` holds the pairs of handler and document for which
nobody has written since: that is what an `If-Match` or the comparison in
`apply_values` finds out.  A put is answered at once (`Put`) or by a get that
comes later (`PutAsks`, `Asks`); `job[h].got` is the value that came with the
answer, and a rollback puts over it.  Runs of `usd_command.py` (`Directs`) are
the same without the lease and with a clock up to `Skew` ahead.  Catalog,
parents and modes change under the service's lease without looking at dollars,
and another authority may take the gateway over.  A model is priced or not, and
a priced row costs a dollar.  `Stale` has all bounds of the policy
(`infra/policy.xml:567-569`): a state is refused when it has expired, when its
stamp is more than `Tolerance` (60 s) ahead, and when it claims to be valid for
longer than `MaxAge` (900 s).

### ConsoleSession

A read cycle (`cycles[n]`) belongs to a connection and is pinned to the
credentials it first used; its requests (`calls`) are threads that are asked,
sent and answered one by one, and go on when the refresh that started them is
over.  `cli.user` is whoever the Azure CLI is signed in as, `backend[e].bound`
whose token the connection holds, `known` whom `whoami` reported last, `rev` the
identity revision; `ui` is what the loop knows (tab, serial of the refresh,
page, month, header), `data[t]` what a tab shows and from where.  A `whoami`
that finds another person changes the revision and the known user in one step;
the code stores them one after the other under the same lock.  Every input is
preceded by `Synchronize`, as in `on_event`.  The two kinds of connection
differ: HTTP checks the credential generation after the answer, Direct takes a
credential context per cycle.  Retries after a 401 are part of `ReadReturns` and
`ReadFails`.

### ConsoleChange

A form has its fields, the plan of its last preview and its buttons; a save is a
record in `tasks` that goes through `fresh` (the fields are taken and previewed
again), `reread` (the operation takes them once more), `ready`, `sent`, `follow`
and `ended`, while `wire` says what became of its request at the authority.
`active` is `_active_mutations`.  A change of the sign-in, a second press and a
cancelled worker act between any two steps; `Executes` happens whether somebody
waits or not.  `ChangeScreen` and `ActionForm` differ in which plan they compare
with (`Reviewed`) and in what a failed preview does to the button.

A save ends (`End`) with what its form said: `"saved"`; `"refused"`, when the
state had changed, the values were not valid or the authority answered a
conflict; `"notrun"`, Direct's text for a script that it could not run or that
timed out (`direct.py:204`); and `"error"`, any other failure, whose text says
no more than to refresh before retrying.  A save that was made can end with an
error as well: a read of the apply job fails (`FollowFails`), or the last
message is refused under the guard of the form (`Concludes`).  A form may be
taken off the screen during its save.  Then the comparison has no plan to
compare with and what is raised is no `FinOpsError`, and a message may find its
widget gone (`Shown`): either ends the console (`Crashes`), beside whatever else
is being saved, while the threads of the saves go on (`Reread`, `Send`,
`Executes`).

### ProfileFile

`file` holds the bytes, `lock` the OS lock, which a process that dies gives up.
`proc[p]` goes through preview, comparison, lock, check, backup, check,
replace, and for a console verification and then adoption or restoration, each
of these one step.  `late` is a history variable: the processes that have not
looked at the file since the editor last saved.

### DeveloperGroups

`member` are the Entra groups; `lag` the memberships whose last change some
replica does not have, so that a read may answer either way for them
(`GroupsOf`, `MembersOf`).  A run of `developer_change` goes through its list of
`Changes` one group at a time (`Check`, `Write`, `Wait`), reads again which
tiers may become empty (`Recheck`), and publishes as the access sync does
(`ReadTier` for both lists, then `WriteTier`, then `ReadBack`, again while the
tier does not show).  `clean` and `alone` are histories that say which
memberships nobody else touched and whether another run has published.
Membership is direct here; the code's transitive reads see nested groups too,
which a run never changes.

### GuardedPublication

An origin is the set of sign-ins it insists on.  It is asked at every write to a
widget, but not at every drawing: only widgets that the framework makes itself
(`Natives`, `publication_widgets.py:291-305`) and toasts (`:525-539`) ask again
before they are drawn.  The console's own `Static`, `Label` and `DataTable`
(`:542-571`) draw what they hold until the synchronisation clears them.  Every
renderer, watcher, callback and notification is an element of `work` or `notes`
and carries its origin next to the sign-ins its data was read for; the framework
runs, draws, derives and copies them in any order.  `revision` may change
between any two steps, but not inside one, because an entered guard holds the
credential lock.  The model takes a renderer to replace what its widget shows
(the code clears a table before it adds rows); writes of a single attribute are
not modelled.

## Runs

All runs set `CHECK_DEADLOCK FALSE`: requests, faults and clocks are bounded and
processes end, so every behaviour stops in the end.

| Run | Shows |
|---|---|
| `lock` | two runs, one clock ahead by one, crashes and lost answers, the shortest lease for which `Timely` holds: no two batches at once, only its owner touches a live lock, `SerialApplies` is implemented, and `acquireApplyLock` always ends |
| `sync` | a job and a full snapshot on one person, two changes of the directory: what is settled is right, what is published was resolved, nothing newer is undone |
| `sync_targeted` | a full snapshot from a clock a full margin ahead and a targeted sync, two people |
| `aum_budgets` | edits, boosts and expiry with faults: headroom, restorability, no boost that comes back, every due boost ends, the ledger |
| `aum_catalog` | the same with catalog, tier and manager changes, edits by other tools, late puts, puts that are answered by a later read and calls that outlast the lease: headroom, no inherited manager group, nothing is overwritten but what the writer compared or was answered with |
| `aum_requests` | an administrator and two managers of a parent and its team: a request is decided once, by who may at that moment, on what was seen; approved means applied; every change is announced |
| `usd` | two budget trees, a timer, a run without the lease, every change of policy: nobody is served beyond a budget that is due, refusals are due, allocations fit, older figures replace only what came with the answer of the put they take back, the gateway comes back |
| `console_session` | one HTTP and one Direct connection, either first: after a change of the sign-in nothing old is shown, the header is right, the page is the one asked for |
| `console_change` | three forms, and as authorities the AUM service and Turnstile: one write per review, quitting waits and only a change of sign-in can end the console beside a save, what was reported stays true |
| `profile` | two consoles, one configure run, an editor that saves twice, one death: the old bytes can be recovered, newer ones are kept |
| `developers` | a reviewed change of a developer, another administrator, the scheduled sync, lagging replicas, one failed call: a change of tier keeps the person in a tier, what is published was changed, no list empties by accident |
| `publication` | a table of the console and an overlay of the framework, three sign-ins, two reads: nothing old is written, announced or copied, and nothing old is drawn but by the table while its clearing is scheduled; the screen forgets an old sign-in |

### Bounds

*Lock.* Two runs are what a race needs: either may be the holder that died, was
slow or lost its answer, and both meet at the same expired document; the ETags
suffice for every document the clock leaves time to write, and the clock covers
one whole lease, its takeover and the wait limit.  *Sync.* Two runs of the pairs
of kinds overlap; one person shows everything that is about one record, two
people what a targeted sync leaves alone and what partial batches do
(`ChunkSize` 1 splits them); `sync` itself has no targeted run, whose overlap
with a full snapshot is `sync_targeted`; clocks of 3 and 4 put a scan before, at
and after each other run's publication.  *AUM.* A unit, its team and a person
are the three levels of headroom; two writers meet whenever a lease is lost;
limits 1 to 3 make an allocation fit, fill and overflow its parent.  One fault
is a failing read, put or table write, a crash or a lost lease, at any point.  A
job of `aum_budgets` writes one value, so its rollback (`RestoreLands`) has one
receipt and is reached by a read that fails after the put; jobs with several
receipts, where a later put is what fails, are in `aum_catalog`.

Two values of the constants are chosen because the properties do not hold
beyond them.  With `SlowCalls` a put outlives the lease under which headroom was
checked, and headroom spans two values that no ETag ties together; with
`"later"` in `PutFailures` a boost's own put may land after the timer has closed
its record (`expire` takes the old value to mean that nothing has to be
restored).  So `BoostStaysOver` is checked for calls that end before their
handler, and `HeadroomHolds` and `NoGrantWithoutUnit` speak of behaviours that
are `Undisturbed`: no other tool has written and no call has outlasted its
lease.  `aum_catalog` checks the other behaviours for what the ETags do protect
(`NothingUnseenOverwritten`).  For the same reason `aum_budgets` has no tier
change (a tier raised beside a boost is never checked for headroom) and
`aum_catalog` no put that fails to answer but took effect at once: it leaves no
receipt, the rollback takes back the other value alone, and a catalog change that
is half written need not fit (`HeadroomHolds` is therefore checked for this fault
only where a change is one value).  `Days` is 1 instead of 31, or 2 for dollars: it
scales a weight only.

*Requests.* Two handlers and two admitted changes (`MaxCalls`) are a decision
and what comes between its reading and its storing; the three people are an
administrator, the manager of the parent and the manager of the team, and the
one request may be absent, or pending for the team or for the person.  *USD.*
`Starts` are two configurations, a team below its unit with dollar budgets of
the unit and of the person, and two units with a price book only, so that every
move and every first budget occurs; a day is one tick, a state is valid for one,
and the clock makes one (`MaxClock`): a reconciliation is early, in time or too
late.  Nothing is spent in the last tick, which no state could count.  `Skew`,
`Delay` and `Tolerance` are 0 in this run and `MaxAge` is `Freshness`, as the
code's two 900 seconds are; what the invariants say allows for a stamp ahead and
for late rows, and their proofs are for every value of the five.  The month does
not roll over within the run, the day does, by the same operators.  *Console.*
One change of the CLI's user or one failed read (`MaxTrouble`), three cycles and
one move are a refresh, the one that supersedes it and one more in between.
`console_change` has two previews, two saves, one edit by either side
(`MaxMoves`) and one trouble; two budgets 1 and 2 below a limit of 3 fit or do
not.  *Profile.* Two edits are what it takes to change the bytes and change them
back (`OldRecoverable` says what follows).  *Developers.* `Targets` are the
people the runs are about, `Edited` the one membership that others change;
`StartMembers` has the person as the last member of the tier, or with another
one.  *Publication.* A callback may have been admitted two sign-ins ago, and one
widget of each kind shows the difference between them.

### Fairness

`ApplyLock`: a call that was sent returns, and time passes; nothing forces a run
to start or a holder to go on.  `AumBudgets`: a handler that lives goes on, a
blob lease that is no longer renewed ends after 60 s, and the timer of
`function_app.py` fires every minute, so an expiry that is possible and stays
possible is tried.  Requests, faults and edits are never forced.  `UsdBudgets`:
the clock goes on, and as long as the timer of every five minutes can fire, a
handler of the service can go on or an abandoned lease can end, one of these
happens; nobody has to spend or to edit, and a run of the command never has to
begin or to go on.  `GuardedPublication`: the event loop runs the
synchronisation that was scheduled with it (`_principal_verified` calls back
into the loop), and draws a widget that was marked for it; nothing forces the
framework to draw an unchanged one.

## Proofs

The proofs hold for all values of the constants: every number of runs, people,
handlers, forms, processes and widgets, every skew, all lease, wait, chunk and
state lengths.  They assume the named assumptions of the modules (types and
bounds that TLC also checks in every run) and, where it says so below, one of
six facts about the deployment: `Timely` (calls are short for the lease),
`ClocksAgree` (exporters' clocks differ by no more than the code allows for),
`~SlowCalls` (no call to Azure outlasts the lease it was sent under) and `Quick`
(that, no put that takes effect after its handler has given up, and no other
tool that edits the named values), that no unit's group is a tier's, and that the
console does not write through Direct (`"direct" \notin Authorities`).  Each has
a run that satisfies it, and this file says what happens without.

| Theorem | States |
|---|---|
| `LockTypeCorrect`, `LockInvariant` | types; under `Timely`, the inductive invariant `LockInv` |
| `OneWriter`, `LiveLockIsLeftAlone` | under `Timely`: `OneWriterAtATime`, `OthersNeverTouchLiveLock` |
| `LockImplementsSerial` | under `Timely`: `ImplementsSerial`; the owner of the lock document is the run whose tenure it is |
| `SyncTypeCorrect`, `PublishedIsScanned` | types; `PublishedMatchesScan` of `ProjectionSync` |
| `SyncImplementsSerial` | `ImplementsSerial` of `ProjectionSync`: lock and sync are proved against the same interface |
| `FreshInvariant`, `SettledIsCorrect`, `StaleNeverOverwrites` | under `ClocksAgree`: the inductive `FreshInv`, `SettledRecordsCorrect`, `NoStaleOverwrite` |
| `WritersAreSerial` | what `SerialApplies` promises whoever implements it |
| `PublicationInvariant`, `CurrentOnly` | the inductive invariant of `GuardedPublication`, and `OnlyCurrentComesUp`, for any division of the widgets into the framework's and the console's |
| `SessionInvariant`, `SessionTypeCorrect`, `ShownWasVerified`, `PagesMatch`, `ShownBySignedIn` | the inductive invariant of `ConsoleSession`, its types, `ShownIsVerified`, `PageMatchesQuery`, `ShownForSignIn` |
| `DeveloperInvariant`, `DeveloperTypeCorrect`, `MovesKeepEntitled`, `PublishesWhatItChanged`, `OnlyEmptiedOnPurpose` | the inductive invariant of `DeveloperGroups`, its types, `MoveKeepsEntitled`, `EmptiedOnPurpose`; where no unit's group is a tier's, `PublishedIsChanged` |
| `ProfileInvariant`, `NewerIsKept`, `OldIsRecoverable` | the inductive invariant of `ProfileFile`, `NewerKept`, `OldRecoverable` |
| `ChangeInvariant`, `EndsInvariant`, `OneWrite`, `QuitIsHeld`, `OutcomeIsHonest` | the two inductive invariants of `ConsoleChange`, `OneWritePerReview`, `QuitWaits`; where nothing is written through Direct, `OutcomeHonest` |
| `RequestInvariant`, `RequestsDecidedOnce`, `ApprovalIsApplied`, `DecisionIsAuthorised`, `SeenIsChanged`, `ChangesAreAnnounced` | under `~SlowCalls`: the inductive invariant of `AumRequests`, `DecidedOnce`, `ApprovedIsApplied`, `DecisionAuthorised`, `ChangesWhatWasSeen`, `EveryChangeAnnounced` |
| `AumTypeCorrect`, `OwnInvariant`, `UnseenIsKept` | types; the inductive `OwnInv`, what a handler's ETags vouch for; `NothingUnseenOverwritten`, without any assumption |
| `GrantsHaveUnits` | `NoGrantWithoutUnit`, without any assumption beyond the one the property states |
| `CalmInvariant`, `BoostIsOver` | under `Quick`: the inductive `CalmInv`, `BoostStaysOver` |
| `LedgerInvariant`, `ServiceImplementsLedger` | under `Quick`: the inductive `LedgerInv`, `ImplementsLedger` for all kinds of requests |
| `UsdInvariant`, `NobodyServedBeyond`, `NobodyStoppedEarly`, `OlderNeverStored` | the inductive invariant of `UsdBudgets`, `ServedWithinBudget`, `StopsAreDue`, `NewerStateKept` |

### The lock

`OneWriterAtATime` is not inductive: it says nothing of who may start to write next.
`LockInv` adds for each run: an ETag it remembers and that is still current
makes it the holder (`Owned`); what it read before a replace is true as long as
the ETag is current (`SeenTrue`); the answer of a call came back at most
`MaxStep` after it was sent (`Answered`), so the lease in the document is at
most that much older than the run thinks (`LongLease`); a run inside whose
renewal is younger than `RenewAfter + MaxStep` still owns the document
(`YoungOwns`), and a batch under way was begun while it was young
(`WorkYoung`).  The heart is `StoreLock` by another run: a create needs the
document gone, a takeover needs the lease expired on a clock at most `MaxSkew`
ahead, and `Timely` puts both after the last moment at which the owner could
still write.  The refinement follows from the same invariant: each step of one
run is classified by what it does to the holder and to the run's phase, and
only a takeover (`EnterStep`) needs the timing again.

### The sync

`PublishedMatchesScan` speaks of the last stage only.  `SyncInv` carries it
there: while a run owns the lock, what it read stays true (`ReadTrue`), because
records change only from a batch and a batch belongs to the owner
(`SendingOwns`); so what it neither left out nor has still to write is right
from the plan on (`PlanIsComplete`, `WrittenTrue`), and it stays so as long as no
operation failed.  A run that lost the lock may go on planning from stale
records; it cannot get past the next renewal, which is why every part of the
invariant is about the owner.

That a record is right once the directory has been quiet needs the clocks as
well.  `FreshInv` says three things.  A scan that began after a person's last
change of tier has the person right, from the first group read on (`SeenTrue`;
it holds although the two groups are read at different moments, because the scan
is stamped before the first).  Of everything published there is a status whose
stamp is at least as late, whatever clock wrote it (`Vouched`), so that a run
with an older scan is refused or leaves the person out (`PlanIsNewest`).  And
therefore the owner writes about nobody of whom something newer is published
(`PlannedFresh`).  `ClocksAgree` is what `targetedCutoff` supposes: no clock is
ahead, except that of a full scan, of a targeted one, by at most `Margin`.
Without it the second step fails, as the roadmap says.

### The publication boundary and the profile

`OnlyCurrentComesUp` speaks of the moment something is shown; whether the guard
asked then is strict enough depends on everything that happened to the data
before.  `OriginsCover` says that wherever data goes, the origin that travels
with it insists on at least the sign-ins it was read for: through a renderer
into a widget, from a widget into what the framework derives of it, and
through keys, which make an origin stricter and never weaker.  For copying the
content without the input has to lie between the two.  That is enough for what is
written, announced, copied, and drawn by a widget that asks.  A widget that does
not ask needs `ScreenFollows`: while the console believes in the sign-in that is
verified, every widget holds data of that sign-in only, and while it does not,
the synchronisation that clears them all is scheduled.

`NewerKept` needs to know, at the replace, that the bytes are still those of the
check before.  `LockGuards` says that only the holder of the lock is between
lock and replace, and that a process about to write stands before the bytes it
checked unless an editor has saved since; without the lock the second half is
not kept by the steps of others.  `OldRecoverable` follows from `BackupHolds`:
from the second check on, the bytes a process is about to replace are among the
backups, unless an editor has saved since it looked.

### A reviewed change

`OneWritePerReview` is about pairs of saves, and nothing in a single save says
that another one with its plan exists.  `ChangeInv` ties plans to forms
(`OfOneForm`), gives a form one live save at a time (`OneSave`), and says
what has been used up: a plan that a save has begun to use is on no other save
that has begun or waits to begin, and on no form whose Apply can be pressed
(`UsedOnce`).  `Numbered` is what makes a new preview different from everything
before, even if its values are the same.  `Waited` is `active` against the saves
under way, and `Outcome` ties what a form said to what the authority did.

The second layer, `Ends`, is about how saves and the console end.  `Thrown` traces
whatever is raised to its cause: a form that is gone while it is being saved, or
that has no plan then, belongs to an earlier sign-in, because Cancel is refused
meanwhile and only a change of the sign-in takes a form away.  So the
console crashes beside a save only after such a change, which is the second half of
`QuitWaits`.  `Kept` says that a form which keeps Apply from being pressed again
has had its change made, whichever error it ended with.  `NotRun` says that no
other authority speaks as Direct does; with Direct among the authorities
`OutcomeHonest` is false (Known disagreements).

### Requests

What a handler stores rests on what it read several steps before.
`RequestInv` says for a handler that is still under its lease that the world is
the one it was admitted in: the configuration is unchanged or has exactly the
approved limit in it (`Configured`), the request is the one its caller saw and
the caller may decide it (`Requested`).  Others keep it because whatever writes
holds the lease (`LeaseHeld`), and this is where `~SlowCalls` enters: without
it, a put of a handler whose lease was lost lands in the next one's
configuration.  Before its admission a handler knows only that what it saw is
the request as it is or an earlier version of it (`SeenBefore`), which the
comparison of versions turns into equality.

### Budgets and boosts

A put names a key and an ETag, and both may be long out of date when it lands.
`NothingUnseenOverwritten` follows from what an ETag vouches for (`Vouched`): as
long as it is current, the named value is the one that came with it.  Before the
put that is the one the handler compared; after it the one it has put, or, if
the put had to ask, the one found by the read that answered it, which may be
another tool's.  Others keep this because each of their
writes, a late one and another tool's included, ends the ETags of everybody
else.  A handler's own steps keep it because it writes each key once
(`Distinct`): were a key on the list twice, the receipt of the first write would
vouch for a value the second has replaced.  No assumption on timing is needed;
this is the part of the design that holds when the lease is lost.  It is also
all that holds: that a rollback replaces only its own write is not true when a
put had to ask.

`NoGrantWithoutUnit` relates the manager table to the catalog, which are written
in separate calls.  While nobody else edits and no call outlasts its lease, a
call under way is the holder's (`Leased`), so what the holder has read stays
true; `Grants` then says that both what it has still to write and the snapshot
to which it would go back keep every unit that has a manager, and that a manager
is recorded only for a unit that is there.  Removing a unit is the hard
case: its grant is revoked before the registry is written, so the list may drop
that unit and no other, and a rollback restores the unit but not its
grant, which the invariant allows in this direction only.

`BoostStaysOver` needs three facts of a holder: its writes differ from its
snapshot in the limit of its target alone (`Narrow`), so a step of a handler
that works on something else leaves the limit as it is; the boost it works
on is not yet over (`BoostLives`), because only a holder records a boost as expired
or superseded; and no write arrives from a handler that is gone (`Calm`).  Without
`Quick` the last one is false, and a late put can bring a boost back: the
hazard at `workflows.py:154`.

`ImplementsLedger` adds the boosts table.  `LedgerInv` says of the records that
a target has one live boost, that it is above what it restores, and that its
target is in the catalog (`Records`).  Of the holder of the lease it says that
it keeps to its plan (`Held`): whatever is not a boost is done with a target
that has none (`Alone`), and a boost or its end takes the limit of its target
from one of the two values of its record to the other, in either direction, so
a rollback is one of them as well (`Planned`).  An end is stored only when the
limit has left the boosted value.  A write is then an `Edit`, a `StartBoost` or
an `EndBoost` of the ledger, and the writes to the table are invisible.  The run
checks budget edits and boosts; the theorem covers catalog, tier and manager
changes too, since a unit can be moved or removed only while it has no boost.

### Dollar budgets

What the gateway decides now rests on a state that somebody calculated earlier
from rows that may have been incomplete.  `Honest` says of a state, stored or
still in a handler, that it decides by the policy whose revision it names and by
some set of rows of the ledger no later than its stamp, which includes every row
old enough to be queried then.  Usage only grows, so `Honest` is kept by every
step, by spending and the clock included.  `StopIsDue` needs the rows to be real
and the day or month of the stamp to be the current one (`SameWindow`);
`OpenIsWithin` needs that a state that is still valid missed only rows of the
last `Freshness + Skew + Delay` ticks, which is exactly what
`ServedWithinBudget` leaves out.  Neither supposes that a stamp is in the past:
a state of a run whose clock is ahead is decided by as soon as its stamp is
within `Tolerance`, and may have counted the tick that has begun, which is why
`StopsAreDue` includes it.  `OlderNeverStored` is about the handlers: while a
handler's ETag is good, what is stored is what it read, or after its put what
came with the answer (`WritesState`).  A put therefore never replaces a newer
state; a rollback may, and then it is the state that answered its put.

### What the console shows

A thread that a refresh has abandoned answers long afterwards, and only its
guard keeps the answer off the screen; the guard compares numbers, and the
theorem is about persons.  `SessionInv` closes the gap.  `SentIsCurrent`: what went
out under the credentials the connection still has carries its principal revision,
so every other answer fails the comparison.  `HeaderHolds`: a `whoami` that
passes is the user the connection verified last, and over HTTP no data is asked
for before there is one.  `CyclesHold` says the same of Direct, where a cycle
pinned to the present credentials knows whose they are, and `CandidateAlone` of
a connection that is still tried out: one thread reads through it, so what
it answered is what the console adopts.  `PagesHold` carries page and month from
the refresh through its calls to the screen.  `ShownForSignIn` needs the time of
the sign-in as well: by `LatestHolds` a refresh begun after the last `az login` has
read as that user only, and by `DataHolds` what a tab shows while a refresh
lives is of that refresh.

### Developer changes

A publication reads the tier groups from replicas that may be behind, and what
it writes decides who is let in.  `MoveKeepsEntitled` and `PublishedIsChanged`
are about memberships that nobody else touched during the run, its `clean` ones.
A clean membership is behind in some replica only if the run changed it itself
(`OwnLag`), so a read of it that differs from the plan is recognised and asked
again, and what the plan has passed is so and stays so (`DoneHolds`).  For the
empty list there are the flags of a removal (`FlagsHold`, `EmptyAllowed`): a
tier is published empty only if the run found the person to be its last member,
or it was published empty before.  `PublishesWhatItChanged` supposes that no
unit's group is a tier's (`Scopes \cap Tiers = {}`).  The code takes that for
granted, since tier is to be "a separate axis" from the unit
(`docs/adr/0008-teams-and-tiers.md:1`); without it one plan may both add
somebody to a group and remove them from it.

### Model-checked only

Liveness and whatever else is under fairness (`AcquireEnds`, `BoostEnds`,
`Refreshes`, `ForgetsOldSignIn`) is out of TLAPS's reach.  So are the sums over
sets of `HeadroomHolds`, `RestoreAlwaysFits` and `AllocationsFit`: what
`MapThenSumSet` returns for every set is an induction over data. 

## Known disagreements

Where the code does not do what a document or a neighbouring check says, the
model follows the code and the properties stop short of it.

* **Torn group scan.** The premium group is read before the standard group
  (`sync/src/apply-projection.mjs:170`).  Somebody who is moved from standard to
  premium between the two reads is resolved as nobody and deleted, though never
  without a tier (decision 3 of
  `docs/adr/0051-persistent-sync-based-cosmos-entitlement.md` speaks of people
  "no longer entitled").  `PublishedMatchesScan` compares with what was read.
* **A unit moved under a boosted one.** A catalog change checks headroom against
  the limits in force (`service.py:289`), a boosted parent's included; only
  budget edits look through the boost.  `docs/AUM-SERVICE.md:526` says "the
  server checks against the parent's post-expiry baseline too".  Such a boost
  cannot be restored; `RestoreAlwaysFits` is checked without catalog changes.
* **A catalog change half written.** `bu-registry` is written before
  `bu-parents` (`service.py:284`), and a handler that dies in between leaves a
  parent map that names a unit which is gone; `Config` refuses to read it, and
  so does every expiry.  `docs/AUM-SERVICE.md:523` says an Azure failure leaves
  a boost due for a later tick.  `BoostEnds` is checked without catalog changes.
* **A removed unit keeps its dollar budget.** The service removes a unit from
  the catalog and not from `usd-budgets` (`service.py:257`);
  `docs/BUDGETS.md:331` says of removals that they clear the entry.  Every
  reconciliation then fails, and the gateway refuses people with a dollar budget
  once the last state has expired.  `Refreshes` says so in its condition.
* **What is written after a review.**  The save takes the fields of the form and
  the state of the authority once more after the comparison with the review
  (`screens.py:344`); `docs/AUM.md:1598` says that changing a field
  invalidates the preview.  Inputs stay editable while a save begins, and nothing
  compares the last read; the AUM service refuses an outdated revision, Direct
  and Turnstile do not.
* **A detail that outlives its connection.** A detail whose read ends after
  another connection was made takes its guard from the new one (`tui.py:686`),
  while `docs/AUM.md:1021` has closing the source connection invalidate it.
  `ShownIsVerified` says of a detail only what it says about its own connection.
* **A rollback over somebody else's value.** When a put is answered with an
  operation to poll, or without a version, it returns a later read
  (`azure.py:86-93`, `:102`).  If another tool has written in between, that read
  has the other's value and ETag; `apply_values` keeps the ETag
  (`transactions.py:23`), finds that the value is not its own and rolls back
  over it (`transactions.py:35`).  `docs/adr/0023-aum-service.md:55` says
  "rollback never overwrites a later independent write".  This concerns token
  budgets and the dollar documents alike; `NothingUnseenOverwritten` and
  `NewerStateKept` say that a rollback replaces what came with the answer, no
  more.
* **An end beside another save.** `docs/AUM.md:270` has the application's quit
  routes wait for a change in flight.  A change of the sign-in clears
  `preview_plan` of a form that is being saved (`principal_ui.py:106-110`); the
  save then fails at `screens.py:342` with an error that is no `FinOpsError`,
  and `tui.py:774` hands it to the framework, which ends the console, beside
  another save if there is one.  `QuitWaits` says that nothing else does.
* **A change that was made and is shown as an error.**  When following the apply job
  fails, or the form belongs to an earlier sign-in by then, `screens.py:372-374`
  shows the failure with "Refresh before retrying", and `feature_screens.py:211-214`
  the failure alone.  `OutcomeHonest` takes an error to say nothing of the
  outcome; what it does say is that a `ChangeScreen` which remembers its change as
  saved, and so keeps Apply from being pressed again, has had it made.
* **A Direct script that timed out.** After 300 s the console says "Cannot run
  gateway scripts" (`direct.py:204-205`), also of a script that has written by
  then.  `OutcomeHonest` does not hold with Direct, and run and theorem leave
  that authority out.
* **Old content drawn again.** The console's own widgets draw what they hold
  without asking, so between a change of the sign-in and the synchronisation
  that follows it they may be drawn once more as they were.
  `OnlyCurrentComesUp` allows that while the synchronisation is scheduled, and
  `ForgetsOldSignIn` ends it.
* **Publication by two runs.** Whether a tier may be published empty is decided
  when the groups are read, from the allow list of that moment.  Another run may
  fill the list before this one writes it, and then a list with entries becomes
  empty although nobody was removed, which `docs/AUM.md:365-368` excludes.
  `EmptiedOnPurpose` speaks of runs beside which nobody else has published
  (`alone`).
* **Two bounds on freshness.** `calculate_state` accepts a freshness of up to
  3600 s (`usd_budgets.py:294`), while the gateway refuses a state that is valid
  for more than 900 s (`infra/policy.xml:569`).  Every caller uses the 900 s.
* **Removing the last member again.**  A removal that fails after it left the
  group is run again with nobody in the tier; it then finds no last member
  to remove, may not publish an empty list, and ends with the warning of
  `developer_actions.py:68`.

## Not modelled

* *AUM service*: enforcement modes of token budgets (a third value of a catalog
  change, written like the second), daily overrides, the page of 100 due boosts,
  token validation, reports and mail.
* *Dollars*: decimal arithmetic and rounding (`usd_budgets.py`), the encoding of
  the documents, the import of prices, cache tokens.
* *Sync*: paging and throttling of Graph, the read-only compare and admission
  modes, the contents of records beyond the tier.  A bulk call that was given up
  is taken to have had its effect by then or never.  A full snapshot whose
  exporter's clock is ahead may pass for newer than it is; `docs/ROADMAP.md`
  records this, and `NoStaleOverwrite` is checked with equal clocks between two
  full scans, and with one clock a full margin ahead between a full and a
  targeted one.  A run that dies between its writes and its status leaves no
  status, and `docs/ROADMAP.md` says what follows; the properties of
  `ProjectionSync` speak of published scans for that reason.
* *Access sync*: business units, parents, modes and members that
  `Sync-ClaudeAccess.ps1` also writes; they are values of their own, each
  written once per run.
* *Console*: layout and wording, report commands, the assistant, the tour;
  the 401 retry as a read of its own (`http_backend.py:85`); that the scripts
  Direct starts run as whoever the Azure CLI is by then (`direct.py:186`); the
  time a Turnstile job was requested (`engine.py:184`).
* *Components without a module*: resolver and gateway cache, installer UI server,
  checkpoint and resume, chargeback outbox, Turnstile apply, projection switch.
  They are JavaScript and PowerShell programs with state of their own
  and next in the plan.  The installer flow, network scripts, templates, queries and
  workstation set-up are sequential or declarative and keep no state that two
  actors share.

## Plan

1. `ResolverLookup`: single flight, deadline and slots of `lookup.mjs`, the
   decision of `entitlement.mjs`, composed with the gateway cache of
   `policy.xml`; properties: one answer per caller, slots never leak, the time
   between a revocation and the last admitted call is bounded.
2. `InstallerRuns`: admission, run record and restart of the installer UI
   server; `Checkpoint`: resume after an interruption at any line.
3. `Outbox`: a report is sent once; `TurnstileApply`: apply, read back, roll back.
