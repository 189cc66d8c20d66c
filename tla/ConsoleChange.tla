----------------------------- MODULE ConsoleChange -----------------------------
(***************************************************************************)
(* A change made in the FinOps console: fields, Preview, Apply.  Apply     *)
(* reads and compares again, then writes once, in a task that outlives the *)
(* worker awaiting it and the form itself.  Other writers use the same     *)
(* authority, the sign-in may change while a save is under way (every form *)
(* is taken off the screen), answers get lost, and quitting and signing    *)
(* out wait for the saves.                                                 *)
(*                                                                         *)
(* One scope is edited: its budget and the sum of its siblings', which the *)
(* parent's limit bounds.  extra is a field the preview does not compare:  *)
(* the period of a dollar budget, the warning threshold of a token budget. *)
(***************************************************************************)
EXTENDS Naturals, Sequences, FiniteSets

CONSTANTS
    Forms,          \* the forms, each opened at most once
    Kind,           \* Kind[f]: "change" (ChangeScreen), "action" (ActionForm) or "signout" (ActionForm)
    Authorities,    \* the backends: "aum" (If-Match), "direct", "turnstile" (a job applies the save)
    Amounts, Extras, Limit,
    Stores,         \* what the authority may hold at first
    None,
    MaxTasks,       \* bound: presses of Apply that start a save
    MaxReviews,     \* bound: previews
    MaxMoves,       \* bound: edits of a field and changes by another writer
    MaxTrouble      \* bound: reads and answers that fail, and changes of the sign-in

ASSUME ChangeAssumption ==
    /\ Kind \in [Forms -> {"change", "action", "signout"}]
    /\ Authorities \subseteq {"aum", "direct", "turnstile"}
    /\ Amounts \subseteq Nat /\ Limit \in Nat /\ MaxReviews \in Nat
    /\ Stores \subseteq [value : Amounts, extra : Extras, siblings : Amounts, rev : {1}]

VARIABLES
    authority,
    store,      \* at the authority: [value, extra, siblings, rev]
    app,        \* [state, signin, connected, out]; out is _signout_complete
    form,       \* form[f]: what the screen holds
    worker,     \* worker[f]: the fields a running preview took (None: no preview runs)
    tasks,      \* the saves, in the order Apply was pressed
    active,     \* _active_mutations
    spent       \* what of the bounds is used

changeVars == <<authority, store, app, form, worker, tasks, active, spent>>

Fields == [amount : Amounts, extra : Extras]
Plans == [before : Amounts, after : Amounts, extra : Extras, siblings : Amounts, review : 0..MaxReviews]
(* None is no plan. *)
ASSUME NoneAssumption == None \notin Plans
Steps == {"queued", "fresh", "reread", "ready", "sent", "follow", "ended"}

ChangeTypeOK ==
    /\ store \in [value : Amounts, extra : Extras, siblings : Amounts, rev : Nat]
    /\ app \in [state : {"running", "exited", "crashed"}, signin : Nat, connected : BOOLEAN, out : BOOLEAN]
    /\ \A f \in Forms :
        /\ form[f].state \in {"new", "open", "gone"} /\ form[f].fields \in Fields
        /\ form[f].plan \in Plans \cup {None} /\ worker[f] \in Fields \cup {None}
    /\ \A i \in DOMAIN tasks :
        /\ tasks[i].step \in Steps /\ tasks[i].took \in Fields
        /\ tasks[i].wire \in {"none", "sent", "done", "conflict"}
    /\ active \subseteq DOMAIN tasks
    /\ \A f \in Forms : form[f].applying = (\E i \in DOMAIN tasks : tasks[i].form = f /\ tasks[i].step # "ended")

Init ==
    /\ authority \in Authorities
    /\ store \in Stores
    /\ app = [state |-> "running", signin |-> 0, connected |-> TRUE, out |-> FALSE]
    /\ form = [f \in Forms |-> [state |-> "new", fields |-> [amount |-> store.value, extra |-> store.extra],
                                plan |-> None, applying |-> FALSE, saved |-> FALSE,
                                preview |-> FALSE, apply |-> FALSE, signin |-> 0]]
    /\ worker = [f \in Forms |-> None]
    /\ tasks = <<>> /\ active = {}
    /\ spent = [reviews |-> 0, moves |-> 0, trouble |-> 0]

-----------------------------------------------------------------------------
Running == app.state = "running"
Spend(what) == spent' = [spent EXCEPT ![what] = @ + 1]
(* read_guard of a form: the sign-in and the connection it was opened under *)
Guarded(f) == app.connected /\ form[f].signin = app.signin
Unfinished == \E i \in DOMAIN tasks : tasks[i].step # "ended"

(* What a preview of these fields computes from the authority's state now. *)
Plan(fields, n) == [before |-> store.value, after |-> fields.amount, extra |-> fields.extra,
                    siblings |-> store.siblings, review |-> n]
(* validate_budget *)
Fits(fields) == fields.amount + store.siblings <= Limit
(* before, after and parent_headroom *)
SamePlan(p, q) == p.before = q.before /\ p.after = q.after /\ p.siblings = q.siblings

Open(f) ==
    /\ Running /\ form[f].state = "new" /\ \A g \in Forms : form[g].state # "open"
    /\ form' = [form EXCEPT ![f].state = "open", ![f].preview = TRUE, ![f].signin = app.signin,
                            ![f].fields = [amount |-> store.value, extra |-> store.extra]]
    /\ UNCHANGED <<authority, store, app, worker, tasks, active, spent>>

(* Input.Changed; invalidate does nothing while a save is under way, and   *)
(* the inputs stay editable.                                               *)
Edit(f, fields) ==
    /\ Running /\ form[f].state = "open" /\ Kind[f] # "signout"
    /\ spent.moves < MaxMoves /\ fields # form[f].fields
    /\ form' = [form EXCEPT ![f].fields = fields,
                            ![f].plan = IF form[f].applying THEN @ ELSE None,
                            ![f].apply = IF form[f].applying THEN @ ELSE FALSE]
    /\ Spend("moves")
    /\ UNCHANGED <<authority, store, app, worker, tasks, active>>

(* Preview takes the fields; a preview under way is cancelled.             *)
PressPreview(f) ==
    /\ Running /\ form[f].state = "open" /\ form[f].preview
    /\ Kind[f] = "change" \/ ~form[f].applying
    /\ Guarded(f) /\ spent.reviews < MaxReviews
    /\ worker' = [worker EXCEPT ![f] = form[f].fields]
    /\ Spend("reviews")
    /\ UNCHANGED <<authority, store, app, form, tasks, active>>

(* Its thread reads the authority; the plan is that of the fields it took, *)
(* whatever the form says by now.                                          *)
PreviewReturns(f) ==
    /\ Running /\ worker[f] # None
    /\ worker' = [worker EXCEPT ![f] = None]
    /\ \/ /\ app.connected /\ Fits(worker[f]) /\ Guarded(f)
          /\ form' = [form EXCEPT ![f].plan = Plan(worker[f], spent.reviews), ![f].apply = TRUE]
          /\ UNCHANGED spent
       \/ /\ ~app.connected \/ ~Fits(worker[f]) \/ ~Guarded(f)
          /\ form' = [form EXCEPT ![f].apply = IF Kind[f] = "change" THEN FALSE ELSE @]
          /\ UNCHANGED spent
       \/ /\ spent.trouble < MaxTrouble /\ Spend("trouble")
          /\ form' = [form EXCEPT ![f].apply = IF Kind[f] = "change" THEN FALSE ELSE @]
    /\ UNCHANGED <<authority, store, app, tasks, active>>

-----------------------------------------------------------------------------
(* ------------------------------- the save ------------------------------- *)
Task(f) == [form |-> f, step |-> "queued", plan |-> form[f].plan, took |-> form[f].fields,
            ifMatch |-> 0, wire |-> "none", said |-> "nothing", signin |-> app.signin]
(* Mutant: Apply does not look whether a save is under way. *)
MayApplyAgain(f) == form[f].plan # None /\ ~form[f].saved
MayApply(f) == ~form[f].applying /\ form[f].plan # None /\ (Kind[f] = "change" => ~form[f].saved)

(* Mutant: a save whose worker is cancelled is no longer waited for. *)
Unshielded(f) == active \ {i \in active : tasks[i].form = f}
(* run_mutation: asyncio.shield keeps the task when its worker is cancelled. *)
Shielded(f) == active

(* apply_change, apply_action and run_mutation.  The exclusive worker      *)
(* cancels the one before, a preview's or a save's.                        *)
PressApply(f) ==
    /\ Running /\ form[f].state = "open" /\ form[f].apply /\ Len(tasks) < MaxTasks
    /\ worker' = [worker EXCEPT ![f] = None]
    /\ IF MayApply(f)
       THEN /\ form' = [form EXCEPT ![f].applying = TRUE]
            /\ tasks' = Append(tasks, Task(f))
            /\ active' = Shielded(f) \cup {Len(tasks) + 1}
       ELSE active' = Shielded(f) /\ UNCHANGED <<form, tasks>>
    /\ UNCHANGED <<authority, store, app, spent>>

(* The plan under review: ActionForm keeps the one Apply was pressed on.   *)
Reviewed(i) == IF Kind[tasks[i].form] = "change" THEN form[tasks[i].form].plan ELSE tasks[i].plan

(* The end of a save, with what is said of it: "saved", "refused" (the      *)
(* state changed, it is not valid, the authority answered a conflict),      *)
(* "notrun" (Direct could not run its script), or "error", any failure     *)
(* after which the user shall refresh before retrying.  made: the          *)
(* operation had returned, and only ChangeScreen remembers that.           *)
End(i, said, made) ==
    LET f == tasks[i].form
    IN  /\ tasks' = [tasks EXCEPT ![i].step = "ended", ![i].said = said]
        /\ form' = [form EXCEPT ![f].applying = FALSE, ![f].saved = @ \/ (made /\ Kind[f] = "change"),
                                ![f].preview = Kind[f] # "change" /\ form[f].state = "open"]
(* What is raised in a save and is no FinOpsError ends the console,        *)
(* whatever else is being saved (_orphaned_mutation, _handle_exception).   *)
Crashes(i, made) == End(i, "nothing", made) /\ app' = [app EXCEPT !.state = "crashed"]
(* The message is put on the form; of one that was taken off the screen    *)
(* the framework may have removed the widgets, and asking for them raises. *)
Shown(i, said, made) ==
    \/ End(i, said, made) /\ UNCHANGED app
    \/ form[tasks[i].form].state = "gone" /\ Crashes(i, made)
(* The last message is published under the read_guard of the form: when    *)
(* that refuses, a change that was saved ends with an error.               *)
Concludes(i) == Shown(i, IF Guarded(tasks[i].form) THEN "saved" ELSE "error", TRUE)
At(i, step) == i \in DOMAIN tasks /\ tasks[i].step = step

(* commit_change and commit_action begin: the buttons go off, the fields   *)
(* are taken.                                                              *)
Begin(i) ==
    /\ Running /\ At(i, "queued")
    /\ LET f == tasks[i].form
       IN  IF Guarded(f)
           THEN /\ tasks' = [tasks EXCEPT ![i].step = "fresh", ![i].took = form[f].fields]
                /\ form' = [form EXCEPT ![f].apply = FALSE, ![f].preview = FALSE]
                /\ UNCHANGED app
           ELSE Shown(i, "error", FALSE)
    /\ UNCHANGED <<authority, store, worker, active, spent>>

(* Mutant: an answer that did not come is reported as a refusal. *)
SaysRefused(i) == "refused"
(* One error for every call that failed, sent or not; Direct takes a script *)
(* that timed out for one that could not run.                              *)
Says(i) == IF authority = "direct" /\ tasks[i].step \in {"ready", "sent"} THEN "notrun" ELSE "error"

(* The connection is closed, or the sign-in a call was made under is over. *)
Broken(i) ==
    ~app.connected \/ app.signin # IF tasks[i].step = "sent" THEN tasks[i].signin ELSE form[tasks[i].form].signin
CommitFails(i) ==
    /\ Running /\ i \in DOMAIN tasks /\ tasks[i].step \in {"fresh", "reread", "ready", "sent"}
    /\ \/ Broken(i) /\ UNCHANGED spent
       \/ spent.trouble < MaxTrouble /\ Spend("trouble")
    /\ Shown(i, Says(i), FALSE)
    /\ UNCHANGED <<authority, store, worker, active>>

(* The fresh preview.  What it found is compared with the plan under       *)
(* review, then the fields are taken again, for the operation that writes. *)
(* A ChangeScreen that was taken off the screen has no plan to compare     *)
(* with, and None has no attribute "get".                                  *)
Valid(i) == Kind[tasks[i].form] = "signout" \/ Fits(tasks[i].took)
Unchanged(i) == Kind[tasks[i].form] = "signout" \/ SamePlan(Plan(tasks[i].took, 0), Reviewed(i))
Compare(i) ==
    /\ Running /\ At(i, "fresh") /\ app.connected
    /\ \/ ~Valid(i) /\ Shown(i, "refused", FALSE)
       \/ Valid(i) /\ Reviewed(i) = None /\ Crashes(i, FALSE)
       \/ Valid(i) /\ Reviewed(i) # None /\ ~Unchanged(i) /\ Shown(i, "refused", FALSE)
       \/ Valid(i) /\ Reviewed(i) # None /\ Unchanged(i) /\ ~Guarded(tasks[i].form) /\ Shown(i, "error", FALSE)
       \/ /\ Valid(i) /\ Reviewed(i) # None /\ Unchanged(i) /\ Guarded(tasks[i].form)
          /\ tasks' = [tasks EXCEPT ![i].step = "reread", ![i].took = form[tasks[i].form].fields]
          /\ UNCHANGED <<form, app>>
    /\ UNCHANGED <<authority, store, worker, active, spent>>

(* The operation reads the authority once more and validates what it will  *)
(* write against that; nothing compares this read with the preview.  It    *)
(* runs in a thread, which goes on when the console has crashed.           *)
Reread(i) ==
    /\ At(i, "reread") /\ app.connected /\ Kind[tasks[i].form] # "signout"
    /\ IF Fits(tasks[i].took)
       THEN /\ tasks' = [tasks EXCEPT ![i].step = "ready", ![i].ifMatch = store.rev]
            /\ UNCHANGED <<form, app>>
       ELSE Running /\ Shown(i, "refused", FALSE)
    /\ UNCHANGED <<authority, store, worker, active, spent>>

(* The write goes out with the backend's _revision: that of its own read,  *)
(* or of a later read of a tab or a detail still under way.                *)
Send(i) ==
    /\ At(i, "ready") /\ app.connected
    /\ \E rev \in {tasks[i].ifMatch, store.rev} :
        tasks' = [tasks EXCEPT ![i].step = "sent", ![i].wire = "sent", ![i].ifMatch = rev,
                               ![i].signin = app.signin]
    /\ UNCHANGED <<authority, store, app, form, worker, active, spent>>

(* The authority executes a request, waited for or not; the AUM service    *)
(* refuses one whose revision is not the current one (412).                *)
Executes(i) ==
    /\ i \in DOMAIN tasks /\ tasks[i].wire = "sent"
    /\ IF authority = "aum" /\ tasks[i].ifMatch # store.rev
       THEN tasks' = [tasks EXCEPT ![i].wire = "conflict"] /\ UNCHANGED store
       ELSE /\ tasks' = [tasks EXCEPT ![i].wire = "done"]
            /\ store' = [store EXCEPT !.value = tasks[i].took.amount, !.extra = tasks[i].took.extra, !.rev = @ + 1]
    /\ UNCHANGED <<authority, app, form, worker, active, spent>>

(* The answer is taken under the sign-in the request was made under.       *)
(* Turnstile's apply job is then followed.                                 *)
Answered(i) ==
    /\ Running /\ At(i, "sent") /\ app.connected /\ tasks[i].signin = app.signin
    /\ \/ tasks[i].wire = "conflict" /\ Shown(i, "refused", FALSE)
       \/ tasks[i].wire = "done" /\ authority # "turnstile" /\ Concludes(i)
       \/ /\ tasks[i].wire = "done" /\ authority = "turnstile"
          /\ tasks' = [tasks EXCEPT ![i].step = "follow"]
          /\ form' = [form EXCEPT ![tasks[i].form].saved = @ \/ Kind[tasks[i].form] = "change"]
          /\ UNCHANGED app
    /\ UNCHANGED <<authority, store, worker, active, spent>>

(* The apply job ended, failed, or is still pending after three minutes.   *)
Followed(i) ==
    /\ Running /\ At(i, "follow") /\ Concludes(i)
    /\ UNCHANGED <<authority, store, worker, active, spent>>

(* A read of its status fails. *)
FollowFails(i) ==
    /\ Running /\ At(i, "follow") /\ spent.trouble < MaxTrouble /\ Spend("trouble")
    /\ Shown(i, "error", TRUE)
    /\ UNCHANGED <<authority, store, worker, active>>

(* action_sign_out: az logout, then the connection is closed. *)
SignsOut(i) ==
    /\ Running /\ At(i, "reread") /\ Kind[tasks[i].form] = "signout"
    /\ \/ End(i, "saved", TRUE) /\ app' = [app EXCEPT !.connected = FALSE]
       \/ /\ form[tasks[i].form].state = "gone" /\ End(i, "nothing", TRUE)
          /\ app' = [app EXCEPT !.connected = FALSE, !.state = "crashed"]
    /\ UNCHANGED <<authority, store, worker, active, spent>>

Exits(i, waiting) == waiting = {} /\ (app.out \/ (Kind[tasks[i].form] = "signout" /\ tasks[i].said = "saved"))
(* _mutation_finished, called back by the loop once the task has ended.    *)
MutationFinished(i) ==
    /\ Running /\ At(i, "ended") /\ i \in active
    /\ active' = active \ {i}
    /\ app' = [app EXCEPT !.out = @ \/ (Kind[tasks[i].form] = "signout" /\ tasks[i].said = "saved"),
                          !.state = IF Exits(i, active') THEN "exited" ELSE @]
    /\ UNCHANGED <<authority, store, form, worker, tasks, spent>>

-----------------------------------------------------------------------------
Gone(f) == [form[f] EXCEPT !.state = "gone", !.plan = None, !.preview = FALSE, !.apply = FALSE]
(* Cancel or Done; refused while a save is under way. *)
Cancel(f) ==
    /\ Running /\ form[f].state = "open" /\ ~form[f].applying
    /\ form' = [form EXCEPT ![f] = Gone(f)]
    /\ worker' = [worker EXCEPT ![f] = None]
    /\ UNCHANGED <<authority, store, app, tasks, active, spent>>

(* _clear_principal_state: the plans are dropped, the forms taken off the  *)
(* screen, and with them their workers.                                    *)
SignInChanges ==
    /\ Running /\ app.connected /\ spent.trouble < MaxTrouble /\ Spend("trouble")
    /\ app' = [app EXCEPT !.signin = @ + 1]
    /\ form' = [f \in Forms |-> IF form[f].state = "open" THEN Gone(f) ELSE form[f]]
    /\ worker' = [f \in Forms |-> None]
    /\ active' = IF \E f \in Forms : form[f].state = "open"
                 THEN Shielded(CHOOSE f \in Forms : form[f].state = "open") ELSE active
    /\ UNCHANGED <<authority, store, tasks>>

(* action_quit, QuitScreen and exit: refused while a save is active. *)
Quit ==
    /\ Running /\ active = {}
    /\ app' = [app EXCEPT !.state = "exited"]
    /\ UNCHANGED <<authority, store, form, worker, tasks, active, spent>>

(* Another administrator, or the command line with --apply. *)
OtherWrites ==
    /\ spent.moves < MaxMoves /\ Spend("moves")
    /\ \E v, s \in Amounts :
        /\ v + s <= Limit /\ <<v, s>> # <<store.value, store.siblings>>
        /\ store' = [store EXCEPT !.value = v, !.siblings = s, !.rev = @ + 1]
    /\ UNCHANGED <<authority, app, form, worker, tasks, active>>

Commit(i) ==
    \/ Begin(i) \/ CommitFails(i) \/ Compare(i) \/ Reread(i) \/ Send(i) \/ Answered(i)
    \/ Followed(i) \/ FollowFails(i) \/ SignsOut(i) \/ MutationFinished(i)

Next ==
    \/ \E f \in Forms :
        \/ Open(f) \/ PressPreview(f) \/ PreviewReturns(f) \/ PressApply(f) \/ Cancel(f)
        \/ \E fields \in Fields : Edit(f, fields)
    \/ \E i \in 1..MaxTasks : Commit(i) \/ Executes(i)
    \/ SignInChanges \/ Quit \/ OtherWrites

Spec == Init /\ [][Next]_changeVars

-----------------------------------------------------------------------------
(* A review is written at most once: two presses of Apply, a cancelled     *)
(* worker, a lost answer or a form taken off the screen never send its     *)
(* change twice.                                                           *)
OneWritePerReview ==
    \A i, j \in DOMAIN tasks :
        (i # j /\ tasks[i].wire # "none" /\ tasks[j].wire # "none") => tasks[i].plan # tasks[j].plan

(* The console is never left while a save is under way, whichever worker   *)
(* or form of it is gone by then; and it ends beside a save only when the  *)
(* sign-in has changed since a form was opened that was being saved        *)
(* (README, Known disagreements), not for anything a user does.            *)
QuitWaits ==
    /\ app.state = "exited" => ~Unfinished
    /\ app.state = "crashed" => \E i \in DOMAIN tasks : form[tasks[i].form].signin # app.signin

(* What the form says of a save stays true: a change reported as refused   *)
(* or not run is not made later, one reported as saved was made, and so    *)
(* was one for which a form keeps Apply from being pressed again.          *)
OutcomeHonest ==
    /\ \A i \in DOMAIN tasks :
        /\ tasks[i].said \in {"refused", "notrun"} => tasks[i].wire \in {"none", "conflict"}
        /\ tasks[i].said = "saved" /\ Kind[tasks[i].form] # "signout" => tasks[i].wire = "done"
    /\ \A f \in Forms : form[f].saved => \E i \in DOMAIN tasks : tasks[i].form = f /\ tasks[i].wire = "done"
=============================================================================
