-------------------------- MODULE ConsoleChangeProofs --------------------------
(***************************************************************************)
(* For any forms, authorities, amounts and numbers of reviews and saves:   *)
(* no review is written twice, the console is not left while a save is     *)
(* under way, and it ends beside one only after a change of the sign-in.   *)
(* What the form says of a save stays true, under every authority but      *)
(* "direct".                                                               *)
(***************************************************************************)
EXTENDS ConsoleChange, SequenceTheorems, TLAPS

FormRecords == [state : {"new", "open", "gone"}, fields : Fields, plan : Plans \cup {None},
                applying : BOOLEAN, saved : BOOLEAN, preview : BOOLEAN, apply : BOOLEAN, signin : Nat]
TaskRecords == [form : Forms, step : Steps, plan : Plans \cup {None}, took : Fields, ifMatch : Nat,
                wire : {"none", "sent", "done", "conflict"},
                said : {"nothing", "refused", "error", "notrun", "saved"}, signin : Nat]
AppRecords == [state : {"running", "exited", "crashed"}, signin : Nat, connected : BOOLEAN, out : BOOLEAN]

Types ==
    /\ store \in [value : Amounts, extra : Extras, siblings : Amounts, rev : Nat]
    /\ app \in AppRecords
    /\ form \in [Forms -> FormRecords]
    /\ worker \in [Forms -> Fields \cup {None}]
    /\ tasks \in Seq(TaskRecords)
    /\ spent \in [reviews : 0..MaxReviews, moves : Nat, trouble : Nat]

Live(t) == t.step # "ended"
(* A task that has begun to use its review up. *)
Used(t) == t.wire # "none" \/ t.step \in {"fresh", "reread", "ready", "sent", "follow"}

(* One form is open, and only it has a plan or a preview that runs. *)
OneOpen ==
    /\ \A f, g \in Forms : form[f].state = "open" /\ form[g].state = "open" => f = g
    /\ \A f \in Forms : form[f].plan # None \/ worker[f] # None => form[f].state = "open"

(* Reviews are numbered as they were asked for; one whose preview still    *)
(* runs has a number that no plan has.                                     *)
Numbered ==
    /\ \A f \in Forms : form[f].plan # None => form[f].plan.review <= spent.reviews
    /\ \A i \in DOMAIN tasks : tasks[i].plan # None /\ tasks[i].plan.review <= spent.reviews
    /\ \A f \in Forms : worker[f] # None =>
        /\ \A g \in Forms : form[g].plan # None => form[g].plan.review < spent.reviews
        /\ \A i \in DOMAIN tasks : tasks[i].plan.review < spent.reviews

(* A plan belongs to one form, and a form has one save at a time. *)
OfOneForm ==
    /\ \A i \in DOMAIN tasks, f \in Forms : form[f].plan = tasks[i].plan => tasks[i].form = f
    /\ \A i, j \in DOMAIN tasks : tasks[i].plan = tasks[j].plan => tasks[i].form = tasks[j].form
OneSave ==
    /\ \A i \in DOMAIN tasks : Live(tasks[i]) => form[tasks[i].form].applying
    /\ \A i, j \in DOMAIN tasks :
        Live(tasks[i]) /\ Live(tasks[j]) /\ tasks[i].form = tasks[j].form => i = j

(* What is used up is not applied again: not by another save, not by one   *)
(* that waits to begin, and not by a button that can be pressed.           *)
UsedOnce ==
    /\ \A i, j \in DOMAIN tasks :
        i # j /\ Used(tasks[i]) /\ (Used(tasks[j]) \/ tasks[j].step = "queued")
            => tasks[i].plan # tasks[j].plan
    /\ \A i \in DOMAIN tasks, f \in Forms :
        Used(tasks[i]) /\ form[f].plan = tasks[i].plan => ~form[f].apply

(* Every save under way is waited for. *)
Waited ==
    /\ \A i \in DOMAIN tasks : Live(tasks[i]) => i \in active
    /\ app.state = "exited" => \A i \in DOMAIN tasks : ~Live(tasks[i])

(* What the authority did with a save, where the save stands, and what the *)
(* form has said of it.                                                    *)
Outcome(t) ==
    /\ t.wire # "none" => t.step \in {"sent", "follow", "ended"}
    /\ t.step = "follow" => t.wire = "done"
    /\ Live(t) => t.said = "nothing"
    /\ t.said = "refused" => t.wire \in {"none", "conflict"}
    /\ t.said = "saved" /\ Kind[t.form] # "signout" => t.wire = "done"
Outcomes == \A i \in DOMAIN tasks : Outcome(tasks[i])

Reviews == OneOpen /\ Numbered /\ OfOneForm /\ OneSave /\ UsedOnce
ChangeInv == Types /\ Reviews /\ Waited /\ Outcomes

-----------------------------------------------------------------------------
LEMMA InitChange == Init => ChangeInv
<1>. SUFFICES ASSUME Init
              PROVE  ChangeInv
  OBVIOUS
<1>1. /\ store \in Stores /\ 1 \in Nat
      /\ store \in [value : Amounts, extra : Extras, siblings : Amounts, rev : Nat]
  BY ChangeAssumption DEF Init
<1>2. form \in [Forms -> FormRecords]
  BY <1>1 DEF Init, FormRecords, Fields
<1>3. tasks = <<>> /\ tasks \in Seq(TaskRecords) /\ DOMAIN tasks = {}
  BY DEF Init
<1>4. spent \in [reviews : 0..MaxReviews, moves : Nat, trouble : Nat]
  BY ChangeAssumption DEF Init
<1>5. Types
  BY <1>1, <1>2, <1>3, <1>4 DEF Init, Types, AppRecords
<1>6. Reviews /\ Waited /\ Outcomes
  BY <1>3 DEF Init, Reviews, Waited, Outcomes, OneOpen, Numbered, OfOneForm, OneSave, UsedOnce
<1>. QED BY <1>5, <1>6 DEF ChangeInv

(* The types of one save and one form. *)
LEMMA TaskAt ==
  ASSUME Types, NEW i \in DOMAIN tasks
  PROVE  /\ tasks[i] \in TaskRecords /\ tasks[i].form \in Forms
         /\ i \in 1..Len(tasks) /\ DOMAIN tasks = 1..Len(tasks)
<1>1. tasks \in Seq(TaskRecords)
  BY DEF Types
<1>2. tasks \in [1..Len(tasks) -> TaskRecords] /\ DOMAIN tasks = 1..Len(tasks)
  BY <1>1, LenProperties
<1>3. tasks[i] \in TaskRecords
  BY <1>2
<1>4. tasks[i].form \in Forms
  BY <1>3 DEF TaskRecords
<1>. QED BY <1>2, <1>3, <1>4

(* One save is replaced by another record. *)
LEMMA Replaced ==
  ASSUME Types, NEW i \in DOMAIN tasks, NEW t \in TaskRecords, tasks' = [tasks EXCEPT ![i] = t]
  PROVE  /\ tasks' \in Seq(TaskRecords) /\ DOMAIN tasks' = DOMAIN tasks
         /\ tasks'[i] = t /\ \A j \in DOMAIN tasks \ {i} : tasks'[j] = tasks[j]
<1>1. tasks \in Seq(TaskRecords) /\ i \in 1..Len(tasks)
  BY TaskAt DEF Types
<1>2. tasks' \in Seq(TaskRecords)
  BY <1>1, ExceptSeq
<1>. QED BY <1>2

(* A step of save i, which may take the form's buttons away and may end.   *)
LEMMA TaskStep ==
  ASSUME ChangeInv, NEW i \in DOMAIN tasks, NEW t \in TaskRecords,
         tasks' = [tasks EXCEPT ![i] = t],
         t.form = tasks[i].form, t.plan = tasks[i].plan,
         t.step = "queued" => tasks[i].step = "queued",
         Live(t) => Live(tasks[i]),
         form' \in [Forms -> FormRecords],
         \A f \in Forms : /\ form'[f].plan = form[f].plan /\ form'[f].state = form[f].state
                          /\ form'[f].apply => form[f].apply
                          /\ \/ form'[f].applying = form[f].applying
                             \/ f = t.form /\ Live(tasks[i]) /\ ~Live(t),
         Used(t) => Used(tasks[i]) \/ (tasks[i].step = "queued" /\ ~form'[t.form].apply),
         Outcome(t),
         worker' = worker, active' = active,
         app' \in AppRecords,
         app'.state = "exited" => app.state = "exited" /\ t.step = tasks[i].step,
         store' \in [value : Amounts, extra : Extras, siblings : Amounts, rev : Nat],
         spent' \in [reviews : 0..MaxReviews, moves : Nat, trouble : Nat],
         spent'.reviews = spent.reviews
  PROVE  ChangeInv'
<1>1. /\ tasks' \in Seq(TaskRecords) /\ DOMAIN tasks' = DOMAIN tasks
      /\ tasks'[i] = t /\ \A j \in DOMAIN tasks \ {i} : tasks'[j] = tasks[j]
  BY Replaced DEF ChangeInv
<1>2. \A j \in DOMAIN tasks : /\ tasks[j].form \in Forms
                              /\ tasks'[j].form = tasks[j].form /\ tasks'[j].plan = tasks[j].plan
                              /\ Live(tasks'[j]) => Live(tasks[j])
                              /\ tasks'[j].step = "queued" => tasks[j].step = "queued"
  BY <1>1, TaskAt DEF ChangeInv
<1>3. Types'
  BY <1>1 DEF ChangeInv, Types
<1>4. OneOpen' /\ Numbered' /\ OfOneForm'
  <2>1. OneOpen'
    BY DEF ChangeInv, Reviews, OneOpen
  <2>2. Numbered'
    <3>1. \A j \in DOMAIN tasks' : tasks'[j].plan = tasks[j].plan
      BY <1>1, <1>2
    <3>2. \A f \in Forms : form'[f].plan # None => form'[f].plan.review <= spent'.reviews
      BY DEF ChangeInv, Reviews, Numbered
    <3>3. \A j \in DOMAIN tasks' : tasks'[j].plan # None /\ tasks'[j].plan.review <= spent'.reviews
      BY <1>1, <3>1 DEF ChangeInv, Reviews, Numbered
    <3>4. ASSUME NEW f \in Forms, worker'[f] # None
          PROVE  /\ \A g \in Forms : form'[g].plan # None => form'[g].plan.review < spent'.reviews
                 /\ \A j \in DOMAIN tasks' : tasks'[j].plan.review < spent'.reviews
      BY <1>1, <3>1, <3>4 DEF ChangeInv, Reviews, Numbered
    <3>. QED BY <3>2, <3>3, <3>4 DEF Numbered
  <2>3. OfOneForm'
    BY <1>1, <1>2 DEF ChangeInv, Reviews, OfOneForm
  <2>. QED BY <2>1, <2>2, <2>3
<1>5. OneSave'
  <2>1. ASSUME NEW j \in DOMAIN tasks, Live(tasks'[j])
        PROVE  form'[tasks[j].form].applying
    <3>1. Live(tasks[j]) /\ form[tasks[j].form].applying /\ tasks[j].form \in Forms
      BY <1>2, <2>1 DEF ChangeInv, Reviews, OneSave
    <3>2. ~(tasks[j].form = t.form /\ Live(tasks[i]) /\ ~Live(t))
      BY <1>1, <2>1, <3>1 DEF ChangeInv, Reviews, OneSave
    <3>. QED BY <3>1, <3>2
  <2>. QED BY <1>1, <1>2, <2>1 DEF ChangeInv, Reviews, OneSave
<1>6. UsedOnce'
  <2>1. ASSUME NEW j \in DOMAIN tasks \ {i}, Used(t), Used(tasks[j]) \/ tasks[j].step = "queued"
        PROVE  t.plan # tasks[j].plan
    <3>1. CASE Used(tasks[i])
      BY <2>1, <3>1 DEF ChangeInv, Reviews, UsedOnce
    <3>2. CASE tasks[i].step = "queued" /\ Used(tasks[j])
      BY <2>1, <3>2 DEF ChangeInv, Reviews, UsedOnce
    <3>3. CASE tasks[i].step = "queued" /\ tasks[j].step = "queued"
      <4>1. Live(tasks[i]) /\ Live(tasks[j])
        BY <3>3 DEF Live
      <4>. QED BY <4>1, <2>1 DEF ChangeInv, Reviews, OfOneForm, OneSave
    <3>. QED BY <2>1, <3>1, <3>2, <3>3
  <2>2. ASSUME NEW j \in DOMAIN tasks \ {i}, Used(tasks[j]), Used(t) \/ t.step = "queued"
        PROVE  tasks[j].plan # t.plan
    <3>1. CASE Used(t)
      BY <2>1, <2>2, <3>1
    <3>2. CASE t.step = "queued"
      BY <2>2, <3>2 DEF ChangeInv, Reviews, UsedOnce
    <3>. QED BY <2>2, <3>1, <3>2
  <2>3. ASSUME NEW f \in Forms, Used(t), form[f].plan = t.plan
        PROVE  ~form'[f].apply
    <3>1. CASE Used(tasks[i])
      BY <2>3, <3>1 DEF ChangeInv, Reviews, UsedOnce
    <3>2. CASE ~form'[t.form].apply
      BY <2>3, <3>2 DEF ChangeInv, Reviews, OfOneForm
    <3>. QED BY <2>3, <3>1, <3>2
  <2>4. ASSUME NEW j \in DOMAIN tasks, NEW k \in DOMAIN tasks, j # k,
               Used(tasks'[j]), Used(tasks'[k]) \/ tasks'[k].step = "queued"
        PROVE  tasks'[j].plan # tasks'[k].plan
    <3>1. CASE j = i
      BY <1>1, <2>1, <2>4, <3>1
    <3>2. CASE k = i
      BY <1>1, <2>2, <2>4, <3>2
    <3>3. CASE j # i /\ k # i
      BY <1>1, <2>4, <3>3 DEF ChangeInv, Reviews, UsedOnce
    <3>. QED BY <3>1, <3>2, <3>3
  <2>5. ASSUME NEW j \in DOMAIN tasks, NEW f \in Forms, Used(tasks'[j]), form'[f].plan = tasks'[j].plan
        PROVE  ~form'[f].apply
    <3>1. CASE j = i
      BY <1>1, <2>3, <2>5, <3>1
    <3>2. CASE j # i
      BY <1>1, <2>5, <3>2 DEF ChangeInv, Reviews, UsedOnce
    <3>. QED BY <3>1, <3>2
  <2>. QED BY <1>1, <2>4, <2>5 DEF UsedOnce
<1>7. Waited'
  BY <1>1, <1>2 DEF ChangeInv, Waited, Live
<1>8. Outcomes'
  BY <1>1 DEF ChangeInv, Outcomes
<1>. QED BY <1>3, <1>4, <1>5, <1>6, <1>7, <1>8 DEF ChangeInv, Reviews

(* What the invariant says of one save, its form and the rest.             *)
LEMMA Typed ==
  ASSUME ChangeInv, NEW i \in DOMAIN tasks
  PROVE  /\ tasks[i] \in TaskRecords /\ tasks[i].form \in Forms /\ tasks \in Seq(TaskRecords)
         /\ form \in [Forms -> FormRecords] /\ form[tasks[i].form] \in FormRecords
         /\ form[tasks[i].form].fields \in Fields
         /\ store \in [value : Amounts, extra : Extras, siblings : Amounts, rev : Nat]
         /\ app \in AppRecords
         /\ spent \in [reviews : 0..MaxReviews, moves : Nat, trouble : Nat]
         /\ Outcome(tasks[i])
<1>1. /\ tasks[i] \in TaskRecords /\ tasks[i].form \in Forms /\ tasks \in Seq(TaskRecords)
      /\ form \in [Forms -> FormRecords]
  BY TaskAt DEF ChangeInv, Types
<1>2. form[tasks[i].form] \in FormRecords /\ form[tasks[i].form].fields \in Fields
  BY <1>1 DEF FormRecords
<1>3. Outcome(tasks[i])
  BY DEF ChangeInv, Outcomes
<1>. QED BY <1>1, <1>2, <1>3 DEF ChangeInv, Types

(* A save ends, and the form can be used again if it is still there.       *)
LEMMA EndStep ==
  ASSUME ChangeInv, NEW i \in DOMAIN tasks, Live(tasks[i]),
         NEW said \in {"nothing", "refused", "error", "notrun", "saved"}, NEW made \in BOOLEAN,
         End(i, said, made),
         Outcome([tasks[i] EXCEPT !.step = "ended", !.said = said]),
         worker' = worker, active' = active, store' = store,
         app' \in AppRecords,
         Running, app'.state # "exited",
         spent' \in [reviews : 0..MaxReviews, moves : Nat, trouble : Nat],
         spent'.reviews = spent.reviews
  PROVE  ChangeInv'
<1>. DEFINE t == [tasks[i] EXCEPT !.step = "ended", !.said = said]
            g == tasks[i].form
<1>1. tasks[i] \in TaskRecords /\ g \in Forms /\ tasks \in Seq(TaskRecords)
  BY TaskAt DEF ChangeInv, Types
<1>2. /\ t \in TaskRecords /\ t.form = g /\ t.plan = tasks[i].plan /\ t.step = "ended"
      /\ t.wire = tasks[i].wire
  BY <1>1 DEF TaskRecords, Steps
<1>3. tasks' = [tasks EXCEPT ![i] = t]
  BY <1>1 DEF End
<1>4. form \in [Forms -> FormRecords]
  BY DEF ChangeInv, Types
<1>5. /\ form' \in [Forms -> FormRecords]
      /\ \A f \in Forms : /\ form'[f].plan = form[f].plan /\ form'[f].state = form[f].state
                          /\ form'[f].apply = form[f].apply
                          /\ form'[f].applying = form[f].applying \/ f = g
  <2>1. form' = [form EXCEPT ![g] = [form[g] EXCEPT !.applying = FALSE, !.saved = @ \/ (made /\ Kind[g] = "change"),
                                            !.preview = Kind[g] # "change" /\ form[g].state = "open"]]
    BY <1>1, <1>4 DEF End
  <2>2. /\ form[g] \in FormRecords
        /\ (form[g].saved \/ (made /\ Kind[g] = "change")) \in BOOLEAN
        /\ (Kind[g] # "change" /\ form[g].state = "open") \in BOOLEAN
    BY <1>1, <1>4
  <2>. QED BY <1>1, <1>4, <2>1, <2>2 DEF FormRecords
<1>6. Used(t) => Used(tasks[i])
  BY <1>2 DEF Used
<1>7. Outcome(t) /\ ~Live(t)
  BY <1>2 DEF Live
<1>8. /\ store' \in [value : Amounts, extra : Extras, siblings : Amounts, rev : Nat]
      /\ app.state # "exited" /\ "ended" # "queued"
  BY DEF ChangeInv, Types, Running
<1>. HIDE DEF t
<1>9. /\ t.step = "queued" => tasks[i].step = "queued"
      /\ Live(t) => Live(tasks[i])
      /\ \A f \in Forms : /\ form'[f].plan = form[f].plan /\ form'[f].state = form[f].state
                          /\ form'[f].apply => form[f].apply
                          /\ \/ form'[f].applying = form[f].applying
                             \/ f = t.form /\ Live(tasks[i]) /\ ~Live(t)
  <2>1. t.step # "queued"
    BY <1>2
  <2>2. \A f \in Forms : form'[f].applying = form[f].applying \/ (f = t.form /\ Live(tasks[i]) /\ ~Live(t))
    BY <1>2, <1>5, <1>7, Zenon
  <2>. QED BY <1>5, <1>7, <2>1, <2>2
<1>. QED BY <1>2, <1>3, <1>5, <1>6, <1>7, <1>8, <1>9, TaskStep

(* It ends with a message, or with the console, whose screen could not be  *)
(* asked for the form's.                                                   *)
LEMMA CrashStep ==
  ASSUME ChangeInv, NEW i \in DOMAIN tasks, Live(tasks[i]), NEW made \in BOOLEAN, Crashes(i, made),
         worker' = worker, active' = active, store' = store, Running,
         spent' \in [reviews : 0..MaxReviews, moves : Nat, trouble : Nat],
         spent'.reviews = spent.reviews
  PROVE  ChangeInv'
<1>1. app' \in AppRecords /\ app'.state = "crashed" /\ End(i, "nothing", made)
  BY Typed DEF Crashes, AppRecords
<1>2. Outcome([tasks[i] EXCEPT !.step = "ended", !.said = "nothing"])
  BY Typed DEF Outcome, TaskRecords, Live
<1>. QED BY <1>1, <1>2, Typed, EndStep
LEMMA ShownStep ==
  ASSUME ChangeInv, NEW i \in DOMAIN tasks, Live(tasks[i]),
         NEW said \in {"nothing", "refused", "error", "notrun", "saved"}, NEW made \in BOOLEAN,
         Shown(i, said, made),
         Outcome([tasks[i] EXCEPT !.step = "ended", !.said = said]),
         worker' = worker, active' = active, store' = store, Running,
         spent' \in [reviews : 0..MaxReviews, moves : Nat, trouble : Nat],
         spent'.reviews = spent.reviews
  PROVE  ChangeInv'
<1>1. CASE End(i, said, made) /\ UNCHANGED app
  BY <1>1, Typed, EndStep DEF Running
<1>2. CASE Crashes(i, made)
  BY <1>2, CrashStep
<1>. QED BY <1>1, <1>2 DEF Shown

(* A step that touches forms, previews and the authority, and takes no     *)
(* plan up.                                                                *)
LEMMA FormStep ==
  ASSUME ChangeInv, tasks' = tasks, active' = active,
         store' \in [value : Amounts, extra : Extras, siblings : Amounts, rev : Nat],
         app' \in AppRecords,
         app'.state = app.state,
         spent' \in [reviews : 0..MaxReviews, moves : Nat, trouble : Nat],
         spent'.reviews = spent.reviews,
         form' \in [Forms -> FormRecords],
         worker' \in [Forms -> Fields \cup {None}],
         \A f \in Forms : /\ form'[f].plan = form[f].plan \/ form'[f].plan = None
                          /\ form'[f].plan # None => (form'[f].apply => form[f].apply)
                          /\ form'[f].applying = form[f].applying
                          /\ worker'[f] = worker[f] \/ worker'[f] = None,
         OneOpen'
  PROVE  ChangeInv'
<1>1. Types'
  BY DEF ChangeInv, Types
<1>2. Numbered'
  BY DEF ChangeInv, Reviews, Numbered
<1>3. \A i \in DOMAIN tasks : tasks[i].plan # None /\ tasks[i].form \in Forms
  BY TaskAt DEF ChangeInv, Reviews, Numbered
<1>4. OfOneForm'
  BY <1>3 DEF ChangeInv, Reviews, OfOneForm
<1>5. OneSave'
  BY <1>3 DEF ChangeInv, Reviews, OneSave
<1>6. UsedOnce'
  BY <1>3 DEF ChangeInv, Reviews, UsedOnce
<1>7. Waited' /\ Outcomes'
  BY DEF ChangeInv, Waited, Outcomes
<1>. QED BY <1>1, <1>2, <1>4, <1>5, <1>6, <1>7 DEF ChangeInv, Reviews
(* The steps of a save.                                                    *)
LEMMA BeginStep ==
  ASSUME ChangeInv, NEW i \in 1..MaxTasks, Begin(i)
  PROVE  ChangeInv'
<1>. DEFINE f == tasks[i].form
            t == [tasks[i] EXCEPT !.step = "fresh", !.took = form[f].fields]
<1>1. /\ i \in DOMAIN tasks /\ tasks[i].step = "queued" /\ Live(tasks[i]) /\ Running
      /\ store' = store /\ worker' = worker /\ active' = active /\ spent' = spent
  BY DEF Begin, At, Live
<1>2. tasks[i] \in TaskRecords /\ f \in Forms /\ tasks \in Seq(TaskRecords)
  BY <1>1, TaskAt DEF ChangeInv, Types
<1>3. form \in [Forms -> FormRecords] /\ form[f] \in FormRecords /\ form[f].fields \in Fields
  BY <1>2 DEF ChangeInv, Types, FormRecords
<1>4. /\ store \in [value : Amounts, extra : Extras, siblings : Amounts, rev : Nat]
      /\ app \in AppRecords
      /\ spent \in [reviews : 0..MaxReviews, moves : Nat, trouble : Nat]
  BY DEF ChangeInv, Types
<1>5. Outcome(tasks[i])
  BY <1>1 DEF ChangeInv, Outcomes
<1>6. CASE Guarded(f)
  <2>1. /\ t \in TaskRecords /\ t.form = f /\ t.plan = tasks[i].plan /\ t.step = "fresh"
        /\ t.wire = tasks[i].wire /\ t.said = tasks[i].said
    BY <1>2, <1>3 DEF TaskRecords, Steps
  <2>2. /\ tasks' = [tasks EXCEPT ![i].step = "fresh", ![i].took = form[f].fields]
        /\ form' = [form EXCEPT ![f].apply = FALSE, ![f].preview = FALSE] /\ app' = app
    BY <1>6 DEF Begin
  <2>3. tasks' = [tasks EXCEPT ![i] = t]
    BY <1>1, <1>2, <2>2
  <2>4. /\ form' \in [Forms -> FormRecords] /\ ~form'[f].apply
        /\ \A g \in Forms : /\ form'[g].plan = form[g].plan /\ form'[g].state = form[g].state
                            /\ form'[g].apply => form[g].apply
                            /\ form'[g].applying = form[g].applying
    <3>1. form' = [form EXCEPT ![f] = [form[f] EXCEPT !.apply = FALSE, !.preview = FALSE]]
      BY <1>2, <1>3, <2>2
    <3>. QED BY <1>2, <1>3, <3>1 DEF FormRecords
  <2>5. Outcome(t) /\ Live(t)
    BY <1>1, <1>5, <2>1 DEF Outcome, Live
  <2>6. app'.state # "exited" /\ app' \in AppRecords /\ spent'.reviews = spent.reviews
    BY <1>1, <1>4, <2>2 DEF Running
  <2>7. Used(t) => Used(tasks[i]) \/ (tasks[i].step = "queued" /\ ~form'[t.form].apply)
    BY <1>1, <2>1, <2>4
  <2>. HIDE DEF t
  <2>. QED BY <1>1, <1>4, <2>1, <2>3, <2>4, <2>5, <2>6, <2>7, TaskStep, ZenonT(60)
<1>7. CASE ~Guarded(f)
  <2>1. Shown(i, "error", FALSE)
    BY <1>7 DEF Begin
  <2>2. Outcome([tasks[i] EXCEPT !.step = "ended", !.said = "error"])
    BY <1>1, <1>2, <1>5 DEF Outcome, TaskRecords, Live
  <2>. QED BY <1>1, <1>4, <2>1, <2>2, ShownStep
<1>. QED BY <1>6, <1>7
(* A step of a save that leaves the form as it is.                         *)
LEMMA MoveStep ==
  ASSUME ChangeInv, NEW i \in DOMAIN tasks, NEW t \in TaskRecords,
         tasks' = [tasks EXCEPT ![i] = t],
         t.form = tasks[i].form, t.plan = tasks[i].plan, t.step # "queued",
         Live(t) => Live(tasks[i]), Used(t) => Used(tasks[i]), Outcome(t),
         app.state = "exited" => t.step = tasks[i].step,
         store' \in [value : Amounts, extra : Extras, siblings : Amounts, rev : Nat],
         form' = form, worker' = worker, active' = active, app' = app, spent' = spent
  PROVE  ChangeInv'
BY Typed, TaskStep

LEMMA FailStep ==
  ASSUME ChangeInv, NEW i \in 1..MaxTasks, CommitFails(i)
  PROVE  ChangeInv'
<1>1. /\ i \in DOMAIN tasks /\ tasks[i].step \in {"fresh", "reread", "ready", "sent"} /\ Live(tasks[i])
      /\ Running /\ store' = store /\ worker' = worker /\ active' = active
      /\ Says(i) \in {"error", "notrun"} /\ Shown(i, Says(i), FALSE)
  BY DEF CommitFails, Live, Says
<1>2. /\ spent' \in [reviews : 0..MaxReviews, moves : Nat, trouble : Nat]
      /\ spent'.reviews = spent.reviews
  BY <1>1, Typed DEF CommitFails, Spend
<1>3. Outcome([tasks[i] EXCEPT !.step = "ended", !.said = Says(i)])
  BY <1>1, Typed DEF Outcome, TaskRecords, Live, Says
<1>. QED BY <1>1, <1>2, <1>3, ShownStep

LEMMA CompareStep ==
  ASSUME ChangeInv, NEW i \in 1..MaxTasks, Compare(i)
  PROVE  ChangeInv'
<1>. DEFINE f == tasks[i].form
            t == [tasks[i] EXCEPT !.step = "reread", !.took = form[f].fields]
<1>1. /\ i \in DOMAIN tasks /\ tasks[i].step = "fresh" /\ Live(tasks[i]) /\ Running
      /\ store' = store /\ worker' = worker /\ active' = active /\ spent' = spent
  BY DEF Compare, At, Live
<1>2. CASE tasks' = [tasks EXCEPT ![i].step = "reread", ![i].took = form[f].fields] /\ UNCHANGED <<form, app>>
  <2>1. /\ t \in TaskRecords /\ t.form = f /\ t.plan = tasks[i].plan /\ t.step = "reread"
        /\ t.wire = tasks[i].wire /\ t.said = tasks[i].said
    BY <1>1, Typed DEF TaskRecords, Steps
  <2>2. tasks' = [tasks EXCEPT ![i] = t]
    BY <1>1, <1>2, Typed
  <2>3. Outcome(t) /\ Live(t) /\ Used(tasks[i])
    BY <1>1, <2>1, Typed DEF Outcome, Live, Used
  <2>. HIDE DEF t
  <2>. QED BY <1>1, <1>2, <2>1, <2>2, <2>3, Typed, MoveStep DEF Running
<1>3. ASSUME NEW said \in {"refused", "error"}, Shown(i, said, FALSE)
      PROVE  ChangeInv'
  <2>1. Outcome([tasks[i] EXCEPT !.step = "ended", !.said = said])
    BY <1>1, Typed DEF Outcome, TaskRecords, Live
  <2>. QED BY <1>1, <1>3, <2>1, Typed, ShownStep
<1>4. CASE Crashes(i, FALSE)
  BY <1>1, <1>4, Typed, CrashStep
<1>. QED BY <1>2, <1>3, <1>4 DEF Compare

LEMMA RereadStep ==
  ASSUME ChangeInv, NEW i \in 1..MaxTasks, Reread(i)
  PROVE  ChangeInv'
<1>. DEFINE t == [tasks[i] EXCEPT !.step = "ready", !.ifMatch = store.rev]
<1>1. /\ i \in DOMAIN tasks /\ tasks[i].step = "reread" /\ Live(tasks[i])
      /\ store' = store /\ worker' = worker /\ active' = active /\ spent' = spent
      /\ app.state # "exited"
  BY DEF Reread, At, Live, ChangeInv, Waited
<1>2. CASE tasks' = [tasks EXCEPT ![i].step = "ready", ![i].ifMatch = store.rev] /\ UNCHANGED <<form, app>>
  <2>1. /\ t \in TaskRecords /\ t.form = tasks[i].form /\ t.plan = tasks[i].plan /\ t.step = "ready"
        /\ t.wire = tasks[i].wire /\ t.said = tasks[i].said
    BY <1>1, Typed DEF TaskRecords, Steps
  <2>2. tasks' = [tasks EXCEPT ![i] = t]
    BY <1>1, <1>2, Typed
  <2>3. Outcome(t) /\ Live(t) /\ Used(tasks[i])
    BY <1>1, <2>1, Typed DEF Outcome, Live, Used
  <2>. HIDE DEF t
  <2>. QED BY <1>1, <1>2, <2>1, <2>2, <2>3, Typed, MoveStep
<1>3. CASE Running /\ Shown(i, "refused", FALSE)
  <2>1. Outcome([tasks[i] EXCEPT !.step = "ended", !.said = "refused"])
    BY <1>1, Typed DEF Outcome, TaskRecords, Live
  <2>. QED BY <1>1, <1>3, <2>1, Typed, ShownStep
<1>. QED BY <1>2, <1>3 DEF Reread

LEMMA SendStep ==
  ASSUME ChangeInv, NEW i \in 1..MaxTasks, Send(i)
  PROVE  ChangeInv'
<1>1. /\ i \in DOMAIN tasks /\ tasks[i].step = "ready" /\ Live(tasks[i]) /\ form' = form
      /\ store' = store /\ app' = app /\ worker' = worker /\ active' = active /\ spent' = spent
      /\ app.state # "exited"
  BY DEF Send, At, Live, ChangeInv, Waited
<1>2. PICK rev \in {tasks[i].ifMatch, store.rev} :
        tasks' = [tasks EXCEPT ![i].step = "sent", ![i].wire = "sent", ![i].ifMatch = rev,
                               ![i].signin = app.signin]
  BY DEF Send
<1>. DEFINE t == [tasks[i] EXCEPT !.step = "sent", !.wire = "sent", !.ifMatch = rev, !.signin = app.signin]
<1>3. rev \in Nat /\ app.signin \in Nat
  BY <1>1, <1>2, Typed DEF TaskRecords, AppRecords
<1>4. /\ t \in TaskRecords /\ t.form = tasks[i].form /\ t.plan = tasks[i].plan /\ t.step = "sent"
      /\ t.wire = "sent" /\ t.said = tasks[i].said
  <2>1. tasks[i] \in TaskRecords
    BY <1>1, Typed
  <2>2. t \in TaskRecords
    BY <1>3, <2>1 DEF TaskRecords, Steps
  <2>. QED BY <2>1, <2>2 DEF TaskRecords
<1>5. tasks' = [tasks EXCEPT ![i] = t]
  BY <1>1, <1>2, Typed
<1>6. Outcome(t) /\ Live(t) /\ Used(tasks[i])
  BY <1>1, <1>4, Typed DEF Outcome, Live, Used
<1>. HIDE DEF t
<1>. QED BY <1>1, <1>4, <1>5, <1>6, Typed, MoveStep

LEMMA ExecutesStep ==
  ASSUME ChangeInv, NEW i \in 1..MaxTasks, Executes(i)
  PROVE  ChangeInv'
<1>1. /\ i \in DOMAIN tasks /\ tasks[i].wire = "sent"
      /\ form' = form /\ app' = app /\ worker' = worker /\ active' = active /\ spent' = spent
  BY DEF Executes
<1>2. PICK w \in {"done", "conflict"} : tasks' = [tasks EXCEPT ![i].wire = w]
  BY DEF Executes
<1>3. store' \in [value : Amounts, extra : Extras, siblings : Amounts, rev : Nat]
  <2>1. tasks[i].took.amount \in Amounts /\ tasks[i].took.extra \in Extras
    BY <1>1, Typed DEF TaskRecords, Fields
  <2>2. store' = store \/ store' = [store EXCEPT !.value = tasks[i].took.amount,
                                                 !.extra = tasks[i].took.extra, !.rev = @ + 1]
    BY DEF Executes
  <2>3. store \in [value : Amounts, extra : Extras, siblings : Amounts, rev : Nat] /\ store.rev + 1 \in Nat
    BY <1>1, Typed
  <2>. QED BY <2>1, <2>2, <2>3
<1>. DEFINE t == [tasks[i] EXCEPT !.wire = w]
<1>4. /\ t \in TaskRecords /\ t.form = tasks[i].form /\ t.plan = tasks[i].plan /\ t.step = tasks[i].step
      /\ t.wire = w /\ t.said = tasks[i].said
  BY <1>1, Typed DEF TaskRecords
<1>5. tasks' = [tasks EXCEPT ![i] = t]
  BY <1>1, <1>2, Typed
<1>6. tasks[i].step \in {"sent", "follow", "ended"} /\ tasks[i].step # "follow"
  BY <1>1, Typed DEF Outcome
<1>7. Live(tasks[i]) => tasks[i].said = "nothing"
  BY <1>1, Typed DEF Outcome
<1>8. Outcome(t) /\ (Live(t) => Live(tasks[i])) /\ Used(tasks[i])
  BY <1>1, <1>4, <1>6, <1>7, Typed DEF Outcome, Live, Used
<1>. HIDE DEF t
<1>. QED BY <1>1, <1>3, <1>4, <1>5, <1>6, <1>8, MoveStep

(* The last message: "saved" of what was made, or an error.                *)
LEMMA ConcludesStep ==
  ASSUME ChangeInv, NEW i \in DOMAIN tasks, Live(tasks[i]), tasks[i].wire = "done", Running,
         Concludes(i), store' = store, worker' = worker, active' = active, spent' = spent
  PROVE  ChangeInv'
<1>1. PICK said \in {"saved", "error"} : Shown(i, said, TRUE)
  BY DEF Concludes
<1>2. Outcome([tasks[i] EXCEPT !.step = "ended", !.said = said])
  BY Typed DEF Outcome, TaskRecords, Live
<1>. QED BY <1>1, <1>2, Typed, ShownStep

LEMMA AnsweredStep ==
  ASSUME ChangeInv, NEW i \in 1..MaxTasks, Answered(i)
  PROVE  ChangeInv'
<1>1. /\ i \in DOMAIN tasks /\ tasks[i].step = "sent" /\ Live(tasks[i]) /\ Running
      /\ store' = store /\ worker' = worker /\ active' = active /\ spent' = spent
  BY DEF Answered, At, Live
<1>2. CASE tasks[i].wire = "conflict" /\ Shown(i, "refused", FALSE)
  <2>1. Outcome([tasks[i] EXCEPT !.step = "ended", !.said = "refused"])
    BY <1>1, <1>2, Typed DEF Outcome, TaskRecords, Live
  <2>. QED BY <1>1, <1>2, <2>1, Typed, ShownStep
<1>3. CASE tasks[i].wire = "done" /\ Concludes(i)
  BY <1>1, <1>3, ConcludesStep
<1>4. CASE /\ tasks[i].wire = "done" /\ UNCHANGED app
           /\ tasks' = [tasks EXCEPT ![i].step = "follow"]
           /\ form' = [form EXCEPT ![tasks[i].form].saved = @ \/ Kind[tasks[i].form] = "change"]
  <2>. DEFINE t == [tasks[i] EXCEPT !.step = "follow"]
              g == tasks[i].form
  <2>1. /\ t \in TaskRecords /\ t.form = g /\ t.plan = tasks[i].plan /\ t.step = "follow"
        /\ t.wire = "done" /\ t.said = tasks[i].said
    BY <1>1, <1>4, Typed DEF TaskRecords, Steps
  <2>2. tasks' = [tasks EXCEPT ![i] = t]
    BY <1>1, <1>4, Typed
  <2>3. Outcome(t) /\ Live(t) /\ Used(tasks[i]) /\ t.step # "queued"
    BY <1>1, <2>1, Typed DEF Outcome, Live, Used
  <2>4. /\ form' \in [Forms -> FormRecords]
        /\ \A f \in Forms : /\ form'[f].plan = form[f].plan /\ form'[f].state = form[f].state
                            /\ form'[f].apply = form[f].apply /\ form'[f].applying = form[f].applying
    <3>1. form' = [form EXCEPT ![g] = [form[g] EXCEPT !.saved = @ \/ Kind[g] = "change"]]
      BY <1>1, <1>4, Typed
    <3>2. g \in Forms /\ form[g] \in FormRecords /\ (form[g].saved \/ Kind[g] = "change") \in BOOLEAN
      BY <1>1, Typed
    <3>. QED BY <1>1, <3>1, <3>2, Typed DEF FormRecords
  <2>5. app' \in AppRecords /\ app'.state # "exited" /\ spent'.reviews = spent.reviews
    BY <1>1, <1>4, Typed DEF Running
  <2>. HIDE DEF t
  <2>. QED BY <1>1, <2>1, <2>2, <2>3, <2>4, <2>5, Typed, TaskStep
<1>. QED BY <1>2, <1>3, <1>4 DEF Answered

LEMMA FollowedStep ==
  ASSUME ChangeInv, NEW i \in 1..MaxTasks, Followed(i) \/ FollowFails(i)
  PROVE  ChangeInv'
<1>1. /\ i \in DOMAIN tasks /\ tasks[i].step = "follow" /\ Live(tasks[i]) /\ Running
      /\ store' = store /\ worker' = worker /\ active' = active
  BY DEF Followed, FollowFails, At, Live
<1>2. tasks[i].wire = "done"
  BY <1>1, Typed DEF Outcome
<1>3. CASE Followed(i)
  BY <1>1, <1>2, <1>3, ConcludesStep DEF Followed
<1>4. CASE FollowFails(i)
  <2>1. /\ spent' \in [reviews : 0..MaxReviews, moves : Nat, trouble : Nat]
        /\ spent'.reviews = spent.reviews
    BY <1>1, <1>4, Typed DEF FollowFails, Spend
  <2>2. Outcome([tasks[i] EXCEPT !.step = "ended", !.said = "error"])
    BY <1>1, <1>2, Typed DEF Outcome, TaskRecords, Live
  <2>. QED BY <1>1, <1>4, <2>1, <2>2, ShownStep DEF FollowFails
<1>. QED BY <1>3, <1>4

LEMMA SignsOutStep ==
  ASSUME ChangeInv, NEW i \in 1..MaxTasks, SignsOut(i)
  PROVE  ChangeInv'
<1>1. /\ i \in DOMAIN tasks /\ tasks[i].step = "reread" /\ Live(tasks[i]) /\ Running
      /\ Kind[tasks[i].form] = "signout"
      /\ store' = store /\ worker' = worker /\ active' = active /\ spent' = spent
  BY DEF SignsOut, At, Live
<1>2. PICK said \in {"saved", "nothing"} : End(i, said, TRUE)
  BY DEF SignsOut
<1>3. Outcome([tasks[i] EXCEPT !.step = "ended", !.said = said])
  BY <1>1, Typed DEF Outcome, TaskRecords, Live
<1>4. app' \in AppRecords /\ app'.state # "exited"
  BY <1>1, Typed DEF SignsOut, AppRecords, Running
<1>. QED BY <1>1, <1>2, <1>3, <1>4, Typed, EndStep

(* A save that has ended is no longer waited for, and the console may be   *)
(* left with the last one.                                                 *)
LEMMA FinishedStep ==
  ASSUME ChangeInv, NEW i \in 1..MaxTasks, MutationFinished(i)
  PROVE  ChangeInv'
<1>1. /\ i \in DOMAIN tasks /\ ~Live(tasks[i]) /\ active' = active \ {i}
      /\ app' = [app EXCEPT !.out = @ \/ (Kind[tasks[i].form] = "signout" /\ tasks[i].said = "saved"),
                            !.state = IF Exits(i, active') THEN "exited" ELSE @]
      /\ store' = store /\ form' = form /\ worker' = worker /\ tasks' = tasks /\ spent' = spent
  BY DEF MutationFinished, At, Live
<1>2. app' \in AppRecords
  <2>1. (app.out \/ (Kind[tasks[i].form] = "signout" /\ tasks[i].said = "saved")) \in BOOLEAN
    OBVIOUS
  <2>. QED BY <1>1, <2>1, Typed DEF AppRecords
<1>3. app'.state = "exited" => app.state = "exited" \/ active' = {}
  BY <1>1, Typed DEF Exits, AppRecords
<1>4. \A j \in DOMAIN tasks : Live(tasks[j]) => j \in active'
  BY <1>1 DEF ChangeInv, Waited
<1>5. Waited'
  BY <1>1, <1>3, <1>4 DEF ChangeInv, Waited
<1>6. Types'
  BY <1>1, <1>2 DEF ChangeInv, Types
<1>7. Reviews'
  BY <1>1 DEF ChangeInv, Reviews, OneOpen, Numbered, OfOneForm, OneSave, UsedOnce
<1>8. Outcomes'
  BY <1>1 DEF ChangeInv, Outcomes
<1>. QED BY <1>5, <1>6, <1>7, <1>8 DEF ChangeInv

LEMMA QuitStep ==
  ASSUME ChangeInv, Quit
  PROVE  ChangeInv'
<1>1. /\ active = {} /\ app' = [app EXCEPT !.state = "exited"] /\ active' = active
      /\ store' = store /\ form' = form /\ worker' = worker /\ tasks' = tasks /\ spent' = spent
  BY DEF Quit
<1>2. Types'
  BY <1>1 DEF ChangeInv, Types, AppRecords
<1>3. Waited'
  BY <1>1 DEF ChangeInv, Waited
<1>4. Reviews'
  BY <1>1 DEF ChangeInv, Reviews, OneOpen, Numbered, OfOneForm, OneSave, UsedOnce
<1>5. Outcomes'
  BY <1>1 DEF ChangeInv, Outcomes
<1>. QED BY <1>2, <1>3, <1>4, <1>5 DEF ChangeInv
-----------------------------------------------------------------------------
(* The steps of a form.                                                    *)
LEMMA FormTypes ==
  ASSUME ChangeInv
  PROVE  /\ form \in [Forms -> FormRecords] /\ worker \in [Forms -> Fields \cup {None}]
         /\ store \in [value : Amounts, extra : Extras, siblings : Amounts, rev : Nat]
         /\ app \in AppRecords
         /\ spent \in [reviews : 0..MaxReviews, moves : Nat, trouble : Nat]
         /\ [amount |-> store.value, extra |-> store.extra] \in Fields
BY DEF ChangeInv, Types, Fields

LEMMA GoneTypes ==
  ASSUME ChangeInv, NEW f \in Forms
  PROVE  /\ Gone(f) \in FormRecords /\ Gone(f).state = "gone" /\ Gone(f).plan = None
         /\ Gone(f).applying = form[f].applying
<1>1. form[f] \in FormRecords
  BY FormTypes
<1>. QED BY <1>1 DEF FormRecords, Gone

LEMMA OpenStep ==
  ASSUME ChangeInv, NEW f \in Forms, Open(f)
  PROVE  ChangeInv'
<1>1. /\ form[f].state = "new" /\ \A g \in Forms : form[g].state # "open"
      /\ form' = [form EXCEPT ![f].state = "open", ![f].preview = TRUE, ![f].signin = app.signin,
                              ![f].fields = [amount |-> store.value, extra |-> store.extra]]
      /\ store' = store /\ app' = app /\ worker' = worker /\ tasks' = tasks /\ active' = active
      /\ spent' = spent
  BY DEF Open
<1>2. form' = [form EXCEPT ![f] = [form[f] EXCEPT !.state = "open", !.preview = TRUE, !.signin = app.signin,
                                       !.fields = [amount |-> store.value, extra |-> store.extra]]]
  BY <1>1, FormTypes
<1>3. /\ form' \in [Forms -> FormRecords] /\ form'[f].state = "open"
      /\ \A g \in Forms : /\ form'[g].plan = form[g].plan /\ form'[g].apply = form[g].apply
                          /\ form'[g].applying = form[g].applying
                          /\ g # f => form'[g] = form[g]
  <2>1. form[f] \in FormRecords /\ app.signin \in Nat
    BY FormTypes DEF AppRecords
  <2>2. [form[f] EXCEPT !.state = "open", !.preview = TRUE, !.signin = app.signin,
                        !.fields = [amount |-> store.value, extra |-> store.extra]] \in FormRecords
    BY <2>1, FormTypes DEF FormRecords
  <2>3. form' \in [Forms -> FormRecords]
    BY <1>2, <2>2, FormTypes
  <2>4. \A g \in Forms : g # f => form'[g] = form[g]
    BY <1>2, FormTypes
  <2>5. /\ form'[f].state = "open" /\ form'[f].plan = form[f].plan /\ form'[f].apply = form[f].apply
        /\ form'[f].applying = form[f].applying
    BY <1>2, <2>1, FormTypes DEF FormRecords
  <2>. QED BY <2>3, <2>4, <2>5
<1>4. OneOpen'
  BY <1>1, <1>3 DEF ChangeInv, Reviews, OneOpen
<1>. QED BY <1>1, <1>3, <1>4, FormTypes, FormStep

LEMMA EditStep ==
  ASSUME ChangeInv, NEW f \in Forms, NEW fields \in Fields, Edit(f, fields)
  PROVE  ChangeInv'
<1>1. /\ form[f].state = "open" /\ spent' = [spent EXCEPT !.moves = @ + 1]
      /\ form' = [form EXCEPT ![f].fields = fields,
                              ![f].plan = IF form[f].applying THEN @ ELSE None,
                              ![f].apply = IF form[f].applying THEN @ ELSE FALSE]
      /\ store' = store /\ app' = app /\ worker' = worker /\ tasks' = tasks /\ active' = active
  BY DEF Edit, Spend
<1>2. form' = [form EXCEPT ![f] = [form[f] EXCEPT !.fields = fields,
                                       !.plan = IF form[f].applying THEN @ ELSE None,
                                       !.apply = IF form[f].applying THEN @ ELSE FALSE]]
  BY <1>1, FormTypes
<1>3. /\ form' \in [Forms -> FormRecords]
      /\ \A g \in Forms : /\ form'[g].plan = form[g].plan \/ form'[g].plan = None
                          /\ form'[g].apply => form[g].apply
                          /\ form'[g].applying = form[g].applying /\ form'[g].state = form[g].state
  <2>1. form[f] \in FormRecords
    BY FormTypes
  <2>2. PICK p \in {form[f].plan, None}, a \in {form[f].apply, FALSE} :
          form' = [form EXCEPT ![f] = [form[f] EXCEPT !.fields = fields, !.plan = p, !.apply = a]]
    BY <1>2
  <2>3. [form[f] EXCEPT !.fields = fields, !.plan = p, !.apply = a] \in FormRecords
    BY <2>1 DEF FormRecords
  <2>4. form' \in [Forms -> FormRecords]
    BY <2>2, <2>3, FormTypes
  <2>5. \A g \in Forms : g # f => form'[g] = form[g]
    BY <2>2, FormTypes
  <2>6. /\ form'[f].state = form[f].state /\ form'[f].plan = p /\ form'[f].apply = a
        /\ form'[f].applying = form[f].applying
    BY <2>1, <2>2, FormTypes DEF FormRecords
  <2>. QED BY <2>4, <2>5, <2>6
<1>4. OneOpen'
  BY <1>1, <1>3 DEF ChangeInv, Reviews, OneOpen
<1>5. spent' \in [reviews : 0..MaxReviews, moves : Nat, trouble : Nat] /\ spent'.reviews = spent.reviews
  BY <1>1, FormTypes
<1>. QED BY <1>1, <1>3, <1>4, <1>5, FormTypes, FormStep

LEMMA CancelStep ==
  ASSUME ChangeInv, NEW f \in Forms, Cancel(f)
  PROVE  ChangeInv'
<1>1. /\ form' = [form EXCEPT ![f] = Gone(f)] /\ worker' = [worker EXCEPT ![f] = None]
      /\ store' = store /\ app' = app /\ tasks' = tasks /\ active' = active /\ spent' = spent
  BY DEF Cancel
<1>2. /\ form' \in [Forms -> FormRecords] /\ worker' \in [Forms -> Fields \cup {None}]
      /\ form'[f].state = "gone" /\ form'[f].plan = None /\ worker'[f] = None
      /\ form'[f].applying = form[f].applying
      /\ \A g \in Forms : g # f => form'[g] = form[g] /\ worker'[g] = worker[g]
  BY <1>1, FormTypes, GoneTypes
<1>3. OneOpen'
  BY <1>1, <1>2 DEF ChangeInv, Reviews, OneOpen
<1>. QED BY <1>1, <1>2, <1>3, FormTypes, FormStep

LEMMA SignInStep ==
  ASSUME ChangeInv, SignInChanges
  PROVE  ChangeInv'
<1>1. /\ spent' = [spent EXCEPT !.trouble = @ + 1] /\ app' = [app EXCEPT !.signin = @ + 1]
      /\ form' = [f \in Forms |-> IF form[f].state = "open" THEN Gone(f) ELSE form[f]]
      /\ worker' = [f \in Forms |-> None]
      /\ store' = store /\ tasks' = tasks /\ active' = active
  BY DEF SignInChanges, Spend, Shielded
<1>2. /\ form' \in [Forms -> FormRecords] /\ worker' \in [Forms -> Fields \cup {None}]
      /\ \A f \in Forms : /\ form'[f].plan = form[f].plan \/ form'[f].plan = None
                          /\ form'[f].plan # None => (form'[f].apply => form[f].apply)
                          /\ form'[f].applying = form[f].applying /\ worker'[f] = None
                          /\ form'[f].state # "open"
                          /\ form[f].state = "open" => form'[f].plan = None
                          /\ form[f].state # "open" => form'[f].plan = form[f].plan
  BY <1>1, FormTypes, GoneTypes
<1>3. OneOpen'
  BY <1>2 DEF ChangeInv, Reviews, OneOpen
<1>4. /\ spent' \in [reviews : 0..MaxReviews, moves : Nat, trouble : Nat] /\ spent'.reviews = spent.reviews
      /\ app' \in AppRecords
      /\ app'.state = app.state
  BY <1>1, FormTypes DEF AppRecords
<1>. QED BY <1>1, <1>2, <1>3, <1>4, FormTypes, FormStep

LEMMA OtherWritesStep ==
  ASSUME ChangeInv, OtherWrites
  PROVE  ChangeInv'
<1>1. PICK v \in Amounts, s \in Amounts : store' = [store EXCEPT !.value = v, !.siblings = s, !.rev = @ + 1]
  BY DEF OtherWrites
<1>2. /\ spent' = [spent EXCEPT !.moves = @ + 1] /\ app' = app /\ form' = form /\ worker' = worker
      /\ tasks' = tasks /\ active' = active
  BY DEF OtherWrites, Spend
<1>3. /\ spent' \in [reviews : 0..MaxReviews, moves : Nat, trouble : Nat] /\ spent'.reviews = spent.reviews
      /\ store' \in [value : Amounts, extra : Extras, siblings : Amounts, rev : Nat]
  <2>1. store.rev + 1 \in Nat /\ spent.moves + 1 \in Nat
    BY FormTypes
  <2>. QED BY <1>1, <1>2, <2>1, FormTypes
<1>4. OneOpen'
  BY <1>2 DEF ChangeInv, Reviews, OneOpen
<1>. QED BY <1>2, <1>3, <1>4, FormTypes, FormStep
(* A preview takes the next number: every plan there is has a lower one.   *)
LEMMA PressPreviewStep ==
  ASSUME ChangeInv, NEW f \in Forms, PressPreview(f)
  PROVE  ChangeInv'
<1>1. /\ form[f].state = "open" /\ worker' = [worker EXCEPT ![f] = form[f].fields]
      /\ spent' = [spent EXCEPT !.reviews = @ + 1] /\ spent.reviews < MaxReviews
      /\ store' = store /\ app' = app /\ form' = form /\ tasks' = tasks /\ active' = active
  BY DEF PressPreview, Spend
<1>2. form[f].fields \in Fields
  BY FormTypes DEF FormRecords
<1>3. /\ worker' \in [Forms -> Fields \cup {None}]
      /\ \A g \in Forms : g # f => worker'[g] = worker[g]
  BY <1>1, <1>2, FormTypes
<1>4. /\ spent' \in [reviews : 0..MaxReviews, moves : Nat, trouble : Nat]
      /\ spent'.reviews = spent.reviews + 1 /\ spent.reviews \in Nat
  <2>1. spent.reviews \in 0..MaxReviews /\ spent.reviews + 1 \in 0..MaxReviews
    BY <1>1, FormTypes, ChangeAssumption
  <2>. QED BY <1>1, <2>1, FormTypes
<1>5. /\ \A g \in Forms : form[g].plan # None => form[g].plan.review \in Nat
      /\ \A i \in DOMAIN tasks : tasks[i].plan # None => tasks[i].plan.review \in Nat
  BY FormTypes, TaskAt DEF ChangeInv, FormRecords, TaskRecords, Plans
<1>6. Types'
  BY <1>1, <1>3, <1>4 DEF ChangeInv, Types
<1>7. OneOpen'
  BY <1>1, <1>3 DEF ChangeInv, Reviews, OneOpen
<1>8. Numbered'
  BY <1>1, <1>4, <1>5 DEF ChangeInv, Reviews, Numbered
<1>9. OfOneForm' /\ OneSave' /\ UsedOnce' /\ Waited' /\ Outcomes'
  BY <1>1 DEF ChangeInv, Reviews, OfOneForm, OneSave, UsedOnce, Waited, Outcomes
<1>. QED BY <1>6, <1>7, <1>8, <1>9 DEF ChangeInv, Reviews

(* A preview that returns makes a plan no save and no other form has; one  *)
(* that fails makes none.                                                  *)
LEMMA PreviewReturnsStep ==
  ASSUME ChangeInv, NEW f \in Forms, PreviewReturns(f)
  PROVE  ChangeInv'
<1>1. /\ worker[f] # None /\ worker' = [worker EXCEPT ![f] = None]
      /\ store' = store /\ app' = app /\ tasks' = tasks /\ active' = active
  BY DEF PreviewReturns
<1>2. /\ worker' \in [Forms -> Fields \cup {None}] /\ worker'[f] = None
      /\ \A g \in Forms : g # f => worker'[g] = worker[g]
  BY <1>1, FormTypes
<1>3. /\ form[f].state = "open" /\ form[f] \in FormRecords
      /\ \A g \in Forms : g # f => form[g].state # "open" /\ form[g].plan = None /\ worker[g] = None
  BY <1>1, FormTypes DEF ChangeInv, Reviews, OneOpen
<1>4. ASSUME NEW a \in {FALSE, form[f].apply}, form' = [form EXCEPT ![f].apply = a],
             spent' \in [reviews : 0..MaxReviews, moves : Nat, trouble : Nat],
             spent'.reviews = spent.reviews
      PROVE  ChangeInv'
  <2>1. form' = [form EXCEPT ![f] = [form[f] EXCEPT !.apply = a]]
    BY <1>4, FormTypes
  <2>2. [form[f] EXCEPT !.apply = a] \in FormRecords
    BY <1>3, <1>4 DEF FormRecords
  <2>3. /\ form' \in [Forms -> FormRecords]
        /\ \A g \in Forms : g # f => form'[g] = form[g]
    BY <2>1, <2>2, FormTypes
  <2>4. /\ form'[f].state = form[f].state /\ form'[f].plan = form[f].plan /\ form'[f].apply = a
        /\ form'[f].applying = form[f].applying
    BY <1>3, <2>1, FormTypes DEF FormRecords
  <2>5. \A g \in Forms : /\ form'[g].plan = form[g].plan \/ form'[g].plan = None
                         /\ form'[g].plan # None => (form'[g].apply => form[g].apply)
                         /\ form'[g].applying = form[g].applying
                         /\ worker'[g] = worker[g] \/ worker'[g] = None
    BY <1>2, <2>3, <2>4
  <2>6. OneOpen'
    BY <1>2, <2>3, <2>4 DEF ChangeInv, Reviews, OneOpen
  <2>. QED BY <1>1, <1>2, <1>4, <2>3, <2>5, <2>6, FormTypes, FormStep
<1>5. CASE /\ form' = [form EXCEPT ![f].plan = Plan(worker[f], spent.reviews), ![f].apply = TRUE]
           /\ spent' = spent
  <2>. DEFINE p == Plan(worker[f], spent.reviews)
  <2>1. worker[f] \in Fields /\ spent.reviews \in 0..MaxReviews /\ spent.reviews \in Nat
    BY <1>1, FormTypes
  <2>2. p \in Plans /\ p.review = spent.reviews
    BY <2>1, FormTypes DEF Plan, Plans, Fields
  <2>. HIDE DEF p
  <2>3. form' = [form EXCEPT ![f] = [form[f] EXCEPT !.plan = p, !.apply = TRUE]]
    BY <1>5, FormTypes DEF p
  <2>4. [form[f] EXCEPT !.plan = p, !.apply = TRUE] \in FormRecords
    BY <1>3, <2>2 DEF FormRecords
  <2>5. /\ form' \in [Forms -> FormRecords]
        /\ \A g \in Forms : g # f => form'[g] = form[g]
    BY <2>3, <2>4, FormTypes
  <2>6. /\ form'[f].state = "open" /\ form'[f].plan = p /\ form'[f].applying = form[f].applying
    BY <1>3, <2>3, FormTypes DEF FormRecords
  <2>7. \A i \in DOMAIN tasks : /\ tasks[i].plan # None /\ tasks[i].plan.review < spent.reviews
                                /\ tasks[i].plan # p /\ tasks[i].form \in Forms
    <3>1. ASSUME NEW i \in DOMAIN tasks
          PROVE  /\ tasks[i].plan # None /\ tasks[i].plan.review < spent.reviews
                 /\ tasks[i].form \in Forms
      BY <1>1, <3>1, TaskAt DEF ChangeInv, Reviews, Numbered
    <3>2. ~(spent.reviews < spent.reviews)
      BY <2>1
    <3>. QED BY <2>2, <3>1, <3>2
  <2>8. Types'
    BY <1>1, <1>2, <1>5, <2>5 DEF ChangeInv, Types
  <2>9. OneOpen'
    BY <1>2, <1>3, <2>5, <2>6 DEF OneOpen
  <2>10. Numbered'
    <3>1. \A g \in Forms : form'[g].plan # None => form'[g].plan.review <= spent.reviews
      BY <1>3, <2>1, <2>2, <2>5, <2>6
    <3>2. \A i \in DOMAIN tasks : tasks[i].plan.review <= spent.reviews
      BY DEF ChangeInv, Reviews, Numbered
    <3>3. \A g \in Forms : worker'[g] = None
      BY <1>2, <1>3
    <3>. QED BY <1>1, <1>5, <2>7, <3>1, <3>2, <3>3 DEF Numbered
  <2>11. OfOneForm'
    BY <1>1, <1>3, <2>5, <2>6, <2>7 DEF ChangeInv, Reviews, OfOneForm
  <2>12. OneSave'
    BY <1>1, <2>5, <2>6, <2>7 DEF ChangeInv, Reviews, OneSave
  <2>13. UsedOnce'
    BY <1>1, <1>3, <2>5, <2>6, <2>7 DEF ChangeInv, Reviews, UsedOnce
  <2>14. Waited' /\ Outcomes'
    BY <1>1 DEF ChangeInv, Waited, Outcomes
  <2>. QED BY <2>8, <2>9, <2>10, <2>11, <2>12, <2>13, <2>14 DEF ChangeInv, Reviews
<1>6. /\ spent' \in [reviews : 0..MaxReviews, moves : Nat, trouble : Nat]
      /\ spent'.reviews = spent.reviews
  <2>1. spent' = spent \/ spent' = [spent EXCEPT !.trouble = @ + 1]
    BY DEF PreviewReturns, Spend
  <2>2. spent.trouble + 1 \in Nat
    BY FormTypes
  <2>. QED BY <2>1, <2>2, FormTypes
<1>7. \/ /\ form' = [form EXCEPT ![f].plan = Plan(worker[f], spent.reviews), ![f].apply = TRUE]
         /\ spent' = spent
      \/ form' = [form EXCEPT ![f].apply = IF Kind[f] = "change" THEN FALSE ELSE @]
  BY DEF PreviewReturns
<1>. QED BY <1>4, <1>5, <1>6, <1>7

(* Apply adds a save of the plan on the screen; the form has no other save *)
(* under way, and no save has begun to use this plan up.                   *)
LEMMA PressApplyStep ==
  ASSUME ChangeInv, NEW f \in Forms, PressApply(f)
  PROVE  ChangeInv'
<1>1. /\ form[f].state = "open" /\ form[f].apply /\ worker' = [worker EXCEPT ![f] = None]
      /\ Running /\ store' = store /\ app' = app /\ spent' = spent
  BY DEF PressApply
<1>2. /\ worker' \in [Forms -> Fields \cup {None}] /\ worker'[f] = None
      /\ \A g \in Forms : g # f => worker'[g] = worker[g]
  BY <1>1, FormTypes
<1>3. OneOpen /\ (form' = form => OneOpen')
  BY <1>2 DEF ChangeInv, Reviews, OneOpen
<1>4. CASE ~MayApply(f)
  <2>1. active' = active /\ form' = form /\ tasks' = tasks
    BY <1>4 DEF PressApply, Shielded
  <2>. QED BY <1>1, <1>2, <1>3, <2>1, FormTypes, FormStep
<1>5. CASE MayApply(f)
  <2>. DEFINE n == Len(tasks) + 1
              t == Task(f)
  <2>1. /\ form' = [form EXCEPT ![f].applying = TRUE] /\ tasks' = Append(tasks, t)
        /\ active' = active \cup {n} /\ ~form[f].applying /\ form[f].plan # None
    BY <1>5 DEF PressApply, Shielded, MayApply
  <2>2. /\ t \in TaskRecords /\ t.form = f /\ t.plan = form[f].plan /\ t.step = "queued"
        /\ t.wire = "none" /\ t.said = "nothing"
    <3>1. form[f] \in FormRecords /\ form[f].plan \in Plans \cup {None} /\ form[f].fields \in Fields
          /\ app.signin \in Nat
      BY FormTypes DEF FormRecords, AppRecords
    <3>. QED BY <3>1 DEF Task, TaskRecords, Steps
  <2>3. Live(t) /\ ~Used(t) /\ Outcome(t)
    BY <2>2 DEF Live, Used, Outcome
  <2>4. tasks \in Seq(TaskRecords) /\ DOMAIN tasks = 1..Len(tasks) /\ Len(tasks) \in Nat
    BY LenProperties DEF ChangeInv, Types
  <2>. HIDE DEF t
  <2>5. /\ tasks' \in Seq(TaskRecords) /\ DOMAIN tasks' = DOMAIN tasks \cup {n} /\ n \notin DOMAIN tasks
        /\ tasks'[n] = t /\ \A i \in DOMAIN tasks : tasks'[i] = tasks[i]
    BY <2>1, <2>2, <2>4, AppendProperties
  <2>6. /\ form' \in [Forms -> FormRecords]
        /\ \A g \in Forms : g # f => form'[g] = form[g]
    <3>1. form' = [form EXCEPT ![f] = [form[f] EXCEPT !.applying = TRUE]]
      BY <2>1, FormTypes
    <3>2. form[f] \in FormRecords
      BY FormTypes
    <3>3. [form[f] EXCEPT !.applying = TRUE] \in FormRecords
      BY <3>2 DEF FormRecords
    <3>. QED BY <3>1, <3>3, FormTypes
  <2>7. /\ form'[f].state = form[f].state /\ form'[f].plan = form[f].plan
        /\ form'[f].apply = form[f].apply /\ form'[f].applying = TRUE
    <3>1. form[f] \in FormRecords
      BY FormTypes
    <3>. QED BY <2>1, <3>1, FormTypes DEF FormRecords
  <2>8. \A i \in DOMAIN tasks :
          /\ tasks[i].plan # None /\ tasks[i].form \in Forms
          /\ tasks[i].form = f => ~Live(tasks[i])
          /\ tasks[i].plan = form[f].plan => tasks[i].form = f /\ ~Used(tasks[i])
    BY <1>1, <2>1, TaskAt DEF ChangeInv, Reviews, Numbered, OfOneForm, OneSave, UsedOnce
  <2>9. Types'
    BY <1>1, <1>2, <2>5, <2>6 DEF ChangeInv, Types
  <2>10. OneOpen'
    BY <1>2, <1>3, <2>6, <2>7 DEF OneOpen
  <2>11. Numbered'
    BY <1>1, <1>2, <1>3, <2>1, <2>2, <2>5, <2>6, <2>7 DEF ChangeInv, Reviews, Numbered, OneOpen
  <2>12. OfOneForm'
    <3>1. \A i \in DOMAIN tasks', g \in Forms : form'[g].plan = tasks'[i].plan => tasks'[i].form = g
      BY <1>1, <1>3, <2>1, <2>2, <2>5, <2>6, <2>7 DEF ChangeInv, Reviews, OfOneForm, OneOpen
    <3>2. \A i, j \in DOMAIN tasks' : tasks'[i].plan = tasks'[j].plan => tasks'[i].form = tasks'[j].form
      BY <2>2, <2>5, <2>8 DEF ChangeInv, Reviews, OfOneForm
    <3>. QED BY <3>1, <3>2 DEF OfOneForm
  <2>13. OneSave'
    BY <2>2, <2>3, <2>5, <2>6, <2>7, <2>8 DEF ChangeInv, Reviews, OneSave
  <2>14. UsedOnce'
    <3>1. ASSUME NEW i \in DOMAIN tasks', NEW j \in DOMAIN tasks', i # j, Used(tasks'[i]),
                 Used(tasks'[j]) \/ tasks'[j].step = "queued"
          PROVE  tasks'[i].plan # tasks'[j].plan
      <4>1. i \in DOMAIN tasks /\ tasks'[i] = tasks[i]
        BY <2>3, <2>5, <3>1
      <4>2. CASE j = n
        BY <2>2, <2>5, <2>8, <3>1, <4>1, <4>2
      <4>3. CASE j \in DOMAIN tasks
        BY <2>5, <3>1, <4>1, <4>3 DEF ChangeInv, Reviews, UsedOnce
      <4>. QED BY <2>5, <4>2, <4>3
    <3>2. ASSUME NEW i \in DOMAIN tasks', NEW g \in Forms, Used(tasks'[i]), form'[g].plan = tasks'[i].plan
          PROVE  ~form'[g].apply
      <4>1. i \in DOMAIN tasks /\ tasks'[i] = tasks[i]
        BY <2>3, <2>5, <3>2
      <4>. QED BY <2>6, <2>7, <3>2, <4>1 DEF ChangeInv, Reviews, UsedOnce
    <3>. QED BY <3>1, <3>2 DEF UsedOnce
  <2>15. Waited' /\ Outcomes'
    BY <1>1, <2>1, <2>3, <2>5 DEF ChangeInv, Waited, Outcomes, Running
  <2>. QED BY <2>9, <2>10, <2>11, <2>12, <2>13, <2>14, <2>15 DEF ChangeInv, Reviews
<1>. QED BY <1>4, <1>5

-----------------------------------------------------------------------------
(* Reviews keep their numbers and their forms, every save under way is     *)
(* waited for, and the form's message fits what the authority did.         *)
THEOREM ChangeInvariant == Spec => []ChangeInv
<1>1. ASSUME ChangeInv, [Next]_changeVars
      PROVE  ChangeInv'
  <2>1. CASE UNCHANGED changeVars
    BY <1>1, <2>1 DEF changeVars, ChangeInv, Types, Reviews, OneOpen, Numbered, OfOneForm, OneSave,
                      UsedOnce, Waited, Outcomes
  <2>2. ASSUME NEW f \in Forms,
               \/ Open(f) \/ PressPreview(f) \/ PreviewReturns(f) \/ PressApply(f) \/ Cancel(f)
               \/ \E fields \in Fields : Edit(f, fields)
        PROVE  ChangeInv'
    BY <1>1, <2>2, OpenStep, PressPreviewStep, PreviewReturnsStep, PressApplyStep, CancelStep, EditStep
  <2>3. ASSUME NEW i \in 1..MaxTasks, Commit(i) \/ Executes(i)
        PROVE  ChangeInv'
    BY <1>1, <2>3, BeginStep, FailStep, CompareStep, RereadStep, SendStep, AnsweredStep, FollowedStep,
       SignsOutStep, FinishedStep, ExecutesStep DEF Commit
  <2>4. CASE SignInChanges \/ Quit \/ OtherWrites
    BY <1>1, <2>4, SignInStep, QuitStep, OtherWritesStep
  <2>. QED BY <1>1, <2>1, <2>2, <2>3, <2>4 DEF Next
<1>. QED BY <1>1, InitChange, PTL DEF Spec

-----------------------------------------------------------------------------
(* The sign-in a form was opened under is over when it was taken off the   *)
(* screen while it was being saved; only such a save ends the console.     *)
Thrown ==
    /\ \A f \in Forms :
        /\ form[f].signin <= app.signin
        /\ form[f].state = "gone" /\ form[f].applying => form[f].signin < app.signin
        /\ form[f].applying /\ Kind[f] = "change" /\ form[f].plan = None => form[f].state = "gone"
    /\ app.state = "crashed" => \E i \in DOMAIN tasks : form[tasks[i].form].signin < app.signin

(* A form remembers a save only that the authority carried out. *)
Kept == \A f \in Forms : form[f].saved => \E i \in DOMAIN tasks : tasks[i].form = f /\ tasks[i].wire = "done"

(* Only Direct reports a script as not run. *)
NotRun ==
    /\ authority \in Authorities
    /\ \A i \in DOMAIN tasks : tasks[i].said = "notrun" => authority = "direct"

Ends == Thrown /\ Kept /\ NotRun

LEMMA InitEnds == Init => Ends
<1>. SUFFICES ASSUME Init
              PROVE  Ends
  OBVIOUS
<1>1. DOMAIN tasks = {} /\ authority \in Authorities /\ app.signin = 0 /\ app.state = "running"
  BY DEF Init
<1>2. \A f \in Forms : form[f].signin = 0 /\ ~form[f].applying /\ ~form[f].saved
  BY DEF Init
<1>. QED BY <1>1, <1>2 DEF Ends, Thrown, Kept, NotRun

(* A step of a save that keeps the forms, but for what one of them         *)
(* remembers of what was done and for the end of a save.                   *)
LEMMA SaveKeeps ==
  ASSUME ChangeInv, Ends, NEW i \in DOMAIN tasks, DOMAIN tasks' = DOMAIN tasks,
         \A j \in DOMAIN tasks : /\ tasks'[j].form = tasks[j].form
                                 /\ tasks[j].wire = "done" => tasks'[j].wire = "done"
                                 /\ tasks'[j].said = "notrun" => authority = "direct",
         \A f \in Forms : /\ form'[f].signin = form[f].signin /\ form'[f].state = form[f].state
                          /\ form'[f].plan = form[f].plan
                          /\ form'[f].applying => form[f].applying
                          /\ form'[f].saved => form[f].saved \/ (f = tasks[i].form /\ tasks[i].wire = "done"),
         authority' = authority, app'.signin = app.signin,
         app'.state = "crashed" => app.state = "crashed" \/ form[tasks[i].form].signin < app.signin
  PROVE  Ends'
<1>1. \A j \in DOMAIN tasks : tasks[j].form \in Forms
  BY TaskAt DEF ChangeInv
<1>2. Thrown'
  <2>1. \A f \in Forms :
          /\ form'[f].signin <= app'.signin
          /\ form'[f].state = "gone" /\ form'[f].applying => form'[f].signin < app'.signin
          /\ form'[f].applying /\ Kind[f] = "change" /\ form'[f].plan = None => form'[f].state = "gone"
    BY DEF Ends, Thrown
  <2>2. ASSUME app'.state = "crashed"
        PROVE  \E j \in DOMAIN tasks : form[tasks[j].form].signin < app.signin
    BY <2>2 DEF Ends, Thrown
  <2>3. app'.state = "crashed" => \E j \in DOMAIN tasks' : form'[tasks'[j].form].signin < app'.signin
    BY <1>1, <2>2
  <2>. QED BY <2>1, <2>3 DEF Thrown
<1>3. Kept'
  BY DEF Ends, Kept
<1>4. NotRun'
  BY DEF Ends, NotRun
<1>. QED BY <1>2, <1>3, <1>4 DEF Ends

(* A save ends.                                                            *)
LEMMA EndKeeps ==
  ASSUME ChangeInv, Ends, NEW i \in DOMAIN tasks,
         NEW said \in {"nothing", "refused", "error", "notrun", "saved"}, NEW made \in BOOLEAN,
         End(i, said, made), said = "notrun" => authority = "direct",
         made => tasks[i].wire = "done" \/ Kind[tasks[i].form] = "signout",
         authority' = authority, app'.signin = app.signin,
         app'.state = "crashed" => app.state = "crashed" \/ form[tasks[i].form].signin < app.signin
  PROVE  Ends'
<1>. DEFINE g == tasks[i].form
            t == [tasks[i] EXCEPT !.step = "ended", !.said = said]
            new == [form[g] EXCEPT !.applying = FALSE, !.saved = @ \/ (made /\ Kind[g] = "change"),
                                   !.preview = Kind[g] # "change" /\ form[g].state = "open"]
<1>1. /\ t \in TaskRecords /\ t.form = g /\ t.wire = tasks[i].wire /\ t.said = said
      /\ tasks' = [tasks EXCEPT ![i] = t] /\ form' = [form EXCEPT ![g] = new]
  BY Typed DEF End, TaskRecords, Steps
<1>2. /\ DOMAIN tasks' = DOMAIN tasks /\ tasks'[i] = t
      /\ \A j \in DOMAIN tasks \ {i} : tasks'[j] = tasks[j]
  <2>. HIDE DEF t
  <2>. QED BY <1>1, Replaced DEF ChangeInv
<1>3. \A j \in DOMAIN tasks : /\ tasks'[j].form = tasks[j].form
                              /\ tasks[j].wire = "done" => tasks'[j].wire = "done"
                              /\ tasks'[j].said = "notrun" => authority = "direct"
  <2>. HIDE DEF t
  <2>. QED BY <1>1, <1>2 DEF Ends, NotRun
<1>4. form \in [Forms -> FormRecords] /\ g \in Forms /\ form[g] \in FormRecords
  BY Typed
<1>5. /\ form'[g] = new /\ \A f \in Forms : f # g => form'[f] = form[f]
      /\ new.signin = form[g].signin /\ new.state = form[g].state /\ new.plan = form[g].plan
      /\ ~new.applying
      /\ new.saved => form[g].saved \/ (made /\ Kind[g] = "change")
  <2>1. form'[g] = new /\ \A f \in Forms : f # g => form'[f] = form[f]
    BY <1>1, <1>4
  <2>. QED BY <1>4, <2>1 DEF FormRecords
<1>. HIDE DEF new
<1>6. \A f \in Forms : /\ form'[f].signin = form[f].signin /\ form'[f].state = form[f].state
                       /\ form'[f].plan = form[f].plan
                       /\ form'[f].applying => form[f].applying
                       /\ form'[f].saved => form[f].saved \/ (f = g /\ tasks[i].wire = "done")
  BY <1>5
<1>. QED BY <1>2, <1>3, <1>6, SaveKeeps

(* What a save ends with: a message, or the console, of whose forms the    *)
(* sign-in is over.                                                        *)
LEMMA ShownKeeps ==
  ASSUME ChangeInv, Ends, NEW i \in DOMAIN tasks, Live(tasks[i]),
         NEW said \in {"nothing", "refused", "error", "notrun", "saved"}, NEW made \in BOOLEAN,
         \/ Shown(i, said, made)
         \/ Crashes(i, made) /\ Kind[tasks[i].form] = "change" /\ form[tasks[i].form].plan = None,
         said = "notrun" => authority = "direct",
         made => tasks[i].wire = "done",
         authority' = authority
  PROVE  Ends'
<1>1. CASE End(i, said, made) /\ UNCHANGED app
  <2>1. app'.state = "crashed" => app.state = "crashed"
    BY <1>1
  <2>. QED BY <1>1, <2>1, EndKeeps
<1>2. CASE /\ Crashes(i, made)
           /\ \/ form[tasks[i].form].state = "gone"
              \/ Kind[tasks[i].form] = "change" /\ form[tasks[i].form].plan = None
  <2>1. tasks[i].form \in Forms /\ form[tasks[i].form].applying
    BY Typed DEF ChangeInv, Reviews, OneSave
  <2>2. form[tasks[i].form].signin < app.signin
    BY <1>2, <2>1 DEF Ends, Thrown
  <2>3. End(i, "nothing", made) /\ app'.signin = app.signin
    BY <1>2, Typed DEF Crashes, AppRecords
  <2>. QED BY <2>2, <2>3, EndKeeps
<1>. QED BY <1>1, <1>2 DEF Shown

(* A step of a save that is not its end.                                   *)
LEMMA MoveKeeps ==
  ASSUME ChangeInv, Ends, NEW i \in DOMAIN tasks, NEW t \in TaskRecords,
         tasks' = [tasks EXCEPT ![i] = t], t.form = tasks[i].form, t.said = tasks[i].said,
         tasks[i].wire = "done" => t.wire = "done",
         form' = form, app' = app, authority' = authority
  PROVE  Ends'
<1>1. /\ DOMAIN tasks' = DOMAIN tasks /\ tasks'[i] = t
      /\ \A j \in DOMAIN tasks \ {i} : tasks'[j] = tasks[j]
  BY Replaced DEF ChangeInv
<1>2. \A j \in DOMAIN tasks : /\ tasks'[j].form = tasks[j].form
                              /\ tasks[j].wire = "done" => tasks'[j].wire = "done"
                              /\ tasks'[j].said = "notrun" => authority = "direct"
  BY <1>1 DEF Ends, NotRun
<1>. QED BY <1>1, <1>2, SaveKeeps

(* A step of the screen, of a console that runs on.                        *)
LEMMA FormKeeps ==
  ASSUME Ends, DOMAIN tasks \subseteq DOMAIN tasks',
         \A j \in DOMAIN tasks : tasks'[j] = tasks[j],
         \A j \in DOMAIN tasks' \ DOMAIN tasks : tasks'[j].said = "nothing",
         \A f \in Forms : /\ form'[f].signin <= app'.signin
                          /\ form'[f].state = "gone" /\ form'[f].applying => form'[f].signin < app'.signin
                          /\ form'[f].applying /\ Kind[f] = "change" /\ form'[f].plan = None
                                => form'[f].state = "gone"
                          /\ form'[f].saved = form[f].saved,
         authority' = authority, app'.state # "crashed"
  PROVE  Ends'
<1>1. Thrown'
  BY DEF Thrown
<1>2. Kept'
  BY DEF Ends, Kept
<1>3. NotRun'
  <2>1. \A j \in DOMAIN tasks' : tasks'[j].said = "notrun" => j \in DOMAIN tasks
    OBVIOUS
  <2>. QED BY <2>1 DEF Ends, NotRun
<1>. QED BY <1>1, <1>2, <1>3 DEF Ends

-----------------------------------------------------------------------------
(* The steps of a save keep Ends.                                          *)
LEMMA CommitKeeps ==
  ASSUME ChangeInv, Ends, NEW i \in 1..MaxTasks, Commit(i) \/ Executes(i)
  PROVE  Ends'
<1>. DEFINE f == tasks[i].form
<1>1. i \in DOMAIN tasks /\ authority' = authority
  BY DEF Commit, Executes, Begin, CommitFails, Compare, Reread, Send, Answered, Followed, FollowFails,
         SignsOut, MutationFinished, At
<1>2. CASE Begin(i)
  <2>1. CASE Guarded(f)
    <3>. DEFINE t == [tasks[i] EXCEPT !.step = "fresh", !.took = form[f].fields]
    <3>1. tasks' = [tasks EXCEPT ![i] = t] /\ t \in TaskRecords
      BY <1>1, <1>2, <2>1, Typed DEF Begin, TaskRecords, Steps
    <3>2. t.form = f /\ t.said = tasks[i].said /\ t.wire = tasks[i].wire
      BY <1>1, Typed DEF TaskRecords
    <3>. HIDE DEF t
    <3>3. /\ DOMAIN tasks' = DOMAIN tasks /\ tasks'[i] = t
          /\ \A j \in DOMAIN tasks \ {i} : tasks'[j] = tasks[j]
      BY <1>1, <3>1, Replaced DEF ChangeInv
    <3>4. \A j \in DOMAIN tasks : /\ tasks'[j].form = tasks[j].form
                                  /\ tasks[j].wire = "done" => tasks'[j].wire = "done"
                                  /\ tasks'[j].said = "notrun" => authority = "direct"
      BY <1>1, <3>2, <3>3 DEF Ends, NotRun
    <3>5. /\ form' = [form EXCEPT ![f] = [form[f] EXCEPT !.apply = FALSE, !.preview = FALSE]]
          /\ app' = app
      BY <1>1, <1>2, <2>1, Typed DEF Begin
    <3>6. \A g \in Forms : /\ form'[g].signin = form[g].signin /\ form'[g].state = form[g].state
                           /\ form'[g].plan = form[g].plan /\ form'[g].applying = form[g].applying
                           /\ form'[g].saved = form[g].saved
      BY <1>1, <3>5, Typed DEF FormRecords
    <3>. QED BY <1>1, <3>3, <3>4, <3>5, <3>6, SaveKeeps
  <2>2. CASE ~Guarded(f)
    BY <1>1, <1>2, <2>2, ShownKeeps DEF Begin, At, Live
  <2>. QED BY <2>1, <2>2
<1>3. CASE CommitFails(i)
  BY <1>1, <1>3, ShownKeeps DEF CommitFails, Says, Live
<1>4. CASE Compare(i)
  <2>1. Live(tasks[i])
    BY <1>4 DEF Compare, At, Live
  <2>2. CASE Shown(i, "refused", FALSE) \/ Shown(i, "error", FALSE)
    BY <1>1, <2>1, <2>2, ShownKeeps
  <2>3. CASE Reviewed(i) = None /\ Crashes(i, FALSE)
    <3>1. tasks[i].plan # None
      BY <1>1 DEF ChangeInv, Reviews, Numbered
    <3>. QED BY <1>1, <2>1, <2>3, <3>1, ShownKeeps DEF Reviewed
  <2>4. CASE /\ tasks' = [tasks EXCEPT ![i].step = "reread", ![i].took = form[f].fields]
             /\ UNCHANGED <<form, app>>
    <3>. DEFINE t == [tasks[i] EXCEPT !.step = "reread", !.took = form[f].fields]
    <3>1. /\ tasks' = [tasks EXCEPT ![i] = t] /\ t \in TaskRecords
          /\ t.form = f /\ t.said = tasks[i].said /\ t.wire = tasks[i].wire
      BY <1>1, <2>4, Typed DEF TaskRecords, Steps
    <3>. HIDE DEF t
    <3>. QED BY <1>1, <2>4, <3>1, MoveKeeps
  <2>. QED BY <1>4, <2>2, <2>3, <2>4 DEF Compare
<1>5. CASE Reread(i)
  <2>1. Live(tasks[i])
    BY <1>5 DEF Reread, At, Live
  <2>2. CASE Shown(i, "refused", FALSE)
    BY <1>1, <2>1, <2>2, ShownKeeps
  <2>3. CASE tasks' = [tasks EXCEPT ![i].step = "ready", ![i].ifMatch = store.rev] /\ UNCHANGED <<form, app>>
    <3>. DEFINE t == [tasks[i] EXCEPT !.step = "ready", !.ifMatch = store.rev]
    <3>1. /\ tasks' = [tasks EXCEPT ![i] = t] /\ t \in TaskRecords
          /\ t.form = f /\ t.said = tasks[i].said /\ t.wire = tasks[i].wire
      BY <1>1, <2>3, Typed DEF TaskRecords, Steps
    <3>. HIDE DEF t
    <3>. QED BY <1>1, <2>3, <3>1, MoveKeeps
  <2>. QED BY <1>5, <2>2, <2>3 DEF Reread
<1>6. CASE Send(i)
  <2>1. PICK rev \in {tasks[i].ifMatch, store.rev} :
          tasks' = [tasks EXCEPT ![i].step = "sent", ![i].wire = "sent", ![i].ifMatch = rev,
                                 ![i].signin = app.signin]
    BY <1>6 DEF Send
  <2>. DEFINE t == [tasks[i] EXCEPT !.step = "sent", !.wire = "sent", !.ifMatch = rev, !.signin = app.signin]
  <2>2. rev \in Nat /\ app.signin \in Nat /\ tasks[i] \in TaskRecords
    BY <1>1, <2>1, Typed DEF TaskRecords, AppRecords
  <2>3. t \in TaskRecords /\ t.form = f /\ t.said = tasks[i].said
    BY <2>2 DEF TaskRecords, Steps
  <2>4. tasks' = [tasks EXCEPT ![i] = t] /\ form' = form /\ app' = app
    BY <1>1, <1>6, <2>1, <2>2 DEF Send, TaskRecords
  <2>5. tasks[i].wire # "done"
    BY <1>1, <1>6, Typed DEF Send, At, Outcome
  <2>. HIDE DEF t
  <2>. QED BY <1>1, <2>3, <2>4, <2>5, MoveKeeps
<1>7. CASE Executes(i)
  <2>1. PICK w \in {"done", "conflict"} : tasks' = [tasks EXCEPT ![i].wire = w]
    BY <1>7 DEF Executes
  <2>. DEFINE t == [tasks[i] EXCEPT !.wire = w]
  <2>2. /\ t \in TaskRecords /\ t.form = f /\ t.said = tasks[i].said
        /\ tasks' = [tasks EXCEPT ![i] = t]
    BY <1>1, <2>1, Typed DEF TaskRecords
  <2>3. tasks[i].wire = "sent" /\ form' = form /\ app' = app
    BY <1>7 DEF Executes
  <2>. HIDE DEF t
  <2>. QED BY <1>1, <2>2, <2>3, MoveKeeps
<1>8. CASE Answered(i)
  <2>1. Live(tasks[i])
    BY <1>8 DEF Answered, At, Live
  <2>2. CASE Shown(i, "refused", FALSE)
    BY <1>1, <2>1, <2>2, ShownKeeps
  <2>3. CASE tasks[i].wire = "done" /\ Concludes(i)
    BY <1>1, <2>1, <2>3, ShownKeeps DEF Concludes
  <2>4. CASE /\ tasks[i].wire = "done" /\ UNCHANGED app
             /\ tasks' = [tasks EXCEPT ![i].step = "follow"]
             /\ form' = [form EXCEPT ![f].saved = @ \/ Kind[f] = "change"]
    <3>. DEFINE t == [tasks[i] EXCEPT !.step = "follow"]
    <3>1. /\ tasks' = [tasks EXCEPT ![i] = t] /\ t \in TaskRecords
          /\ t.form = f /\ t.said = tasks[i].said /\ t.wire = "done"
      BY <1>1, <2>4, Typed DEF TaskRecords, Steps
    <3>. HIDE DEF t
    <3>2. /\ DOMAIN tasks' = DOMAIN tasks /\ tasks'[i] = t
          /\ \A j \in DOMAIN tasks \ {i} : tasks'[j] = tasks[j]
      BY <1>1, <3>1, Replaced DEF ChangeInv
    <3>3. \A j \in DOMAIN tasks : /\ tasks'[j].form = tasks[j].form
                                  /\ tasks[j].wire = "done" => tasks'[j].wire = "done"
                                  /\ tasks'[j].said = "notrun" => authority = "direct"
      BY <1>1, <3>1, <3>2 DEF Ends, NotRun
    <3>4. form' = [form EXCEPT ![f] = [form[f] EXCEPT !.saved = @ \/ Kind[f] = "change"]]
      BY <1>1, <2>4, Typed
    <3>5. \A g \in Forms : /\ form'[g].signin = form[g].signin /\ form'[g].state = form[g].state
                           /\ form'[g].plan = form[g].plan /\ form'[g].applying = form[g].applying
                           /\ g # f => form'[g].saved = form[g].saved
      BY <1>1, <3>4, Typed DEF FormRecords
    <3>. QED BY <1>1, <2>4, <3>2, <3>3, <3>5, SaveKeeps
  <2>. QED BY <1>8, <2>2, <2>3, <2>4 DEF Answered
<1>9. CASE Followed(i) \/ FollowFails(i)
  <2>1. Live(tasks[i]) /\ tasks[i].wire = "done"
    BY <1>1, <1>9, Typed DEF Followed, FollowFails, At, Live, Outcome
  <2>. QED BY <1>1, <1>9, <2>1, ShownKeeps DEF Followed, FollowFails, Concludes
<1>10. CASE SignsOut(i)
  <2>1. PICK said \in {"saved", "nothing"} :
          /\ End(i, said, TRUE) /\ app'.signin = app.signin
          /\ app'.state = "crashed" => app.state = "crashed" \/ form[f].state = "gone"
    BY <1>1, <1>10, Typed DEF SignsOut, AppRecords
  <2>2. f \in Forms /\ form[f].applying /\ Kind[f] = "signout"
    BY <1>1, <1>10, Typed DEF SignsOut, At, Live, ChangeInv, Reviews, OneSave
  <2>3. form[f].state = "gone" => form[f].signin < app.signin
    BY <2>2 DEF Ends, Thrown
  <2>. QED BY <1>1, <2>1, <2>2, <2>3, EndKeeps
<1>11. CASE MutationFinished(i)
  <2>1. /\ app'.signin = app.signin /\ (app'.state = "crashed" => app.state = "crashed")
        /\ form' = form /\ tasks' = tasks
    BY <1>1, <1>11, Typed DEF MutationFinished, AppRecords
  <2>. QED BY <1>1, <2>1, SaveKeeps DEF Ends, NotRun
<1>. QED BY <1>2, <1>3, <1>4, <1>5, <1>6, <1>7, <1>8, <1>9, <1>10, <1>11 DEF Commit

(* So do the steps of a form: a form is put on the screen under the        *)
(* sign-in there is, and while it is being saved only a change of the      *)
(* sign-in takes it off.                                                   *)
LEMMA ScreenKeeps ==
  ASSUME ChangeInv, Ends, NEW f \in Forms,
         \/ Open(f) \/ PressPreview(f) \/ PreviewReturns(f) \/ PressApply(f) \/ Cancel(f)
         \/ \E fields \in Fields : Edit(f, fields)
  PROVE  Ends'
<1>1. Running /\ authority' = authority /\ app' = app
  BY DEF Open, PressPreview, PreviewReturns, PressApply, Cancel, Edit
<1>2. app'.state # "crashed" /\ app.signin \in Nat
  BY <1>1, FormTypes DEF Running, AppRecords
<1>3. form \in [Forms -> FormRecords] /\ form[f] \in FormRecords /\ Gone(f) \in FormRecords
  BY FormTypes, GoneTypes
<1>4. /\ DOMAIN tasks \subseteq DOMAIN tasks' /\ \A j \in DOMAIN tasks : tasks'[j] = tasks[j]
      /\ \A j \in DOMAIN tasks' \ DOMAIN tasks : tasks'[j].said = "nothing"
  <2>1. CASE tasks' = tasks
    BY <2>1
  <2>2. CASE tasks' = Append(tasks, Task(f))
    <3>1. tasks \in Seq(TaskRecords) /\ DOMAIN tasks = 1..Len(tasks) /\ Len(tasks) \in Nat
      BY LenProperties DEF ChangeInv, Types
    <3>2. Task(f) \in TaskRecords /\ Task(f).said = "nothing"
      BY <1>2, <1>3 DEF Task, TaskRecords, FormRecords, Steps
    <3>3. /\ DOMAIN tasks' = DOMAIN tasks \cup {Len(tasks) + 1} /\ Len(tasks) + 1 \notin DOMAIN tasks
          /\ tasks'[Len(tasks) + 1] = Task(f) /\ \A j \in DOMAIN tasks : tasks'[j] = tasks[j]
      BY <2>2, <3>1, <3>2, AppendProperties
    <3>. QED BY <3>2, <3>3
  <2>. QED BY <2>1, <2>2 DEF Open, PressPreview, PreviewReturns, PressApply, Cancel, Edit
<1>5. \A g \in Forms : g # f => form'[g] = form[g]
  <2>1. CASE Open(f)
    BY <1>3, <2>1 DEF Open
  <2>2. CASE PressPreview(f)
    BY <2>2 DEF PressPreview
  <2>3. CASE PreviewReturns(f)
    BY <1>3, <2>3 DEF PreviewReturns
  <2>4. CASE PressApply(f)
    BY <1>3, <2>4 DEF PressApply
  <2>5. CASE Cancel(f)
    BY <1>3, <2>5 DEF Cancel
  <2>6. CASE \E fields \in Fields : Edit(f, fields)
    BY <1>3, <2>6 DEF Edit
  <2>. QED BY <2>1, <2>2, <2>3, <2>4, <2>5, <2>6
<1>6. form'[f].saved = form[f].saved
  <2>1. CASE Open(f)
    BY <1>3, <2>1 DEF Open, FormRecords
  <2>2. CASE PressPreview(f)
    BY <2>2 DEF PressPreview
  <2>3. CASE PreviewReturns(f)
    BY <1>3, <2>3 DEF PreviewReturns, FormRecords
  <2>4. CASE PressApply(f)
    BY <1>3, <2>4 DEF PressApply, FormRecords
  <2>5. CASE Cancel(f)
    BY <1>3, <2>5 DEF Cancel, Gone, FormRecords
  <2>6. CASE \E fields \in Fields : Edit(f, fields)
    <3>1. PICK fields \in Fields : Edit(f, fields)
      BY <2>6
    <3>2. PICK p, a : form' = [form EXCEPT ![f].fields = fields, ![f].plan = p, ![f].apply = a]
      BY <3>1 DEF Edit
    <3>. QED BY <1>3, <3>2 DEF FormRecords
  <2>. QED BY <2>1, <2>2, <2>3, <2>4, <2>5, <2>6
<1>7. /\ form'[f].signin <= app.signin
      /\ form'[f].state = "gone" /\ form'[f].applying => form'[f].signin < app.signin
      /\ form'[f].applying /\ Kind[f] = "change" /\ form'[f].plan = None => form'[f].state = "gone"
  <2>1. CASE Open(f)
    <3>1. ~form[f].applying \/ Kind[f] # "change" \/ form[f].plan # None
      BY <2>1 DEF Open, Ends, Thrown
    <3>2. /\ form'[f].state = "open" /\ form'[f].signin = app.signin /\ form'[f].plan = form[f].plan
          /\ form'[f].applying = form[f].applying
      BY <1>3, <2>1 DEF Open, FormRecords
    <3>. QED BY <1>2, <3>1, <3>2
  <2>2. CASE PressPreview(f)
    <3>1. form' = form
      BY <2>2 DEF PressPreview
    <3>. QED BY <3>1 DEF Ends, Thrown
  <2>3. CASE PreviewReturns(f)
    <3>1. /\ form'[f].state = form[f].state /\ form'[f].signin = form[f].signin
          /\ form'[f].applying = form[f].applying
      <4>1. ASSUME NEW p, NEW a, form' = [form EXCEPT ![f].plan = p, ![f].apply = a]
            PROVE  /\ form'[f].state = form[f].state /\ form'[f].signin = form[f].signin
                   /\ form'[f].applying = form[f].applying
        BY <1>3, <4>1 DEF FormRecords
      <4>2. ASSUME NEW a, form' = [form EXCEPT ![f].apply = a]
            PROVE  /\ form'[f].state = form[f].state /\ form'[f].signin = form[f].signin
                   /\ form'[f].applying = form[f].applying
        BY <1>3, <4>2 DEF FormRecords
      <4>. QED BY <2>3, <4>1, <4>2 DEF PreviewReturns
    <3>2. form'[f].plan = form[f].plan \/ form'[f].plan = Plan(worker[f], spent.reviews)
      BY <1>3, <2>3 DEF PreviewReturns, FormRecords
    <3>3. Plan(worker[f], spent.reviews) # None
      <4>1. worker[f] \in Fields /\ spent.reviews \in 0..MaxReviews
        BY <2>3, FormTypes DEF PreviewReturns
      <4>2. Plan(worker[f], spent.reviews) \in Plans
        BY <4>1, FormTypes DEF Plan, Plans, Fields
      <4>. QED BY <4>2, NoneAssumption
    <3>. QED BY <3>1, <3>2, <3>3 DEF Ends, Thrown
  <2>4. CASE PressApply(f)
    <3>1. CASE MayApply(f)
      <4>1. /\ form'[f].state = "open" /\ form'[f].signin = form[f].signin
            /\ form'[f].plan = form[f].plan /\ form[f].plan # None
        BY <1>3, <2>4, <3>1 DEF PressApply, MayApply, FormRecords
      <4>. QED BY <4>1 DEF Ends, Thrown
    <3>2. CASE ~MayApply(f)
      BY <2>4, <3>2 DEF PressApply, Ends, Thrown
    <3>. QED BY <3>1, <3>2
  <2>5. CASE Cancel(f)
    <3>1. form'[f].signin = form[f].signin /\ ~form'[f].applying
      BY <1>3, <2>5 DEF Cancel, Gone, FormRecords
    <3>. QED BY <3>1 DEF Ends, Thrown
  <2>6. ASSUME NEW fields \in Fields, Edit(f, fields)
        PROVE  /\ form'[f].signin <= app.signin
               /\ form'[f].state = "gone" /\ form'[f].applying => form'[f].signin < app.signin
               /\ form'[f].applying /\ Kind[f] = "change" /\ form'[f].plan = None
                    => form'[f].state = "gone"
    <3>1. /\ form'[f].state = form[f].state /\ form'[f].signin = form[f].signin
          /\ form'[f].applying = form[f].applying
          /\ form[f].applying => form'[f].plan = form[f].plan
      BY <1>3, <2>6 DEF Edit, FormRecords
    <3>. QED BY <3>1 DEF Ends, Thrown
  <2>. QED BY <2>1, <2>2, <2>3, <2>4, <2>5, <2>6
<1>8. \A g \in Forms : /\ form'[g].signin <= app'.signin
                       /\ form'[g].state = "gone" /\ form'[g].applying => form'[g].signin < app'.signin
                       /\ form'[g].applying /\ Kind[g] = "change" /\ form'[g].plan = None
                            => form'[g].state = "gone"
                       /\ form'[g].saved = form[g].saved
  BY <1>1, <1>5, <1>6, <1>7 DEF Ends, Thrown
<1>. QED BY <1>1, <1>2, <1>4, <1>8, FormKeeps

LEMMA OtherKeeps ==
  ASSUME ChangeInv, Ends, SignInChanges \/ Quit \/ OtherWrites
  PROVE  Ends'
<1>1. authority' = authority /\ tasks' = tasks
  BY DEF SignInChanges, Quit, OtherWrites
<1>2. CASE SignInChanges
  <2>1. app'.signin = app.signin + 1 /\ app'.state # "crashed" /\ app.signin \in Nat
    BY <1>2, FormTypes DEF SignInChanges, AppRecords, Running
  <2>2. ASSUME NEW f \in Forms
        PROVE  /\ form'[f].signin = form[f].signin /\ form'[f].saved = form[f].saved
               /\ form'[f].applying = form[f].applying
               /\ form'[f].state = "gone" \/ form'[f] = form[f]
    <3>1. form[f] \in FormRecords /\ form'[f] = IF form[f].state = "open" THEN Gone(f) ELSE form[f]
      BY <1>2, FormTypes DEF SignInChanges
    <3>. QED BY <3>1 DEF Gone, FormRecords
  <2>3. \A f \in Forms : form[f].signin \in Nat
    BY FormTypes DEF FormRecords
  <2>4. \A f \in Forms : form[f].signin <= app.signin /\ form[f].signin < app'.signin
    BY <2>1, <2>3 DEF Ends, Thrown
  <2>5. \A f \in Forms : /\ form'[f].signin <= app'.signin
                         /\ form'[f].state = "gone" /\ form'[f].applying => form'[f].signin < app'.signin
                         /\ form'[f].applying /\ Kind[f] = "change" /\ form'[f].plan = None
                              => form'[f].state = "gone"
                         /\ form'[f].saved = form[f].saved
    BY <2>1, <2>2, <2>3, <2>4 DEF Ends, Thrown
  <2>. QED BY <1>1, <2>1, <2>5, FormKeeps
<1>3. CASE Quit
  <2>1. app'.signin = app.signin /\ app'.state # "crashed" /\ form' = form
    BY <1>3, FormTypes DEF Quit, AppRecords
  <2>. QED BY <1>1, <2>1, FormKeeps DEF Ends, Thrown
<1>4. CASE OtherWrites
  BY <1>4 DEF OtherWrites, Ends, Thrown, Kept, NotRun
<1>. QED BY <1>2, <1>3, <1>4

(* A save that ends the console was of a form whose sign-in is over, a     *)
(* form remembers a save only that was made, and only Direct takes a       *)
(* script for not run.                                                     *)
THEOREM EndsInvariant == Spec => []Ends
<1>1. ASSUME ChangeInv, Ends, [Next]_changeVars
      PROVE  Ends'
  <2>1. CASE UNCHANGED changeVars
    BY <1>1, <2>1 DEF changeVars, Ends, Thrown, Kept, NotRun
  <2>2. CASE Next
    BY <1>1, <2>2, CommitKeeps, ScreenKeeps, OtherKeeps DEF Next
  <2>. QED BY <1>1, <2>1, <2>2
<1>. QED BY <1>1, InitEnds, ChangeInvariant, PTL DEF Spec

(* The console is not left while a save is under way, and it ends beside   *)
(* one only when the sign-in has changed since a form was opened that was  *)
(* being saved.                                                            *)
THEOREM QuitIsHeld == Spec => []QuitWaits
<1>1. ChangeInv /\ Ends => QuitWaits
  <2>. SUFFICES ASSUME ChangeInv, Ends
                PROVE  QuitWaits
    OBVIOUS
  <2>1. app.state = "exited" => ~Unfinished
    BY DEF ChangeInv, Waited, Unfinished, Live
  <2>2. ASSUME app.state = "crashed"
        PROVE  \E i \in DOMAIN tasks : form[tasks[i].form].signin # app.signin
    <3>1. PICK i \in DOMAIN tasks : form[tasks[i].form].signin < app.signin
      BY <2>2 DEF Ends, Thrown
    <3>2. form[tasks[i].form].signin \in Nat /\ app.signin \in Nat
      BY Typed DEF FormRecords, AppRecords
    <3>. QED BY <3>1, <3>2
  <2>. QED BY <2>1, <2>2 DEF QuitWaits
<1>. QED BY <1>1, ChangeInvariant, EndsInvariant, PTL

(* No review is written twice.                                             *)
THEOREM OneWrite == Spec => []OneWritePerReview
<1>1. ChangeInv => OneWritePerReview
  BY DEF ChangeInv, Reviews, UsedOnce, Used, OneWritePerReview
<1>. QED BY <1>1, ChangeInvariant, PTL

(* A change reported as not made is not made later, one reported as saved  *)
(* was made, and so was one a form takes for saved.  Direct is left out:   *)
(* it reports a script that timed out as one that could not be run.        *)
THEOREM OutcomeIsHonest ==
  ASSUME "direct" \notin Authorities
  PROVE  Spec => []OutcomeHonest
<1>1. ChangeInv /\ Ends => OutcomeHonest
  BY DEF ChangeInv, Outcomes, Outcome, Ends, Kept, NotRun, OutcomeHonest
<1>. QED BY <1>1, ChangeInvariant, EndsInvariant, PTL
=============================================================================
