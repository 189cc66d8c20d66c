--------------------------- MODULE GuardedPublication ---------------------------
(***************************************************************************)
(* The boundary between what the console has read and what its terminal    *)
(* shows (guarded_publication.py, publication_widgets.py).  Everything     *)
(* that was read carries an origin: a guard that is asked again whenever   *)
(* the data is written to a widget, derived from it, copied or announced,  *)
(* and when a widget of the framework draws it, however much later a       *)
(* callback of the framework does so.  A thread that verifies the sign-in  *)
(* may change it between any two of these steps, but not within one: a     *)
(* guard holds the credential lock while it is entered.                    *)
(*                                                                         *)
(* An origin is the set of the sign-ins (identity_revision) it insists on; *)
(* the empty one is safe_message_guard.                                    *)
(***************************************************************************)
EXTENDS Naturals

CONSTANTS
    Widgets,
    Natives,        \* those the framework makes itself, which ask before they draw
    MaxRevision,    \* bound: sign-ins
    MaxReads        \* bound: reads that are published

ASSUME PublicationAssumption == Natives \subseteq Widgets /\ MaxRevision \in Nat /\ MaxReads \in Nat

VARIABLES
    revision,   \* Engine.identity_revision
    app,        \* [revision, told]: _principal_revision; whether _synchronize_principal is scheduled
    widget,     \* widget[w]: [data, origin, content]
    work,       \* the renderers, deferred callbacks and watchers that have yet to run
    notes,      \* notifications
    shown,      \* shown[w]: what the terminal shows of w
    dirty,      \* widgets that are going to be drawn
    clipboard,
    reads

publicationVars == <<revision, app, widget, work, notes, shown, dirty, clipboard, reads>>

Revisions == 0..MaxRevision
Safe == {}
(* data: the sign-ins for which what the widget holds was read; origin:    *)
(* _publication_origin; content: the same without what input has added.    *)
Blank == [data |-> {}, origin |-> Safe, content |-> Safe]
Work == [origin : SUBSET Revisions, data : SUBSET Revisions, to : Widgets,
         step : {"sync", "async", "running"}]
Notes == [origin : SUBSET Revisions, data : SUBSET Revisions,
          step : {"posted", "accepted", "mounted", "drawn"}]

PublicationTypeOK ==
    /\ revision \in Revisions
    /\ app \in [revision : Revisions, told : BOOLEAN]
    /\ widget \in [Widgets -> [data : SUBSET Revisions, origin : SUBSET Revisions, content : SUBSET Revisions]]
    /\ work \subseteq Work /\ notes \subseteq Notes
    /\ shown \in [Widgets -> SUBSET Revisions] /\ dirty \subseteq Widgets
    /\ clipboard \subseteq Revisions /\ reads \in 0..MaxReads

PublicationInit ==
    /\ revision = 0 /\ app = [revision |-> 0, told |-> FALSE]
    /\ widget = [w \in Widgets |-> Blank]
    /\ work = {} /\ notes = {}
    /\ shown = [w \in Widgets |-> {}] /\ dirty = {}
    /\ clipboard = {} /\ reads = 0

-----------------------------------------------------------------------------
(* A guard can be entered now. *)
Admits(origin) == origin \subseteq {revision}

(* widget_sink: the content is replaced and comes under this origin. *)
WidgetSink(w, origin, data) ==
    /\ widget' = [widget EXCEPT ![w] = [data |-> data, origin |-> origin, content |-> origin]]
    /\ dirty' = dirty \cup {w}

(* _clear_principal_state: the notifications that are still messages stay. *)
ClearExcept(messages) ==
    /\ app' = [revision |-> revision, told |-> FALSE]
    /\ widget' = [w \in Widgets |-> Blank]
    /\ dirty' = Widgets
    /\ notes' = {n \in notes : n.step = "posted"} \ messages
Clear == ClearExcept({})

(* _synchronize_principal: called back, or before an event is handled. *)
SynchronizePrincipal ==
    /\ app.told \/ app.revision # revision
    /\ IF app.revision # revision
       THEN Clear
       ELSE app' = [app EXCEPT !.told = FALSE] /\ UNCHANGED <<widget, dirty, notes>>
    /\ UNCHANGED <<revision, work, shown, clipboard, reads>>

(* Mutant: the console waits for the next event to notice. *)
VerifiedQuietly == UNCHANGED app
(* _principal_verified *)
Verified == app' = [app EXCEPT !.told = TRUE]
(* whoami, in a thread, finds another identity. *)
SignInChanges ==
    /\ revision < MaxRevision /\ revision' = revision + 1
    /\ Verified
    /\ UNCHANGED <<widget, work, notes, shown, dirty, clipboard, reads>>

-----------------------------------------------------------------------------
(* A read has been answered; its renderer writes at once or goes on after  *)
(* an await, or its text is announced (publish_notification).              *)
Read(w) ==
    /\ reads < MaxReads /\ reads' = reads + 1
    /\ \/ /\ \E step \in {"sync", "async"} :
                work' = work \cup {[origin |-> {revision}, data |-> {revision}, to |-> w, step |-> step]}
          /\ UNCHANGED notes
       \/ /\ notes' = notes \cup {[origin |-> {revision}, data |-> {revision}, step |-> "posted"]}
          /\ UNCHANGED work
    /\ UNCHANGED <<revision, app, widget, shown, dirty, clipboard>>

(* What the framework derives from a widget later on comes under its       *)
(* origin: watchers of its attributes, the widgets it mounts.              *)
RetainedOrigin(w) == widget[w].origin
Derive(w, v) ==
    /\ w # v /\ widget[w].data # {}
    /\ work' = work \cup {[origin |-> RetainedOrigin(w), data |-> widget[w].data, to |-> v, step |-> "async"]}
    /\ UNCHANGED <<revision, app, widget, notes, shown, dirty, clipboard, reads>>

(* _reject_publication: an origin that is refused clears the console. *)
Refuse == Clear /\ UNCHANGED <<revision, shown, clipboard, reads>>
Write(d) ==
    /\ WidgetSink(d.to, d.origin, d.data)
    /\ UNCHANGED <<revision, app, notes, shown, clipboard, reads>>

(* guarded_publish around a synchronous renderer or callback *)
Run(d) ==
    /\ d.step = "sync" /\ work' = work \ {d}
    /\ IF Admits(d.origin) THEN Write(d) ELSE Refuse

(* run_async: the origin is entered and left before the body begins. *)
Start(d) ==
    /\ d.step = "async"
    /\ IF Admits(d.origin)
       THEN /\ work' = (work \ {d}) \cup {[d EXCEPT !.step = "running"]}
            /\ UNCHANGED <<revision, app, widget, notes, shown, dirty, clipboard, reads>>
       ELSE work' = work \ {d} /\ Refuse

(* Mutant: a body that was admitted writes without asking again. *)
SinkAdmitted(d) == TRUE
(* publication_sink *)
SinkAdmits(d) == Admits(d.origin)
Sink(d) ==
    /\ d.step = "running" /\ work' = work \ {d}
    /\ IF SinkAdmits(d) THEN Write(d) ELSE Refuse

-----------------------------------------------------------------------------
(* input_origin: keys and pasted text extend what the widget holds; the    *)
(* origin of that and the current sign-in must both admit them.            *)
InputOrigin(w) == widget[w].content \cup {revision}
Type(w) ==
    /\ IF Admits(InputOrigin(w))
       THEN /\ widget' = [widget EXCEPT ![w].origin = InputOrigin(w)]
            /\ dirty' = dirty \cup {w}
            /\ UNCHANGED <<revision, app, notes, shown, clipboard, reads>>
       ELSE Refuse
    /\ UNCHANGED work

(* action_copy, and copy_to_clipboard within it *)
Copy(w) ==
    /\ widget[w].data # {}
    /\ IF Admits(InputOrigin(w))
       THEN clipboard' = widget[w].data /\ UNCHANGED <<revision, app, widget, notes, shown, dirty, reads>>
       ELSE Refuse
    /\ UNCHANGED work

(* The framework draws what a widget holds.  Only the widgets it made      *)
(* itself (_protect_native_widget) ask before, and draw content that has   *)
(* expired blank; the console's own, Static, Label, DataTable and the      *)
(* rest, draw it until it is cleared.  (That the user is told, in a        *)
(* notification of no origin, is left out.)                                *)
Draw(w) ==
    /\ shown' = [shown EXCEPT ![w] = IF w \in Natives /\ ~Admits(widget[w].origin) THEN {} ELSE widget[w].data]
    /\ dirty' = dirty \ {w}
    /\ UNCHANGED <<revision, app, widget, work, notes, clipboard, reads>>

(* _on_notify, _deliver_notifications (which asks the origins of all that  *)
(* are waiting), and the toast's render.                                   *)
Moved(n, step) == notes' = (notes \ {n}) \cup {[n EXCEPT !.step = step]}
Dropped(n) == ClearExcept({n}) /\ UNCHANGED <<revision, work, shown, clipboard, reads>>
Notified(n, step) ==
    Moved(n, step) /\ UNCHANGED <<revision, app, widget, work, shown, dirty, clipboard, reads>>
Accept(n) ==
    /\ n.step = "posted"
    /\ IF Admits(n.origin) THEN Notified(n, "accepted") ELSE Dropped(n)
Deliver(n) ==
    /\ n.step = "accepted"
    /\ IF \A m \in notes : m.step # "posted" => Admits(m.origin) THEN Notified(n, "mounted") ELSE Dropped(n)
DrawToast(n) ==
    /\ n.step = "mounted"
    /\ IF Admits(n.origin) THEN Notified(n, "drawn") ELSE Dropped(n)
Timeout(n) ==
    /\ n.step \in {"accepted", "mounted", "drawn"} /\ notes' = notes \ {n}
    /\ UNCHANGED <<revision, app, widget, work, shown, dirty, clipboard, reads>>

-----------------------------------------------------------------------------
Callback(d) == Run(d) \/ Start(d) \/ Sink(d)
Notification(n) == Accept(n) \/ Deliver(n) \/ DrawToast(n)
PublicationNext ==
    \/ SignInChanges \/ SynchronizePrincipal
    \/ \E w \in Widgets : Read(w) \/ Type(w) \/ Copy(w) \/ Draw(w) \/ \E v \in Widgets : Derive(w, v)
    \/ \E d \in work : Callback(d)
    \/ \E n \in notes : Notification(n) \/ Timeout(n)
PublicationSpec == PublicationInit /\ [][PublicationNext]_publicationVars

(* The loop runs what was scheduled and draws what has changed; nothing    *)
(* makes it draw a widget that has not.                                    *)
PublicationFairSpec ==
    /\ PublicationSpec
    /\ WF_publicationVars(SynchronizePrincipal /\ app.told)
    /\ \A w \in Widgets : WF_publicationVars(w \in dirty /\ Draw(w))

-----------------------------------------------------------------------------
(* What this step writes, draws, announces or copies was read for the      *)
(* sign-in that is verified, except that one of the console's own widgets  *)
(* may be drawn again as it was, once it is scheduled to be cleared.       *)
CurrentComesUp ==
    /\ \A w \in Widgets :
        /\ widget'[w].data # widget[w].data => widget'[w].data \subseteq {revision}
        /\ shown'[w] # shown[w] => shown'[w] \subseteq {revision} \/ (w \notin Natives /\ app.told)
    /\ \A n \in notes' \ notes : n.step = "drawn" => n.data \subseteq {revision}
    /\ clipboard' # clipboard => clipboard' \subseteq {revision}

(* Nothing that was read for one sign-in is written to a widget, announced *)
(* or copied when another one is verified: not by a callback that was      *)
(* admitted before, nor by the framework deriving or extending what a      *)
(* widget holds.  What a widget of the framework draws again is current,   *)
(* and what the console's own widgets draw is current or about to go: no   *)
(* old data is on a screen that the console believes to be up to date.     *)
OnlyCurrentComesUp == [][CurrentComesUp]_publicationVars

(* What was on the screen when the sign-in changed leaves it without the   *)
(* user doing anything.                                                    *)
ForgetsOldSignIn ==
    <>[](/\ \A w \in Widgets : shown[w] \subseteq {revision}
         /\ \A n \in notes : n.step = "drawn" => n.data \subseteq {revision})
=============================================================================
