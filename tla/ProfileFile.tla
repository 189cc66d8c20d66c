------------------------------ MODULE ProfileFile ------------------------------
(***************************************************************************)
(* The local profile: one file of addresses, which consoles and runs of    *)
(* "aum configure --save" replace under an OS file lock and a text editor  *)
(* replaces without one.  A console connects before it lets the change     *)
(* stand: profile_transaction writes the file, verifies whoami, and puts   *)
(* the old bytes back when that fails.  A process may die at any step; the *)
(* OS then frees its lock and the file stays as it is.                     *)
(***************************************************************************)
EXTENDS Naturals, FiniteSets

CONSTANTS
    Consoles,       \* processes that change the connection in the terminal UI
    Configures,     \* processes that run aum configure --save
    Contents,       \* the bytes a profile may have
    Missing,        \* there is no file
    Nobody,
    MaxEdits,       \* bound: saves of the editor
    MaxCrashes      \* bound: processes that die

Processes == Consoles \cup Configures

ASSUME ProfileAssumption ==
    /\ Missing \notin Contents /\ Nobody \notin Processes
    /\ MaxEdits \in Nat /\ MaxCrashes \in Nat

VARIABLES
    file,       \* the profile's bytes, or Missing
    backups,    \* the bytes of the timestamped backups, never removed
    lock,       \* the process that holds the lock file
    proc,       \* proc[p]: where p is, and the plan it reviewed
    edits, crashes,
    author,     \* who wrote the file last (history)
    late        \* processes that looked at the file before the editor's last save (history)

profileVars == <<file, backups, lock, proc, edits, crashes, author, late>>

Steps == {"idle", "previewed", "comparing", "locked", "backup", "recheck", "replace", "verifying",
          "written", "restoring", "restore", "saved", "refused", "failed", "manual", "crashed"}

ProfileTypeOK ==
    /\ file \in Contents \cup {Missing} /\ backups \subseteq Contents
    /\ lock \in Processes \cup {Nobody}
    /\ proc \in [Processes -> [step : Steps, want : Contents \cup {Missing},
                               before : Contents \cup {Missing}, backup : Contents \cup {Missing}]]
    /\ edits \in 0..MaxEdits /\ crashes \in 0..MaxCrashes
    /\ author \in Processes \cup {Nobody} /\ late \subseteq Processes

NoPlan == [step |-> "idle", want |-> Missing, before |-> Missing, backup |-> Missing]

ProfileInit ==
    /\ file \in Contents \cup {Missing}
    /\ backups = {} /\ lock = Nobody
    /\ proc = [p \in Processes |-> NoPlan]
    /\ edits = 0 /\ crashes = 0 /\ author = Nobody /\ late = {}

At(p, step) == proc[p].step = step
Goes(p, step) == proc' = [proc EXCEPT ![p].step = step]
Leaves(p, step) == proc' = [proc EXCEPT ![p] = [NoPlan EXCEPT !.step = step]]
(* Once p has looked at the file it knows of every save before. *)
Looks(p) == late' = late \ {p}

-----------------------------------------------------------------------------
Written == {"verifying", "written", "restoring", "restore"}
Over == {"saved", "refused", "failed", "manual", "crashed"}
(* preview_profile: the proposed bytes, and the file as it is.  A form     *)
(* that was refused can be previewed again, a process started again.       *)
Preview(p) ==
    /\ proc[p].step \in Over \cup {"idle", "previewed"}
    /\ \E want \in Contents :
        proc' = [proc EXCEPT ![p] = [step |-> "previewed", want |-> want, before |-> file, backup |-> Missing]]
    /\ Looks(p)
    /\ UNCHANGED <<file, backups, lock, edits, crashes, author>>

(* Save and connect: a fresh preview is compared with the reviewed one.    *)
Compare(p) ==
    /\ p \in Consoles /\ At(p, "previewed")
    /\ IF file = proc[p].before THEN Goes(p, "comparing") ELSE Leaves(p, "refused")
    /\ Looks(p)
    /\ UNCHANGED <<file, backups, lock, edits, crashes, author>>

(* Mutant: the lock is taken whoever holds it. *)
FreeForAnyone(p) == TRUE
Free(p) == lock = Nobody
(* profile_lock does not wait. *)
Lock(p) ==
    /\ \/ p \in Consoles /\ At(p, "comparing")
       \/ p \in Configures /\ At(p, "previewed")
    /\ IF Free(p) THEN lock' = p /\ Goes(p, "locked") ELSE Leaves(p, "refused") /\ UNCHANGED lock
    /\ UNCHANGED <<file, backups, edits, crashes, author, late>>

(* require_profile_revision *)
Reviewed(p) == file = proc[p].before
Refuses(p) == Leaves(p, "refused") /\ lock' = Nobody

(* _save_profile_locked: check, back up, check, replace. *)
Check(p) ==
    /\ At(p, "locked") /\ Looks(p)
    /\ IF Reviewed(p) THEN Goes(p, "backup") /\ UNCHANGED lock ELSE Refuses(p)
    /\ UNCHANGED <<file, backups, edits, crashes, author>>

(* Mutant: a backup of what the preview proposed. *)
BackupOfWanted(p) == proc[p].want
(* backup_profile copies the bytes it finds now. *)
Copied(p) == file
BacksUp == file # Missing
Backup(p) ==
    /\ At(p, "backup")
    /\ IF BacksUp
       THEN /\ proc' = [proc EXCEPT ![p].step = "recheck", ![p].backup = Copied(p)]
            /\ backups' = backups \cup {Copied(p)}
       ELSE Goes(p, "recheck") /\ UNCHANGED backups
    /\ UNCHANGED <<file, lock, edits, crashes, author, late>>

Recheck(p) ==
    /\ At(p, "recheck") /\ Looks(p)
    /\ IF Reviewed(p) THEN Goes(p, "replace") /\ UNCHANGED lock ELSE Refuses(p)
    /\ UNCHANGED <<file, backups, edits, crashes, author>>

(* replace_profile: a temporary file takes the profile's place.  The       *)
(* configure command is done; a console goes on to verify the connection.  *)
Replace(p) ==
    /\ At(p, "replace")
    /\ file' = proc[p].want /\ author' = p
    /\ IF p \in Consoles
       THEN Goes(p, "verifying") /\ UNCHANGED lock
       ELSE Leaves(p, "saved") /\ lock' = Nobody
    /\ UNCHANGED <<backups, edits, crashes, late>>

(* whoami of the new connection; then the saved bytes are checked.  *)
WhoamiSucceeds(p) ==
    /\ At(p, "verifying") /\ Goes(p, "written")
    /\ UNCHANGED <<file, backups, lock, edits, crashes, author, late>>
WhoamiFails(p) ==
    /\ At(p, "verifying") /\ Goes(p, "restoring")
    /\ UNCHANGED <<file, backups, lock, edits, crashes, author, late>>

(* The transaction's own bytes are still there. *)
Stands(p) == file = proc[p].want
Adopt(p) ==
    /\ At(p, "written") /\ Looks(p)
    /\ IF Stands(p)
       THEN Leaves(p, "saved") /\ lock' = Nobody
       ELSE Goes(p, "restoring") /\ UNCHANGED lock
    /\ UNCHANGED <<file, backups, edits, crashes, author>>

(* Only this transaction's bytes are taken back. *)
Own(p) == file = proc[p].want
CheckOwn(p) ==
    /\ At(p, "restoring") /\ Looks(p)
    /\ IF Own(p) THEN Goes(p, "restore") /\ UNCHANGED lock ELSE Leaves(p, "failed") /\ lock' = Nobody
    /\ UNCHANGED <<file, backups, edits, crashes, author>>

Old(p) == proc[p].backup
(* The backup's bytes, or no file; an application that holds the file      *)
(* leaves it to the operator, with the backup's path.                      *)
Restore(p) ==
    /\ At(p, "restore") /\ lock' = Nobody
    /\ \/ file' = Old(p) /\ author' = p /\ Leaves(p, "failed")
       \/ Goes(p, "manual") /\ UNCHANGED <<file, author>>
    /\ UNCHANGED <<backups, edits, crashes, late>>

(* The editor saves or removes the file, lock or no lock. *)
Edit ==
    /\ edits < MaxEdits /\ edits' = edits + 1
    /\ \E c \in (Contents \cup {Missing}) \ {file} : file' = c
    /\ author' = Nobody /\ late' = Processes
    /\ UNCHANGED <<backups, lock, proc, crashes>>

Dies(p) ==
    /\ crashes < MaxCrashes /\ crashes' = crashes + 1
    /\ proc[p].step \notin Over \cup {"idle"}
    /\ IF proc[p].step \in Written THEN Goes(p, "crashed") ELSE Leaves(p, "idle")
    /\ lock' = IF lock = p THEN Nobody ELSE lock
    /\ UNCHANGED <<file, backups, edits, author, late>>

ProfileNext ==
    \/ \E p \in Processes :
        \/ Preview(p) \/ Compare(p) \/ Lock(p) \/ Check(p) \/ Backup(p) \/ Recheck(p) \/ Replace(p)
        \/ WhoamiSucceeds(p) \/ WhoamiFails(p) \/ Adopt(p) \/ CheckOwn(p) \/ Restore(p) \/ Dies(p)
    \/ Edit

ProfileSpec == ProfileInit /\ [][ProfileNext]_profileVars

-----------------------------------------------------------------------------
(* Whoever replaces the file finds in it what it reviewed, or wrote itself, *)
(* unless an editor has saved since it looked.                             *)
ReplacesKnown ==
    \A p \in Processes : (file' # file /\ author' = p) =>
        \/ p \in late
        \/ At(p, "replace") /\ file = proc[p].before
        \/ At(p, "restore") /\ file = proc[p].want

(* A process replaces the bytes it reviewed, or takes back its own: what   *)
(* another AUM process wrote is never lost, nor what an editor saved before *)
(* the process last looked at the file.                                    *)
NewerKept == [][ReplacesKnown]_profileVars

(* While a connection is unverified, and after its process died there, the *)
(* file it replaced is kept: in a backup, unless there was none.  (Two     *)
(* saves of an editor, away and back between the two checks, make the      *)
(* backup one of other bytes.)                                             *)
OldRecoverable ==
    \A p \in Consoles :
        (author = p /\ proc[p].step \in Written \cup {"manual", "crashed"} /\ edits < 2) =>
            proc[p].backup = proc[p].before /\ proc[p].backup \in backups \cup {Missing}
=============================================================================
