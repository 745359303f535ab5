------------------------------ MODULE Install ------------------------------
(***************************************************************************)
(* Installing, updating, repairing and removing the Windows broker         *)
(* (src/src/switcher/winbroker/install.rs): two executables in Program     *)
(* Files, the record of a service the pipe starts on demand, and what      *)
(* surrounds them.  Several installers may run, each a process that dies   *)
(* at any step; the service stops when it likes, not when it is told to,   *)
(* and locks its executable until then.  Prompts are the module Cli's: an  *)
(* installer is here the elevated half of run_install, run_uninstall or    *)
(* run_repair.                                                             *)
(***************************************************************************)
EXTENDS FiniteSets

CONSTANTS
  Installers,   \* processes that install, remove or repair
  Versions,     \* the versions of the package they may come from
  InDir,        \* the installed CLI, which may install, remove or repair too
  None,         \* no file
  Torn,         \* what a copy leaves that fails or is killed half-way
  Faults        \* which of FaultKinds may happen

FaultKinds == {"source",   \* no CLI beside the running binary
               "copy",     \* a copy fails, at its start or half-way
               "register", \* the record or its trigger cannot be written
               "key",      \* the uninstall entry cannot be written
               "task",     \* schtasks does not delete the task
               "unkey",    \* the uninstall entry cannot be deleted
               "schedule", \* a deletion at the next boot cannot be scheduled
               "kill"}     \* an installer dies

ASSUME VersionsAssumption ==
  {None, Torn, InDir} \cap Versions = {} /\ None # Torn /\ InDir \notin {None, Torn}
ASSUME FaultsAssumption == Faults \subseteq FaultKinds

VARIABLES
  file,       \* file["cli"], file["gui"]: what the install directory holds
  dir,        \* the directory: "none", "ours" (Administrators' or SYSTEM's), "foreign"
  record,     \* the service record: "absent", "present", "doomed" (marked for delete)
  image,      \* where it points: "dir", or "elsewhere" (an earlier location)
  trigger,    \* whether opening the pipe starts the service
  running,    \* the executable the service process runs: "none" or an image
  task,       \* the scheduled task of the builds before the broker
  key,        \* the uninstall entry of the registry
  pending,    \* files Windows removes at the next boot
  window,     \* a GUI runs from the install directory
  at, op, from, \* per installer: its place, operation, and where it runs from
  claim,      \* what the last operation reported, until the next one begins
  alone,      \* no other installer ran during the last operation
  ignored,    \* failures that operation met and did not report
  swept       \* a restart has removed the installed CLI since

serviceVars == <<record, image, trigger>>
extras == <<task, key, ignored>>
files == <<file, dir, pending>>
history == <<claim, alone, swept>>
vars == <<files, serviceVars, running, extras, window, at, op, from, history>>

Exes == {"cli", "gui"}
Images == {"dir", "elsewhere"}
Operations == {"install", "uninstall", "repair"}
Places == {"idle", "prepare", "stop", "copyCli", "copyGui", "repair", "register",
           "trigger", "complete", "delete", "clean", "remove", "schedule"}
Claims == {"nothing", "installed", "removed", "repaired"}
Ignorable == {"task", "unkey", "schedule"}

TypeOK ==
  /\ file \in [Exes -> Versions \cup {None, Torn}]
  /\ dir \in {"none", "ours", "foreign"}
  /\ record \in {"absent", "present", "doomed"}
  /\ image \in Images
  /\ running \in Images \cup {"none"}
  /\ pending \subseteq Exes
  /\ ignored \subseteq Ignorable
  /\ {trigger, task, key, window, alone, swept} \subseteq BOOLEAN
  /\ at \in [Installers -> Places]
  /\ \A i \in Installers : at[i] = "idle" <=> op[i] = "none"
  /\ op \in [Installers -> Operations \cup {"none"}]
  /\ from \in [Installers -> Versions \cup {InDir, None}]
  /\ claim \in Claims

\* Nothing of the broker is installed in the directory; an earlier build may have
\* left a task, or a service in another place, and somebody the directory.
Init ==
  /\ file = [f \in Exes |-> None]
  /\ dir \in {"none", "foreign"}
  /\ record \in {"absent", "present"}
  /\ image = "elsewhere"
  /\ trigger = (record = "present")
  /\ running = "none"
  /\ task \in BOOLEAN /\ key = FALSE
  /\ pending = {} /\ window = FALSE
  /\ at = [i \in Installers |-> "idle"]
  /\ op = [i \in Installers |-> "none"]
  /\ from = [i \in Installers |-> None]
  /\ claim = "nothing" /\ alone = TRUE /\ ignored = {} /\ swept = FALSE

-----------------------------------------------------------------------------
(* State functions *)

May(fault) == fault \in Faults
Idle(i) == at[i] = "idle"
Active(i) == ~Idle(i)
Exists(f) == file[f] # None

\* owned_by_admin_or_system; what do_install creates inherits such an owner.
OwnedByAdmin == dir # "foreign"

\* same_file, for the source of a copy and its target.
SameFile(i) == from[i] = InDir

\* open_service: a record marked for deletion still opens.
Opens == record # "absent"

\* Whom Windows lets nobody overwrite or delete: a running executable.
Locked(f) == \/ f = "cli" /\ running = "dir"
             \/ f = "gui" /\ window
             \/ f = "cli" /\ \E i \in Installers : from[i] = InDir

\* is_current: the record points at the installed CLI and the file exists.
IsCurrent == Opens /\ image = "dir" /\ Exists("cli")

\* A client that opens the pipe gets a service.
Serviceable == /\ record = "present" /\ trigger
               /\ image = "dir" => file["cli"] \in Versions

-----------------------------------------------------------------------------
(* How a step ends *)

Goto(i, place) == /\ at' = [at EXCEPT ![i] = place]
                  /\ UNCHANGED <<op, from, history>>

FinishQuietly(i, says) ==  \* mutant: the end of an operation is not recorded
  /\ at' = [at EXCEPT ![i] = "idle"]
  /\ from' = [from EXCEPT ![i] = None]
  /\ claim' = IF alone THEN says ELSE "nothing"
  /\ UNCHANGED <<op, alone, swept>>

\* The operation returns, with Ok or with the error of one of its `?`, and the
\* process ends.
Finish(i, says) == /\ at' = [at EXCEPT ![i] = "idle"]
                   /\ op' = [op EXCEPT ![i] = "none"]
                   /\ from' = [from EXCEPT ![i] = None]
                   /\ claim' = IF alone THEN says ELSE "nothing"
                   /\ UNCHANGED <<alone, swept>>
Fail(i) == Finish(i, "nothing")

\* Failures the code does not look at, kept for an operation that runs alone.
Ignore(failures) == ignored' = IF alone THEN ignored \cup failures ELSE ignored

-----------------------------------------------------------------------------
(* The operations *)

First(o) == CASE o = "install" -> "prepare" [] o = "uninstall" -> "stop"
              [] o = "repair" -> "repair"

\* run_install, run_uninstall, run_repair, from a package or from the directory.
Begin(i) ==
  /\ Idle(i)
  /\ \E o \in Operations, s \in Versions \cup {InDir} :
       /\ s = InDir => file["cli"] \in Versions
       /\ op' = [op EXCEPT ![i] = o]
       /\ from' = [from EXCEPT ![i] = s]
       /\ at' = [at EXCEPT ![i] = First(o)]
  /\ claim' = "nothing"
  /\ alone' = \A j \in Installers : Idle(j)
  /\ ignored' = {} /\ swept' = FALSE
  /\ UNCHANGED <<files, serviceVars, running, task, key, window>>

\* The source has a CLI; a directory that exists is used only if it is owned by
\* Administrators or SYSTEM.
Prepare(i) ==
  /\ at[i] = "prepare"
  /\ UNCHANGED <<file, pending, serviceVars, running, extras, window>>
  /\ \/ /\ \/ from[i] \in Versions /\ May("source")
           \/ ~OwnedByAdmin
        /\ Fail(i)
        /\ UNCHANGED dir
     \/ /\ OwnedByAdmin
        /\ dir' = "ours"
        /\ Goto(i, "stop")

\* stop_service: a control sent, not awaited, its failure ignored.  The service ends
\* when it does (ServiceEnds), or never.
Stop(i) ==
  /\ at[i] = "stop"
  /\ Goto(i, IF op[i] = "install" THEN "copyCli" ELSE "delete")
  /\ UNCHANGED <<files, serviceVars, running, extras, window>>

\* copy_if_different: nothing to do when installing onto itself.  The target is
\* truncated first, so that a copy that fails half-way leaves it torn.
Copy(i, place, f, next) ==
  /\ at[i] = place
  /\ UNCHANGED <<dir, pending, serviceVars, running, extras, window>>
  /\ \/ SameFile(i) /\ Goto(i, next) /\ UNCHANGED file
     \/ /\ from[i] \in Versions
        /\ Locked(f) \/ May("copy") \/ dir # "ours"  \* removed since
        /\ Fail(i)
        /\ UNCHANGED file
     \/ /\ from[i] \in Versions /\ ~Locked(f) /\ dir = "ours"
        /\ May("copy")
        /\ file' = [file EXCEPT ![f] = Torn]
        /\ Fail(i)
     \/ /\ from[i] \in Versions /\ ~Locked(f) /\ dir = "ours"
        /\ file' = [file EXCEPT ![f] = from[i]]
        /\ Goto(i, next)

CopyCli(i) == Copy(i, "copyCli", "cli", "copyGui")
\* A package may hold no GUI.
CopyGui(i) == \/ Copy(i, "copyGui", "gui", "register")
              \/ /\ at[i] = "copyGui" /\ from[i] \in Versions
                 /\ Goto(i, "register")
                 /\ UNCHANGED <<files, serviceVars, running, extras, window>>

\* run_repair needs the installed CLI.
Repair(i) ==
  /\ at[i] = "repair"
  /\ IF Exists("cli") THEN Goto(i, "register") ELSE Fail(i)
  /\ UNCHANGED <<files, serviceVars, running, extras, window>>

RegisterAnew(i) ==  \* mutant: deletes the record and creates it again
  /\ at[i] = "register"
  /\ \/ /\ record # "absent"
        /\ record' = IF running = "none" THEN "absent" ELSE "doomed"
        /\ (IF running = "none" THEN Goto(i, "register") ELSE Fail(i))
        /\ UNCHANGED <<image, trigger>>
     \/ /\ record = "absent"
        /\ record' = "present" /\ image' = "dir" /\ trigger' = FALSE
        /\ Goto(i, "trigger")
  /\ UNCHANGED <<files, running, extras, window>>

\* register_or_update_service: ChangeServiceConfig on a record that opens, else
\* CreateService; both are refused while it is marked for deletion.
Register(i) ==
  /\ at[i] = "register"
  /\ \/ /\ record = "doomed" \/ May("register")
        /\ Fail(i)
        /\ UNCHANGED serviceVars
     \/ /\ record # "doomed"
        /\ record' = "present" /\ image' = "dir"
        /\ trigger' = (trigger /\ record = "present")
        /\ Goto(i, "trigger")
  /\ UNCHANGED <<files, running, extras, window>>

SetTriggerIfNew(i) ==  \* mutant: takes any record to have its trigger
  /\ at[i] = "trigger"
  /\ (IF op[i] = "install" THEN Goto(i, "complete") ELSE Finish(i, "repaired"))
  /\ UNCHANGED <<serviceVars, files, running, extras, window>>

SetTriggerRetries(i) ==  \* mutant: tries again while the record is marked
  /\ at[i] = "trigger"
  /\ record = "present" => trigger' = TRUE
  /\ record = "doomed" => trigger' = trigger
  /\ (IF record = "doomed" THEN Goto(i, "trigger")
      ELSE IF op[i] = "install" THEN Goto(i, "complete") ELSE Finish(i, "repaired"))
  /\ UNCHANGED <<record, image, files, running, extras, window>>

\* configure_pipe_trigger, on the handle just obtained.
SetTrigger(i) ==
  /\ at[i] = "trigger"
  /\ \/ /\ record = "doomed" \/ May("register")
        /\ Fail(i)
        /\ UNCHANGED trigger
     \/ /\ record = "present"
        /\ trigger' = TRUE
        /\ IF op[i] = "install" THEN Goto(i, "complete") ELSE Finish(i, "repaired")
  /\ UNCHANGED <<record, image, files, running, extras, window>>

\* The rest of do_install: the task of earlier builds goes if schtasks will, the
\* uninstall entry must be written; the Start-menu shortcut need not be and is left out.
Complete(i) ==
  /\ at[i] = "complete"
  /\ \E left \in SUBSET (Faults \cap {"task"}) :
       /\ task' = IF left = {} THEN FALSE ELSE task
       /\ Ignore(left)
  /\ \/ May("key") /\ Fail(i) /\ key' = key
     \/ key' = TRUE /\ Finish(i, "installed")
  /\ UNCHANGED <<files, serviceVars, running, window>>

\* A handle to the record, kept from Register to SetTrigger.
Held == \E j \in Installers : at[j] = "trigger"

\* delete_service: at once when nobody uses the service, else when it ends; to
\* delete it twice is an error.
Delete(i) ==
  /\ at[i] = "delete"
  /\ \/ /\ ~Opens
        /\ Goto(i, "clean") /\ UNCHANGED record
     \/ /\ record = "present"
        /\ record' = IF running = "none" /\ ~Held THEN "absent" ELSE "doomed"
        /\ Goto(i, "clean")
     \/ /\ record = "doomed" \/ (May("register") /\ record = "present")
        /\ Fail(i) /\ UNCHANGED record
  /\ UNCHANGED <<image, trigger, files, running, extras, window>>

\* remove_legacy_task, remove_uninstall_key: what fails there is not looked at.
Clean(i) ==
  /\ at[i] = "clean"
  /\ \E left \in SUBSET (Faults \cap {"task", "unkey"}) :
       /\ task' = IF "task" \in left THEN task ELSE FALSE
       /\ key' = IF "unkey" \in left THEN key ELSE FALSE
       /\ Ignore(left)
  /\ Goto(i, "remove")
  /\ UNCHANGED <<files, serviceVars, running, window>>

RemoveOnly(i) ==  \* mutant: what is in use is left there for good
  /\ at[i] = "remove"
  /\ file' = [f \in Exes |-> IF Locked(f) THEN file[f] ELSE None]
  /\ Finish(i, "removed")
  /\ UNCHANGED <<dir, pending, serviceVars, running, extras, window>>

\* remove_dir_all stops at the first file in use, some of the others removed.
Remove(i) ==
  /\ at[i] = "remove"
  /\ \/ /\ dir # "none" /\ \A f \in Exes : ~(Exists(f) /\ Locked(f))
        /\ file' = [f \in Exes |-> None]
        /\ dir' = "none"
        /\ Finish(i, "removed")
     \/ /\ dir = "none" \/ \E f \in Exes : Exists(f) /\ Locked(f)
        /\ \E gone \in SUBSET {f \in Exes : ~Locked(f)} :
             file' = [f \in Exes |-> IF f \in gone THEN None ELSE file[f]]
        /\ dir' = dir
        /\ Goto(i, "schedule")
  /\ UNCHANGED <<pending, serviceVars, running, extras, window>>

\* schedule_delete_on_reboot: by name, for the files that exist now; it may fail for
\* any of them, unseen.
Schedule(i) ==
  /\ at[i] = "schedule"
  /\ \E left \in SUBSET {f \in Exes : Exists(f)} :
       /\ left # {} => May("schedule")
       /\ pending' = pending \cup {f \in Exes : Exists(f) /\ f \notin left}
       /\ Ignore(IF left = {} THEN {} ELSE {"schedule"})
  /\ Finish(i, "removed")
  /\ UNCHANGED <<file, dir, serviceVars, running, task, key, window>>

-----------------------------------------------------------------------------
(* Windows, the service and the users (external, but for the service's start) *)

\* A client opens the pipe: the trigger starts the service.
ServiceStarts ==
  /\ Serviceable /\ running = "none"
  /\ running' = image
  /\ UNCHANGED <<files, serviceVars, extras, window, at, op, from, history>>

\* The service process ends, told to or not.
ServiceEnds ==
  /\ running # "none"
  /\ running' = "none"
  /\ UNCHANGED <<files, serviceVars, extras, window, at, op, from, history>>

\* A record marked for deletion goes with its last user.
Reap ==
  /\ record = "doomed" /\ running = "none" /\ ~Held
  /\ record' = "absent"
  /\ UNCHANGED <<image, trigger, files, running, extras, window, at, op, from, history>>

\* Somebody opens or closes the installed GUI.
Window ==
  /\ ~window => file["gui"] \in Versions
  /\ window' = ~window
  /\ UNCHANGED <<files, serviceVars, running, extras, at, op, from, history>>

\* An installer dies; a copy under way leaves a torn file.
Kill(i) ==
  /\ May("kill") /\ Active(i)
  /\ Fail(i)
  /\ \/ file' = file
     \/ \E f \in Exes :
          /\ at[i] = (IF f = "cli" THEN "copyCli" ELSE "copyGui")
          /\ from[i] \in Versions /\ ~Locked(f) /\ dir = "ours"
          /\ file' = [file EXCEPT ![f] = Torn]
  /\ UNCHANGED <<dir, pending, serviceVars, running, extras, window>>

\* The machine restarts: pending files go before anything runs, and with them what
\* an installation made meanwhile has put in their place.
Reboot ==
  /\ file' = [f \in Exes |-> IF f \in pending THEN None ELSE file[f]]
  /\ pending' = {}
  /\ record' = IF record = "doomed" THEN "absent" ELSE record
  /\ running' = "none"
  /\ window' = FALSE
  /\ at' = [i \in Installers |-> "idle"]
  /\ op' = [i \in Installers |-> "none"]
  /\ from' = [i \in Installers |-> None]
  /\ swept' = IF claim # "nothing" /\ "cli" \in pending THEN TRUE ELSE swept
  /\ UNCHANGED <<dir, image, trigger, extras, claim, alone>>

Step(i) == \/ Prepare(i) \/ Stop(i) \/ CopyCli(i) \/ CopyGui(i) \/ Repair(i)
           \/ Register(i) \/ SetTrigger(i) \/ Complete(i)
           \/ Delete(i) \/ Clean(i) \/ Remove(i) \/ Schedule(i)

Next == \/ \E i \in Installers : Begin(i) \/ Step(i) \/ Kill(i)
        \/ ServiceStarts \/ ServiceEnds \/ Reap \/ Window \/ Reboot

\* An installer that holds the record open goes on, and Windows removes what it marked
\* once nobody uses it.  Nothing makes a service end, told to or not.
Fairness == /\ \A i \in Installers : WF_vars(SetTrigger(i))
            /\ WF_vars(Reap)

Spec == Init /\ [][Next]_vars /\ Fairness

-----------------------------------------------------------------------------
(* Properties *)

\* do_install, run_repair: Ok means a record that opening the pipe starts, pointing at
\* a CLI that is there unless a restart removed it by an earlier schedule, whatever
\* the service did meanwhile; and no task but one that schtasks would not delete.
ReportedServes ==
  claim \in {"installed", "repaired"} =>
    /\ record = "present" /\ trigger /\ image = "dir"
    /\ IsCurrent \/ swept
    /\ claim = "installed" => /\ key
                              /\ task => "task" \in ignored
                              /\ file["cli"] # Torn

\* do_uninstall: Ok means that nothing is left but a record that goes with its last
\* user, files that go with the next restart, and what a failure kept that the code
\* does not report.
RemovedIsGone ==
  claim = "removed" =>
    /\ record # "present"
    /\ task => "task" \in ignored
    /\ key => "unkey" \in ignored
    /\ \A f \in Exes : Exists(f) => f \in pending \/ "schedule" \in ignored

\* Installing over a service that works, or repairing it, leaves it working at every
\* step, failed or not (register_or_update_service re-points the record instead of
\* deleting it), but for a copy that fails half-way.
UpdateKeepsService ==
  [][(\E i \in Installers : op[i] \in {"install", "repair"} /\ Step(i))
       /\ Serviceable /\ file["cli"] # Torn
     => Serviceable' \/ (UNCHANGED serviceVars /\ file'["cli"] = Torn)]_vars

\* A record that delete_service marked is gone once its process has ended, whoever
\* still had it open: installing is refused only until then.
DoomedGoes == record = "doomed" /\ running = "none" ~> record # "doomed"

-----------------------------------------------------------------------------
(* Inductive invariant of the proofs *)

\* A record from before, that no operation has touched.
Untouched == record = "present" /\ image = "elsewhere"
Removing(i) == at[i] \in {"clean", "remove", "schedule"}

AloneInv == /\ alone => \A i, j \in Installers : i # j => Idle(i) \/ Idle(j)
            /\ claim # "nothing" => \A i \in Installers : Idle(i)

\* Files go only after the record has.
RemoveInv == /\ \A i \in Installers :
                  /\ at[i] = "prepare" => op[i] = "install"
                  /\ at[i] = "repair" => op[i] = "repair"
                  /\ at[i] = "stop" => op[i] \in {"install", "uninstall"}
                  /\ at[i] = "delete" \/ Removing(i) => op[i] = "uninstall"
             /\ Untouched => pending = {} /\ \A i \in Installers : ~Removing(i)

\* The CLI is there when a record is about to point at it, and whole where it runs or
\* an install that runs alone has copied it.
CliInv == \A i \in Installers :
            /\ \/ (alone \/ Untouched) /\ at[i] \in {"copyGui", "register"}
               \/ alone /\ at[i] \in {"trigger", "complete"}
               => Exists("cli")
            /\ \/ from[i] = InDir
               \/ /\ alone /\ op[i] = "install"
                  /\ at[i] \in {"copyGui", "register", "trigger", "complete"}
               => file["cli"] \in Versions

\* What an operation that runs alone has achieved so far.
ProgressInv == alone => \A i \in Installers :
                 /\ Removing(i) => record # "present"
                 /\ at[i] \in {"remove", "schedule"} =>
                      (task => "task" \in ignored) /\ (key => "unkey" \in ignored)
                 /\ at[i] \in {"trigger", "complete"} => record = "present" /\ image = "dir"
                 /\ at[i] = "complete" => trigger /\ op[i] = "install"

InstallInv == /\ TypeOK /\ AloneInv /\ RemoveInv /\ CliInv /\ ProgressInv
              /\ ReportedServes /\ RemovedIsGone
=============================================================================
