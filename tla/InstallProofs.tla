--------------------------- MODULE InstallProofs ---------------------------
(***************************************************************************)
(* What the runs of Install show for two installers and one version, for   *)
(* any number of both and whatever fails: what an operation reports is so  *)
(* but for the failures the code ignores, and no update or repair breaks a *)
(* service that works but by a copy that fails half-way.                   *)
(***************************************************************************)
EXTENDS Install, TLAPS

\* The operations begin with a place that neither registers nor removes anything.
LEMMA FirstPlaces ==
  \A o \in Operations : /\ First(o) \in {"prepare", "stop", "repair"}
                        /\ First(o) = "prepare" => o = "install"
                        /\ First(o) = "stop" => o = "uninstall"
                        /\ First(o) = "repair" => o = "repair"
BY DEF Operations, First

\* The files of a package are told from none and from a torn one.
LEMMA NoneIsNoVersion == \A v \in Versions : v # None /\ v # Torn
BY VersionsAssumption

\* Every step keeps the types.
LEMMA TypePreserved == InstallInv /\ [Next]_vars => TypeOK'
<1> USE VersionsAssumption, FaultsAssumption
<1> SUFFICES ASSUME InstallInv, [Next]_vars PROVE TypeOK'
  OBVIOUS
<1> USE DEF InstallInv, TypeOK, Exes, Images, Operations, Places, Claims, vars, files, serviceVars, extras, history, Idle, Active, Goto, Finish, Fail, Ignore, Exists, Locked, May, OwnedByAdmin, SameFile, Opens
<1>1. ASSUME NEW i \in Installers, Begin(i) PROVE TypeOK'
  <2>1. PICK o \in Operations : /\ op' = [op EXCEPT ![i] = o]
                                /\ at' = [at EXCEPT ![i] = First(o)]
    BY <1>1 DEF Begin
  <2>2. First(o) \in {"prepare", "stop", "repair"}
    BY FirstPlaces
  <2>3. /\ from' \in [Installers -> Versions \cup {InDir, None}]
        /\ UNCHANGED <<files, serviceVars, running, task, key, window>>
        /\ claim' = "nothing" /\ ignored' = {} /\ swept' = FALSE
    BY <1>1 DEF Begin
  <2>4. alone' \in BOOLEAN
    BY <1>1, Zenon DEF Begin
  <2> QED
    BY <2>1, <2>2, <2>3, <2>4
<1>2. ASSUME NEW i \in Installers, Prepare(i) PROVE TypeOK'
  BY <1>2 DEF Prepare
<1>3. ASSUME NEW i \in Installers, Stop(i) PROVE TypeOK'
  <2>1. PICK p \in {"copyCli", "delete"} : at' = [at EXCEPT ![i] = p]
    BY <1>3 DEF Stop
  <2>2. UNCHANGED <<running, files, serviceVars, extras, window, op, from, history>>
    BY <1>3 DEF Stop
  <2> QED
    BY <1>3, <2>1, <2>2 DEF Stop
<1>4. ASSUME NEW i \in Installers, CopyCli(i) PROVE TypeOK'
  BY <1>4 DEF CopyCli, Copy
<1>5. ASSUME NEW i \in Installers, CopyGui(i) PROVE TypeOK'
  <2>1. CASE Copy(i, "copyGui", "gui", "register")
    BY <2>1 DEF Copy
  <2>2. CASE /\ at[i] = "copyGui" /\ Goto(i, "register")
             /\ UNCHANGED <<files, serviceVars, running, extras, window>>
    BY <2>2
  <2> QED
    BY <1>5, <2>1, <2>2, Zenon DEF CopyGui
<1>6. ASSUME NEW i \in Installers, Repair(i) PROVE TypeOK'
  BY <1>6 DEF Repair
<1>7. ASSUME NEW i \in Installers, Register(i) PROVE TypeOK'
  BY <1>7 DEF Register
<1>8. ASSUME NEW i \in Installers, SetTrigger(i) PROVE TypeOK'
  BY <1>8 DEF SetTrigger
<1>9. ASSUME NEW i \in Installers, Complete(i) PROVE TypeOK'
  <2>1. task' \in BOOLEAN /\ ignored' \subseteq Ignorable
    BY <1>9 DEF Complete, Ignorable
  <2>2. key' \in BOOLEAN
    BY <1>9 DEF Complete
  <2>3. PICK says \in Claims : Finish(i, says)
    BY <1>9 DEF Complete
  <2> QED
    BY <1>9, <2>1, <2>2, <2>3 DEF Complete
<1>10. ASSUME NEW i \in Installers, Delete(i) PROVE TypeOK'
  BY <1>10 DEF Delete
<1>11. ASSUME NEW i \in Installers, Clean(i) PROVE TypeOK'
  <2>1. task' \in BOOLEAN /\ key' \in BOOLEAN /\ ignored' \subseteq Ignorable
    BY <1>11 DEF Clean, Ignorable
  <2> QED
    BY <1>11, <2>1 DEF Clean
<1>12. ASSUME NEW i \in Installers, Remove(i) PROVE TypeOK'
  BY <1>12 DEF Remove
<1>13. ASSUME NEW i \in Installers, Schedule(i) PROVE TypeOK'
  <2>1. pending' \subseteq Exes /\ ignored' \subseteq Ignorable
    BY <1>13 DEF Schedule, Ignorable
  <2> QED
    BY <1>13, <2>1 DEF Schedule
<1>14. ASSUME NEW i \in Installers, Kill(i) PROVE TypeOK'
  BY <1>14 DEF Kill
<1>15. CASE ServiceStarts
  BY <1>15 DEF ServiceStarts
<1>16. CASE ServiceEnds
  BY <1>16 DEF ServiceEnds
<1>17. CASE Reap
  BY <1>17 DEF Reap
<1>18. CASE Window
  BY <1>18 DEF Window
<1>19. CASE Reboot
  BY <1>19 DEF Reboot
<1>20. CASE UNCHANGED vars
  BY <1>20 DEF vars, files, serviceVars, extras, history
<1>21. QED
  BY <1>1, <1>2, <1>3, <1>4, <1>5, <1>6, <1>7, <1>8, <1>9, <1>10, <1>11, <1>12, <1>13, <1>14, <1>15, <1>16, <1>17, <1>18, <1>19, <1>20 DEF Next, Step

\* A claim is made only by an operation that ran alone, and all are idle then.
LEMMA AlonePreserved == InstallInv /\ [Next]_vars => AloneInv'
<1> USE VersionsAssumption, FaultsAssumption
<1> SUFFICES ASSUME InstallInv, [Next]_vars PROVE AloneInv'
  OBVIOUS
<1> USE DEF InstallInv, TypeOK, AloneInv, vars, files, serviceVars, extras, history, Idle, Active, Goto, Finish, Fail, Ignore, Exists, Locked, May, OwnedByAdmin, SameFile, Opens
<1>1. ASSUME NEW i \in Installers, Begin(i) PROVE AloneInv'
  BY <1>1 DEF Begin, First
<1>2. ASSUME NEW i \in Installers, Prepare(i) PROVE AloneInv'
  BY <1>2 DEF Prepare
<1>3. ASSUME NEW i \in Installers, Stop(i) PROVE AloneInv'
  BY <1>3 DEF Stop
<1>4. ASSUME NEW i \in Installers, CopyCli(i) PROVE AloneInv'
  BY <1>4 DEF CopyCli, Copy
<1>5. ASSUME NEW i \in Installers, CopyGui(i) PROVE AloneInv'
  BY <1>5 DEF CopyGui, Copy
<1>6. ASSUME NEW i \in Installers, Repair(i) PROVE AloneInv'
  BY <1>6 DEF Repair
<1>7. ASSUME NEW i \in Installers, Register(i) PROVE AloneInv'
  BY <1>7 DEF Register
<1>8. ASSUME NEW i \in Installers, SetTrigger(i) PROVE AloneInv'
  BY <1>8 DEF SetTrigger
<1>9. ASSUME NEW i \in Installers, Complete(i) PROVE AloneInv'
  BY <1>9 DEF Complete
<1>10. ASSUME NEW i \in Installers, Delete(i) PROVE AloneInv'
  BY <1>10 DEF Delete
<1>11. ASSUME NEW i \in Installers, Clean(i) PROVE AloneInv'
  BY <1>11 DEF Clean
<1>12. ASSUME NEW i \in Installers, Remove(i) PROVE AloneInv'
  BY <1>12 DEF Remove
<1>13. ASSUME NEW i \in Installers, Schedule(i) PROVE AloneInv'
  BY <1>13 DEF Schedule
<1>14. ASSUME NEW i \in Installers, Kill(i) PROVE AloneInv'
  BY <1>14 DEF Kill
<1>15. CASE ServiceStarts
  BY <1>15 DEF ServiceStarts
<1>16. CASE ServiceEnds
  BY <1>16 DEF ServiceEnds
<1>17. CASE Reap
  BY <1>17 DEF Reap
<1>18. CASE Window
  BY <1>18 DEF Window
<1>19. CASE Reboot
  BY <1>19 DEF Reboot
<1>20. CASE UNCHANGED vars
  BY <1>20 DEF vars, files, serviceVars, extras, history
<1>21. QED
  BY <1>1, <1>2, <1>3, <1>4, <1>5, <1>6, <1>7, <1>8, <1>9, <1>10, <1>11, <1>12, <1>13, <1>14, <1>15, <1>16, <1>17, <1>18, <1>19, <1>20 DEF Next, Step

\* A record that nothing touched is out of reach of every removal.
LEMMA RemovePreserved == InstallInv /\ [Next]_vars => RemoveInv'
<1> USE VersionsAssumption, FaultsAssumption
<1> SUFFICES ASSUME InstallInv, [Next]_vars PROVE RemoveInv'
  OBVIOUS
<1> USE DEF InstallInv, TypeOK, Exes, Operations, RemoveInv, Untouched, Removing, vars, files, serviceVars, extras, history, Idle, Active, Goto, Finish, Fail, Ignore, Exists, Locked, May, OwnedByAdmin, SameFile, Opens
<1>1. ASSUME NEW i \in Installers, Begin(i) PROVE RemoveInv'
  <2>1. PICK o \in Operations : /\ op' = [op EXCEPT ![i] = o]
                             /\ at' = [at EXCEPT ![i] = First(o)]
    BY <1>1 DEF Begin
  <2>2. First(o) \in {"prepare", "stop", "repair"} /\ (First(o) = "prepare" => o = "install")
          /\ (First(o) = "stop" => o = "uninstall")
          /\ (First(o) = "repair" => o = "repair")
    BY FirstPlaces
  <2> QED
    BY <1>1, <2>1, <2>2 DEF Begin
<1>2. ASSUME NEW i \in Installers, Prepare(i) PROVE RemoveInv'
  BY <1>2 DEF Prepare
<1>3. ASSUME NEW i \in Installers, Stop(i) PROVE RemoveInv'
  <2>1. at' = [at EXCEPT ![i] = "copyCli"] \/ (at' = [at EXCEPT ![i] = "delete"] /\ op[i] # "install")
    BY <1>3 DEF Stop
  <2> QED
    BY <1>3, <2>1 DEF Stop
<1>4. ASSUME NEW i \in Installers, CopyCli(i) PROVE RemoveInv'
  BY <1>4 DEF CopyCli, Copy
<1>5. ASSUME NEW i \in Installers, CopyGui(i) PROVE RemoveInv'
  <2>1. CASE Copy(i, "copyGui", "gui", "register")
    <3>1. \/ at' = [at EXCEPT ![i] = "register"] /\ op' = op
          \/ at' = [at EXCEPT ![i] = "idle"] /\ op' = [op EXCEPT ![i] = "none"]
      BY <2>1 DEF Copy
    <3>2. at[i] = "copyGui" /\ UNCHANGED <<record, image, pending>>
      BY <2>1 DEF Copy
    <3> QED
      BY <3>1, <3>2
  <2>2. CASE /\ at[i] = "copyGui" /\ Goto(i, "register")
             /\ UNCHANGED <<files, serviceVars, running, extras, window>>
    BY <2>2
  <2> QED
    BY <1>5, <2>1, <2>2, Zenon DEF CopyGui
<1>6. ASSUME NEW i \in Installers, Repair(i) PROVE RemoveInv'
  BY <1>6 DEF Repair
<1>7. ASSUME NEW i \in Installers, Register(i) PROVE RemoveInv'
  BY <1>7 DEF Register
<1>8. ASSUME NEW i \in Installers, SetTrigger(i) PROVE RemoveInv'
  BY <1>8 DEF SetTrigger
<1>9. ASSUME NEW i \in Installers, Complete(i) PROVE RemoveInv'
  BY <1>9 DEF Complete
<1>10. ASSUME NEW i \in Installers, Delete(i) PROVE RemoveInv'
  BY <1>10 DEF Delete
<1>11. ASSUME NEW i \in Installers, Clean(i) PROVE RemoveInv'
  BY <1>11 DEF Clean
<1>12. ASSUME NEW i \in Installers, Remove(i) PROVE RemoveInv'
  BY <1>12 DEF Remove
<1>13. ASSUME NEW i \in Installers, Schedule(i) PROVE RemoveInv'
  BY <1>13 DEF Schedule
<1>14. ASSUME NEW i \in Installers, Kill(i) PROVE RemoveInv'
  BY <1>14 DEF Kill
<1>15. CASE ServiceStarts
  BY <1>15 DEF ServiceStarts
<1>16. CASE ServiceEnds
  BY <1>16 DEF ServiceEnds
<1>17. CASE Reap
  BY <1>17 DEF Reap
<1>18. CASE Window
  BY <1>18 DEF Window
<1>19. CASE Reboot
  BY <1>19 DEF Reboot
<1>20. CASE UNCHANGED vars
  BY <1>20 DEF vars, files, serviceVars, extras, history
<1>21. QED
  BY <1>1, <1>2, <1>3, <1>4, <1>5, <1>6, <1>7, <1>8, <1>9, <1>10, <1>11, <1>12, <1>13, <1>14, <1>15, <1>16, <1>17, <1>18, <1>19, <1>20 DEF Next, Step

\* The CLI stays where a record is about to point.
LEMMA CliPreserved == InstallInv /\ [Next]_vars => CliInv'
<1> USE VersionsAssumption, FaultsAssumption
<1> SUFFICES ASSUME InstallInv, [Next]_vars PROVE CliInv'
  OBVIOUS
<1> USE DEF InstallInv, TypeOK, Exes, Images, AloneInv, RemoveInv, CliInv, Untouched, Removing, vars, files, serviceVars, extras, history, Idle, Active, Goto, Finish, Fail, Ignore, Exists, Locked, May, OwnedByAdmin, SameFile, Opens
<1>1. ASSUME NEW i \in Installers, Begin(i) PROVE CliInv'
  <2>1. PICK p \in {"prepare", "stop", "repair"} : at' = [at EXCEPT ![i] = p]
    BY <1>1, FirstPlaces DEF Begin
  <2>2. PICK s \in Versions \cup {InDir} :
                from' = [from EXCEPT ![i] = s] /\ (s = InDir => file["cli"] \in Versions)
    BY <1>1 DEF Begin
  <2>3. UNCHANGED <<file, record, image>> /\ (alone' => \A j \in Installers : at[j] = "idle")
    BY <1>1 DEF Begin
  <2>4. /\ from \in [Installers -> Versions \cup {InDir, None}]
        /\ at \in [Installers -> Places]
    OBVIOUS
  <2>5. \A j \in Installers : /\ from'[j] = IF j = i THEN s ELSE from[j]
                              /\ at'[j] = IF j = i THEN p ELSE at[j]
    BY <2>1, <2>2, <2>4
  <2>6. \A j \in Installers : from'[j] = InDir => file["cli"] \in Versions
    BY <2>2, <2>5
  <2>7. \A j \in Installers : ~alone' \/ at'[j] \notin {"copyGui", "register", "trigger", "complete"}
    BY <2>3, <2>5
  <2>8. \A j \in Installers : (Untouched' /\ at'[j] \in {"copyGui", "register"}) => Exists("cli")'
    BY <2>3, <2>5
  <2> QED
    BY <2>3, <2>6, <2>7, <2>8
<1>2. ASSUME NEW i \in Installers, Prepare(i) PROVE CliInv'
  BY <1>2 DEF Prepare
<1>3. ASSUME NEW i \in Installers, Stop(i) PROVE CliInv'
  BY <1>3 DEF Stop
<1>4. ASSUME NEW i \in Installers, CopyCli(i) PROVE CliInv'
  BY <1>4 DEF CopyCli, Copy
<1>5. ASSUME NEW i \in Installers, CopyGui(i) PROVE CliInv'
  BY <1>5 DEF CopyGui, Copy
<1>6. ASSUME NEW i \in Installers, Repair(i) PROVE CliInv'
  BY <1>6 DEF Repair
<1>7. ASSUME NEW i \in Installers, Register(i) PROVE CliInv'
  BY <1>7 DEF Register
<1>8. ASSUME NEW i \in Installers, SetTrigger(i) PROVE CliInv'
  BY <1>8 DEF SetTrigger
<1>9. ASSUME NEW i \in Installers, Complete(i) PROVE CliInv'
  BY <1>9 DEF Complete
<1>10. ASSUME NEW i \in Installers, Delete(i) PROVE CliInv'
  BY <1>10 DEF Delete
<1>11. ASSUME NEW i \in Installers, Clean(i) PROVE CliInv'
  BY <1>11 DEF Clean
<1>12. ASSUME NEW i \in Installers, Remove(i) PROVE CliInv'
  BY <1>12 DEF Remove
<1>13. ASSUME NEW i \in Installers, Schedule(i) PROVE CliInv'
  BY <1>13 DEF Schedule
<1>14. ASSUME NEW i \in Installers, Kill(i) PROVE CliInv'
  BY <1>14 DEF Kill
<1>15. CASE ServiceStarts
  BY <1>15 DEF ServiceStarts
<1>16. CASE ServiceEnds
  BY <1>16 DEF ServiceEnds
<1>17. CASE Reap
  BY <1>17 DEF Reap
<1>18. CASE Window
  BY <1>18 DEF Window
<1>19. CASE Reboot
  BY <1>19 DEF Reboot
<1>20. CASE UNCHANGED vars
  BY <1>20 DEF vars, files, serviceVars, extras, history
<1>21. QED
  BY <1>1, <1>2, <1>3, <1>4, <1>5, <1>6, <1>7, <1>8, <1>9, <1>10, <1>11, <1>12, <1>13, <1>14, <1>15, <1>16, <1>17, <1>18, <1>19, <1>20 DEF Next, Step

\* Nobody undoes what an operation that runs alone has achieved.
LEMMA ProgressPreserved == InstallInv /\ [Next]_vars => ProgressInv'
<1> USE VersionsAssumption, FaultsAssumption
<1> SUFFICES ASSUME InstallInv, [Next]_vars PROVE ProgressInv'
  OBVIOUS
<1> USE DEF InstallInv, TypeOK, AloneInv, ProgressInv, Removing, vars, files, serviceVars, extras, history, Idle, Active, Goto, Finish, Fail, Ignore, Exists, Locked, May, OwnedByAdmin, SameFile, Opens
<1>1. ASSUME NEW i \in Installers, Begin(i) PROVE ProgressInv'
  <2>1. PICK p \in {"prepare", "stop", "repair"} : at' = [at EXCEPT ![i] = p]
    BY <1>1, FirstPlaces DEF Begin
  <2>2. alone' = \A j \in Installers : Idle(j)
    BY <1>1 DEF Begin
  <2>3. alone' => \A j \in Installers : at'[j] \in {"idle", "prepare", "stop", "repair"}
    BY <2>1, <2>2
  <2> QED
    BY <2>3
<1>2. ASSUME NEW i \in Installers, Prepare(i) PROVE ProgressInv'
  BY <1>2 DEF Prepare
<1>3. ASSUME NEW i \in Installers, Stop(i) PROVE ProgressInv'
  BY <1>3 DEF Stop
<1>4. ASSUME NEW i \in Installers, CopyCli(i) PROVE ProgressInv'
  BY <1>4 DEF CopyCli, Copy
<1>5. ASSUME NEW i \in Installers, CopyGui(i) PROVE ProgressInv'
  BY <1>5 DEF CopyGui, Copy
<1>6. ASSUME NEW i \in Installers, Repair(i) PROVE ProgressInv'
  <2>1. PICK p \in {"idle", "register"} : at' = [at EXCEPT ![i] = p]
    BY <1>6 DEF Repair
  <2>2. UNCHANGED <<record, image, trigger, task, key, ignored, alone>>
    BY <1>6 DEF Repair
  <2>3. \A j \in Installers \ {i} : op'[j] = op[j]
    BY <1>6 DEF Repair
  <2> QED
    BY <2>1, <2>2, <2>3
<1>7. ASSUME NEW i \in Installers, Register(i) PROVE ProgressInv'
  BY <1>7 DEF Register
<1>8. ASSUME NEW i \in Installers, SetTrigger(i) PROVE ProgressInv'
  BY <1>8 DEF SetTrigger
<1>9. ASSUME NEW i \in Installers, Complete(i) PROVE ProgressInv'
  BY <1>9 DEF Complete
<1>10. ASSUME NEW i \in Installers, Delete(i) PROVE ProgressInv'
  BY <1>10 DEF Delete
<1>11. ASSUME NEW i \in Installers, Clean(i) PROVE ProgressInv'
  BY <1>11 DEF Clean
<1>12. ASSUME NEW i \in Installers, Remove(i) PROVE ProgressInv'
  BY <1>12 DEF Remove
<1>13. ASSUME NEW i \in Installers, Schedule(i) PROVE ProgressInv'
  BY <1>13 DEF Schedule
<1>14. ASSUME NEW i \in Installers, Kill(i) PROVE ProgressInv'
  BY <1>14 DEF Kill
<1>15. CASE ServiceStarts
  BY <1>15 DEF ServiceStarts
<1>16. CASE ServiceEnds
  BY <1>16 DEF ServiceEnds
<1>17. CASE Reap
  BY <1>17 DEF Reap
<1>18. CASE Window
  BY <1>18 DEF Window
<1>19. CASE Reboot
  BY <1>19 DEF Reboot
<1>20. CASE UNCHANGED vars
  BY <1>20 DEF vars, files, serviceVars, extras, history
<1>21. QED
  BY <1>1, <1>2, <1>3, <1>4, <1>5, <1>6, <1>7, <1>8, <1>9, <1>10, <1>11, <1>12, <1>13, <1>14, <1>15, <1>16, <1>17, <1>18, <1>19, <1>20 DEF Next, Step

\* What was reported installed or repaired stays so.
LEMMA ReportPreserved == InstallInv /\ [Next]_vars => ReportedServes'
<1> USE VersionsAssumption, FaultsAssumption
<1> SUFFICES ASSUME InstallInv, [Next]_vars PROVE ReportedServes'
  OBVIOUS
<1> USE DEF InstallInv, TypeOK, Exes, Images, AloneInv, CliInv, ProgressInv, ReportedServes, Serviceable, IsCurrent, vars, files, serviceVars, extras, history, Idle, Active, Goto, Finish, Fail, Ignore, Exists, Locked, May, OwnedByAdmin, SameFile, Opens
<1>1. ASSUME NEW i \in Installers, Begin(i) PROVE ReportedServes'
  BY <1>1 DEF Begin, First
<1>2. ASSUME NEW i \in Installers, Prepare(i) PROVE ReportedServes'
  BY <1>2 DEF Prepare
<1>3. ASSUME NEW i \in Installers, Stop(i) PROVE ReportedServes'
  BY <1>3 DEF Stop
<1>4. ASSUME NEW i \in Installers, CopyCli(i) PROVE ReportedServes'
  BY <1>4 DEF CopyCli, Copy
<1>5. ASSUME NEW i \in Installers, CopyGui(i) PROVE ReportedServes'
  BY <1>5 DEF CopyGui, Copy
<1>6. ASSUME NEW i \in Installers, Repair(i) PROVE ReportedServes'
  BY <1>6 DEF Repair
<1>7. ASSUME NEW i \in Installers, Register(i) PROVE ReportedServes'
  BY <1>7 DEF Register
<1>8. ASSUME NEW i \in Installers, SetTrigger(i) PROVE ReportedServes'
  BY <1>8 DEF SetTrigger
<1>9. ASSUME NEW i \in Installers, Complete(i) PROVE ReportedServes'
  BY <1>9 DEF Complete
<1>10. ASSUME NEW i \in Installers, Delete(i) PROVE ReportedServes'
  BY <1>10 DEF Delete
<1>11. ASSUME NEW i \in Installers, Clean(i) PROVE ReportedServes'
  BY <1>11 DEF Clean
<1>12. ASSUME NEW i \in Installers, Remove(i) PROVE ReportedServes'
  BY <1>12 DEF Remove
<1>13. ASSUME NEW i \in Installers, Schedule(i) PROVE ReportedServes'
  BY <1>13 DEF Schedule
<1>14. ASSUME NEW i \in Installers, Kill(i) PROVE ReportedServes'
  BY <1>14 DEF Kill
<1>15. CASE ServiceStarts
  BY <1>15 DEF ServiceStarts
<1>16. CASE ServiceEnds
  BY <1>16 DEF ServiceEnds
<1>17. CASE Reap
  BY <1>17 DEF Reap
<1>18. CASE Window
  BY <1>18 DEF Window
<1>19. CASE Reboot
  BY <1>19 DEF Reboot
<1>20. CASE UNCHANGED vars
  BY <1>20 DEF vars, files, serviceVars, extras, history
<1>21. QED
  BY <1>1, <1>2, <1>3, <1>4, <1>5, <1>6, <1>7, <1>8, <1>9, <1>10, <1>11, <1>12, <1>13, <1>14, <1>15, <1>16, <1>17, <1>18, <1>19, <1>20 DEF Next, Step

\* What was reported removed stays so.
LEMMA RemovedPreserved == InstallInv /\ [Next]_vars => RemovedIsGone'
<1> USE VersionsAssumption, FaultsAssumption
<1> SUFFICES ASSUME InstallInv, [Next]_vars PROVE RemovedIsGone'
  OBVIOUS
<1> USE DEF InstallInv, TypeOK, Exes, AloneInv, ProgressInv, RemovedIsGone, Removing, vars, files, serviceVars, extras, history, Idle, Active, Goto, Finish, Fail, Ignore, Exists, Locked, May, OwnedByAdmin, SameFile, Opens
<1>1. ASSUME NEW i \in Installers, Begin(i) PROVE RemovedIsGone'
  BY <1>1 DEF Begin, First
<1>2. ASSUME NEW i \in Installers, Prepare(i) PROVE RemovedIsGone'
  BY <1>2 DEF Prepare
<1>3. ASSUME NEW i \in Installers, Stop(i) PROVE RemovedIsGone'
  BY <1>3 DEF Stop
<1>4. ASSUME NEW i \in Installers, CopyCli(i) PROVE RemovedIsGone'
  BY <1>4 DEF CopyCli, Copy
<1>5. ASSUME NEW i \in Installers, CopyGui(i) PROVE RemovedIsGone'
  BY <1>5 DEF CopyGui, Copy
<1>6. ASSUME NEW i \in Installers, Repair(i) PROVE RemovedIsGone'
  BY <1>6 DEF Repair
<1>7. ASSUME NEW i \in Installers, Register(i) PROVE RemovedIsGone'
  BY <1>7 DEF Register
<1>8. ASSUME NEW i \in Installers, SetTrigger(i) PROVE RemovedIsGone'
  BY <1>8 DEF SetTrigger
<1>9. ASSUME NEW i \in Installers, Complete(i) PROVE RemovedIsGone'
  BY <1>9 DEF Complete
<1>10. ASSUME NEW i \in Installers, Delete(i) PROVE RemovedIsGone'
  BY <1>10 DEF Delete
<1>11. ASSUME NEW i \in Installers, Clean(i) PROVE RemovedIsGone'
  BY <1>11 DEF Clean
<1>12. ASSUME NEW i \in Installers, Remove(i) PROVE RemovedIsGone'
  BY <1>12 DEF Remove
<1>13. ASSUME NEW i \in Installers, Schedule(i) PROVE RemovedIsGone'
  BY <1>13 DEF Schedule
<1>14. ASSUME NEW i \in Installers, Kill(i) PROVE RemovedIsGone'
  BY <1>14 DEF Kill
<1>15. CASE ServiceStarts
  BY <1>15 DEF ServiceStarts
<1>16. CASE ServiceEnds
  BY <1>16 DEF ServiceEnds
<1>17. CASE Reap
  BY <1>17 DEF Reap
<1>18. CASE Window
  BY <1>18 DEF Window
<1>19. CASE Reboot
  BY <1>19 DEF Reboot
<1>20. CASE UNCHANGED vars
  BY <1>20 DEF vars, files, serviceVars, extras, history
<1>21. QED
  BY <1>1, <1>2, <1>3, <1>4, <1>5, <1>6, <1>7, <1>8, <1>9, <1>10, <1>11, <1>12, <1>13, <1>14, <1>15, <1>16, <1>17, <1>18, <1>19, <1>20 DEF Next, Step

\* The invariant holds at the start,
LEMMA InitInv == Init => InstallInv
<1> USE VersionsAssumption, FaultsAssumption
<1> SUFFICES ASSUME Init PROVE InstallInv
  OBVIOUS
<1> USE DEF Init, Exes, Idle, Exists, Removing
<1>1. TypeOK
  <2>1. /\ at \in [Installers -> Places] /\ op \in [Installers -> Operations \cup {"none"}]
        /\ from \in [Installers -> Versions \cup {InDir, None}]
        /\ file \in [Exes -> Versions \cup {None, Torn}]
        /\ image \in Images /\ running \in Images \cup {"none"}
        /\ claim \in Claims /\ pending \subseteq Exes
        /\ dir \in {"none", "ours", "foreign"} /\ record \in {"absent", "present", "doomed"}
    BY DEF Places, Images, Claims
  <2>2. {trigger, task, key, window, alone, swept} \subseteq BOOLEAN
    <3>1. trigger \in BOOLEAN
      BY Zenon
    <3> QED
      BY <3>1
  <2> QED
    BY <2>1, <2>2 DEF TypeOK
<1>2. AloneInv /\ RemoveInv
  BY DEF AloneInv, RemoveInv, Untouched
<1>3. CliInv /\ ProgressInv
  BY DEF CliInv, ProgressInv
<1>4. ReportedServes /\ RemovedIsGone
  BY DEF ReportedServes, RemovedIsGone
<1> QED
  BY <1>1, <1>2, <1>3, <1>4 DEF InstallInv

\* every step keeps it,
LEMMA InvPreserved == InstallInv /\ [Next]_vars => InstallInv'
BY TypePreserved, AlonePreserved, RemovePreserved, CliPreserved, ProgressPreserved,
   ReportPreserved, RemovedPreserved DEF InstallInv

\* and so it always does.
LEMMA AlwaysInv == Spec => []InstallInv
BY InitInv, InvPreserved, PTL DEF Spec

\* Every installer, file and record stays in the states the code knows, however many
\* installers run and die.
THEOREM InstallTypeCorrect == Spec => []TypeOK
<1>1. InstallInv => TypeOK
  BY DEF InstallInv
<1> QED
  BY <1>1, AlwaysInv, PTL

\* An install or a repair that returned Ok is followed, until the next operation begins,
\* only by states with a record that the pipe starts and that points at an installed CLI,
\* unless a restart executed a deletion scheduled before; a task of earlier builds is
\* left only by a failure of schtasks, which the code does not look at.
THEOREM ReportsHold == Spec => []ReportedServes
<1>1. InstallInv => ReportedServes
  BY DEF InstallInv
<1> QED
  BY <1>1, AlwaysInv, PTL

\* An uninstall that returned Ok leaves no record that serves; a task, an entry or a
\* file not due at the next restart is left only by a failure that the code ignores.
THEOREM RemovalsHold == Spec => []RemovedIsGone
<1>1. InstallInv => RemovedIsGone
  BY DEF InstallInv
<1> QED
  BY <1>1, AlwaysInv, PTL

\* No step of an install or of a repair, failing ones included, takes away a service that
\* works, even with other installers at work, but for the copy of the CLI that fails
\* half-way: it leaves the record as it was, and a torn file.
THEOREM UpdatesKeepService == Spec => UpdateKeepsService
<1> DEFINE Updates(i) == op[i] \in {"install", "repair"} /\ Step(i)
           Works == Serviceable /\ file["cli"] # Torn
<1>1. ASSUME InstallInv, NEW i \in Installers, Updates(i), Works
      PROVE  Serviceable' \/ (UNCHANGED serviceVars /\ file'["cli"] = Torn)
  <2> USE DEF Serviceable, Exists, SameFile
  <2>1. /\ TypeOK /\ RemoveInv /\ CliInv
        /\ op[i] # "uninstall"
    BY <1>1 DEF InstallInv
  <2>2. CASE Prepare(i) \/ Stop(i) \/ Repair(i) \/ Complete(i) \/ CopyGui(i)
    <3>1. UNCHANGED <<record, trigger, image, file["cli"]>>
      BY <2>1, <2>2 DEF TypeOK, Exes, Prepare, Stop, Repair, Complete, CopyGui, Copy, files, serviceVars
    <3> QED
      BY <1>1, <3>1
  <2>3. CASE CopyCli(i)
    <3>1. \/ file' = file
          \/ file' = [file EXCEPT !["cli"] = from[i]] /\ from[i] \in Versions
          \/ file' = [file EXCEPT !["cli"] = Torn]
      BY <2>3 DEF CopyCli, Copy, files
    <3>2. UNCHANGED serviceVars
      BY <2>3 DEF CopyCli, Copy
    <3> QED
      BY <1>1, <2>1, <3>1, <3>2 DEF TypeOK, Exes, serviceVars
  <2>4. CASE Register(i)
    <3>1. CASE UNCHANGED serviceVars
      BY <1>1, <2>4, <3>1 DEF Register, files, serviceVars
    <3>2. CASE record' = "present" /\ image' = "dir" /\ trigger' = (trigger /\ record = "present")
      <4>1. trigger'
        BY <1>1, <3>2, Zenon
      <4>2. at[i] = "register" /\ file' = file
        BY <2>4 DEF Register, files
      <4>3. file["cli"] \in Versions
        <5>1. CASE image = "dir"
          BY <1>1, <5>1
        <5>2. CASE image = "elsewhere"
          <6>1. Exists("cli")
            BY <1>1, <2>1, <4>2, <5>2 DEF CliInv, Untouched
          <6> QED
            BY <1>1, <2>1, <6>1 DEF TypeOK, Exes
        <5> QED
          BY <2>1, <5>1, <5>2 DEF TypeOK, Images
      <4> QED
        BY <3>2, <4>1, <4>2, <4>3
    <3> QED
      BY <2>4, <3>1, <3>2, Zenon DEF Register
  <2>5. CASE SetTrigger(i)
    BY <1>1, <2>5 DEF SetTrigger, files
  <2>6. CASE Delete(i) \/ Clean(i) \/ Remove(i) \/ Schedule(i)
    BY <2>1, <2>6 DEF RemoveInv, Removing, Delete, Clean, Remove, Schedule
  <2> QED
    BY <1>1, <2>2, <2>3, <2>4, <2>5, <2>6 DEF Step
<1>2. InstallInv /\ [Next]_vars =>
        [(\E i \in Installers : op[i] \in {"install", "repair"} /\ Step(i))
           /\ Serviceable /\ file["cli"] # Torn
           => Serviceable' \/ (UNCHANGED serviceVars /\ file'["cli"] = Torn)]_vars
  BY <1>1
<1> QED
  BY <1>2, AlwaysInv, PTL DEF Spec, UpdateKeepsService
=============================================================================
