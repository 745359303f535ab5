------------------------------- MODULE MCGui -------------------------------
(***************************************************************************)
(* An instance of Gui for TLC: a Windows Boot Manager (wbm) whose store    *)
(* holds Windows 11, and the firmware's setup, which the window hides.     *)
(***************************************************************************)
EXTENDS Gui

CONSTANTS wbm, setup, w11, t

MCDisplay == <<w11>>

\* "1", an index that moves when the order does, and a key.
MCSelectors == {[NoSelector EXCEPT !.index = {1}], [NoSelector EXCEPT !.keys = {w11}]}

Scene(cast, platform, verbs, faults) ==
  [cast |-> cast, platform |-> platform, verbs |-> verbs, faults |-> faults]
MCScenes ==
  {Scene({t}, "linux", {"next", "clear", "power", "install"}, FaultKinds),
   Scene({t}, "windows", {"default", "clear", "uninstall"}, FaultKinds),
   Scene({worker}, "linux", {"default", "next", "clear", "power"}, FaultKinds),
   Scene({worker}, "windows", {"default", "next", "clear", "power"}, FaultKinds),
   Scene({worker, ui}, "windows", {"default"}, {"authorize", "kill"}),
   Scene({worker, ui}, "windows", {"next"}, {}),
   Scene({worker, ui}, "linux", {"next", "clear"}, {}),
   Scene({t, worker}, "windows", {"default"}, {}),
   Scene({t, worker}, "windows", {"next"}, {})}
=============================================================================
