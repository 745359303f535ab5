------------------------------- MODULE Errand -------------------------------
(***************************************************************************)
(* What os-switcher promises whoever asks it for something, at a terminal  *)
(* or in the window, and whichever processes it takes: an errand is        *)
(* carried out at most once, between the asking and the answer; the world  *)
(* changes only when an errand that may change it is carried out, well or  *)
(* in part; success is reported only of an errand that was carried out     *)
(* well.  An errand reported as failed, or left, may still be carried out  *)
(* by a process that outlives the one that was killed; one reported as     *)
(* done is not carried out again.                                          *)
(***************************************************************************)
CONSTANTS
    Askers          \* whoever asks

VARIABLES
    world,          \* all that errands may change
    asked,          \* asked[c]: "reading" or "writing", the errand of c
    done,           \* done[c]: "no", or how it was carried out: "ok" or "failed"
    told            \* told[c]: the answer

vars == <<world, asked, done, told>>

Kinds == {"reading", "writing"}

Init ==
    /\ asked = [c \in Askers |-> "reading"]
    /\ done = [c \in Askers |-> "no"]
    /\ told = [c \in Askers |-> "none"]

Ask(c) ==
    /\ told[c] # "waits"
    /\ \E k \in Kinds : asked' = [asked EXCEPT ![c] = k]
    /\ done' = [done EXCEPT ![c] = "no"]
    /\ told' = [told EXCEPT ![c] = "waits"]
    /\ UNCHANGED world

Do(c) ==
    /\ told[c] \in {"waits", "left", "error"}
    /\ done[c] = "no"
    /\ \E fate \in {"ok", "failed"} : done' = [done EXCEPT ![c] = fate]
    /\ asked[c] = "reading" => world' = world
    /\ UNCHANGED asked

\* The answer may come in the step that carries the errand out.
Tell(c) ==
    /\ told[c] = "waits"
    /\ \E a \in {"error"} \cup ({"ok"} \cap {done'[c]}) :
          told' = [told EXCEPT ![c] = a]

DoAndTell(c) == Do(c) /\ (Tell(c) \/ UNCHANGED told)
JustTell(c) == Tell(c) /\ UNCHANGED <<world, asked, done>>

\* Those of one process leave together.
Leave(C) ==
    /\ \A c \in C : told[c] = "waits"
    /\ told' = [c \in Askers |-> IF c \in C THEN "left" ELSE told[c]]
    /\ UNCHANGED <<world, asked, done>>

Next ==
    \/ \E c \in Askers : Ask(c) \/ DoAndTell(c) \/ JustTell(c)
    \/ \E C \in SUBSET Askers : Leave(C)

Spec == Init /\ [][Next]_vars
=============================================================================
