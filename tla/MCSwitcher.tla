----------------------------- MODULE MCSwitcher -----------------------------
(***************************************************************************)
(* Instances of Switcher for TLC: a Windows Boot Manager (wbm) whose store *)
(* holds Windows 10 and 11, and one or two Linux systems.                  *)
(***************************************************************************)
EXTENDS Switcher, TLC

CONSTANTS wbm, ubuntu, fedora, w10, w11

MCDisplay == <<w10, w11>>

ByKey(k) == [index |-> {}, keys |-> {k}, labels |-> {}]

\* Every entry by its key, the unpaired Boot Manager included.
KeySelectors == {ByKey(k) : k \in Ids \cup Guids}

\* "1", an index that moves when the order does; "11", too large for an index
\* and matching a label; "win", matching several.
MixedSelectors ==
  {ByKey(k) : k \in {ubuntu, w11}} \cup
  { [index |-> {1}, keys |-> {}, labels |-> {[id |-> wbm, guid |-> w10], [id |-> wbm, guid |-> w11]}],
    [index |-> {11}, keys |-> {}, labels |-> {[id |-> wbm, guid |-> w11]}],
    [index |-> {}, keys |-> {}, labels |-> {[id |-> wbm, guid |-> g] : g \in Guids \cup {None}}] }

ProcSymmetry == Permutations(Procs)
=============================================================================
