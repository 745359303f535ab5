---------------------------- MODULE BootEntries ----------------------------
(***************************************************************************)
(* What os-switcher computes from the firmware's boot order and from the   *)
(* Windows boot store (BCD): the list of bootable entries, the entry a     *)
(* selector denotes, and the order that makes an entry the default         *)
(* (src/src/efi/mod.rs, src/src/switcher/mod.rs, src/src/switcher/         *)
(* detect.rs).  Every definition is a function of its arguments; the       *)
(* module Switcher holds the state.                                        *)
(*                                                                         *)
(* A firmware entry (Boot####) and a BCD object (a GUID) are model values. *)
(* Labels are abstracted to the set of entries that a label selector       *)
(* matches, so that nothing depends on how a description is spelled.       *)
(***************************************************************************)
EXTENDS Integers, FiniteSets, Sequences, Functions

CONSTANTS
  Ids,          \* the firmware entries whose load option parses
  WinIds,       \* those OsKind::guess calls Windows
  Home,         \* the Windows Boot Manager entry whose store os-switcher can reach
  Guids,        \* the objects of that store
  Display,      \* its DisplayOrder, a sequence of objects
  None          \* Option::None

ASSUME HomeAssumption == Home \in WinIds /\ WinIds \subseteq Ids
ASSUME DisplayAssumption == Display \in Seq(Guids)
ASSUME NoneAssumption == None \notin Ids \cup Guids
ASSUME KeyAssumption == Ids \cap Guids = {}  \* keys begin with "efi:" or "bcd:"

-----------------------------------------------------------------------------
(* Data *)

\* BootTarget: guid = None is BootTarget::Efi, otherwise BootTarget::Bcd.
Targets == [id : Ids, guid : Guids \cup {None}]
NoTarget == [id |-> None, guid |-> None]

\* BcdSlot: the store as this process read it, and the entry it is paired with.
Slots == [efi : WinIds, def : Guids \cup {None}, seq : Guids \cup {None}]
NoSlot == [efi |-> None, def |-> None, seq |-> None]

Efi(id) == [id |-> id, guid |-> None]

\* Entry::key: "efi:<id>", or "bcd:<guid>" whatever entry leads to the store.
Key(t) == IF t.guid = None THEN t.id ELSE t.guid

-----------------------------------------------------------------------------
(* The firmware order *)

\* Every entry, once.
IsPermutation(s) == /\ s \in Seq(Ids)
                    /\ IsInjective(s)
                    /\ Range(s) = Ids

Least(S) == CHOOSE i \in S : \A j \in S : i <= j

\* The i-th smallest element of S.
Nth(S, i) == CHOOSE n \in S : Cardinality({m \in S : m <= n}) = i

\* Where x first occurs in s.
Position(s, x) == Least({i \in DOMAIN s : s[i] = x})

MoveToFrontSwaps(s, id) ==  \* mutant: swaps the head with id
  IF id \in Range(s)
    THEN [i \in 1..Len(s) |-> IF i = 1 THEN id
                              ELSE IF i = Position(s, id) THEN s[1]
                              ELSE s[i]]
    ELSE <<id>> \o s

MoveToFrontKeeps(s, id) ==  \* mutant: forgets to drop the old occurrence
  <<id>> \o s

\* Efi::set_default: retain the others, insert id in front.  (BootOrder names an
\* entry once, so retain drops at most one element.)
MoveToFront(s, id) ==
  IF id \in Range(s)
    THEN [i \in 1..Len(s) |-> IF i = 1 THEN id
                              ELSE IF i <= Position(s, id) THEN s[i - 1]
                              ELSE s[i]]
    ELSE <<id>> \o s

-----------------------------------------------------------------------------
(* Pairing and listing *)

\* The entry the store is paired with: the only Windows entry of the order, or
\* the first one when the command names the hive (--bcd); None when there is no
\* such entry.
PairedEntry(order, named) ==
  LET windows == {i \in DOMAIN order : order[i] \in WinIds}
  IN IF windows = {} \/ (~named /\ \E i, j \in windows : i # j)
       THEN None ELSE order[Least(windows)]

Singles(s) == [i \in 1..Len(s) |-> Efi(s[i])]
Expanded(id) == [i \in 1..Len(Display) |-> [id |-> id, guid |-> Display[i]]]

\* Switcher::entries: the order, the paired entry expanded to its BCD objects.
Entries(order, slot) ==
  IF slot.efi \in Range(order)
    THEN LET k == Position(order, slot.efi)
         IN Singles(SubSeq(order, 1, k - 1)) \o Expanded(slot.efi)
              \o Singles(SubSeq(order, k + 1, Len(order)))
    ELSE Singles(order)

\* An entry of the list either stands for a firmware entry that is not the paired
\* one, or for an object of the store behind the paired one.
Listed(t, slot) ==
  \/ t.guid = None /\ t.id # slot.efi
  \/ t.guid \in Range(Display) /\ t.id = slot.efi

\* The flags of an entry.
IsDefault(t, order, slot) ==
  /\ order # <<>> /\ order[1] = t.id
  /\ t.guid # None => slot.def = t.guid

IsNextAnyGuid(t, next, slot) == next = t.id  \* mutant: forgets BootSequence

IsNext(t, next, slot) ==
  /\ next = t.id
  /\ t.guid # None => slot.seq = t.guid

-----------------------------------------------------------------------------
(* Selectors *)

\* A selector string, by what it can denote: the number it parses to, the keys
\* it equals, the entries whose label contains it.
SelectorSpace == [index : SUBSET Nat, keys : SUBSET (Ids \cup Guids),
                  labels : SUBSET Targets]

FirstOf(i, hits) == hits # {} /\ i = Least(hits)

\* Switcher::find returns the entry at position i of the list l: an index that
\* exists wins, then the first equal key, then the first matching label.
Finds(sel, l, i) ==
  LET byIndex == {j \in DOMAIN l : j - 1 \in sel.index}
      byKey == {j \in DOMAIN l : Key(l[j]) \in sel.keys}
      byLabel == {j \in DOMAIN l : l[j] \in sel.labels}
  IN \/ FirstOf(i, byIndex)
     \/ byIndex = {} /\ FirstOf(i, byKey)
     \/ byIndex = {} /\ byKey = {} /\ FirstOf(i, byLabel)

\* The selector that is an entry's own key.
KeyOf(t) == [index |-> {}, keys |-> {Key(t)}, labels |-> {}]

=============================================================================
