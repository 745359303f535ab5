------------------------------ MODULE Switcher ------------------------------
(***************************************************************************)
(* The switcher: processes that list, select and clear the boot OS         *)
(* (src/src/switcher/mod.rs) over two stores nobody locks: the firmware's  *)
(* variables (src/src/efi) and the Windows boot store (src/src/bcd.rs for  *)
(* the hive file, src/src/switcher/bcdedit.rs for a running Windows).      *)
(*                                                                         *)
(* A process is one command: a CLI invocation, a job of the GUI or a       *)
(* request to the Windows service, each of which builds its own Switcher   *)
(* with `detect`.  Every read and every write of a variable or of the hive *)
(* is a step of its own, so that the commands of several processes         *)
(* interleave; `list` and `status` write nothing and are the operators     *)
(* Shown... below.  Rebooting is what the firmware and the Windows boot    *)
(* manager do with the selections (external).                              *)
(***************************************************************************)
EXTENDS BootEntries, FiniteSets

CONSTANTS
  Procs,      \* the processes
  Selectors,  \* the selector strings commands are given
  BcdFlags,   \* whether they name the hive file (--bcd): a subset of BOOLEAN
  Faults      \* which of FaultKinds the environment may inject

FaultKinds == {"read",     \* reading a variable fails and looks like absence
               "write",    \* writing or deleting a variable fails
               "load",     \* the hive cannot be read, or exported
               "open",     \* the hive file cannot be opened for writing
               "save",     \* writing its bytes fails
               "bcdedit",  \* a bcdedit command fails
               "kill"}     \* a process dies, or the machine restarts under it

ASSUME SelectorsAssumption == Selectors \subseteq SelectorSpace
ASSUME BcdFlagsAssumption == BcdFlags \subseteq BOOLEAN
ASSUME FaultsAssumption == Faults \subseteq FaultKinds

VARIABLES
  bootOrder,  \* BootOrder
  bootNext,   \* BootNext, or None
  hive,       \* the BCD hive of Home: whole = FALSE between truncation and write
  running,    \* the OS the machine runs
  pc, verb, sel,  \* per process: where it is, its command, its selector
  named,          \* whether the command names the hive file
  target,         \* the entry found
  slot,           \* its copy of the store
  order,          \* the order it is about to write
  reply           \* what it answered

nvram == <<bootOrder, bootNext>>
local == <<verb, sel, named, target, order>>
vars == <<bootOrder, bootNext, hive, running, pc, local, slot, reply>>

Verbs == {"default", "once", "clear"}
Places == {"idle", "detect", "find", "readOrder", "writeOrder", "writeNext",
           "checkNext", "deleteNext", "store", "save", "reload", "refind"}
Replies == {"none", "ok", "err", "notFound", "panic"}
Hives == [whole : BOOLEAN, def : Guids \cup {None}, seq : Guids \cup {None}]
NoSelector == [index |-> {}, keys |-> {}, labels |-> {}]

TypeOK ==
  /\ bootOrder \in Seq(Ids)
  /\ bootNext \in Ids \cup {None}
  /\ hive \in Hives
  /\ running \in Targets
  /\ pc \in [Procs -> Places]
  /\ verb \in [Procs -> Verbs]
  /\ sel \in [Procs -> Selectors \cup {NoSelector}]
  /\ named \in [Procs -> BOOLEAN]
  /\ target \in [Procs -> Targets \cup {NoTarget}]
  /\ slot \in [Procs -> Slots \cup {NoSlot}]
  /\ order \in [Procs -> Seq(Ids)]
  /\ reply \in [Procs -> Replies]

\* The machine starts with no one-shot armed and an intact hive, under any OS.
Init ==
  /\ bootOrder \in {s \in [1..Cardinality(Ids) -> Ids] : IsPermutation(s)}
  /\ bootNext = None
  /\ hive \in [whole : {TRUE}, def : Guids, seq : {None}]
  /\ running \in {Efi(id) : id \in Ids \ {Home}} \cup {[id |-> Home, guid |-> g] : g \in Guids}
  /\ pc = [p \in Procs |-> "idle"]
  /\ verb = [p \in Procs |-> "clear"]
  /\ sel = [p \in Procs |-> NoSelector]
  /\ named = [p \in Procs |-> FALSE]
  /\ target = [p \in Procs |-> NoTarget]
  /\ slot = [p \in Procs |-> NoSlot]
  /\ order = [p \in Procs |-> <<>>]
  /\ reply = [p \in Procs |-> "none"]

-----------------------------------------------------------------------------
(* What every step is made of *)

At(p, place) == pc[p] = place
Move(p, place, s) == /\ pc' = [pc EXCEPT ![p] = place]
                     /\ slot' = [slot EXCEPT ![p] = s]
                     /\ reply' = reply
Goto(p, place) == Move(p, place, slot[p])

\* A command ends: the Switcher is dropped, the caller gets its answer.
Answer(p, r) == /\ pc' = [pc EXCEPT ![p] = "idle"]
                /\ slot' = [slot EXCEPT ![p] = NoSlot]
                /\ reply' = [reply EXCEPT ![p] = r]

May(fault) == fault \in Faults

\* SystemNvram::read turns every error into None.
Reads(value, absent) == {value} \cup (IF May("read") THEN {absent} ELSE {})

\* A running Windows holds its hive open, so it is driven through bcdedit, and its
\* file cannot be read; from another OS, or with --bcd, the hive is a file.
Live(p) == running.id \in WinIds /\ ~named[p]
Loads(p) == hive.whole /\ (named[p] => running.id # Home)

Loaded(id) == [efi |-> id, def |-> hive.def, seq |-> hive.seq]

\* What a fresh process finds when it reads everything.
ShownSlot == IF hive.whole /\ PairedEntry(bootOrder, FALSE) # None
               THEN Loaded(PairedEntry(bootOrder, FALSE)) ELSE NoSlot
ShownEntries == Range(Entries(bootOrder, ShownSlot))

EditedDropsSequence(store, v, guid) ==  \* mutant: a new default drops the sequence
  IF v = "default" THEN [store EXCEPT !.def = guid, !.seq = None]
  ELSE [store EXCEPT !.seq = IF v = "once" THEN guid ELSE None]

\* Bcd::set_default, set_boot_sequence and clear_boot_sequence.
Edited(store, v, guid) ==
  CASE v = "default" -> [store EXCEPT !.def = guid]
    [] v = "once"    -> [store EXCEPT !.seq = guid]
    [] v = "clear"   -> [store EXCEPT !.seq = None]

-----------------------------------------------------------------------------
(* A command, step by step *)

Start(p) ==
  /\ At(p, "idle")
  /\ \E v \in Verbs, s \in Selectors, b \in BcdFlags :
       /\ named' = [named EXCEPT ![p] = b]
       /\ verb' = [verb EXCEPT ![p] = v]
       /\ sel' = [sel EXCEPT ![p] = IF v = "clear" THEN NoSelector ELSE s]
  /\ target' = [target EXCEPT ![p] = NoTarget]
  /\ pc' = [pc EXCEPT ![p] = "detect"]
  /\ reply' = [reply EXCEPT ![p] = "none"]
  /\ UNCHANGED <<nvram, hive, running, slot, order>>

DetectUnchecked(p) ==  \* mutant: a truncated hive is taken for a store
  /\ At(p, "detect")
  /\ LET id == PairedEntry(bootOrder, named[p])
     IN Move(p, IF verb[p] = "clear" THEN "checkNext" ELSE "find",
                IF id = None THEN NoSlot
                ELSE IF hive.whole THEN Loaded(id) ELSE [efi |-> id, def |-> None, seq |-> None])
  /\ UNCHANGED <<nvram, hive, running, local>>

\* Switcher::detect and detect_with_bcd: pair the store, when there is one to
\* pair and it reads.  Only an explicit --bcd that does not read is an error.
Detect(p) ==
  /\ At(p, "detect")
  /\ \E o \in Reads(bootOrder, <<>>),
        loads \in {Loads(p)} \cup (IF May("load") THEN {FALSE} ELSE {}) :
       LET id == PairedEntry(o, named[p])
       IN \/ /\ named[p] /\ id # None /\ ~loads
             /\ Answer(p, "err")
          \/ /\ named[p] => id = None \/ loads
             /\ Move(p, IF verb[p] = "clear" THEN "checkNext" ELSE "find",
                        IF id # None /\ loads THEN Loaded(id) ELSE NoSlot)
  /\ UNCHANGED <<nvram, hive, running, local>>

FindStoreOnly(p) ==  \* mutant: forgets the firmware's half for a BCD object
  /\ At(p, "find")
  /\ LET l == Entries(bootOrder, slot[p])
     IN \E i \in DOMAIN l :
          /\ Finds(sel[p], l, i)
          /\ target' = [target EXCEPT ![p] = l[i]]
          /\ Goto(p, IF l[i].guid # None THEN "store"
                     ELSE IF verb[p] = "default" THEN "readOrder" ELSE "writeNext")
  /\ UNCHANGED <<nvram, hive, running, verb, sel, named, order>>

\* The first half of Switcher::set.
Find(p) ==
  /\ At(p, "find")
  /\ \E o \in Reads(bootOrder, <<>>) :
       LET l == Entries(o, slot[p])
       IN \/ \E i \in DOMAIN l :
               /\ Finds(sel[p], l, i)
               /\ target' = [target EXCEPT ![p] = l[i]]
               /\ Goto(p, IF verb[p] = "default" THEN "readOrder" ELSE "writeNext")
          \/ /\ \A i \in DOMAIN l : ~Finds(sel[p], l, i)
             /\ target' = target
             /\ Answer(p, "notFound")
  /\ UNCHANGED <<nvram, hive, running, verb, sel, named, order>>

\* Efi::set_default reads the order, and writes it back changed.
ReadOrder(p) ==
  /\ At(p, "readOrder")
  /\ \E o \in Reads(bootOrder, <<>>) :
       order' = [order EXCEPT ![p] = MoveToFront(o, target[p].id)]
  /\ Goto(p, "writeOrder")
  /\ UNCHANGED <<nvram, hive, running, verb, sel, named, target>>

\* After the firmware's half of Switcher::apply comes the store's half, for a
\* target that has one.
ThenStore(p) == Goto(p, IF target[p].guid = None THEN "refind" ELSE "store")

WriteOrderAnyway(p) ==  \* mutant: a failed write does not stop the command
  /\ At(p, "writeOrder")
  /\ \/ bootOrder' = order[p]
     \/ May("write") /\ bootOrder' = bootOrder
  /\ ThenStore(p)
  /\ order' = [order EXCEPT ![p] = <<>>]
  /\ UNCHANGED <<bootNext, hive, running, verb, sel, named, target>>

WriteOrder(p) ==
  /\ At(p, "writeOrder")
  /\ \/ bootOrder' = order[p] /\ ThenStore(p)
     \/ May("write") /\ bootOrder' = bootOrder /\ Answer(p, "err")
  /\ order' = [order EXCEPT ![p] = <<>>]
  /\ UNCHANGED <<bootNext, hive, running, verb, sel, named, target>>

WriteNextKey(p) ==  \* mutant: arms the entry's key
  /\ At(p, "writeNext")
  /\ bootNext' = Key(target[p]) /\ ThenStore(p)
  /\ UNCHANGED <<bootOrder, hive, running, local>>

WriteNextIfUnarmed(p) ==  \* mutant: leaves an armed BootNext alone
  /\ At(p, "writeNext")
  /\ bootNext' = (IF bootNext = None THEN target[p].id ELSE bootNext)
  /\ ThenStore(p)
  /\ UNCHANGED <<bootOrder, hive, running, local>>

\* Efi::set_boot_next.
WriteNext(p) ==
  /\ At(p, "writeNext")
  /\ \/ bootNext' = target[p].id /\ ThenStore(p)
     \/ May("write") /\ bootNext' = bootNext /\ Answer(p, "err")
  /\ UNCHANGED <<bootOrder, hive, running, local>>

CheckNextFirst(p) ==  \* mutant: nothing in BootNext, so nothing to clear
  /\ At(p, "checkNext")
  /\ \/ bootNext = None /\ Answer(p, "ok")
     \/ bootNext # None /\ Goto(p, "deleteNext")
  /\ UNCHANGED <<nvram, hive, running, local>>

\* Efi::clear_boot_next: look whether BootNext exists, then delete it.
CheckNext(p) ==
  /\ At(p, "checkNext")
  /\ \E n \in Reads(bootNext, None) : Goto(p, IF n = None THEN "store" ELSE "deleteNext")
  /\ UNCHANGED <<nvram, hive, running, local>>

\* Deleting a variable that is gone is an error.
DeleteNext(p) ==
  /\ At(p, "deleteNext")
  /\ \/ bootNext # None /\ bootNext' = None /\ Goto(p, "store")
     \/ (bootNext = None \/ May("write")) /\ bootNext' = bootNext /\ Answer(p, "err")
  /\ UNCHANGED <<bootOrder, hive, running, local>>

\* The store's half.  The hive file is edited in memory and written over as a
\* whole: std::fs::write truncates it, then writes.
OpenStore(p) ==
  /\ At(p, "store") /\ slot[p] # NoSlot /\ ~Live(p)
  /\ \/ /\ hive' = [hive EXCEPT !.whole = FALSE]
        /\ Move(p, "save", Edited(slot[p], verb[p], target[p].guid))
     \/ May("open") /\ hive' = hive /\ Answer(p, "err")
  /\ UNCHANGED <<nvram, running, local>>

StoreDone(p) == \/ verb[p] = "clear" /\ Answer(p, "ok")
                \/ verb[p] # "clear" /\ Goto(p, "refind")

SaveStore(p) ==
  /\ At(p, "save")
  /\ \/ /\ hive' = [whole |-> TRUE, def |-> slot[p].def, seq |-> slot[p].seq]
        /\ StoreDone(p)
     \/ /\ May("save")
        /\ hive' = [hive EXCEPT !.whole = FALSE]
        /\ Answer(p, "err")
  /\ UNCHANGED <<nvram, running, local>>

RunBcdeditFromCopy(p) ==  \* mutant: writes the whole copy back, like the file
  /\ At(p, "store") /\ slot[p] # NoSlot /\ Live(p)
  /\ LET edited == Edited(slot[p], verb[p], target[p].guid)
     IN hive' = [hive EXCEPT !.def = edited.def, !.seq = edited.seq]
  /\ Goto(p, "reload")
  /\ UNCHANGED <<nvram, running, local>>

\* The live store changes by one bcdedit command, then is exported again.  Clear
\* runs no command when the copy had no sequence; when the store has none any
\* more, the command fails.
RunBcdedit(p) ==
  /\ At(p, "store") /\ slot[p] # NoSlot /\ Live(p)
  /\ \/ /\ verb[p] = "clear" /\ slot[p].seq = None
        /\ hive' = hive
        /\ Goto(p, "reload")
     \/ /\ verb[p] = "clear" => slot[p].seq # None /\ hive.seq # None
        /\ hive' = Edited(hive, verb[p], target[p].guid)
        /\ Goto(p, "reload")
     \/ /\ verb[p] = "clear" => slot[p].seq # None
        /\ May("bcdedit") \/ (verb[p] = "clear" /\ hive.seq = None)
        /\ hive' = hive
        /\ Answer(p, "err")
  /\ UNCHANGED <<nvram, running, local>>

ReloadStoreUnpaired(p) ==  \* mutant: the pairing does not survive the reload
  /\ At(p, "reload")
  /\ \/ verb[p] = "clear" /\ Answer(p, "ok")
     \/ verb[p] # "clear" /\ Move(p, "refind", NoSlot)
  /\ UNCHANGED <<nvram, hive, running, local>>

ReloadStore(p) ==
  /\ At(p, "reload")
  /\ \/ /\ hive.whole
        /\ \/ verb[p] = "clear" /\ Answer(p, "ok")
           \/ verb[p] # "clear" /\ Move(p, "refind", Loaded(slot[p].efi))
     \/ (May("load") \/ ~hive.whole) /\ Answer(p, "err")
  /\ UNCHANGED <<nvram, hive, running, local>>

\* clear with no store paired.
NoStore(p) ==
  /\ At(p, "store") /\ slot[p] = NoSlot
  /\ Answer(p, "ok")
  /\ UNCHANGED <<nvram, hive, running, local>>

\* The second half of Switcher::set: "entry still present after apply".
Refind(p) ==
  /\ At(p, "refind")
  /\ \E o \in Reads(bootOrder, <<>>) :
       LET l == Entries(o, slot[p])
           found == \E i \in DOMAIN l : Finds(KeyOf(target[p]), l, i)
       IN Answer(p, IF found THEN "ok" ELSE "panic")
  /\ UNCHANGED <<nvram, hive, running, local>>

Step(p) ==
  \/ Detect(p) \/ Find(p) \/ Refind(p)
  \/ ReadOrder(p) \/ WriteOrder(p) \/ WriteNext(p)
  \/ CheckNext(p) \/ DeleteNext(p)
  \/ OpenStore(p) \/ SaveStore(p) \/ RunBcdedit(p) \/ ReloadStore(p) \/ NoStore(p)

-----------------------------------------------------------------------------
(* The machine *)

\* A process is killed, or its machine restarts: what it did stays done.
Gone(p) == pc[p] # "idle" /\ May("kill")

Kill(p) ==
  /\ Gone(p)
  /\ Answer(p, "none")
  /\ order' = [order EXCEPT ![p] = <<>>]
  /\ UNCHANGED <<nvram, hive, running, verb, sel, named, target>>

\* The firmware tries BootNext, then BootOrder.  The Windows Boot Manager starts
\* if its hive reads, and takes BootSequence before DefaultObject.
Attempts == IF bootNext = None THEN bootOrder ELSE <<bootNext>> \o bootOrder
Starts(id) == id # Home \/ hive.whole
ObjectOf(id) == IF id # Home THEN None
                ELSE IF hive.seq # None THEN hive.seq ELSE hive.def
Boots(t) ==
  /\ \E i \in DOMAIN Attempts : /\ t.id = Attempts[i] /\ Starts(t.id)
                                /\ \A j \in 1..(i - 1) : ~Starts(Attempts[j])
  /\ t.guid = ObjectOf(t.id)

\* A boot consumes BootNext, and BootSequence when it goes through the Windows
\* Boot Manager.  When nothing starts there is no next OS, and no step.
Reboot ==
  /\ \A p \in Procs : pc[p] = "idle" \/ Gone(p)
  /\ \E t \in Targets :
       /\ Boots(t)
       /\ running' = t
       /\ hive' = IF t.id = Home THEN [hive EXCEPT !.seq = None] ELSE hive
  /\ bootNext' = None
  /\ pc' = [p \in Procs |-> "idle"]
  /\ slot' = [p \in Procs |-> NoSlot]
  /\ order' = [p \in Procs |-> <<>>]
  /\ reply' = [p \in Procs |-> "none"]
  /\ target' = [p \in Procs |-> NoTarget]
  /\ verb' = [p \in Procs |-> "clear"]
  /\ sel' = [p \in Procs |-> NoSelector]
  /\ named' = [p \in Procs |-> FALSE]
  /\ UNCHANGED bootOrder

Next ==
  \/ \E p \in Procs : Start(p) \/ Step(p) \/ Kill(p)
  \/ Reboot

Spec == Init /\ [][Next]_vars

-----------------------------------------------------------------------------
(* Inductive invariants of the proofs *)

\* What a process has when it is at a place: a store to save or reload, and a
\* target to select unless it is clearing.
Ready(place, v, t, st) ==
  /\ place \in {"checkNext", "deleteNext"} => v = "clear"
  /\ place \in {"save", "reload"} => st \in Slots
  /\ \/ place \in {"readOrder", "writeOrder", "writeNext", "refind"}
     \/ place \in {"store", "save", "reload"} /\ v # "clear"
     => t \in Targets

Prepared == \A p \in Procs : Ready(pc[p], verb[p], target[p], slot[p])

TypeInv == TypeOK /\ Prepared

\* Every order in flight is a permutation, like the one in the firmware.
OrderInv == /\ IsPermutation(bootOrder)
            /\ \A p \in Procs : pc[p] = "writeOrder" => IsPermutation(order[p])

\* The target stays an entry of the list that its process would print: the copy
\* of the store may be edited and reloaded, its pairing does not change.
Aimed(place, v, t, st) ==
  \/ place \in {"readOrder", "writeOrder", "writeNext", "refind"}
  \/ place \in {"store", "save", "reload"} /\ v # "clear"
  => Listed(t, st)

AimInv == \A p \in Procs : /\ Aimed(pc[p], verb[p], target[p], slot[p])
                          /\ reply[p] # "panic"

\* Only its own command brings a process to a place, it saves the file only where
\* no running Windows holds it, and `clear` has no target.
StepsInv == \A p \in Procs :
  /\ pc[p] = "find" => verb[p] # "clear"
  /\ pc[p] \in {"readOrder", "writeOrder"} => verb[p] = "default"
  /\ pc[p] = "writeNext" => verb[p] = "once"
  /\ pc[p] = "save" => ~Live(p)
  /\ verb[p] = "clear" => target[p] = NoTarget

\* Somebody is about to complete a file that is cut short, and every copy of the
\* store names a default.
WholeInv ==
  /\ hive.whole \/ \E p \in Procs : pc[p] = "save"
  /\ hive.def # None
  /\ \A p \in Procs :
       /\ slot[p] # NoSlot => slot[p].def # None
       /\ pc[p] \in {"store", "save"} /\ verb[p] # "clear" => target[p].guid # None

\* A process that is alone works on copies of what the machine has, and turns to the
\* store when the firmware points there.
Current(p) == [efi |-> slot[p].efi, def |-> hive.def, seq |-> hive.seq]
LoneInv == \A p \in Procs :
  /\ pc[p] \in {"find", "readOrder", "writeOrder", "writeNext", "checkNext", "deleteNext",
                "store"} /\ slot[p] # NoSlot => slot[p] = Current(p)
  /\ pc[p] = "save" => slot[p] = Edited(Current(p), verb[p], target[p].guid)
  /\ pc[p] = "writeOrder" => order[p] = MoveToFront(bootOrder, target[p].id)
  /\ pc[p] \in {"store", "save"} /\ verb[p] # "clear" =>
       /\ target[p].guid # None
       /\ verb[p] = "default" => bootOrder[1] = target[p].id
       /\ verb[p] = "once" => bootNext = target[p].id

\* What a process that is alone has done when it is about to answer, or told Ok.
Told(p) == pc[p] = "idle" /\ reply[p] = "ok"
Chosen(v, t) ==
  /\ t \in Targets
  /\ t.guid # None => t.id = Home
  /\ v = "default" => bootOrder[1] = t.id /\ (t.guid # None => hive.def = t.guid)
  /\ v = "once" => bootNext = t.id /\ (t.guid # None => hive.seq = t.guid)
Disarmed(place, st) ==
  /\ place \in {"store", "save", "reload"} => bootNext = None
  /\ place = "reload" => hive.seq = None
  /\ place \in {"checkNext", "deleteNext", "store"} /\ st = NoSlot => ~hive.whole \/ May("load")
DoneInv == \A p \in Procs :
  /\ verb[p] # "clear" /\ (pc[p] \in {"reload", "refind"} \/ Told(p)) =>
       Chosen(verb[p], target[p])
  /\ verb[p] # "clear" /\ (pc[p] = "refind" \/ Told(p)) /\ target[p].guid # None => hive.whole
  /\ verb[p] = "clear" => Disarmed(pc[p], slot[p])
  /\ pc[p] = "refind" => verb[p] # "clear"

\* What each of several processes brings to its two writes, on a machine whose only
\* Windows entry is Home.
BringsInv == \A p \in Procs :
  /\ target[p].guid # None => target[p].id = Home
  /\ target[p].guid # None /\ pc[p] \in {"readOrder", "writeOrder", "writeNext", "store"} =>
       slot[p] # NoSlot
  /\ pc[p] = "writeOrder" => order[p][1] = target[p].id
  /\ pc[p] \in {"store", "save"} /\ verb[p] # "clear" => target[p].guid # None
  /\ pc[p] = "save" /\ verb[p] = "default" => slot[p].def = target[p].guid
  /\ pc[p] = "save" /\ verb[p] = "once" => slot[p].seq = target[p].guid

Agrees(id, guid, t) == id = t.id /\ (t.guid # None => guid = t.guid)

\* A scope's half in the firmware and its half in the store; the processes past their
\* write of the first, and past their last write.
First(v) == IF v = "default" THEN bootOrder[1] ELSE bootNext
Object(v) == IF v = "default" THEN hive.def ELSE hive.seq
FirstDone(p) == pc[p] \in {"store", "save", "reload", "refind"} \/ Told(p)
BothDone(p) == FirstDone(p) /\ (target[p].guid # None => pc[p] \notin {"store", "save"})

\* Of the processes that set one scope, the last to write the firmware is the one it
\* points at; once all have written everything, one of them has both halves.
LastInv == \A v \in {"default", "once"} :
  /\ (\A p \in Procs : verb[p] = v /\ FirstDone(p)) => \E p \in Procs : First(v) = target[p].id
  /\ (\A p \in Procs : verb[p] = v /\ BothDone(p)) =>
       \E p \in Procs : Agrees(First(v), Object(v), target[p])

-----------------------------------------------------------------------------
(* Safety: several commands at once *)

\* No interleaving, failure or crash loses or duplicates a firmware entry: every
\* order written is a permutation of the entries (Efi::set_default, "keeping
\* every other entry in place"), as long as reading BootOrder does not fail.
OrderIsPermutation == IsPermutation(bootOrder)

\* The expectation in Switcher::set, "entry still present after apply", is never
\* disappointed, whatever other processes write in between.
NeverPanics == \A p \in Procs : reply[p] # "panic"

AllIdle == \A p \in Procs : At(p, "idle")

\* Two processes saving the hive file at the same time never leave it truncated,
\* nor with what one of them read out of a truncated file.
StoreWholeAtRest == AllIdle => hive.whole /\ hive.def # None

Acts(p) == pc'[p] # pc[p]
Commands(vs) == \E p \in Procs : Acts(p) /\ verb[p] \in vs

ScopesIndependentStep ==
  /\ bootOrder' # bootOrder \/ hive'.def # hive.def => Commands({"default"})
  /\ bootNext' # bootNext \/ hive'.seq # hive.seq => Commands({"once", "clear"}) \/ Reboot

\* The permanent choice and the one-shot are independent: only `default` moves the
\* former, only `next`, `clear` and a boot move the latter (enum Scope).
ScopesIndependent == [][ScopesIndependentStep]_vars

\* The same while a running Windows owns the store: bcdedit changes one element,
\* so that stale copies of the store do no harm.
LiveScopesIndependent == [][(\A p \in Procs : Live(p)) => ScopesIndependentStep]_vars

\* When several processes have set the same scope and all were told Ok, the
\* machine holds one of the requests, never a mixture that nobody asked for.
SomeRequestHolds ==
  /\ AllIdle /\ (\A p \in Procs : reply[p] = "ok" /\ verb[p] = "default")
       => \E p \in Procs : Agrees(bootOrder[1], hive.def, target[p])
  /\ AllIdle /\ (\A p \in Procs : reply[p] = "ok" /\ verb[p] = "once")
       => \E p \in Procs : Agrees(bootNext, hive.seq, target[p])

-----------------------------------------------------------------------------
(* Safety: one command at a time *)

\* Ok from `default` or `next` means the machine does what was asked for, whatever
\* failed or crashed before: the default is the target (and its object the store's
\* default), the next boot starts the target.
OkMeansSelected ==
  \A p \in Procs : At(p, "idle") /\ reply[p] = "ok" =>
    /\ target[p].guid # None => hive.whole
    /\ verb[p] = "default" => Agrees(bootOrder[1], hive.def, target[p])
    /\ verb[p] = "once" /\ Starts(target[p].id) =>
         \E t \in Targets : Boots(t) /\ Agrees(t.id, t.guid, target[p])

\* When `clear` answers Ok, BootNext is disarmed, and the sequence too if the command
\* had read a store (Switcher::clear_next), whatever half an earlier command left
\* armed; and it has read one that is whole, unless reading it failed.
ClearedMeansDisarmed ==
  [][\A p \in Procs : verb[p] = "clear" /\ pc[p] # "idle" /\ Told(p)' =>
       /\ bootNext' = None
       /\ slot[p] # NoSlot => hive'.seq = None
       /\ slot[p] = NoSlot => ~hive'.whole \/ May("load")]_vars

\* The store changes only after the firmware points at it: a command cut in two
\* leaves the machine on its way to the store with the old choice inside, and
\* never a store armed or redirected behind the back of another default.
FirmwareLeads ==
  [][/\ hive'.def # hive.def => bootOrder[1] = Home
     /\ hive'.seq # hive.seq /\ hive'.seq # None => bootNext = Home]_vars

Before(s, a, b) == \E i, j \in DOMAIN s : i < j /\ s[i] = a /\ s[j] = b

\* A new default overtakes the others and changes nothing else of the order.
OthersKeepPlace ==
  [][\A a, b \in Ids : Before(bootOrder, a, b) /\ ~Before(bootOrder', a, b) =>
       \E p \in Procs : Acts(p) /\ verb[p] = "default" /\ target[p].id = b]_vars

\* An entry shown as the next boot is what boots next.
NextShownIsBooted ==
  AllIdle /\ hive.whole => \A t \in ShownEntries :
    IsNext(t, bootNext, ShownSlot) => Boots(t)

-----------------------------------------------------------------------------
(* What the code says of itself and does not keep *)

\* status prints "(none - follows default)" when no entry is shown as next: then
\* the next boot is the default shown.
NoNextFollowsDefault ==
  AllIdle /\ hive.whole /\ (\A t \in ShownEntries : ~IsNext(t, bootNext, ShownSlot)) =>
    \A t \in ShownEntries : IsDefault(t, bootOrder, ShownSlot) => Boots(t)

=============================================================================
