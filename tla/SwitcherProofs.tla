--------------------------- MODULE SwitcherProofs ---------------------------
(***************************************************************************)
(* Theorems about Switcher, for any set of processes, entries, objects,    *)
(* selectors and faults.                                                   *)
(***************************************************************************)
EXTENDS Switcher, EntriesProofs

-----------------------------------------------------------------------------
(* Type correctness *)

\* TypeInv in two halves: the stores, and the processes.
StoresOK == /\ bootOrder \in Seq(Ids)
            /\ bootNext \in Ids \cup {None}
            /\ hive \in Hives
            /\ running \in Targets
ProcsOK == /\ pc \in [Procs -> Places]
           /\ verb \in [Procs -> Verbs]
           /\ sel \in [Procs -> Selectors \cup {NoSelector}]
           /\ named \in [Procs -> BOOLEAN]
           /\ target \in [Procs -> Targets \cup {NoTarget}]
           /\ slot \in [Procs -> Slots \cup {NoSlot}]
           /\ order \in [Procs -> Seq(Ids)]
           /\ reply \in [Procs -> Replies]
           /\ Prepared

LEMMA TypeHalves == TypeInv <=> StoresOK /\ ProcsOK
BY DEF TypeInv, TypeOK, StoresOK, ProcsOK

LEMMA TypeInit == Init => TypeInv
<1> SUFFICES ASSUME Init PROVE StoresOK /\ ProcsOK
  BY TypeHalves
<1>1. bootOrder \in Seq(Ids)
  BY DEF Init, IsPermutation
<1>2. running \in Targets
  BY HomeAssumption DEF Init, Targets, Efi
<1>3. hive \in Hives
  BY DEF Init, Hives
<1>4. StoresOK
  BY <1>1, <1>2, <1>3 DEF Init, StoresOK
<1>5. Prepared
  BY DEF Init, Prepared, Ready
<1>6. ProcsOK
  BY <1>5 DEF Init, ProcsOK, Places, Verbs, Replies
<1> QED
  BY <1>4, <1>6

\* A step that goes on, to a place whose needs are met, keeps the processes' half.
LEMMA MoveProcs ==
  ASSUME ProcsOK, NEW p \in Procs, NEW place \in Places,
         NEW s \in Slots \cup {NoSlot}, NEW t \in Targets \cup {NoTarget}, NEW o \in Seq(Ids),
         Move(p, place, s), UNCHANGED <<verb, sel, named>>,
         target' = [target EXCEPT ![p] = t], order' = [order EXCEPT ![p] = o],
         Ready(place, verb[p], t, s)
  PROVE  ProcsOK'
<1>1. /\ pc' \in [Procs -> Places]
      /\ slot' \in [Procs -> Slots \cup {NoSlot}]
      /\ reply' \in [Procs -> Replies]
      /\ target' \in [Procs -> Targets \cup {NoTarget}]
      /\ order' \in [Procs -> Seq(Ids)]
  BY DEF ProcsOK, Move
<1>2. ASSUME NEW q \in Procs PROVE Ready(pc'[q], verb'[q], target'[q], slot'[q])
  <2>1. CASE q = p
    <3>1. pc'[q] = place /\ slot'[q] = s /\ target'[q] = t /\ verb'[q] = verb[p]
      BY <2>1 DEF ProcsOK, Move
    <3> QED  BY <3>1 DEF Ready
  <2>2. CASE q # p
    <3>1. pc'[q] = pc[q] /\ slot'[q] = slot[q] /\ target'[q] = target[q] /\ verb'[q] = verb[q]
      BY <2>2 DEF ProcsOK, Move
    <3> QED  BY <3>1 DEF ProcsOK, Prepared
  <2> QED  BY <2>1, <2>2
<1>3. Prepared'
  BY <1>2 DEF Prepared
<1> QED
  BY <1>1, <1>3 DEF ProcsOK

\* The same for a step that ends its command.
LEMMA AnswerProcs ==
  ASSUME ProcsOK, NEW p \in Procs, NEW r \in Replies, NEW o \in Seq(Ids),
         Answer(p, r), UNCHANGED <<verb, sel, named, target>>,
         order' = [order EXCEPT ![p] = o]
  PROVE  ProcsOK'
<1>1. /\ pc' \in [Procs -> Places]
      /\ slot' \in [Procs -> Slots \cup {NoSlot}]
      /\ reply' \in [Procs -> Replies]
      /\ order' \in [Procs -> Seq(Ids)]
  BY DEF ProcsOK, Answer, Places
<1>2. ASSUME NEW q \in Procs PROVE Ready(pc'[q], verb'[q], target'[q], slot'[q])
  <2>1. CASE q = p
    <3>1. pc'[q] = "idle"
      BY <2>1 DEF ProcsOK, Answer
    <3> QED  BY <3>1 DEF Ready
  <2>2. CASE q # p
    <3>1. pc'[q] = pc[q] /\ slot'[q] = slot[q] /\ target'[q] = target[q] /\ verb'[q] = verb[q]
      BY <2>2 DEF ProcsOK, Answer
    <3> QED  BY <3>1 DEF ProcsOK, Prepared
  <2> QED  BY <2>1, <2>2
<1>3. Prepared'
  BY <1>2 DEF Prepared
<1> QED
  BY <1>1, <1>3 DEF ProcsOK

\* What is not changed is rewritten with its own value.
LEMMA Rewritten ==
  ASSUME ProcsOK, NEW p \in Procs
  PROVE  /\ target = [target EXCEPT ![p] = target[p]]
         /\ order = [order EXCEPT ![p] = order[p]]
         /\ target[p] \in Targets \cup {NoTarget} /\ target[p].guid \in Guids \cup {None}
         /\ order[p] \in Seq(Ids) /\ slot[p] \in Slots \cup {NoSlot}
         /\ verb[p] \in Verbs /\ named[p] \in BOOLEAN /\ <<>> \in Seq(Ids)
         /\ Ready(pc[p], verb[p], target[p], slot[p])
<1>1. \A t \in Targets \cup {NoTarget} : t.guid \in Guids \cup {None}
  BY DEF Targets, NoTarget
<1> QED
  BY <1>1 DEF ProcsOK, Prepared

\* Both for the steps that leave the command's own variables alone.
LEMMA GotoProcs ==
  ASSUME ProcsOK, NEW p \in Procs, NEW place \in Places, NEW s \in Slots \cup {NoSlot},
         Move(p, place, s), UNCHANGED local,
         Ready(place, verb[p], target[p], s)
  PROVE  ProcsOK'
<1>1. UNCHANGED <<verb, sel, named>> /\ target' = [target EXCEPT ![p] = target[p]]
                                     /\ order' = [order EXCEPT ![p] = order[p]]
  BY Rewritten DEF local
<1> QED
  BY <1>1, Rewritten, MoveProcs

LEMMA EndProcs ==
  ASSUME ProcsOK, NEW p \in Procs, NEW r \in Replies, Answer(p, r), UNCHANGED local
  PROVE  ProcsOK'
<1>1. UNCHANGED <<verb, sel, named, target>> /\ order' = [order EXCEPT ![p] = order[p]]
  BY Rewritten DEF local
<1> QED
  BY <1>1, Rewritten, AnswerProcs

\* What a step reads and computes has the type of what it stands for.
LEMMA OrderReads ==
  ASSUME StoresOK
  PROVE  Reads(bootOrder, <<>>) \subseteq Seq(Ids)
<1>1. bootOrder \in Seq(Ids) /\ <<>> \in Seq(Ids)
  BY DEF StoresOK
<1>2. \A o \in Reads(bootOrder, <<>>) : o = bootOrder \/ o = <<>>
  BY DEF Reads
<1> QED
  BY <1>1, <1>2

LEMMA EditedType ==
  ASSUME NEW v \in Verbs, NEW g \in Guids \cup {None}
  PROVE  /\ \A st \in Slots : Edited(st, v, g) \in Slots
         /\ \A h \in Hives : Edited(h, v, g) \in Hives
BY DEF Edited, Slots, Hives, Verbs

LEMMA LoadedType ==
  ASSUME StoresOK, NEW id \in WinIds
  PROVE  Loaded(id) \in Slots
BY DEF StoresOK, Loaded, Slots, Hives

LEMMA StepType ==
  ASSUME TypeInv, NEW p \in Procs, Step(p)
  PROVE  TypeInv'
<1> SUFFICES StoresOK' /\ ProcsOK'
  BY DEF TypeInv, TypeOK, StoresOK, ProcsOK
<1>a. StoresOK /\ ProcsOK
  BY TypeHalves
<1>b. UNCHANGED <<nvram, hive, running>> => StoresOK'
  BY <1>a DEF StoresOK, nvram
<1>1. CASE Detect(p)
  <2>1. PICK o \in Reads(bootOrder, <<>>) :
          \/ Answer(p, "err")
          \/ \E place \in {"checkNext", "find"} : \E s \in {NoSlot, Loaded(PairedEntry(o, named[p]))} :
               /\ Move(p, place, s)
               /\ place = "checkNext" => verb[p] = "clear"
               /\ s # NoSlot => PairedEntry(o, named[p]) # None
    BY <1>1 DEF Detect
  <2>2. PairedEntry(o, named[p]) \in WinIds \cup {None}
    BY <1>a, OrderReads, Rewritten, PairedEntryType
  <2>3. UNCHANGED <<nvram, hive, running, local>>
    BY <1>1 DEF Detect
  <2>4. CASE Answer(p, "err")
    BY <1>a, <1>b, <2>3, <2>4, EndProcs DEF Replies
  <2>5. ASSUME NEW place \in {"checkNext", "find"}, NEW s \in {NoSlot, Loaded(PairedEntry(o, named[p]))},
               Move(p, place, s), place = "checkNext" => verb[p] = "clear",
               s # NoSlot => PairedEntry(o, named[p]) # None
        PROVE  ProcsOK'
    <3>1. s \in Slots \cup {NoSlot}
      BY <1>a, <2>2, <2>5, LoadedType
    <3>2. place \in Places /\ Ready(place, verb[p], target[p], s)
      BY <2>5 DEF Places, Ready
    <3> QED  BY <1>a, <2>3, <2>5, <3>1, <3>2, GotoProcs
  <2> QED  BY <1>b, <2>1, <2>3, <2>4, <2>5
<1>2. CASE Find(p)
  <2>1. PICK o \in Reads(bootOrder, <<>>) :
          \/ \E i \in DOMAIN Entries(o, slot[p]), place \in {"readOrder", "writeNext"} :
               target' = [target EXCEPT ![p] = Entries(o, slot[p])[i]] /\ Goto(p, place)
          \/ target' = target /\ Answer(p, "notFound")
    BY <1>2 DEF Find
  <2>2. UNCHANGED <<nvram, hive, running, verb, sel, named, order>>
    BY <1>2 DEF Find
  <2>3. Entries(o, slot[p]) \in Seq(Targets)
    BY <1>a, OrderReads, Rewritten, EntriesType
  <2>4. CASE target' = target /\ Answer(p, "notFound")
    BY <1>a, <1>b, <2>2, <2>4, EndProcs DEF Replies, local
  <2>5. ASSUME NEW i \in DOMAIN Entries(o, slot[p]), NEW place \in {"readOrder", "writeNext"},
               target' = [target EXCEPT ![p] = Entries(o, slot[p])[i]], Goto(p, place)
        PROVE  ProcsOK'
    <3>1. Entries(o, slot[p])[i] \in Targets
      BY <2>3
    <3>2. place \in Places /\ Move(p, place, slot[p]) /\ slot[p] \in Slots \cup {NoSlot}
      BY <1>a, <2>5, Rewritten DEF Places, Goto
    <3>3. order' = [order EXCEPT ![p] = order[p]] /\ order[p] \in Seq(Ids)
      BY <1>a, <2>2, Rewritten
    <3>4. Ready(place, verb[p], Entries(o, slot[p])[i], slot[p])
      BY <3>1 DEF Ready
    <3> QED  BY <1>a, <2>2, <2>5, <3>1, <3>2, <3>3, <3>4, MoveProcs
  <2> QED  BY <1>b, <2>1, <2>2, <2>4, <2>5
<1>3. CASE Refind(p)
  <2>1. \E r \in Replies : Answer(p, r)
    BY <1>3 DEF Refind, Replies
  <2> QED  BY <1>3, <1>a, <1>b, <2>1, EndProcs DEF Refind
<1>4. CASE ReadOrder(p)
  <2>1. target[p] \in Targets /\ target[p].id \in Ids
    BY <1>4, <1>a, Rewritten DEF ReadOrder, At, Ready, Targets
  <2>2. PICK o \in Reads(bootOrder, <<>>) : order' = [order EXCEPT ![p] = MoveToFront(o, target[p].id)]
    BY <1>4 DEF ReadOrder
  <2>3. MoveToFront(o, target[p].id) \in Seq(Ids)
    BY <1>a, <2>1, OrderReads, MoveToFrontType
  <2>4. Move(p, "writeOrder", slot[p]) /\ UNCHANGED <<nvram, hive, running, verb, sel, named, target>>
    BY <1>4 DEF ReadOrder, Goto
  <2>5. target' = [target EXCEPT ![p] = target[p]] /\ slot[p] \in Slots \cup {NoSlot}
    BY <1>a, <2>4, Rewritten
  <2>6. "writeOrder" \in Places /\ Ready("writeOrder", verb[p], target[p], slot[p])
    BY <2>1 DEF Places, Ready
  <2>7. ProcsOK'
    BY <1>a, <2>1, <2>2, <2>3, <2>4, <2>5, <2>6, MoveProcs
  <2> QED  BY <1>b, <2>4, <2>7
<1>5. CASE WriteOrder(p)
  <2>1. target[p] \in Targets
    BY <1>5, <1>a, Rewritten DEF WriteOrder, At, Ready
  <2>2. bootOrder' \in Seq(Ids) /\ UNCHANGED <<bootNext, hive, running>>
    BY <1>5, <1>a, Rewritten DEF WriteOrder, StoresOK
  <2>3. UNCHANGED <<verb, sel, named, target>> /\ order' = [order EXCEPT ![p] = <<>>]
        /\ target' = [target EXCEPT ![p] = target[p]]
    BY <1>5, <1>a, Rewritten DEF WriteOrder
  <2>4. Answer(p, "err") => ProcsOK'
    BY <1>a, <2>3, Rewritten, AnswerProcs DEF Replies
  <2>5. ASSUME NEW place \in {"refind", "store"}, Move(p, place, slot[p]) PROVE ProcsOK'
    <3>1. place \in Places /\ Ready(place, verb[p], target[p], slot[p])
      BY <2>1 DEF Places, Ready
    <3> QED  BY <1>a, <2>1, <2>3, <2>5, <3>1, Rewritten, MoveProcs
  <2>6. Answer(p, "err") \/ Move(p, "refind", slot[p]) \/ Move(p, "store", slot[p])
    BY <1>5 DEF WriteOrder, ThenStore, Goto
  <2> QED  BY <1>a, <2>2, <2>4, <2>5, <2>6 DEF StoresOK
<1>6. CASE WriteNext(p)
  <2>1. target[p] \in Targets /\ target[p].id \in Ids
    BY <1>6, <1>a, Rewritten DEF WriteNext, At, Ready, Targets
  <2>2. StoresOK' /\ UNCHANGED local
    BY <1>6, <1>a, <2>1 DEF WriteNext, StoresOK
  <2>3. Answer(p, "err") => ProcsOK'
    BY <1>a, <2>2, EndProcs DEF Replies
  <2>4. ASSUME NEW place \in {"refind", "store"}, Move(p, place, slot[p]) PROVE ProcsOK'
    <3>1. place \in Places /\ Ready(place, verb[p], target[p], slot[p])
      BY <2>1 DEF Places, Ready
    <3> QED  BY <1>a, <2>1, <2>2, <2>4, <3>1, Rewritten, GotoProcs
  <2>5. Answer(p, "err") \/ Move(p, "refind", slot[p]) \/ Move(p, "store", slot[p])
    BY <1>6 DEF WriteNext, ThenStore, Goto
  <2> QED  BY <2>2, <2>3, <2>4, <2>5
<1>7. CASE CheckNext(p) \/ DeleteNext(p)
  <2>1. StoresOK' /\ UNCHANGED local
    BY <1>7, <1>a DEF CheckNext, DeleteNext, StoresOK, nvram
  <2>2. verb[p] = "clear"
    BY <1>7, <1>a, Rewritten DEF CheckNext, DeleteNext, At, Ready
  <2>3. Answer(p, "err") => ProcsOK'
    BY <1>a, <2>1, EndProcs DEF Replies
  <2>4. ASSUME NEW place \in {"store", "deleteNext"}, Move(p, place, slot[p]) PROVE ProcsOK'
    <3>1. place \in Places /\ Ready(place, verb[p], target[p], slot[p])
      BY <2>2 DEF Places, Ready
    <3> QED  BY <1>a, <2>1, <2>4, <3>1, Rewritten, GotoProcs
  <2>5. Answer(p, "err") \/ Move(p, "store", slot[p]) \/ Move(p, "deleteNext", slot[p])
    BY <1>7 DEF CheckNext, DeleteNext, Goto
  <2> QED  BY <2>1, <2>3, <2>4, <2>5
<1>8. CASE OpenStore(p)
  <2>1. slot[p] \in Slots /\ (verb[p] # "clear" => target[p] \in Targets)
    BY <1>8, <1>a, Rewritten DEF OpenStore, At, Ready
  <2>2. Edited(slot[p], verb[p], target[p].guid) \in Slots
    BY <1>a, <2>1, EditedType, Rewritten
  <2>3. UNCHANGED local /\ StoresOK'
    BY <1>8, <1>a DEF OpenStore, StoresOK, Hives, nvram
  <2>4. Answer(p, "err") \/ Move(p, "save", Edited(slot[p], verb[p], target[p].guid))
    BY <1>8 DEF OpenStore
  <2>5. Answer(p, "err") => ProcsOK'
    BY <1>a, <2>3, EndProcs DEF Replies
  <2>6. "save" \in Places /\ Ready("save", verb[p], target[p], Edited(slot[p], verb[p], target[p].guid))
    BY <2>1, <2>2 DEF Places, Ready
  <2> QED  BY <1>a, <2>2, <2>3, <2>4, <2>5, <2>6, GotoProcs
<1>9. CASE SaveStore(p)
  <2>1. slot[p] \in Slots /\ (verb[p] # "clear" => target[p] \in Targets)
    BY <1>9, <1>a, Rewritten DEF SaveStore, At, Ready
  <2>2. UNCHANGED local /\ StoresOK'
    <3>1. /\ [whole |-> TRUE, def |-> slot[p].def, seq |-> slot[p].seq] \in Hives
          /\ [hive EXCEPT !.whole = FALSE] \in Hives
      BY <1>a, <2>1 DEF Hives, Slots, StoresOK
    <3> QED  BY <1>9, <1>a, <3>1 DEF SaveStore, StoresOK, nvram
  <2>3. \/ \E r \in {"ok", "err"} : Answer(p, r)
        \/ verb[p] # "clear" /\ Move(p, "refind", slot[p])
    BY <1>9 DEF SaveStore, StoreDone, Goto
  <2>4. \A r \in {"ok", "err"} : Answer(p, r) => ProcsOK'
    BY <1>a, <2>2, EndProcs DEF Replies
  <2>5. verb[p] # "clear" => Ready("refind", verb[p], target[p], slot[p])
    BY <2>1 DEF Ready
  <2>6. "refind" \in Places
    BY DEF Places
  <2> QED  BY <1>a, <2>1, <2>2, <2>3, <2>4, <2>5, <2>6, GotoProcs
<1>10. CASE RunBcdedit(p)
  <2>1. slot[p] \in Slots /\ (verb[p] # "clear" => target[p] \in Targets)
    BY <1>10, <1>a, Rewritten DEF RunBcdedit, At, Ready
  <2>2. Edited(hive, verb[p], target[p].guid) \in Hives
    BY <1>a, Rewritten, EditedType DEF StoresOK
  <2>3. UNCHANGED local /\ StoresOK'
    BY <1>10, <1>a, <2>2 DEF RunBcdedit, StoresOK, nvram
  <2>4. Answer(p, "err") \/ Move(p, "reload", slot[p])
    BY <1>10 DEF RunBcdedit, Goto
  <2>5. Answer(p, "err") => ProcsOK'
    BY <1>a, <2>3, EndProcs DEF Replies
  <2>6. "reload" \in Places /\ Ready("reload", verb[p], target[p], slot[p])
    BY <2>1 DEF Places, Ready
  <2> QED  BY <1>a, <2>1, <2>3, <2>4, <2>5, <2>6, GotoProcs
<1>11. CASE ReloadStore(p)
  <2>1. slot[p] \in Slots /\ (verb[p] # "clear" => target[p] \in Targets)
    BY <1>11, <1>a, Rewritten DEF ReloadStore, At, Ready
  <2>2. Loaded(slot[p].efi) \in Slots
    BY <1>a, <2>1, LoadedType DEF Slots
  <2>3. UNCHANGED <<nvram, hive, running, local>>
    BY <1>11 DEF ReloadStore
  <2>4. \/ \E r \in {"ok", "err"} : Answer(p, r)
        \/ verb[p] # "clear" /\ Move(p, "refind", Loaded(slot[p].efi))
    BY <1>11 DEF ReloadStore
  <2>5. \A r \in {"ok", "err"} : Answer(p, r) => ProcsOK'
    BY <1>a, <2>3, EndProcs DEF Replies
  <2>6. verb[p] # "clear" => Ready("refind", verb[p], target[p], Loaded(slot[p].efi))
    BY <2>1 DEF Ready
  <2>7. "refind" \in Places
    BY DEF Places
  <2> QED  BY <1>a, <1>b, <2>2, <2>3, <2>4, <2>5, <2>6, <2>7, GotoProcs
<1>12. CASE NoStore(p)
  BY <1>12, <1>a, <1>b, EndProcs DEF NoStore, Replies
<1> QED
  BY <1>1, <1>2, <1>3, <1>4, <1>5, <1>6, <1>7, <1>8, <1>9, <1>10, <1>11, <1>12 DEF Step

LEMMA TypeNext == TypeInv /\ [Next]_vars => TypeInv'
<1> SUFFICES ASSUME TypeInv, [Next]_vars PROVE TypeInv'
  OBVIOUS
<1>1. CASE UNCHANGED vars
  BY <1>1 DEF vars, local, TypeInv, TypeOK, Prepared
<1>2. ASSUME NEW p \in Procs, Step(p) PROVE TypeInv'
  BY <1>2, StepType
<1>3. ASSUME NEW p \in Procs, Start(p) \/ Kill(p) PROVE TypeInv'
  <2>1. /\ StoresOK'
        /\ pc' \in [Procs -> Places] /\ verb' \in [Procs -> Verbs]
        /\ sel' \in [Procs -> Selectors \cup {NoSelector}] /\ named' \in [Procs -> BOOLEAN]
        /\ target' \in [Procs -> Targets \cup {NoTarget}]
        /\ slot' \in [Procs -> Slots \cup {NoSlot}]
        /\ order' \in [Procs -> Seq(Ids)] /\ reply' \in [Procs -> Replies]
    <3> USE TypeHalves, BcdFlagsAssumption DEF StoresOK, ProcsOK, Places, Replies, nvram
    <3>1. CASE Start(p)
      BY <3>1 DEF Start
    <3>2. CASE Kill(p)
      BY <3>2 DEF Kill, Answer
    <3> QED  BY <1>3, <3>1, <3>2
  <2>2. pc'[p] \in {"detect", "idle"} /\ \A q \in Procs \ {p} :
           pc'[q] = pc[q] /\ verb'[q] = verb[q] /\ target'[q] = target[q] /\ slot'[q] = slot[q]
    BY <1>3, TypeHalves DEF ProcsOK, Start, Kill, Answer
  <2>3. Prepared'
    BY <2>2 DEF TypeInv, Prepared, Ready
  <2> QED  BY <2>1, <2>3 DEF TypeInv, TypeOK, StoresOK
<1>4. CASE Reboot
  <2>1. StoresOK'
    BY <1>4, TypeHalves DEF Reboot, StoresOK, Hives
  <2>2. Prepared'
    BY <1>4 DEF Reboot, Prepared, Ready
  <2>3. ProcsOK'
    BY <1>4, <2>2 DEF Reboot, ProcsOK, Places, Verbs, Replies
  <2> QED  BY <2>1, <2>3 DEF TypeInv, TypeOK, StoresOK, ProcsOK
<1> QED
  BY <1>1, <1>2, <1>3, <1>4 DEF Next

\* Every variable keeps its type whatever fails and whoever interleaves: in
\* particular the firmware is only ever given identifiers of entries it knows, and
\* the store only objects it holds.
THEOREM TypeCorrect == Spec => []TypeOK
<1>1. Init => TypeInv
  BY TypeInit
<1>2. TypeInv /\ [Next]_vars => TypeInv'
  BY TypeNext
<1>3. TypeInv => TypeOK
  BY DEF TypeInv
<1> QED
  BY <1>1, <1>2, <1>3, PTL DEF Spec

-----------------------------------------------------------------------------
(* The boot order *)

LEMMA OrderInit == Init => OrderInv
BY DEF Init, OrderInv

LEMMA OrderStep ==
  ASSUME "read" \notin Faults, TypeInv, OrderInv, [Next]_vars
  PROVE  OrderInv'
<1> USE DEF OrderInv
<1>t. /\ pc \in [Procs -> Places] /\ order \in [Procs -> Seq(Ids)]
      /\ \A p \in Procs : Ready(pc[p], verb[p], target[p], slot[p])
  BY DEF TypeInv, TypeOK, Prepared
<1>1. ASSUME NEW p \in Procs, ReadOrder(p) PROVE OrderInv'
  <2>1. target[p].id \in Ids
    BY <1>1, <1>t DEF ReadOrder, At, Ready, Targets
  <2>2. order' = [order EXCEPT ![p] = MoveToFront(bootOrder, target[p].id)] /\ bootOrder' = bootOrder
    BY <1>1 DEF ReadOrder, Reads, May, nvram
  <2>3. IsPermutation(MoveToFront(bootOrder, target[p].id))
    BY <2>1, MoveToFrontPermutes
  <2>4. \A q \in Procs \ {p} : pc'[q] = pc[q] /\ order'[q] = order[q]
    BY <1>1, <1>t, <2>2 DEF ReadOrder, Goto, Move
  <2>5. order'[p] = MoveToFront(bootOrder, target[p].id)
    BY <1>t, <2>2
  <2> QED  BY <2>2, <2>3, <2>4, <2>5
<1>2. ASSUME NEW p \in Procs, WriteOrder(p) PROVE OrderInv'
  <2>1. IsPermutation(bootOrder')
    BY <1>2 DEF WriteOrder, At
  <2>2. pc'[p] # "writeOrder" /\ \A q \in Procs \ {p} : pc'[q] = pc[q] /\ order'[q] = order[q]
    BY <1>2, <1>t DEF WriteOrder, ThenStore, Goto, Move, Answer
  <2> QED  BY <2>1, <2>2
<1>3. ASSUME NEW p \in Procs, Start(p) \/ (Step(p) /\ ~ReadOrder(p) /\ ~WriteOrder(p)) \/ Kill(p)
      PROVE  OrderInv'
  <2>1. bootOrder' = bootOrder
    BY <1>3 DEF Start, Step, Kill, Detect, Find, Refind, WriteNext, CheckNext, DeleteNext,
                OpenStore, SaveStore, RunBcdedit, ReloadStore, NoStore, nvram
  <2>2. pc'[p] # "writeOrder" /\ \A q \in Procs \ {p} : pc'[q] = pc[q] /\ order'[q] = order[q]
    <3> USE <1>t DEF Goto, Move, Answer, nvram, local
    <3>1. CASE Start(p) \/ Kill(p)
      BY <3>1 DEF Start, Kill
    <3>2. CASE Detect(p)
      BY <3>2 DEF Detect
    <3>3. CASE Find(p) \/ Refind(p)
      BY <3>3 DEF Find, Refind
    <3>4. CASE WriteNext(p) \/ CheckNext(p) \/ DeleteNext(p)
      BY <3>4 DEF WriteNext, CheckNext, DeleteNext, ThenStore
    <3>5. CASE OpenStore(p) \/ SaveStore(p)
      BY <3>5 DEF OpenStore, SaveStore, StoreDone
    <3>6. CASE RunBcdedit(p) \/ ReloadStore(p) \/ NoStore(p)
      BY <3>6 DEF RunBcdedit, ReloadStore, NoStore
    <3> QED  BY <1>3, <3>1, <3>2, <3>3, <3>4, <3>5, <3>6 DEF Step
  <2> QED  BY <2>1, <2>2
<1>4. CASE Reboot
  BY <1>4 DEF Reboot
<1>5. CASE UNCHANGED vars
  BY <1>5 DEF vars, local
<1> QED
  BY <1>1, <1>2, <1>3, <1>4, <1>5 DEF Next, Step

\* No interleaving of commands, no failed write, crash or restart loses or
\* duplicates a firmware entry, unless reading the boot order itself may fail.
THEOREM OrderCorrect ==
  ASSUME "read" \notin Faults
  PROVE  Spec => []OrderIsPermutation
<1>1. Init => TypeInv /\ OrderInv
  BY TypeInit, OrderInit
<1>2. TypeInv /\ OrderInv /\ [Next]_vars => (TypeInv /\ OrderInv)'
  BY TypeNext, OrderStep
<1>3. TypeInv /\ OrderInv => OrderIsPermutation
  BY DEF OrderInv, OrderIsPermutation
<1> QED
  BY <1>1, <1>2, <1>3, PTL DEF Spec

-----------------------------------------------------------------------------
(* "entry still present after apply" *)

LEMMA AimInit == Init => AimInv
BY DEF Init, AimInv, Aimed

\* What a step does to one process, when it is not aimed at anything new.
LEMMA AimKept ==
  ASSUME TypeInv, AimInv, NEW p \in Procs, NEW place \in Places,
         NEW st \in Slots \cup {NoSlot},
         Move(p, place, st), UNCHANGED <<verb, target>>,
         Aimed(place, verb[p], target[p], st)
  PROVE  AimInv'
<1>1. /\ pc' = [pc EXCEPT ![p] = place] /\ slot' = [slot EXCEPT ![p] = st] /\ reply' = reply
      /\ pc \in [Procs -> Places] /\ slot \in [Procs -> Slots \cup {NoSlot}]
  BY DEF Move, TypeInv, TypeOK
<1>2. ASSUME NEW q \in Procs PROVE Aimed(pc'[q], verb'[q], target'[q], slot'[q]) /\ reply'[q] # "panic"
  BY <1>1 DEF AimInv
<1> QED
  BY <1>2 DEF AimInv

LEMMA AimAnswered ==
  ASSUME TypeInv, AimInv, NEW p \in Procs, NEW r \in Replies \ {"panic"}, Answer(p, r),
         \A q \in Procs \ {p} : verb'[q] = verb[q] /\ target'[q] = target[q]
  PROVE  AimInv'
<1>1. /\ pc' = [pc EXCEPT ![p] = "idle"] /\ slot' = [slot EXCEPT ![p] = NoSlot]
      /\ reply' = [reply EXCEPT ![p] = r]
      /\ pc \in [Procs -> Places] /\ slot \in [Procs -> Slots \cup {NoSlot}]
      /\ reply \in [Procs -> Replies]
  BY DEF Answer, TypeInv, TypeOK
<1>2. ASSUME NEW q \in Procs PROVE Aimed(pc'[q], verb'[q], target'[q], slot'[q]) /\ reply'[q] # "panic"
  <2>1. CASE q = p
    BY <1>1, <2>1 DEF Aimed
  <2>2. CASE q # p
    BY <1>1, <2>2 DEF AimInv
  <2> QED  BY <2>1, <2>2
<1> QED
  BY <1>2 DEF AimInv

LEMMA AimStep ==
  ASSUME "read" \notin Faults, TypeInv, OrderInv, AimInv, NEW p \in Procs, Step(p)
  PROVE  AimInv'
<1>t. /\ slot[p] \in Slots \cup {NoSlot} /\ pc[p] \in Places
      /\ Ready(pc[p], verb[p], target[p], slot[p])
      /\ Aimed(pc[p], verb[p], target[p], slot[p])
      /\ IsPermutation(bootOrder) /\ bootOrder \in Seq(Ids)
  BY DEF TypeInv, TypeOK, Prepared, AimInv, OrderInv
<1>r. Reads(bootOrder, <<>>) = {bootOrder}
  BY DEF Reads, May
<1>a. ASSUME NEW r \in {"ok", "err", "notFound"}, Answer(p, r), UNCHANGED <<verb, target>>
      PROVE  AimInv'
  BY <1>a, AimAnswered DEF Replies
<1>1. CASE Detect(p)
  <2>1. UNCHANGED <<verb, target>>
    BY <1>1 DEF Detect, local
  <2>2. PICK st \in {NoSlot, Loaded(PairedEntry(bootOrder, named[p]))} :
          \/ Answer(p, "err")
          \/ /\ \E place \in {"checkNext", "find"} : Move(p, place, st)
             /\ st # NoSlot => PairedEntry(bootOrder, named[p]) # None
    BY <1>1, <1>r DEF Detect
  <2>3. st # NoSlot /\ ~Answer(p, "err") => st \in Slots
    <3>1. PairedEntry(bootOrder, named[p]) \in WinIds \cup {None}
      BY <1>t, PairedEntryType DEF TypeInv, TypeOK
    <3> QED  BY <2>2, <3>1, LoadedType, TypeHalves
  <2>4. \A place \in {"checkNext", "find"} : place \in Places /\ Aimed(place, verb[p], target[p], st)
    BY DEF Aimed, Places
  <2> QED  BY <1>a, <2>1, <2>2, <2>3, <2>4, AimKept
<1>2. CASE Find(p)
  <2> DEFINE l == Entries(bootOrder, slot[p])
  <2>1. l \in Seq(Targets)
    BY <1>t, EntriesType
  <2>2. CASE target' = target /\ Answer(p, "notFound")
    BY <1>2, <1>a, <2>2 DEF Find
  <2>3. ASSUME NEW i \in DOMAIN l, NEW place \in {"readOrder", "writeNext"},
               target' = [target EXCEPT ![p] = l[i]], Goto(p, place)
        PROVE  AimInv'
    <3>1. l[i] \in Targets
      BY <2>1
    <3>2. Listed(l[i], slot[p])
      BY <1>t, <3>1, EntriesComplete
    <3>3. /\ pc' = [pc EXCEPT ![p] = place] /\ slot' = [slot EXCEPT ![p] = slot[p]]
          /\ reply' = reply /\ verb' = verb
      BY <1>2, <2>3 DEF Find, Goto, Move
    <3>4. /\ pc \in [Procs -> Places] /\ slot \in [Procs -> Slots \cup {NoSlot}]
          /\ target \in [Procs -> Targets \cup {NoTarget}]
      BY DEF TypeInv, TypeOK
    <3> HIDE DEF l
    <3>5. ASSUME NEW q \in Procs
          PROVE  Aimed(pc'[q], verb'[q], target'[q], slot'[q]) /\ reply'[q] # "panic"
      <4>1. CASE q = p
        <5>1. target'[q] = l[i] /\ slot'[q] = slot[p]
          BY <2>3, <3>3, <3>4, <4>1
        <5> QED  BY <3>2, <3>3, <4>1, <5>1 DEF Aimed, AimInv
      <4>2. CASE q # p
        BY <2>3, <3>3, <3>4, <4>2 DEF AimInv
      <4> QED  BY <4>1, <4>2
    <3> QED  BY <3>5 DEF AimInv
  <2> QED  BY <1>2, <1>r, <2>2, <2>3 DEF Find
<1>3. CASE Refind(p)
  <2> DEFINE l == Entries(bootOrder, slot[p])
  <2>1. target[p] \in Targets /\ Listed(target[p], slot[p])
    BY <1>3, <1>t DEF Refind, At, Ready, Aimed
  <2>2. l \in Seq(Targets) /\ \E n \in DOMAIN l : l[n] = target[p]
    BY <1>t, <2>1, EntriesType, EntriesComplete
  <2>3. \E i \in DOMAIN l : Finds(KeyOf(target[p]), l, i)
    <3> HIDE DEF l
    <3> QED  BY <2>2, KeyFinds
  <2>4. Answer(p, "ok") /\ UNCHANGED <<verb, target>>
    BY <1>3, <1>r, <2>3 DEF Refind, local
  <2> QED  BY <1>a, <2>4
<1>4. CASE ReadOrder(p) \/ WriteOrder(p)
  <2>1. UNCHANGED <<verb, target>> /\ Listed(target[p], slot[p])
    BY <1>4, <1>t DEF ReadOrder, WriteOrder, At, Aimed
  <2>2. \/ \E place \in {"writeOrder", "refind", "store"} : Move(p, place, slot[p])
        \/ Answer(p, "err")
    BY <1>4 DEF ReadOrder, WriteOrder, ThenStore, Goto
  <2>3. \A place \in Places : Aimed(place, verb[p], target[p], slot[p])
    BY <2>1 DEF Aimed
  <2> QED  BY <1>a, <1>t, <2>1, <2>2, <2>3, AimKept DEF Places
<1>5. CASE WriteNext(p)
  <2>1. UNCHANGED <<verb, target>> /\ Listed(target[p], slot[p])
    BY <1>5, <1>t DEF WriteNext, At, Aimed, local
  <2>2. (\E place \in {"refind", "store"} : Move(p, place, slot[p])) \/ Answer(p, "err")
    BY <1>5 DEF WriteNext, ThenStore, Goto
  <2>3. \A place \in Places : Aimed(place, verb[p], target[p], slot[p])
    BY <2>1 DEF Aimed
  <2> QED  BY <1>a, <1>t, <2>1, <2>2, <2>3, AimKept DEF Places
<1>6. CASE CheckNext(p) \/ DeleteNext(p) \/ NoStore(p)
  <2>1. UNCHANGED <<verb, target>>
    BY <1>6 DEF CheckNext, DeleteNext, NoStore, local
  <2>2. (verb[p] = "clear" /\ \E place \in {"store", "deleteNext"} : Move(p, place, slot[p]))
        \/ \E r \in {"ok", "err"} : Answer(p, r)
    BY <1>6, <1>t DEF CheckNext, DeleteNext, NoStore, At, Ready, Goto
  <2>3. verb[p] = "clear" => \A place \in {"store", "deleteNext"} :
          place \in Places /\ Aimed(place, verb[p], target[p], slot[p])
    BY DEF Aimed, Places
  <2> QED  BY <1>a, <1>t, <2>1, <2>2, <2>3, AimKept
<1>7. CASE OpenStore(p) \/ SaveStore(p) \/ RunBcdedit(p) \/ ReloadStore(p)
  <2>1. UNCHANGED <<verb, target>>
    BY <1>7 DEF OpenStore, SaveStore, RunBcdedit, ReloadStore, local
  <2>2. slot[p] \in Slots /\ verb[p] \in Verbs /\ target[p].guid \in Guids \cup {None}
    BY <1>7, <1>t, TypeHalves, Rewritten DEF OpenStore, SaveStore, RunBcdedit, ReloadStore, At, Ready
  <2>3. verb[p] # "clear" => Listed(target[p], slot[p])
    BY <1>7, <1>t DEF OpenStore, SaveStore, RunBcdedit, ReloadStore, At, Aimed
  <2>4. PICK st \in {slot[p], Edited(slot[p], verb[p], target[p].guid), Loaded(slot[p].efi)} :
          \/ \E r \in {"ok", "err"} : Answer(p, r)
          \/ \E place \in {"save", "reload"} : Move(p, place, st)
          \/ verb[p] # "clear" /\ Move(p, "refind", st)
    BY <1>7 DEF OpenStore, SaveStore, StoreDone, RunBcdedit, ReloadStore, Goto
  <2>5. st \in Slots /\ st.efi = slot[p].efi
    <3>1. /\ Edited(slot[p], verb[p], target[p].guid) \in Slots
          /\ Edited(slot[p], verb[p], target[p].guid).efi = slot[p].efi
      BY <2>2, EditedType DEF Edited, Verbs, Slots
    <3>2. Loaded(slot[p].efi) \in Slots /\ Loaded(slot[p].efi).efi = slot[p].efi
      <4>1. slot[p].efi \in WinIds
        BY <2>2 DEF Slots
      <4> QED  BY <4>1, LoadedType, TypeHalves DEF Loaded
    <3> QED  BY <2>2, <2>4, <3>1, <3>2
  <2>6. verb[p] # "clear" => Listed(target[p], st)
    BY <2>3, <2>5 DEF Listed
  <2>7. \A place \in {"save", "reload"} : place \in Places /\ Aimed(place, verb[p], target[p], st)
    BY <2>6 DEF Aimed, Places
  <2>8. verb[p] # "clear" => "refind" \in Places /\ Aimed("refind", verb[p], target[p], st)
    BY <2>6 DEF Aimed, Places
  <2> QED  BY <1>a, <2>1, <2>4, <2>5, <2>7, <2>8, AimKept
<1> QED
  BY <1>1, <1>2, <1>3, <1>4, <1>5, <1>6, <1>7 DEF Step

LEMMA AimNext ==
  ASSUME "read" \notin Faults, TypeInv, OrderInv, AimInv, [Next]_vars
  PROVE  AimInv'
<1>1. ASSUME NEW p \in Procs, Start(p) PROVE AimInv'
  <2>1. ASSUME NEW q \in Procs
        PROVE  Aimed(pc'[q], verb'[q], target'[q], slot'[q]) /\ reply'[q] # "panic"
    <3> USE DEF TypeInv, TypeOK
    <3>1. CASE q = p
      BY <1>1, <3>1 DEF Start, Aimed
    <3>2. CASE q # p
      <4>1. pc'[q] = pc[q] /\ verb'[q] = verb[q] /\ target'[q] = target[q]
            /\ slot'[q] = slot[q] /\ reply'[q] = reply[q]
        BY <1>1, <3>2 DEF Start
      <4> QED  BY <4>1 DEF AimInv
    <3> QED  BY <3>1, <3>2
  <2> QED  BY <2>1 DEF AimInv
<1>2. ASSUME NEW p \in Procs, Kill(p) PROVE AimInv'
  BY <1>2, AimAnswered DEF Kill, Replies
<1>3. CASE Reboot
  BY <1>3 DEF Reboot, AimInv, Aimed
<1>4. CASE UNCHANGED vars
  BY <1>4 DEF vars, local, AimInv
<1> QED
  BY <1>1, <1>2, <1>3, <1>4, AimStep DEF Next

\* Switcher::set finds its entry again after applying it, whatever other commands
\* wrote meanwhile and whatever failed, unless reading the boot order may fail.
THEOREM PanicFree ==
  ASSUME "read" \notin Faults
  PROVE  Spec => []NeverPanics
<1>1. Init => TypeInv /\ OrderInv /\ AimInv
  BY TypeInit, OrderInit, AimInit
<1>2. TypeInv /\ OrderInv /\ AimInv /\ [Next]_vars => (TypeInv /\ OrderInv /\ AimInv)'
  BY TypeNext, OrderStep, AimNext
<1>3. AimInv => NeverPanics
  BY DEF AimInv, NeverPanics
<1> QED
  BY <1>1, <1>2, <1>3, PTL DEF Spec

=============================================================================
