---------------------------- MODULE ScopeProofs ----------------------------
(***************************************************************************)
(* The two scopes of a selection (enum Scope): which commands move which   *)
(* half of the machine's state, and in which order a command moves the     *)
(* two.  For any number of processes under a running Windows, and for a    *)
(* process that is alone over the hive file, where several are known to    *)
(* fail.                                                                   *)
(***************************************************************************)
EXTENDS SwitcherProofs

\* Windows machines whose store nobody else's Windows shares, and one command at a
\* time.
Alone == /\ \A p, q \in Procs : p = q
         /\ WinIds = {Home}

-----------------------------------------------------------------------------
(* The new order *)

\* Whoever is not moved is overtaken by nobody else.
LEMMA OnlyOneOvertakes ==
  ASSUME NEW s \in Seq(Ids), NEW id \in Ids, NEW a \in Ids, NEW b \in Ids,
         Before(s, a, b), b # id
  PROVE  Before(MoveToFront(s, id), a, b)
<1> DEFINE m == MoveToFront(s, id)
<1> SUFFICES Before(m, a, b)
  OBVIOUS
<1>1. PICK i, j \in DOMAIN s : i < j /\ s[i] = a /\ s[j] = b
  BY DEF Before
<1>2. DOMAIN s = 1..Len(s) /\ Len(s) \in Nat
  OBVIOUS
<1>3. CASE id \in Range(s)
  <2> DEFINE k == Position(s, id)
  <2>1. k \in 1..Len(s) /\ s[k] = id
    BY <1>3, PositionProperties
  <2>2. /\ DOMAIN m = 1..Len(s)
        /\ m[1] = id
        /\ \A n \in 2..Len(s) : m[n] = IF n <= k THEN s[n - 1] ELSE s[n]
    BY <1>2, <1>3, <2>1 DEF MoveToFront
  <2> HIDE DEF m, k
  <2>3. j # k
    BY <1>1, <2>1
  <2>4. CASE i = k
    <3>1. j \in 2..Len(s) /\ ~(j <= k) /\ 1 < j
      BY <1>1, <1>2, <2>4
    <3>2. m[1] = a /\ m[j] = b
      BY <1>1, <2>1, <2>2, <2>4, <3>1
    <3> QED  BY <2>2, <3>1, <3>2, <1>2 DEF Before
  <2>5. CASE i > k
    <3>1. i \in 2..Len(s) /\ j \in 2..Len(s) /\ ~(i <= k) /\ ~(j <= k)
      BY <1>1, <1>2, <2>1, <2>5
    <3>2. m[i] = a /\ m[j] = b
      BY <1>1, <2>2, <3>1
    <3> QED  BY <1>1, <1>2, <2>2, <3>1, <3>2 DEF Before
  <2>6. CASE i < k /\ j < k
    <3>1. i + 1 \in 2..Len(s) /\ j + 1 \in 2..Len(s) /\ i + 1 <= k /\ j + 1 <= k
          /\ (i + 1) - 1 = i /\ (j + 1) - 1 = j /\ i + 1 < j + 1
      BY <1>1, <1>2, <2>1, <2>6
    <3>2. m[i + 1] = a /\ m[j + 1] = b
      BY <1>1, <2>2, <3>1
    <3> QED  BY <2>2, <3>1, <3>2, <1>2 DEF Before
  <2>7. CASE i < k /\ j > k
    <3>1. i + 1 \in 2..Len(s) /\ j \in 2..Len(s) /\ i + 1 <= k /\ ~(j <= k)
          /\ (i + 1) - 1 = i /\ i + 1 < j
      BY <1>1, <1>2, <2>1, <2>7
    <3>2. m[i + 1] = a /\ m[j] = b
      BY <1>1, <2>2, <3>1
    <3> QED  BY <2>2, <3>1, <3>2, <1>2 DEF Before
  <2> QED  BY <1>1, <1>2, <2>1, <2>3, <2>4, <2>5, <2>6, <2>7
<1>4. CASE id \notin Range(s)
  <2>1. /\ m = <<id>> \o s
        /\ i + 1 \in DOMAIN m /\ j + 1 \in DOMAIN m /\ i + 1 < j + 1
        /\ m[i + 1] = s[i] /\ m[j + 1] = s[j]
    BY <1>1, <1>2, <1>4 DEF MoveToFront
  <2> QED  BY <1>1, <2>1 DEF Before
<1> QED
  BY <1>3, <1>4

-----------------------------------------------------------------------------
(* Which command is where *)

\* A command leaves the others' variables alone, and the running system.
LEMMA OthersStay ==
  ASSUME TypeInv, NEW p \in Procs, Start(p) \/ Step(p) \/ Kill(p)
  PROVE  /\ running' = running
         /\ \A q \in Procs \ {p} :
              /\ pc'[q] = pc[q] /\ verb'[q] = verb[q] /\ named'[q] = named[q]
              /\ target'[q] = target[q] /\ slot'[q] = slot[q] /\ order'[q] = order[q]
<1> DEFINE Stay == /\ running' = running
                   /\ \A q \in Procs \ {p} :
                        /\ pc'[q] = pc[q] /\ verb'[q] = verb[q] /\ named'[q] = named[q]
                        /\ target'[q] = target[q] /\ slot'[q] = slot[q] /\ order'[q] = order[q]
<1>t. /\ pc \in [Procs -> Places] /\ order \in [Procs -> Seq(Ids)]
      /\ verb \in [Procs -> Verbs] /\ named \in [Procs -> BOOLEAN]
      /\ target \in [Procs -> Targets \cup {NoTarget}] /\ slot \in [Procs -> Slots \cup {NoSlot}]
  BY DEF TypeInv, TypeOK
<1> USE <1>t DEF Goto, Move, Answer, nvram, local
<1>1. CASE Start(p) \/ Kill(p)
  BY <1>1 DEF Start, Kill
<1>2. CASE Detect(p)
  BY <1>2 DEF Detect
<1>3. CASE Find(p) \/ Refind(p)
  BY <1>3 DEF Find, Refind
<1>4. CASE WriteNext(p) \/ CheckNext(p) \/ DeleteNext(p)
  BY <1>4 DEF WriteNext, CheckNext, DeleteNext, ThenStore
<1>5. CASE ReadOrder(p) \/ WriteOrder(p)
  BY <1>5 DEF ReadOrder, WriteOrder, ThenStore
<1>6. CASE OpenStore(p) \/ SaveStore(p)
  BY <1>6 DEF OpenStore, SaveStore, StoreDone
<1>7. CASE RunBcdedit(p) \/ ReloadStore(p) \/ NoStore(p)
  BY <1>7 DEF RunBcdedit, ReloadStore, NoStore
<1> QED
  BY <1>1, <1>2, <1>3, <1>4, <1>5, <1>6, <1>7 DEF Step

\* Where a command of each kind goes from where it is.
LEMMA NextPlaces ==
  ASSUME TypeInv, StepsInv, NEW p \in Procs, Step(p) \/ Kill(p)
  PROVE  /\ verb'[p] = verb[p] /\ named'[p] = named[p]
         /\ pc'[p] = "find" => verb[p] # "clear"
         /\ pc'[p] \in {"readOrder", "writeOrder"} => verb[p] = "default"
         /\ pc'[p] = "writeNext" => verb[p] = "once"
         /\ pc'[p] = "save" => ~Live(p)
         /\ verb'[p] = "clear" => target'[p] = NoTarget
<1>t. /\ pc \in [Procs -> Places] /\ verb \in [Procs -> Verbs] /\ named \in [Procs -> BOOLEAN]
      /\ verb[p] \in Verbs /\ (verb[p] = "clear" => target[p] = NoTarget)
  BY DEF TypeInv, TypeOK, StepsInv
<1> USE <1>t DEF Goto, Move, Answer, nvram, local, At
<1>1. CASE Kill(p)
  BY <1>1 DEF Kill
<1>2. CASE Detect(p)
  BY <1>2 DEF Detect
<1>3. CASE Find(p) \/ Refind(p)
  BY <1>3 DEF Find, Refind, StepsInv, Verbs
<1>4. CASE WriteNext(p) \/ CheckNext(p) \/ DeleteNext(p)
  BY <1>4 DEF WriteNext, CheckNext, DeleteNext, ThenStore
<1>5. CASE ReadOrder(p) \/ WriteOrder(p)
  BY <1>5 DEF ReadOrder, WriteOrder, ThenStore, StepsInv
<1>6. CASE OpenStore(p) \/ SaveStore(p)
  BY <1>6 DEF OpenStore, SaveStore, StoreDone
<1>7. CASE RunBcdedit(p) \/ ReloadStore(p) \/ NoStore(p)
  BY <1>7 DEF RunBcdedit, ReloadStore, NoStore
<1> QED
  BY <1>1, <1>2, <1>3, <1>4, <1>5, <1>6, <1>7 DEF Step

LEMMA StepsInit == Init => StepsInv
BY DEF Init, StepsInv

LEMMA StepsNext == TypeInv /\ StepsInv /\ [Next]_vars => StepsInv'
<1> SUFFICES ASSUME TypeInv, StepsInv, [Next]_vars PROVE StepsInv'
  OBVIOUS
<1>1. ASSUME NEW p \in Procs, Start(p) PROVE StepsInv'
  <2>1. pc'[p] = "detect" /\ target'[p] = NoTarget
    BY <1>1 DEF Start, TypeInv, TypeOK
  <2> QED  BY <1>1, <2>1, OthersStay DEF StepsInv, Live
<1>2. ASSUME NEW p \in Procs, Step(p) \/ Kill(p) PROVE StepsInv'
  BY <1>2, OthersStay, NextPlaces DEF StepsInv, Live
<1>3. CASE Reboot
  BY <1>3 DEF Reboot, StepsInv
<1>4. CASE UNCHANGED vars
  BY <1>4 DEF vars, local, StepsInv, Live
<1> QED
  BY <1>1, <1>2, <1>3, <1>4 DEF Next

-----------------------------------------------------------------------------
(* What a step moves *)

\* The permanent choice moves by `default`, the one-shot by `next` and `clear`, if
\* the copy of a store about to be saved differs from the file as its command says.
LEMMA StepScopes ==
  ASSUME TypeInv, StepsInv, NEW p \in Procs, Step(p),
         pc[p] = "save" => slot[p] = Edited(Current(p), verb[p], target[p].guid)
  PROVE  /\ bootOrder' # bootOrder \/ hive'.def # hive.def => Acts(p) /\ verb[p] = "default"
         /\ bootNext' # bootNext \/ hive'.seq # hive.seq => Acts(p) /\ verb[p] \in {"once", "clear"}
<1>t. /\ pc \in [Procs -> Places] /\ slot \in [Procs -> Slots \cup {NoSlot}]
      /\ verb[p] \in Verbs /\ hive \in Hives
      /\ pc[p] \in {"checkNext", "deleteNext"} => verb[p] = "clear"
  BY DEF TypeInv, TypeOK, Prepared, Ready
<1> USE <1>t DEF Goto, Move, Answer, nvram, local, At, Acts
<1>1. CASE Detect(p) \/ Find(p) \/ Refind(p)
  BY <1>1 DEF Detect, Find, Refind
<1>2. CASE ReadOrder(p) \/ CheckNext(p) \/ ReloadStore(p) \/ NoStore(p)
  BY <1>2 DEF ReadOrder, CheckNext, ReloadStore, NoStore
<1>3. CASE WriteOrder(p)
  BY <1>3 DEF WriteOrder, ThenStore, StepsInv
<1>4. CASE WriteNext(p)
  BY <1>4 DEF WriteNext, ThenStore, StepsInv
<1>5. CASE DeleteNext(p)
  BY <1>5 DEF DeleteNext
<1>6. CASE OpenStore(p)
  BY <1>6 DEF OpenStore, Hives
<1>7. CASE SaveStore(p)
  BY <1>7 DEF SaveStore, StoreDone, Hives, Edited, Current, Verbs
<1>8. CASE RunBcdedit(p)
  BY <1>8 DEF RunBcdedit, Hives, Edited, Verbs
<1> QED
  BY <1>1, <1>2, <1>3, <1>4, <1>5, <1>6, <1>7, <1>8 DEF Step

\* The same of every step of the system.
LEMMA NextScopes ==
  ASSUME TypeInv, StepsInv, [Next]_vars,
         \A p \in Procs : pc[p] = "save" => slot[p] = Edited(Current(p), verb[p], target[p].guid)
  PROVE  ScopesIndependentStep
<1>1. ASSUME NEW p \in Procs, Start(p) \/ Kill(p) PROVE ScopesIndependentStep
  BY <1>1 DEF Start, Kill, nvram, ScopesIndependentStep
<1>2. ASSUME NEW p \in Procs, Step(p) PROVE ScopesIndependentStep
  BY <1>2, StepScopes DEF ScopesIndependentStep, Commands
<1>3. CASE Reboot
  <2>1. bootOrder' = bootOrder /\ hive'.def = hive.def
    BY <1>3 DEF Reboot, TypeInv, TypeOK, Hives
  <2> QED  BY <1>3, <2>1 DEF ScopesIndependentStep
<1>4. CASE UNCHANGED vars
  BY <1>4 DEF vars, nvram, ScopesIndependentStep
<1> QED
  BY <1>1, <1>2, <1>3, <1>4 DEF Next

\* Under a running Windows the two scopes are independent however many commands
\* run at once, whatever fails and whenever one is killed: bcdedit moves the one
\* element that its command names, and no copy of the store is written back
\* (SystemStore, enum Scope).
THEOREM LiveScopes == Spec => LiveScopesIndependent
<1>1. ASSUME TypeInv, StepsInv, [Next]_vars
      PROVE  (\A p \in Procs : Live(p)) => ScopesIndependentStep
  BY <1>1, NextScopes DEF StepsInv
<1>2. Init => StepsInv
  BY StepsInit
<1>3. TypeInv /\ StepsInv /\ [Next]_vars => StepsInv'
  BY StepsNext
<1> QED
  BY <1>1, <1>2, <1>3, TypeInit, TypeNext, PTL DEF Spec, LiveScopesIndependent

-----------------------------------------------------------------------------
(* A process that is alone *)

LEMMA LoneInit == Init => LoneInv
BY DEF Init, LoneInv

LEMMA LoneStep ==
  ASSUME Alone, "read" \notin Faults, TypeInv, StepsInv, LoneInv, NEW p \in Procs, Step(p)
  PROVE  LoneInv'
<1> DEFINE Held == {"find", "readOrder", "writeOrder", "writeNext", "checkNext",
                    "deleteNext", "store"}
           Shown(place, st) == place \in Held /\ st # NoSlot => st = [efi |-> st.efi, def |-> hive'.def, seq |-> hive'.seq]
           Pending(place, st) == place = "save" => st = Edited([efi |-> st.efi, def |-> hive'.def, seq |-> hive'.seq], verb'[p], target'[p].guid)
           Ordered(place) == place = "writeOrder" => order'[p] = MoveToFront(bootOrder', target'[p].id)
           Led(place) == place \in {"store", "save"} /\ verb'[p] # "clear" =>
                           /\ target'[p].guid # None
                           /\ verb'[p] = "default" => bootOrder'[1] = target'[p].id
                           /\ verb'[p] = "once" => bootNext' = target'[p].id
<1>s. SUFFICES /\ Shown(pc'[p], slot'[p]) /\ Pending(pc'[p], slot'[p])
               /\ Ordered(pc'[p]) /\ Led(pc'[p])
  BY DEF LoneInv, Current, Alone
<1>t. /\ pc \in [Procs -> Places] /\ order \in [Procs -> Seq(Ids)]
      /\ target \in [Procs -> Targets \cup {NoTarget}] /\ slot \in [Procs -> Slots \cup {NoSlot}]
      /\ verb[p] \in Verbs /\ hive \in Hives /\ bootOrder \in Seq(Ids)
      /\ Ready(pc[p], verb[p], target[p], slot[p])
  BY DEF TypeInv, TypeOK, Prepared
<1>i. /\ pc[p] \in Held /\ slot[p] # NoSlot => slot[p] = Current(p)
      /\ pc[p] = "save" => slot[p] = Edited(Current(p), verb[p], target[p].guid)
      /\ pc[p] = "writeOrder" => order[p] = MoveToFront(bootOrder, target[p].id)
      /\ pc[p] \in {"store", "save"} /\ verb[p] # "clear" =>
           /\ target[p].guid # None
           /\ verb[p] = "default" => bootOrder[1] = target[p].id
           /\ verb[p] = "once" => bootNext = target[p].id
  BY DEF LoneInv
<1>r. Reads(bootOrder, <<>>) = {bootOrder} /\ Reads(bootNext, None) = {bootNext}
  BY DEF Reads, May
<1> USE <1>t DEF Goto, Move, Answer, nvram, local, At
<1>1. CASE Detect(p)
  <2>1. /\ pc'[p] \in {"idle", "find", "checkNext"} /\ hive' = hive
        /\ slot'[p] # NoSlot => \E id : slot'[p] = Loaded(id)
    BY <1>1 DEF Detect
  <2>2. \A id : /\ Loaded(id) = [efi |-> id, def |-> hive.def, seq |-> hive.seq]
               /\ Loaded(id).efi = id
    BY DEF Loaded
  <2>3. Shown(pc'[p], slot'[p])
    BY <2>1, <2>2
  <2> QED  BY <2>1, <2>3
<1>2. CASE Find(p)
  <2>1. /\ pc'[p] \in {"idle", "readOrder", "writeNext"} /\ hive' = hive
        /\ slot'[p] \in {slot[p], NoSlot} /\ pc[p] = "find"
    BY <1>2 DEF Find
  <2> QED  BY <1>i, <2>1 DEF Current
<1>3. CASE Refind(p) \/ NoStore(p) \/ ReloadStore(p)
  <2>1. pc'[p] \in {"idle", "refind"}
    BY <1>3 DEF Refind, NoStore, ReloadStore
  <2> QED  BY <2>1
<1>4. CASE ReadOrder(p)
  <2>1. /\ pc'[p] = "writeOrder" /\ hive' = hive /\ bootOrder' = bootOrder
        /\ target' = target /\ slot'[p] = slot[p] /\ pc[p] = "readOrder"
        /\ order'[p] = MoveToFront(bootOrder, target[p].id)
    BY <1>4, <1>r DEF ReadOrder
  <2> QED  BY <1>i, <2>1 DEF Current
<1>5. CASE WriteOrder(p)
  <2>1. /\ hive' = hive /\ target' = target /\ verb' = verb /\ pc[p] = "writeOrder"
        /\ \/ pc'[p] \in {"idle", "refind"}
           \/ /\ pc'[p] = "store" /\ slot'[p] = slot[p]
              /\ target[p].guid # None /\ bootOrder' = order[p]
    BY <1>5 DEF WriteOrder, ThenStore
  <2>2. verb[p] = "default" /\ target[p].id \in Ids
    BY <2>1 DEF StepsInv, Ready, Targets
  <2>3. order[p][1] = target[p].id
    BY <1>i, <2>1, <2>2, FrontOf
  <2> QED  BY <1>i, <2>1, <2>2, <2>3 DEF Current
<1>6. CASE WriteNext(p)
  <2>1. /\ hive' = hive /\ target' = target /\ verb' = verb /\ pc[p] = "writeNext"
        /\ \/ pc'[p] \in {"idle", "refind"}
           \/ /\ pc'[p] = "store" /\ slot'[p] = slot[p]
              /\ target[p].guid # None /\ bootNext' = target[p].id
    BY <1>6 DEF WriteNext, ThenStore
  <2>2. verb[p] = "once"
    BY <2>1 DEF StepsInv
  <2> QED  BY <1>i, <2>1, <2>2 DEF Current
<1>7. CASE CheckNext(p) \/ DeleteNext(p)
  <2>1. /\ hive' = hive /\ verb' = verb /\ verb[p] = "clear"
        /\ pc[p] \in Held /\ pc'[p] \in {"idle", "store", "deleteNext"}
        /\ slot'[p] \in {slot[p], NoSlot}
    BY <1>7 DEF CheckNext, DeleteNext, Ready
  <2> QED  BY <1>i, <2>1 DEF Current
<1>8. CASE OpenStore(p)
  <2>1. /\ hive'.def = hive.def /\ hive'.seq = hive.seq /\ verb' = verb /\ target' = target
        /\ bootOrder' = bootOrder /\ bootNext' = bootNext
        /\ pc[p] = "store" /\ slot[p] # NoSlot
        /\ \/ pc'[p] = "idle"
           \/ pc'[p] = "save" /\ slot'[p] = Edited(slot[p], verb[p], target[p].guid)
    BY <1>8 DEF OpenStore, Hives
  <2>2. slot[p] = Current(p) /\ Edited(Current(p), verb[p], target[p].guid).efi = slot[p].efi
    BY <1>i, <2>1 DEF Current, Edited, Verbs
  <2> QED  BY <1>i, <2>1, <2>2 DEF Current
<1>9. CASE SaveStore(p)
  <2>1. pc'[p] \in {"idle", "refind"}
    BY <1>9 DEF SaveStore, StoreDone
  <2> QED  BY <2>1
<1>10. CASE RunBcdedit(p)
  <2>1. pc'[p] \in {"idle", "reload"}
    BY <1>10 DEF RunBcdedit
  <2> QED  BY <2>1
<1> QED
  BY <1>1, <1>2, <1>3, <1>4, <1>5, <1>6, <1>7, <1>8, <1>9, <1>10 DEF Step

LEMMA LoneNext ==
  ASSUME Alone, "read" \notin Faults, TypeInv, StepsInv, LoneInv, [Next]_vars
  PROVE  LoneInv'
<1>1. ASSUME NEW p \in Procs, Start(p) \/ Kill(p) PROVE LoneInv'
  <2>1. pc'[p] \in {"idle", "detect"}
    BY <1>1 DEF Start, Kill, Answer, TypeInv, TypeOK
  <2> QED  BY <2>1 DEF LoneInv, Alone
<1>2. CASE Reboot
  BY <1>2 DEF Reboot, LoneInv
<1>3. CASE UNCHANGED vars
  BY <1>3 DEF vars, nvram, local, LoneInv, Current
<1> QED
  BY <1>1, <1>2, <1>3, LoneStep DEF Next

\* What a lone process keeps, all together.
LoneSafe == TypeInv /\ OrderInv /\ AimInv /\ StepsInv /\ LoneInv

LEMMA LoneSafeAlways ==
  ASSUME Alone, "read" \notin Faults
  PROVE  (Init => LoneSafe) /\ (LoneSafe /\ [Next]_vars => LoneSafe')
<1>1. Init => LoneSafe
  BY TypeInit, OrderInit, AimInit, StepsInit, LoneInit DEF LoneSafe
<1>2. LoneSafe /\ [Next]_vars => LoneSafe'
  BY TypeNext, OrderStep, AimNext, StepsNext, LoneNext DEF LoneSafe
<1> QED
  BY <1>1, <1>2

\* One command at a time keeps the scopes apart over the hive file too, although
\* it writes the file from a copy: nothing else changes what it copied.
THEOREM LoneScopes ==
  ASSUME Alone, "read" \notin Faults
  PROVE  Spec => ScopesIndependent
<1>1. ASSUME LoneSafe, [Next]_vars PROVE ScopesIndependentStep
  BY <1>1, NextScopes DEF LoneSafe, LoneInv
<1> QED
  BY <1>1, LoneSafeAlways, PTL DEF Spec, ScopesIndependent

\* A step that redirects or arms the store finds the firmware already pointing at
\* it.
LEMMA StoreFollows ==
  ASSUME Alone, LoneSafe, [Next]_vars
  PROVE  /\ hive'.def # hive.def => bootOrder[1] = Home
         /\ hive'.seq # hive.seq /\ hive'.seq # None => bootNext = Home
<1> DEFINE Led == /\ hive'.def # hive.def => bootOrder[1] = Home
                  /\ hive'.seq # hive.seq /\ hive'.seq # None => bootNext = Home
<1>t. hive \in Hives
  BY DEF LoneSafe, TypeInv, TypeOK
<1>1. ASSUME NEW p \in Procs, SaveStore(p) \/ RunBcdedit(p) PROVE Led
  <2>1. /\ pc[p] \in {"save", "store"} /\ slot[p] \in Slots /\ verb[p] \in Verbs
        /\ verb[p] # "clear" => Listed(target[p], slot[p])
        /\ pc[p] = "save" => slot[p] = Edited(Current(p), verb[p], target[p].guid)
        /\ verb[p] # "clear" => target[p].guid # None
        /\ verb[p] = "default" => bootOrder[1] = target[p].id
        /\ verb[p] = "once" => bootNext = target[p].id
    BY <1>1 DEF SaveStore, RunBcdedit, At, LoneSafe, TypeInv, TypeOK, Prepared, Ready, AimInv,
                Aimed, LoneInv
  <2>2. verb[p] # "clear" => target[p].id = Home
    <3>1. slot[p].efi \in WinIds
      BY <2>1 DEF Slots
    <3> QED  BY <2>1, <3>1 DEF Listed, Alone
  <2>3. \/ hive'.def = hive.def /\ hive'.seq = hive.seq
        \/ \E st : /\ hive'.def = Edited(st, verb[p], target[p].guid).def
                   /\ hive'.seq = Edited(st, verb[p], target[p].guid).seq
                   /\ (st = hive \/ st = Current(p))
    BY <1>1, <1>t, <2>1 DEF SaveStore, RunBcdedit, At, Hives
  <2>4. /\ verb[p] = "clear" => hive'.def = hive.def /\ hive'.seq \in {hive.seq, None}
        /\ verb[p] = "default" => hive'.seq = hive.seq
        /\ verb[p] = "once" => hive'.def = hive.def
    <3>1. \A st \in {hive, Current(p)} :
            /\ Edited(st, "clear", target[p].guid).def = hive.def
            /\ Edited(st, "clear", target[p].guid).seq = None
            /\ Edited(st, "default", target[p].guid).seq = hive.seq
            /\ Edited(st, "once", target[p].guid).def = hive.def
      BY <1>t DEF Edited, Current, Hives
    <3> QED  BY <2>3, <3>1
  <2> QED  BY <2>1, <2>2, <2>4 DEF Verbs
<1>2. ASSUME NEW p \in Procs, Start(p) \/ (Step(p) /\ ~SaveStore(p) /\ ~RunBcdedit(p)) \/ Kill(p)
      PROVE  hive'.def = hive.def /\ hive'.seq = hive.seq
  BY <1>2, <1>t DEF Start, Step, Kill, Detect, Find, Refind, ReadOrder, WriteOrder, WriteNext,
                    CheckNext, DeleteNext, OpenStore, ReloadStore, NoStore, Hives
<1>3. CASE Reboot
  <2>1. hive'.def = hive.def /\ hive'.seq \in {hive.seq, None}
    BY <1>3, <1>t DEF Reboot, Hives
  <2> QED  BY <2>1
<1>4. CASE UNCHANGED vars
  BY <1>4 DEF vars
<1> QED
  BY <1>1, <1>2, <1>3, <1>4 DEF Next

\* A command cut in two by a failure or a crash never leaves the store redirected
\* or armed while the firmware still leads elsewhere (Switcher::apply sets the
\* firmware's half first).
THEOREM FirmwareFirst ==
  ASSUME Alone, "read" \notin Faults
  PROVE  Spec => FirmwareLeads
<1>1. ASSUME LoneSafe, [Next]_vars
      PROVE  /\ hive'.def # hive.def => bootOrder[1] = Home
             /\ hive'.seq # hive.seq /\ hive'.seq # None => bootNext = Home
  BY <1>1, StoreFollows
<1> QED
  BY <1>1, LoneSafeAlways, PTL DEF Spec, FirmwareLeads

LEMMA OneOvertakes ==
  ASSUME LoneSafe, [Next]_vars, NEW a \in Ids, NEW b \in Ids,
         Before(bootOrder, a, b), ~Before(bootOrder', a, b)
  PROVE  \E p \in Procs : Acts(p) /\ verb[p] = "default" /\ target[p].id = b
<1>1. bootOrder' # bootOrder
  OBVIOUS
<1>2. PICK p \in Procs : WriteOrder(p)
  BY <1>1 DEF Next, Start, Step, Kill, Detect, Find, Refind, ReadOrder, WriteNext, CheckNext,
              DeleteNext, OpenStore, SaveStore, RunBcdedit, ReloadStore, NoStore, Reboot,
              nvram, vars
<1>3. /\ pc[p] = "writeOrder" /\ bootOrder' = order[p] /\ pc \in [Procs -> Places]
      /\ verb[p] = "default" /\ target[p].id \in Ids /\ bootOrder \in Seq(Ids)
      /\ order[p] = MoveToFront(bootOrder, target[p].id)
  BY <1>1, <1>2 DEF WriteOrder, At, LoneSafe, LoneInv, StepsInv, TypeInv, TypeOK, Prepared,
                    Ready, Targets
<1>4. target[p].id = b
  BY <1>3, OnlyOneOvertakes
<1>5. Acts(p)
  BY <1>2, <1>3 DEF WriteOrder, ThenStore, Goto, Move, Answer, Acts
<1> QED
  BY <1>3, <1>4, <1>5

\* Making an entry the default moves that entry and leaves the order of the others
\* alone (Efi::set_default, "keeping every other entry in place").
THEOREM OthersKept ==
  ASSUME Alone, "read" \notin Faults
  PROVE  Spec => OthersKeepPlace
<1>1. ASSUME LoneSafe, [Next]_vars
      PROVE  \A a, b \in Ids : Before(bootOrder, a, b) /\ ~Before(bootOrder', a, b) =>
               \E p \in Procs : Acts(p) /\ verb[p] = "default" /\ target[p].id = b
  BY <1>1, OneOvertakes
<1> QED
  BY <1>1, LoneSafeAlways, PTL DEF Spec, OthersKeepPlace

-----------------------------------------------------------------------------
(* What Ok means *)

LEMMA DoneInit == Init => DoneInv
<1>1. Init => \A p \in Procs : pc[p] = "idle" /\ reply[p] = "none"
  BY DEF Init
<1> QED
  BY <1>1 DEF DoneInv, Disarmed, Told

\* A lone process that is not about to answer and has told nothing.
LEMMA DoneNothing ==
  ASSUME Alone, NEW p \in Procs,
         \/ pc'[p] \in {"detect", "find", "readOrder", "writeOrder", "writeNext"}
         \/ pc'[p] = "idle" /\ (reply'[p] # "ok" \/ verb'[p] = "clear")
         \/ pc'[p] \in {"store", "save"} /\ verb'[p] # "clear"
  PROVE  DoneInv'
<1>1. \A q \in Procs : q = p
  BY DEF Alone
<1>2. /\ verb'[p] # "clear" => ~Told(p)'
      /\ pc'[p] \notin {"reload", "refind"}
      /\ verb'[p] = "clear" => pc'[p] \notin {"checkNext", "deleteNext", "store", "save"}
  BY DEF Told
<1> QED
  BY <1>1, <1>2 DEF DoneInv, Disarmed

\* The command that has set both halves of the target.
LEMMA DoneChosen ==
  ASSUME Alone, TypeInv', NEW p \in Procs, verb'[p] # "clear",
         pc'[p] \in {"reload", "refind"} \/ (pc'[p] = "idle" /\ reply'[p] = "ok"),
         Chosen(verb[p], target[p])', pc'[p] # "reload" /\ target'[p].guid # None => hive'.whole
  PROVE  DoneInv'
<1>1. \A q \in Procs : q = p
  BY DEF Alone
<1> QED
  BY <1>1 DEF DoneInv, Told

LEMMA DoneCleared ==
  ASSUME Alone, NEW p \in Procs, verb'[p] = "clear", pc'[p] # "refind",
         Disarmed(pc[p], slot[p])'
  PROVE  DoneInv'
<1>1. \A q \in Procs : q = p
  BY DEF Alone
<1> QED
  BY <1>1 DEF DoneInv

LEMMA DoneStep ==
  ASSUME Alone, "read" \notin Faults, LoneSafe, TypeInv', DoneInv,
         NEW p \in Procs, Step(p)
  PROVE  DoneInv'
<1>t. /\ pc \in [Procs -> Places] /\ reply \in [Procs -> Replies]
      /\ target \in [Procs -> Targets \cup {NoTarget}] /\ slot \in [Procs -> Slots \cup {NoSlot}]
      /\ verb[p] \in Verbs /\ named[p] \in BOOLEAN /\ hive \in Hives /\ bootOrder \in Seq(Ids)
      /\ Ready(pc[p], verb[p], target[p], slot[p])
  BY DEF LoneSafe, TypeInv, TypeOK, Prepared
<1>a. /\ \/ pc[p] \in {"readOrder", "writeOrder", "writeNext", "refind"}
         \/ pc[p] \in {"store", "save", "reload"} /\ verb[p] # "clear"
         => Listed(target[p], slot[p]) /\ target[p] \in Targets
  BY <1>t DEF LoneSafe, AimInv, Aimed, Ready
<1>h. Listed(target[p], slot[p]) /\ target[p].guid # None => target[p].id = slot[p].efi
  BY DEF Listed
<1>w. slot[p] \in Slots => slot[p].efi = Home
  BY DEF Slots, Alone
<1>r. Reads(bootOrder, <<>>) = {bootOrder} /\ Reads(bootNext, None) = {bootNext}
  BY DEF Reads, May
<1>d. DoneInv => /\ verb[p] # "clear" /\ pc[p] \in {"reload", "refind"} => Chosen(verb[p], target[p])
                 /\ verb[p] # "clear" /\ pc[p] = "refind" /\ target[p].guid # None => hive.whole
                 /\ verb[p] = "clear" => Disarmed(pc[p], slot[p])
                 /\ pc[p] = "refind" => verb[p] # "clear"
  BY DEF DoneInv
<1>n. Answer(p, "err") \/ Answer(p, "notFound") \/ Answer(p, "panic") => DoneInv'
  BY <1>t, DoneNothing DEF Answer
<1> USE <1>t DEF At
<1>1. CASE Detect(p)
  <2>1. PairedEntry(bootOrder, named[p]) = Home
    BY PairedHome DEF LoneSafe, OrderInv, Alone
  <2>2. /\ verb' = verb /\ hive' = hive
        /\ \/ Answer(p, "err")
           \/ /\ pc'[p] = IF verb[p] = "clear" THEN "checkNext" ELSE "find"
              /\ slot'[p] = NoSlot => ~hive.whole \/ May("load")
    <3>1. PICK loads \in {Loads(p)} \cup (IF May("load") THEN {FALSE} ELSE {}) :
            \/ Answer(p, "err")
            \/ /\ named[p] => loads
               /\ Move(p, IF verb[p] = "clear" THEN "checkNext" ELSE "find",
                          IF loads THEN Loaded(Home) ELSE NoSlot)
      BY <1>1, <1>r, <2>1, HomeAssumption, NoneAssumption DEF Detect
    <3>2. Loaded(Home) # NoSlot
      BY HomeAssumption, NoneAssumption DEF Loaded, NoSlot
    <3>3. ~loads /\ ~named[p] => ~hive.whole \/ May("load")
      BY <3>1 DEF Loads
    <3>4. CASE Answer(p, "err")
      BY <1>1, <3>4 DEF Detect, local
    <3>5. CASE ~Answer(p, "err")
      BY <1>1, <3>1, <3>2, <3>3, <3>5 DEF Detect, Move, local
    <3> QED  BY <3>4, <3>5
  <2>3. CASE ~Answer(p, "err") /\ verb[p] = "clear"
    <3>1. Disarmed(pc[p], slot[p])'
      BY <2>2, <2>3 DEF Disarmed
    <3> QED  BY <2>2, <2>3, <3>1, DoneCleared
  <2>4. CASE ~Answer(p, "err") /\ verb[p] # "clear"
    BY <2>2, <2>4, DoneNothing
  <2> QED  BY <1>n, <2>3, <2>4
<1>2. CASE Find(p) \/ ReadOrder(p)
  <2>1. pc'[p] \in {"readOrder", "writeOrder", "writeNext"} \/ Answer(p, "notFound")
    BY <1>2 DEF Find, ReadOrder, Goto, Move
  <2> QED  BY <1>n, <2>1, DoneNothing
<1>3. CASE WriteOrder(p)
  <2>1. /\ verb[p] = "default" /\ verb' = verb /\ target' = target /\ target[p] \in Targets
        /\ order[p] = MoveToFront(bootOrder, target[p].id)
    BY <1>3, <1>a DEF WriteOrder, LoneSafe, StepsInv, LoneInv
  <2>2. order[p][1] = target[p].id
    BY <2>1, FrontOf DEF Targets
  <2>3. CASE bootOrder' = order[p] /\ ThenStore(p) /\ target[p].guid = None
    <3>1. pc'[p] = "refind"
      BY <2>3 DEF ThenStore, Goto, Move
    <3>2. Chosen(verb[p], target[p])'
      BY <2>1, <2>2, <2>3 DEF Chosen
    <3> QED  BY <2>1, <2>3, <3>1, <3>2, DoneChosen
  <2>4. CASE bootOrder' = order[p] /\ ThenStore(p) /\ target[p].guid # None
    <3>1. pc'[p] = "store"
      BY <2>4 DEF ThenStore, Goto, Move
    <3> QED  BY <2>1, <3>1, DoneNothing
  <2> QED  BY <1>3, <1>n, <2>3, <2>4 DEF WriteOrder
<1>4. CASE WriteNext(p)
  <2>1. /\ verb[p] = "once" /\ verb' = verb /\ target' = target /\ target[p] \in Targets
    BY <1>4, <1>a DEF WriteNext, LoneSafe, StepsInv, local
  <2>3. CASE bootNext' = target[p].id /\ ThenStore(p) /\ target[p].guid = None
    <3>1. pc'[p] = "refind"
      BY <2>3 DEF ThenStore, Goto, Move
    <3>2. Chosen(verb[p], target[p])'
      BY <2>1, <2>3 DEF Chosen
    <3> QED  BY <2>1, <2>3, <3>1, <3>2, DoneChosen
  <2>4. CASE bootNext' = target[p].id /\ ThenStore(p) /\ target[p].guid # None
    <3>1. pc'[p] = "store"
      BY <2>4 DEF ThenStore, Goto, Move
    <3> QED  BY <2>1, <3>1, DoneNothing
  <2> QED  BY <1>4, <1>n, <2>3, <2>4 DEF WriteNext
<1>5. CASE CheckNext(p) \/ DeleteNext(p)
  <2>1. /\ verb[p] = "clear" /\ verb' = verb /\ hive' = hive
        /\ pc[p] \in {"checkNext", "deleteNext"}
    BY <1>5 DEF CheckNext, DeleteNext, Ready, local
  <2>2. \/ Answer(p, "err")
        \/ /\ pc'[p] = "deleteNext" \/ (pc'[p] = "store" /\ bootNext' = None)
           /\ slot'[p] = slot[p]
    BY <1>5, <1>r DEF CheckNext, DeleteNext, Goto, Move, nvram
  <2>3. CASE ~Answer(p, "err")
    <3>1. Disarmed(pc[p], slot[p])'
      BY <1>d, <2>1, <2>2, <2>3 DEF Disarmed, Told
    <3> QED  BY <2>1, <2>2, <2>3, <3>1, DoneCleared
  <2> QED  BY <1>n, <2>3
<1>6. CASE OpenStore(p)
  <2>1. /\ verb' = verb /\ bootNext' = bootNext /\ pc[p] = "store"
        /\ Answer(p, "err") \/ pc'[p] = "save"
    BY <1>6 DEF OpenStore, Move, local, nvram
  <2>2. CASE ~Answer(p, "err") /\ verb[p] = "clear"
    <3>1. Disarmed(pc[p], slot[p])'
      BY <1>d, <2>1, <2>2 DEF Disarmed, Told
    <3> QED  BY <2>1, <2>2, <3>1, DoneCleared
  <2>3. CASE ~Answer(p, "err") /\ verb[p] # "clear"
    BY <2>1, <2>3, DoneNothing
  <2> QED  BY <1>n, <2>2, <2>3
<1>7. CASE SaveStore(p)
  <2>1. /\ verb' = verb /\ target' = target /\ bootNext' = bootNext /\ bootOrder' = bootOrder
        /\ pc[p] = "save" /\ slot[p] \in Slots
        /\ slot[p] = Edited(Current(p), verb[p], target[p].guid)
    BY <1>7 DEF SaveStore, local, nvram, Ready, LoneSafe, LoneInv
  <2>2. CASE ~Answer(p, "err") /\ verb[p] = "clear"
    <3>1. pc'[p] = "idle"
      BY <1>7, <2>2 DEF SaveStore, StoreDone, Answer
    <3> QED  BY <2>1, <2>2, <3>1, DoneNothing
  <2>3. CASE ~Answer(p, "err") /\ verb[p] # "clear"
    <3>1. /\ pc'[p] = "refind" /\ hive'.whole
          /\ verb[p] = "default" => hive'.def = target[p].guid
          /\ verb[p] = "once" => hive'.seq = target[p].guid
      BY <1>7, <2>1, <2>3 DEF SaveStore, StoreDone, Edited, Current, Goto, Move
    <3>2. /\ target[p] \in Targets /\ target[p].id = Home
          /\ verb[p] = "default" => bootOrder[1] = target[p].id
          /\ verb[p] = "once" => bootNext = target[p].id
      BY <1>a, <1>h, <1>w, <2>1, <2>3 DEF LoneSafe, LoneInv
    <3>3. Chosen(verb[p], target[p])'
      BY <2>1, <3>1, <3>2 DEF Chosen
    <3> QED  BY <2>1, <2>3, <3>1, <3>3, DoneChosen
  <2> QED  BY <1>n, <2>2, <2>3
<1>8. CASE RunBcdedit(p)
  <2>1. /\ verb' = verb /\ target' = target /\ bootNext' = bootNext /\ bootOrder' = bootOrder
        /\ pc[p] = "store" /\ slot[p] \in Slots /\ slot[p] = Current(p)
    BY <1>8 DEF RunBcdedit, local, nvram, LoneSafe, LoneInv
  <2>2. CASE ~Answer(p, "err") /\ verb[p] = "clear"
    <3>1. pc'[p] = "reload" /\ hive'.seq = None
      BY <1>8, <2>1, <2>2 DEF RunBcdedit, Edited, Current, Goto, Move, Hives
    <3>2. bootNext = None
      BY <1>d, <2>1, <2>2 DEF Disarmed
    <3>3. Disarmed(pc[p], slot[p])'
      BY <2>1, <3>1, <3>2 DEF Disarmed, Told
    <3> QED  BY <2>1, <2>2, <3>1, <3>3, DoneCleared
  <2>3. CASE ~Answer(p, "err") /\ verb[p] # "clear"
    <3>1. /\ pc'[p] = "reload"
          /\ verb[p] = "default" => hive'.def = target[p].guid
          /\ verb[p] = "once" => hive'.seq = target[p].guid
      BY <1>8, <2>1, <2>3 DEF RunBcdedit, Edited, Goto, Move, Hives
    <3>2. /\ target[p] \in Targets /\ (target[p].guid # None => target[p].id = Home)
          /\ verb[p] = "default" => bootOrder[1] = target[p].id
          /\ verb[p] = "once" => bootNext = target[p].id
      BY <1>a, <1>h, <1>w, <2>1, <2>3 DEF LoneSafe, LoneInv
    <3>3. Chosen(verb[p], target[p])'
      BY <2>1, <3>1, <3>2 DEF Chosen
    <3> QED  BY <2>1, <2>3, <3>1, <3>3, DoneChosen
  <2> QED  BY <1>n, <2>2, <2>3
<1>9. CASE ReloadStore(p)
  <2>1. /\ verb' = verb /\ target' = target /\ bootNext' = bootNext /\ bootOrder' = bootOrder
        /\ pc[p] = "reload" /\ hive' = hive
    BY <1>9 DEF ReloadStore, local, nvram
  <2>2. CASE ~Answer(p, "err") /\ verb[p] = "clear"
    <3>1. pc'[p] = "idle"
      BY <1>9, <2>2 DEF ReloadStore, Answer
    <3> QED  BY <2>1, <2>2, <3>1, DoneNothing
  <2>3. CASE ~Answer(p, "err") /\ verb[p] # "clear"
    <3>1. pc'[p] = "refind" /\ hive'.whole
      BY <1>9, <2>3 DEF ReloadStore, Move
    <3>2. Chosen(verb[p], target[p])'
      BY <1>d, <2>1, <2>3 DEF Chosen
    <3> QED  BY <2>1, <2>3, <3>1, <3>2, DoneChosen
  <2> QED  BY <1>n, <2>2, <2>3
<1>10. CASE NoStore(p)
  <2>1. /\ verb' = verb /\ bootNext' = bootNext /\ hive' = hive
        /\ pc[p] = "store" /\ slot[p] = NoSlot /\ Answer(p, "ok")
    BY <1>10 DEF NoStore, local, nvram
  <2>2. verb[p] = "clear"
    <3>1. SUFFICES ASSUME verb[p] # "clear" PROVE FALSE
      OBVIOUS
    <3>2. target[p] \in Targets /\ target[p].guid # None /\ target[p].id = None
      BY <1>a, <1>h, <2>1, <3>1 DEF NoSlot, LoneSafe, LoneInv
    <3> QED  BY <3>2, NoneAssumption DEF Targets
  <2>3. pc'[p] = "idle"
    BY <2>1 DEF Answer
  <2> QED  BY <2>1, <2>2, <2>3, DoneNothing
<1>11. CASE Refind(p)
  <2>1. /\ verb' = verb /\ target' = target /\ bootNext' = bootNext /\ bootOrder' = bootOrder
        /\ pc[p] = "refind" /\ hive' = hive
        /\ Answer(p, "ok") \/ Answer(p, "panic")
    BY <1>11 DEF Refind, local, nvram
  <2>2. CASE Answer(p, "ok")
    <3>1. pc'[p] = "idle" /\ reply'[p] = "ok"
      BY <2>2 DEF Answer
    <3>2. Chosen(verb[p], target[p])'
      BY <1>d, <2>1 DEF Chosen
    <3> QED  BY <1>d, <2>1, <3>1, <3>2, DoneChosen
  <2> QED  BY <1>n, <2>1, <2>2
<1> QED
  BY <1>1, <1>2, <1>3, <1>4, <1>5, <1>6, <1>7, <1>8, <1>9, <1>10, <1>11 DEF Step

LEMMA DoneNext ==
  ASSUME Alone, "read" \notin Faults, LoneSafe, TypeInv', DoneInv, [Next]_vars
  PROVE  DoneInv'
<1>1. ASSUME NEW p \in Procs, Start(p) \/ Kill(p) PROVE DoneInv'
  <2>1. pc'[p] = "detect" \/ (pc'[p] = "idle" /\ reply'[p] # "ok")
    BY <1>1 DEF Start, Kill, Answer, LoneSafe, TypeInv, TypeOK
  <2> QED  BY <2>1, DoneNothing
<1>2. CASE Reboot
  <2>1. \A p \in Procs : pc'[p] = "idle" /\ reply'[p] = "none"
    BY <1>2 DEF Reboot
  <2> QED  BY <2>1, DoneNothing DEF DoneInv
<1>3. CASE UNCHANGED vars
  BY <1>3 DEF vars, nvram, local, DoneInv, Told, Chosen, Disarmed
<1> QED
  BY <1>1, <1>2, <1>3, DoneStep DEF Next

LEMMA DoneAlways ==
  ASSUME Alone, "read" \notin Faults
  PROVE  /\ Init => LoneSafe /\ DoneInv
         /\ LoneSafe /\ DoneInv /\ [Next]_vars => LoneSafe' /\ DoneInv'
<1>1. Init => LoneSafe /\ DoneInv
  BY LoneSafeAlways, DoneInit
<1>2. LoneSafe /\ [Next]_vars => LoneSafe'
  BY LoneSafeAlways
<1>3. LoneSafe' => TypeInv'
  BY DEF LoneSafe
<1> QED
  BY <1>1, <1>2, <1>3, DoneNext

\* The step by which a lone `clear` answers Ok.
LEMMA ClearedStep ==
  ASSUME Alone, LoneSafe, DoneInv, [Next]_vars,
         NEW p \in Procs, verb[p] = "clear", pc[p] # "idle", Told(p)'
  PROVE  /\ bootNext' = None
         /\ slot[p] # NoSlot => hive'.seq = None
         /\ slot[p] = NoSlot => ~hive'.whole \/ May("load")
<1>t. /\ pc \in [Procs -> Places] /\ reply \in [Procs -> Replies]
      /\ Ready(pc[p], verb[p], target[p], slot[p])
  BY DEF LoneSafe, TypeInv, TypeOK, Prepared
<1>d. Disarmed(pc[p], slot[p]) /\ pc[p] # "refind" /\ pc[p] # "find"
  BY DEF DoneInv, LoneSafe, StepsInv
<1>o. pc'[p] = "idle" /\ reply'[p] = "ok"
  BY DEF Told
<1>1. PICK q \in Procs : Start(q) \/ Step(q) \/ Kill(q) \/ Reboot
  <2>1. CASE UNCHANGED vars
    BY <1>o, <2>1 DEF vars
  <2> QED  BY <2>1 DEF Next
<1>2. q = p
  BY DEF Alone
<1>3. CASE Start(p) \/ Kill(p) \/ Reboot
  BY <1>t, <1>o, <1>3 DEF Start, Kill, Reboot, Answer
<1>4. CASE Detect(p) \/ ReadOrder(p) \/ WriteOrder(p) \/ WriteNext(p) \/ OpenStore(p)
  BY <1>t, <1>o, <1>4 DEF Detect, ReadOrder, WriteOrder, WriteNext, OpenStore, ThenStore, Goto,
                          Move, Answer
<1>5. CASE CheckNext(p) \/ DeleteNext(p) \/ RunBcdedit(p)
  BY <1>t, <1>o, <1>5 DEF CheckNext, DeleteNext, RunBcdedit, Goto, Move, Answer
<1>6. CASE Find(p) \/ Refind(p)
  BY <1>d, <1>6 DEF Find, Refind, At
<1>7. CASE SaveStore(p)
  <2>1. pc[p] = "save" /\ slot[p] \in Slots /\ bootNext' = bootNext
        /\ slot[p] = Edited(Current(p), "clear", target[p].guid)
    BY <1>t, <1>7 DEF SaveStore, At, nvram, Ready, LoneSafe, LoneInv
  <2>2. hive'.seq = None
    BY <1>t, <1>o, <1>7, <2>1 DEF SaveStore, Edited, Current, Answer
  <2>3. slot[p] # NoSlot
    BY <2>1, NoneAssumption, HomeAssumption DEF Slots, NoSlot
  <2> QED  BY <1>d, <2>1, <2>2, <2>3 DEF Disarmed
<1>8. CASE ReloadStore(p)
  <2>1. pc[p] = "reload" /\ slot[p] \in Slots /\ bootNext' = bootNext /\ hive' = hive
    BY <1>t, <1>8 DEF ReloadStore, At, nvram, Ready
  <2>2. slot[p] # NoSlot
    BY <2>1, NoneAssumption, HomeAssumption DEF Slots, NoSlot
  <2> QED  BY <1>d, <2>1, <2>2 DEF Disarmed
<1>9. CASE NoStore(p)
  BY <1>d, <1>9 DEF NoStore, At, nvram, Disarmed
<1> QED
  BY <1>1, <1>2, <1>3, <1>4, <1>5, <1>6, <1>7, <1>8, <1>9 DEF Step

\* When `clear` answers Ok, BootNext is disarmed, and the sequence too if the command
\* had read a store, whatever an earlier command that failed or was killed had armed
\* (Switcher::clear_next); and it had read one, unless the store is cut short or
\* reading it failed.
THEOREM ClearedIsDisarmed ==
  ASSUME Alone, "read" \notin Faults
  PROVE  Spec => ClearedMeansDisarmed
<1>1. ASSUME LoneSafe, DoneInv, [Next]_vars
      PROVE  \A p \in Procs : verb[p] = "clear" /\ pc[p] # "idle" /\ Told(p)' =>
               /\ bootNext' = None
               /\ slot[p] # NoSlot => hive'.seq = None
               /\ slot[p] = NoSlot => ~hive'.whole \/ May("load")
  BY <1>1, ClearedStep
<1> QED
  BY <1>1, DoneAlways, PTL DEF Spec, ClearedMeansDisarmed

\* What boots when the one-shot is set to what it should be.
LEMMA NextStarts ==
  ASSUME TypeInv, NEW t \in Targets, bootNext = t.id, Starts(t.id),
         t.guid # None => t.id = Home /\ hive.seq = t.guid
  PROVE  \E u \in Targets : Boots(u) /\ Agrees(u.id, u.guid, t)
<1> DEFINE u == [id |-> t.id, guid |-> ObjectOf(t.id)]
<1>1. t.id \in Ids /\ t.id # None /\ bootOrder \in Seq(Ids) /\ hive \in Hives
  BY NoneAssumption DEF TypeInv, TypeOK, Targets
<1>2. u \in Targets /\ u.id = t.id /\ u.guid = ObjectOf(t.id)
  BY <1>1 DEF Targets, ObjectOf, Hives
<1>3. Attempts = <<t.id>> \o bootOrder
  BY <1>1 DEF Attempts
<1>4. 1 \in DOMAIN Attempts /\ Attempts[1] = t.id
  BY <1>1, <1>3
<1>5. t.guid # None => u.guid = t.guid
  BY <1>2 DEF ObjectOf
<1> HIDE DEF u
<1>6. Boots(u)
  BY <1>2, <1>4 DEF Boots
<1> QED
  BY <1>2, <1>5, <1>6 DEF Agrees

\* Ok from `default` or `next` means the machine does what was asked for, whatever
\* failed or was killed before.
THEOREM OkIsSelected ==
  ASSUME Alone, "read" \notin Faults
  PROVE  Spec => []OkMeansSelected
<1>1. ASSUME LoneSafe, DoneInv PROVE OkMeansSelected
  <2> SUFFICES ASSUME NEW p \in Procs, pc[p] = "idle", reply[p] = "ok"
               PROVE  /\ target[p].guid # None => hive.whole
                      /\ verb[p] = "default" => Agrees(bootOrder[1], hive.def, target[p])
                      /\ verb[p] = "once" /\ Starts(target[p].id) =>
                           \E t \in Targets : Boots(t) /\ Agrees(t.id, t.guid, target[p])
    BY DEF OkMeansSelected, At
  <2>1. CASE verb[p] = "clear"
    BY <1>1, <2>1 DEF LoneSafe, StepsInv, NoTarget
  <2>2. CASE verb[p] # "clear"
    <3>1. Chosen(verb[p], target[p]) /\ (target[p].guid # None => hive.whole) /\ TypeInv
      BY <1>1, <2>2 DEF DoneInv, Told, LoneSafe
    <3>2. verb[p] = "default" => Agrees(bootOrder[1], hive.def, target[p])
      BY <3>1 DEF Chosen, Agrees
    <3>3. verb[p] = "once" /\ Starts(target[p].id) =>
            \E t \in Targets : Boots(t) /\ Agrees(t.id, t.guid, target[p])
      BY <3>1, NextStarts DEF Chosen
    <3> QED  BY <3>1, <3>2, <3>3
  <2> QED  BY <2>1, <2>2
<1> QED
  BY <1>1, DoneAlways, PTL DEF Spec

-----------------------------------------------------------------------------
(* What is shown *)

LEMMA ShownBoots ==
  ASSUME WinIds = {Home}, TypeInv, OrderInv, hive.whole, NEW t \in ShownEntries,
         IsNext(t, bootNext, ShownSlot)
  PROVE  Boots(t)
<1>t. hive \in Hives /\ IsPermutation(bootOrder) /\ bootOrder \in Seq(Ids)
  BY DEF TypeInv, TypeOK, OrderInv
<1>1. ShownSlot = [efi |-> Home, def |-> hive.def, seq |-> hive.seq]
  <2>1. PairedEntry(bootOrder, FALSE) = Home
    BY <1>t, PairedHome
  <2> QED  BY <2>1, HomeAssumption, NoneAssumption DEF ShownSlot, Loaded
<1>2. ShownSlot \in Slots /\ ShownSlot.efi = Home /\ ShownSlot.seq = hive.seq
  BY <1>t, <1>1, HomeAssumption DEF Slots, Hives
<1>3. Entries(bootOrder, ShownSlot) \in Seq(Targets)
  BY <1>t, <1>2, EntriesType
<1>4. t \in Targets /\ \E i \in DOMAIN Entries(bootOrder, ShownSlot) : Entries(bootOrder, ShownSlot)[i] = t
  BY <1>3 DEF ShownEntries, Range
<1>5. Listed(t, ShownSlot)
  BY <1>t, <1>2, <1>4, EntriesComplete
<1>6. t.id \in Ids /\ t.id # None /\ bootNext = t.id /\ (t.guid # None => hive.seq = t.guid)
  BY <1>2, <1>4, NoneAssumption DEF IsNext, Targets
<1>7. /\ t.id = Home => t.guid # None
      /\ t.id # Home => t.guid = None
  BY <1>2, <1>5, DisplayAssumption, NoneAssumption DEF Listed, Range
<1>8. t.guid = ObjectOf(t.id)
  BY <1>6, <1>7 DEF ObjectOf
<1>9. 1 \in DOMAIN Attempts /\ Attempts[1] = t.id /\ Starts(t.id)
  BY <1>t, <1>6 DEF Attempts, Starts
<1> QED
  BY <1>8, <1>9 DEF Boots

\* With one Windows entry, what `status` shows as the next boot is what boots next,
\* whatever any number of commands, failures and crashes left behind
\* (Switcher::entries, is_next).
THEOREM ShownIsBooted ==
  ASSUME WinIds = {Home}, "read" \notin Faults
  PROVE  Spec => []NextShownIsBooted
<1>1. Init => TypeInv /\ OrderInv
  BY TypeInit, OrderInit
<1>2. TypeInv /\ OrderInv /\ [Next]_vars => (TypeInv /\ OrderInv)'
  BY TypeNext, OrderStep
<1>3. TypeInv /\ OrderInv => NextShownIsBooted
  BY ShownBoots DEF NextShownIsBooted
<1> QED
  BY <1>1, <1>2, <1>3, PTL DEF Spec

-----------------------------------------------------------------------------
(* The file when nobody writes it *)

LEMMA WholeInit == Init => WholeInv
<1> SUFFICES ASSUME Init PROVE WholeInv
  OBVIOUS
<1>1. hive.whole /\ hive.def \in Guids
  BY DEF Init
<1> QED
  BY <1>1, NoneAssumption DEF Init, WholeInv

\* What a command does to the file and to its own copy.
LEMMA WholeOwn ==
  ASSUME {"save", "kill"} \cap Faults = {}, TypeInv, WholeInv, NEW p \in Procs, Step(p)
  PROVE  /\ hive'.whole \/ pc'[p] = "save" \/ (pc[p] # "save" /\ ~hive.whole)
         /\ hive'.def # None
         /\ slot'[p] # NoSlot => slot'[p].def # None
         /\ pc'[p] \in {"store", "save"} /\ verb'[p] # "clear" => target'[p].guid # None
<1>t. /\ pc \in [Procs -> Places] /\ slot \in [Procs -> Slots \cup {NoSlot}]
      /\ verb[p] \in Verbs /\ hive \in Hives
      /\ Ready(pc[p], verb[p], target[p], slot[p])
  BY DEF TypeInv, TypeOK, Prepared
<1>i. /\ hive.def # None
      /\ slot[p] # NoSlot => slot[p].def # None
      /\ pc[p] \in {"store", "save"} /\ verb[p] # "clear" => target[p].guid # None
  BY DEF WholeInv
<1> USE <1>t, <1>i DEF Goto, Move, Answer, nvram, local, At
<1>1. CASE Detect(p)
  BY <1>1 DEF Detect, Loaded
<1>2. CASE Find(p) \/ Refind(p) \/ ReadOrder(p) \/ NoStore(p)
  BY <1>2 DEF Find, Refind, ReadOrder, NoStore
<1>3. CASE WriteOrder(p) \/ WriteNext(p)
  BY <1>3 DEF WriteOrder, WriteNext, ThenStore
<1>4. CASE CheckNext(p) \/ DeleteNext(p)
  BY <1>4 DEF CheckNext, DeleteNext, Ready
<1>5. CASE OpenStore(p)
  <2>1. \/ /\ hive'.whole = FALSE /\ hive'.def = hive.def /\ pc'[p] = "save"
           /\ slot'[p] = Edited(slot[p], verb[p], target[p].guid)
           /\ verb' = verb /\ target' = target
        \/ hive' = hive /\ pc'[p] = "idle" /\ slot'[p] = NoSlot
    BY <1>5 DEF OpenStore, Hives
  <2>2. /\ slot[p] \in Slots /\ pc[p] = "store" /\ slot[p].def # None
        /\ verb[p] = "default" => target[p].guid # None
    BY <1>5 DEF OpenStore
  <2>3. Edited(slot[p], verb[p], target[p].guid).def # None
    <3>1. CASE verb[p] = "default"
      BY <2>2, <3>1 DEF Edited, Slots
    <3>2. CASE verb[p] \in {"once", "clear"}
      BY <2>2, <3>2 DEF Edited, Slots
    <3> QED  BY <3>1, <3>2 DEF Verbs
  <2> QED  BY <1>5, <2>1, <2>2, <2>3 DEF OpenStore
<1>6. CASE SaveStore(p)
  <2>1. slot[p] # NoSlot
    BY <1>6, NoneAssumption, HomeAssumption DEF SaveStore, Ready, Slots, NoSlot
  <2>2. /\ hive'.whole /\ hive'.def = slot[p].def
        /\ pc'[p] \in {"idle", "refind"} /\ slot'[p] \in {slot[p], NoSlot}
    BY <1>6 DEF SaveStore, StoreDone, May
  <2> QED  BY <2>1, <2>2
<1>7. CASE RunBcdedit(p)
  <2>1. /\ hive'.whole = hive.whole /\ pc'[p] \in {"idle", "reload"} /\ pc[p] = "store"
        /\ hive'.def \in {hive.def} \/ (verb[p] = "default" /\ hive'.def = target[p].guid)
        /\ slot'[p] \in {slot[p], NoSlot}
    BY <1>7 DEF RunBcdedit, Edited, Hives, Verbs
  <2> QED  BY <2>1
<1>8. CASE ReloadStore(p)
  BY <1>8 DEF ReloadStore, Loaded
<1> QED
  BY <1>1, <1>2, <1>3, <1>4, <1>5, <1>6, <1>7, <1>8 DEF Step

LEMMA WholeNext ==
  ASSUME {"save", "kill"} \cap Faults = {}, TypeInv, WholeInv, [Next]_vars
  PROVE  WholeInv'
<1>1. ASSUME NEW p \in Procs, Step(p) PROVE WholeInv'
  <2>1. hive'.whole \/ \E q \in Procs : pc'[q] = "save"
    <3>1. CASE pc[p] # "save" /\ ~hive.whole
      <4>1. PICK q \in Procs : pc[q] = "save"
        BY <3>1 DEF WholeInv
      <4> QED  BY <1>1, <3>1, <4>1, OthersStay
    <3> QED  BY <1>1, <3>1, WholeOwn
  <2> QED  BY <1>1, <2>1, WholeOwn, OthersStay DEF WholeInv
<1>2. ASSUME NEW p \in Procs, Start(p) PROVE WholeInv'
  <2>1. pc[p] = "idle" /\ pc'[p] = "detect" /\ hive' = hive /\ slot' = slot
    BY <1>2 DEF Start, At, TypeInv, TypeOK
  <2>2. \A q \in Procs \ {p} : pc'[q] = pc[q] /\ verb'[q] = verb[q] /\ target'[q] = target[q]
    BY <1>2, OthersStay
  <2> QED  BY <2>1, <2>2 DEF WholeInv
<1>3. ASSUME NEW p \in Procs, Kill(p) PROVE WholeInv'
  BY <1>3 DEF Kill, Gone, May
<1>4. CASE Reboot
  <2>1. \A p \in Procs : pc[p] = "idle"
    BY <1>4 DEF Reboot, Gone, May
  <2>2. hive'.whole = hive.whole /\ hive'.def = hive.def
    BY <1>4 DEF Reboot, TypeInv, TypeOK, Hives
  <2> QED  BY <1>4, <2>1, <2>2 DEF Reboot, WholeInv
<1>5. CASE UNCHANGED vars
  BY <1>5 DEF vars, local, WholeInv
<1> QED
  BY <1>1, <1>2, <1>3, <1>4, <1>5 DEF Next

\* Any number of commands that save the hive file at the same time leave it whole,
\* with a default in it, unless one is killed or cannot write (Bcd::save).
THEOREM StoreStaysWhole ==
  ASSUME {"save", "kill"} \cap Faults = {}
  PROVE  Spec => []StoreWholeAtRest
<1>1. Init => TypeInv /\ WholeInv
  BY TypeInit, WholeInit
<1>2. TypeInv /\ WholeInv /\ [Next]_vars => (TypeInv /\ WholeInv)'
  BY TypeNext, WholeNext
<1>3. WholeInv => StoreWholeAtRest
  BY DEF WholeInv, StoreWholeAtRest, AllIdle, At
<1> QED
  BY <1>1, <1>2, <1>3, PTL DEF Spec

-----------------------------------------------------------------------------
(* Several commands that set the same scope *)

\* What a process brings to its two writes stays what its own steps made it.
Brings(place, v, t, st, o) ==
  /\ t.guid # None => t.id = Home
  /\ t.guid # None /\ place \in {"readOrder", "writeOrder", "writeNext", "store"} => st # NoSlot
  /\ place = "writeOrder" => o[1] = t.id
  /\ place \in {"store", "save"} /\ v # "clear" => t.guid # None
  /\ place = "save" /\ v = "default" => st.def = t.guid
  /\ place = "save" /\ v = "once" => st.seq = t.guid

LEMMA BringsAll ==
  BringsInv <=> \A p \in Procs : Brings(pc[p], verb[p], target[p], slot[p], order[p])
BY DEF BringsInv, Brings

LEMMA BringsStep ==
  ASSUME WinIds = {Home}, TypeInv, StepsInv, BringsInv, NEW p \in Procs, Step(p)
  PROVE  Brings(pc'[p], verb'[p], target'[p], slot'[p], order'[p])
<1>t. /\ pc \in [Procs -> Places] /\ slot \in [Procs -> Slots \cup {NoSlot}]
      /\ target \in [Procs -> Targets \cup {NoTarget}] /\ order \in [Procs -> Seq(Ids)]
      /\ verb[p] \in Verbs /\ StoresOK
      /\ Ready(pc[p], verb[p], target[p], slot[p])
  BY TypeHalves DEF TypeInv, TypeOK, Prepared
<1>b. Brings(pc[p], verb[p], target[p], slot[p], order[p])
  BY BringsAll
<1>g. /\ target[p].guid # None => target[p].id = Home
      /\ target[p].guid # None /\ pc[p] \in {"readOrder", "writeOrder", "writeNext", "store"} =>
           slot[p] # NoSlot
  BY <1>b DEF Brings
<1> USE <1>t, <1>g DEF Goto, Move, Answer, nvram, local, At
<1>1. CASE Detect(p) \/ Refind(p) \/ NoStore(p)
  BY <1>1 DEF Detect, Refind, NoStore, Brings
<1>2. CASE Find(p)
  <2>1. PICK o \in Reads(bootOrder, <<>>) :
          \/ \E i \in DOMAIN Entries(o, slot[p]) :
               /\ target' = [target EXCEPT ![p] = Entries(o, slot[p])[i]]
               /\ pc'[p] \in {"readOrder", "writeNext"}
          \/ target' = target /\ pc'[p] = "idle"
    BY <1>2 DEF Find
  <2>2. o \in Seq(Ids)
    BY <2>1, OrderReads
  <2>3. CASE target' = target /\ pc'[p] = "idle"
    BY <2>3 DEF Brings
  <2>4. ASSUME NEW i \in DOMAIN Entries(o, slot[p]),
               target' = [target EXCEPT ![p] = Entries(o, slot[p])[i]],
               pc'[p] \in {"readOrder", "writeNext"}
        PROVE  Brings(pc'[p], verb'[p], target'[p], slot'[p], order'[p])
    <3> DEFINE t == Entries(o, slot[p])[i]
    <3>1. t \in Targets /\ (t.guid # None => t.id = slot[p].efi)
      BY <2>2, <2>4, EntriesType, EntriesObjects
    <3>2. target'[p] = t
      BY <2>4
    <3> HIDE DEF t
    <3>3. t.guid # None => t.id = Home /\ slot[p] # NoSlot
      BY <3>1, NoneAssumption DEF Slots, NoSlot, Targets
    <3>4. slot'[p] = slot[p] \/ pc'[p] \notin {"readOrder", "writeNext"}
      BY <1>2 DEF Find
    <3> QED  BY <2>4, <3>2, <3>3, <3>4 DEF Brings
  <2> QED  BY <2>1, <2>3, <2>4
<1>3. CASE ReadOrder(p)
  <2>1. PICK o \in Reads(bootOrder, <<>>) : order'[p] = MoveToFront(o, target[p].id)
    BY <1>3 DEF ReadOrder
  <2>2. o \in Seq(Ids) /\ target[p].id \in Ids
    BY <1>3, <2>1, OrderReads DEF ReadOrder, Ready, Targets
  <2>3. order'[p][1] = target[p].id
    BY <2>1, <2>2, FrontOf
  <2> QED  BY <1>3, <2>3 DEF ReadOrder, Brings
<1>4. CASE WriteOrder(p) \/ WriteNext(p)
  BY <1>4 DEF WriteOrder, WriteNext, ThenStore, Brings
<1>5. CASE CheckNext(p) \/ DeleteNext(p)
  <2>1. verb[p] = "clear" /\ target[p] = NoTarget
    BY <1>5 DEF CheckNext, DeleteNext, Ready, StepsInv
  <2> QED  BY <1>5, <2>1 DEF CheckNext, DeleteNext, Brings, NoTarget
<1>6. CASE OpenStore(p)
  <2>1. /\ verb' = verb /\ target' = target /\ slot[p] \in Slots /\ pc[p] = "store"
        /\ \/ pc'[p] = "idle"
           \/ pc'[p] = "save" /\ slot'[p] = Edited(slot[p], verb[p], target[p].guid)
    BY <1>6 DEF OpenStore
  <2>2. /\ verb[p] = "default" => Edited(slot[p], verb[p], target[p].guid).def = target[p].guid
        /\ verb[p] = "once" => Edited(slot[p], verb[p], target[p].guid).seq = target[p].guid
    BY <2>1 DEF Edited, Slots
  <2> QED  BY <1>b, <2>1, <2>2 DEF Brings
<1>7. CASE SaveStore(p) \/ ReloadStore(p) \/ RunBcdedit(p)
  BY <1>7 DEF SaveStore, StoreDone, ReloadStore, RunBcdedit, Brings
<1> QED
  BY <1>1, <1>2, <1>3, <1>4, <1>5, <1>6, <1>7 DEF Step

LEMMA BringsNext ==
  ASSUME WinIds = {Home}, TypeInv, StepsInv, BringsInv, [Next]_vars
  PROVE  BringsInv'
<1>1. ASSUME NEW p \in Procs, Start(p) \/ Step(p) \/ Kill(p) PROVE BringsInv'
  <2>1. Brings(pc'[p], verb'[p], target'[p], slot'[p], order'[p])
    <3>1. CASE Start(p)
      <4>1. pc'[p] = "detect" /\ target'[p] = NoTarget
        BY <3>1 DEF Start, TypeInv, TypeOK
      <4> QED  BY <4>1 DEF Brings, NoTarget
    <3>2. CASE Kill(p)
      <4>1. pc'[p] = "idle" /\ target'[p] = target[p]
        BY <3>2 DEF Kill, Answer, TypeInv, TypeOK
      <4> QED  BY <4>1 DEF Brings, BringsInv
    <3> QED  BY <1>1, <3>1, <3>2, BringsStep
  <2>2. ASSUME NEW q \in Procs \ {p}
        PROVE  Brings(pc'[q], verb'[q], target'[q], slot'[q], order'[q])
    BY <1>1, BringsAll, OthersStay
  <2> QED  BY <2>1, <2>2 DEF BringsInv, Brings
<1>2. CASE Reboot
  BY <1>2 DEF Reboot, BringsInv, NoTarget
<1>3. CASE UNCHANGED vars
  BY <1>3 DEF vars, local, BringsInv
<1> QED
  BY <1>1, <1>2, <1>3 DEF Next

\* A step answers for its own process only.
LEMMA RepliesStay ==
  ASSUME TypeInv, NEW p \in Procs, Start(p) \/ Step(p) \/ Kill(p)
  PROVE  \A q \in Procs \ {p} : reply'[q] = reply[q]
<1>t. reply \in [Procs -> Replies]
  BY DEF TypeInv, TypeOK
<1> USE <1>t DEF Goto, Move, Answer
<1>1. CASE Start(p) \/ Kill(p)
  BY <1>1 DEF Start, Kill
<1>2. CASE Detect(p) \/ Find(p) \/ Refind(p) \/ ReadOrder(p) \/ NoStore(p)
  BY <1>2 DEF Detect, Find, Refind, ReadOrder, NoStore
<1>3. CASE WriteOrder(p) \/ WriteNext(p) \/ CheckNext(p) \/ DeleteNext(p)
  BY <1>3 DEF WriteOrder, WriteNext, CheckNext, DeleteNext, ThenStore
<1>4. CASE OpenStore(p) \/ SaveStore(p) \/ RunBcdedit(p) \/ ReloadStore(p)
  BY <1>4 DEF OpenStore, SaveStore, StoreDone, RunBcdedit, ReloadStore
<1> QED
  BY <1>1, <1>2, <1>3, <1>4 DEF Step

\* The step of a process that sets a scope: it keeps both halves, or writes its
\* target into one of them.
LEMMA SetterStep ==
  ASSUME TypeInv, StepsInv, BringsInv, NEW p \in Procs, Step(p), NEW v \in {"default", "once"},
         verb[p] = v
  PROVE  /\ verb'[p] = v
         /\ FirstDone(p)' => /\ target'[p] = target[p]
                             /\ (FirstDone(p) /\ First(v)' = First(v)) \/ First(v)' = target[p].id
         /\ BothDone(p)' => \/ BothDone(p) /\ First(v)' = First(v) /\ Object(v)' = Object(v)
                            \/ target[p].guid = None /\ First(v)' = target[p].id
                            \/ target[p].guid # None /\ Object(v)' = target[p].guid
<1>t. /\ pc \in [Procs -> Places] /\ slot \in [Procs -> Slots \cup {NoSlot}]
      /\ reply \in [Procs -> Replies] /\ hive \in Hives
      /\ Ready(pc[p], verb[p], target[p], slot[p])
      /\ pc[p] \in {"readOrder", "writeOrder"} => v = "default"
      /\ pc[p] = "writeNext" => v = "once"
  BY DEF TypeInv, TypeOK, Prepared, StepsInv
<1>b. /\ pc[p] = "writeOrder" => order[p][1] = target[p].id
      /\ pc[p] \in {"store", "save"} => target[p].guid # None
      /\ pc[p] = "store" => slot[p] # NoSlot
      /\ pc[p] = "save" /\ v = "default" => slot[p].def = target[p].guid
      /\ pc[p] = "save" /\ v = "once" => slot[p].seq = target[p].guid
  BY DEF BringsInv
<1> USE <1>t DEF Goto, Move, Answer, nvram, local, At
<1>1. CASE Detect(p) \/ Find(p)
  <2>1. /\ verb'[p] = v /\ pc'[p] \in {"checkNext", "find", "readOrder", "writeNext", "idle"}
        /\ pc'[p] = "idle" => reply'[p] # "ok"
    BY <1>1 DEF Detect, Find
  <2> QED  BY <2>1 DEF FirstDone, BothDone, Told
<1>2. CASE ReadOrder(p)
  <2>1. verb'[p] = v /\ pc'[p] = "writeOrder"
    BY <1>2 DEF ReadOrder
  <2> QED  BY <2>1 DEF FirstDone, BothDone, Told
<1>3. CASE WriteOrder(p)
  <2>1. /\ verb'[p] = v /\ target' = target /\ v = "default"
        /\ \/ /\ bootOrder'[1] = target[p].id
              /\ pc'[p] = IF target[p].guid = None THEN "refind" ELSE "store"
           \/ pc'[p] = "idle" /\ reply'[p] = "err"
    BY <1>3, <1>b DEF WriteOrder, ThenStore
  <2> QED  BY <2>1 DEF FirstDone, BothDone, Told, First
<1>4. CASE WriteNext(p)
  <2>1. /\ verb'[p] = v /\ target' = target /\ v = "once"
        /\ \/ /\ bootNext' = target[p].id
              /\ pc'[p] = IF target[p].guid = None THEN "refind" ELSE "store"
           \/ pc'[p] = "idle" /\ reply'[p] = "err"
    BY <1>4 DEF WriteNext, ThenStore
  <2> QED  BY <2>1 DEF FirstDone, BothDone, Told, First
<1>5. CASE CheckNext(p) \/ DeleteNext(p)
  BY <1>5 DEF CheckNext, DeleteNext, Ready
<1>6. CASE OpenStore(p)
  <2>1. /\ verb'[p] = v /\ target' = target /\ UNCHANGED <<bootOrder, bootNext>>
        /\ pc[p] = "store" /\ (pc'[p] = "save" \/ (pc'[p] = "idle" /\ reply'[p] = "err"))
    BY <1>6 DEF OpenStore
  <2> QED  BY <1>b, <2>1 DEF FirstDone, BothDone, Told, First
<1>7. CASE SaveStore(p)
  <2>1. /\ verb'[p] = v /\ target' = target /\ UNCHANGED <<bootOrder, bootNext>> /\ pc[p] = "save"
        /\ \/ hive'.def = slot[p].def /\ hive'.seq = slot[p].seq
           \/ pc'[p] = "idle" /\ reply'[p] = "err"
    BY <1>7 DEF SaveStore
  <2> QED  BY <1>b, <2>1 DEF FirstDone, BothDone, Told, First, Object
<1>8. CASE RunBcdedit(p)
  <2>1. /\ verb'[p] = v /\ target' = target /\ UNCHANGED <<bootOrder, bootNext>> /\ pc[p] = "store"
        /\ \/ hive' = Edited(hive, v, target[p].guid)
           \/ pc'[p] = "idle" /\ reply'[p] = "err"
    BY <1>8 DEF RunBcdedit
  <2>2. hive' = Edited(hive, v, target[p].guid) => Object(v)' = target[p].guid
    BY DEF Edited, Hives, Object
  <2> QED  BY <1>b, <2>1, <2>2 DEF FirstDone, BothDone, Told, First
<1>9. CASE ReloadStore(p) \/ Refind(p)
  <2>1. /\ verb'[p] = v /\ target' = target /\ UNCHANGED <<bootOrder, bootNext, hive>>
        /\ pc[p] \in {"reload", "refind"}
    BY <1>9 DEF ReloadStore, Refind
  <2> QED  BY <2>1 DEF FirstDone, BothDone, First, Object
<1>10. CASE NoStore(p)
  BY <1>10, <1>b DEF NoStore
<1> QED
  BY <1>1, <1>2, <1>3, <1>4, <1>5, <1>6, <1>7, <1>8, <1>9, <1>10 DEF Step

LEMMA LastStep ==
  ASSUME WinIds = {Home}, TypeInv, StepsInv, BringsInv, LastInv, NEW p \in Procs, Step(p)
  PROVE  LastInv'
<1> SUFFICES ASSUME NEW v \in {"default", "once"}
             PROVE  /\ (\A q \in Procs : verb'[q] = v /\ FirstDone(q)') =>
                         \E q \in Procs : First(v)' = target'[q].id
                    /\ (\A q \in Procs : verb'[q] = v /\ BothDone(q)') =>
                         \E q \in Procs : Agrees(First(v)', Object(v)', target'[q])
  BY DEF LastInv, Agrees
<1>o. \A q \in Procs \ {p} : /\ verb'[q] = verb[q] /\ target'[q] = target[q]
                             /\ FirstDone(q)' <=> FirstDone(q)
                             /\ BothDone(q)' <=> BothDone(q)
  BY OthersStay, RepliesStay DEF FirstDone, BothDone, Told
<1>v. verb'[p] = verb[p]
  BY NextPlaces
<1>h. \A q \in Procs : target'[q].guid # None => target'[q].id = Home
  <2>1. target'[p].guid # None => target'[p].id = Home
    BY BringsStep DEF Brings
  <2>2. \A q \in Procs \ {p} : target[q].guid # None => target[q].id = Home
    BY DEF BringsInv
  <2> QED  BY <1>o, <2>1, <2>2
<1>s. verb[p] = v =>
        /\ FirstDone(p)' => /\ target'[p] = target[p]
                            /\ (FirstDone(p) /\ First(v)' = First(v)) \/ First(v)' = target[p].id
        /\ BothDone(p)' => \/ BothDone(p) /\ First(v)' = First(v) /\ Object(v)' = Object(v)
                           \/ target[p].guid = None /\ First(v)' = target[p].id
                           \/ target[p].guid # None /\ Object(v)' = target[p].guid
  BY SetterStep
<1>i. /\ (\A q \in Procs : verb[q] = v /\ FirstDone(q)) => \E q \in Procs : First(v) = target[q].id
      /\ (\A q \in Procs : verb[q] = v /\ BothDone(q)) =>
           \E q \in Procs : Agrees(First(v), Object(v), target[q])
  BY DEF LastInv
<1>1. ASSUME \A q \in Procs : verb'[q] = v /\ FirstDone(q)'
      PROVE  \E q \in Procs : First(v)' = target'[q].id
  <2>1. target'[p] = target[p] /\ verb[p] = v
    BY <1>1, <1>v, <1>s
  <2>2. CASE First(v)' = target[p].id
    BY <2>1, <2>2
  <2>3. CASE FirstDone(p) /\ First(v)' = First(v)
    <3>1. \A q \in Procs : verb[q] = v /\ FirstDone(q)
      BY <1>1, <1>o, <2>1, <2>3
    <3>2. PICK q \in Procs : First(v) = target[q].id
      BY <1>i, <3>1
    <3> QED  BY <1>o, <2>1, <2>3, <3>2
  <2> QED  BY <1>1, <1>s, <2>1, <2>2, <2>3
<1>2. ASSUME \A q \in Procs : verb'[q] = v /\ BothDone(q)'
      PROVE  \E q \in Procs : Agrees(First(v)', Object(v)', target'[q])
  <2>0. \A q \in Procs : verb'[q] = v /\ FirstDone(q)'
    BY <1>2 DEF BothDone
  <2>1. target'[p] = target[p] /\ verb[p] = v
    BY <1>v, <1>s, <2>0
  <2>2. CASE BothDone(p) /\ First(v)' = First(v) /\ Object(v)' = Object(v)
    <3>1. \A q \in Procs : verb[q] = v /\ BothDone(q)
      BY <1>2, <1>o, <2>1, <2>2
    <3>2. PICK q \in Procs : Agrees(First(v), Object(v), target[q])
      BY <1>i, <3>1
    <3>3. target'[q] = target[q]
      BY <1>o, <2>1
    <3> QED  BY <2>2, <3>2, <3>3
  <2>3. CASE target[p].guid = None /\ First(v)' = target[p].id
    BY <2>1, <2>3 DEF Agrees
  <2>4. CASE target[p].guid # None /\ Object(v)' = target[p].guid
    <3>1. PICK q \in Procs : First(v)' = target'[q].id
      BY <1>1, <2>0
    <3>2. CASE target'[q].guid = None
      BY <3>1, <3>2 DEF Agrees
    <3>3. CASE target'[q].guid # None
      <4>1. target'[q].id = Home /\ target'[p].id = Home
        BY <1>h, <2>1, <2>4, <3>3
      <4> QED  BY <2>1, <2>4, <3>1, <4>1 DEF Agrees
    <3> QED  BY <3>2, <3>3
  <2> QED  BY <1>2, <1>s, <2>1, <2>2, <2>3, <2>4
<1> QED
  BY <1>1, <1>2

LEMMA LastNext ==
  ASSUME WinIds = {Home}, Procs # {}, TypeInv, StepsInv, BringsInv, LastInv, [Next]_vars
  PROVE  LastInv'
<1>1. ASSUME NEW p \in Procs, ~FirstDone(p)' PROVE LastInv'
  BY <1>1 DEF LastInv, BothDone
<1>2. ASSUME NEW p \in Procs, Start(p) \/ Kill(p) PROVE LastInv'
  <2>1. pc'[p] = "detect" \/ (pc'[p] = "idle" /\ reply'[p] = "none")
    BY <1>2 DEF Start, Kill, Answer, TypeInv, TypeOK
  <2>2. ~FirstDone(p)'
    BY <2>1 DEF FirstDone, Told
  <2> QED  BY <1>1, <2>2
<1>3. CASE Reboot
  <2>1. PICK p \in Procs : TRUE
    OBVIOUS
  <2>2. pc'[p] = "idle" /\ reply'[p] = "none"
    BY <1>3 DEF Reboot
  <2>3. ~FirstDone(p)'
    BY <2>2 DEF FirstDone, Told
  <2> QED  BY <1>1, <2>3
<1>4. CASE UNCHANGED vars
  BY <1>4 DEF vars, nvram, local, LastInv, FirstDone, BothDone, Told, First, Object, Agrees
<1> QED
  BY <1>2, <1>3, <1>4, LastStep DEF Next

\* Any number of commands that set the same scope, at the same time, over the hive
\* file or through bcdedit, whatever fails: once all have been told Ok, the firmware
\* and the store hold one of the requests and never a mixture of two, when no other
\* Windows entry can lead to the store (Switcher::apply).
THEOREM OneRequestHolds ==
  ASSUME WinIds = {Home}, Procs # {}
  PROVE  Spec => []SomeRequestHolds
<1> DEFINE Inv == TypeInv /\ StepsInv /\ BringsInv /\ LastInv
<1>1. Init => Inv
  <2> SUFFICES ASSUME Init PROVE Inv
    OBVIOUS
  <2>1. \A p \in Procs : pc[p] = "idle" /\ verb[p] = "clear" /\ target[p] = NoTarget
    BY DEF Init
  <2>2. BringsInv /\ LastInv
    BY <2>1 DEF BringsInv, LastInv, NoTarget
  <2> QED  BY <2>2, TypeInit, StepsInit
<1>2. Inv /\ [Next]_vars => Inv'
  BY TypeNext, StepsNext, BringsNext, LastNext
<1>3. Inv => SomeRequestHolds
  <2> SUFFICES ASSUME LastInv PROVE SomeRequestHolds
    OBVIOUS
  <2>1. AllIdle => \A p \in Procs : reply[p] = "ok" => BothDone(p)
    BY DEF AllIdle, At, BothDone, FirstDone, Told
  <2>2. AllIdle /\ (\A p \in Procs : reply[p] = "ok" /\ verb[p] = "default")
          => \E p \in Procs : Agrees(bootOrder[1], hive.def, target[p])
    BY <2>1 DEF LastInv, First, Object
  <2>3. AllIdle /\ (\A p \in Procs : reply[p] = "ok" /\ verb[p] = "once")
          => \E p \in Procs : Agrees(bootNext, hive.seq, target[p])
    BY <2>1 DEF LastInv, First, Object
  <2> QED  BY <2>2, <2>3 DEF SomeRequestHolds
<1> HIDE DEF Inv
<1> QED
  BY <1>1, <1>2, <1>3, PTL DEF Spec

=============================================================================
