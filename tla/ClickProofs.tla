----------------------------- MODULE ClickProofs -----------------------------
(***************************************************************************)
(* Theorems about what the command line and the window change and show     *)
(* (Cli, Gui), for any users, entries, objects, selectors, scenes and      *)
(* faults.                                                                 *)
(***************************************************************************)
EXTENDS WindowProofs, EntriesProofs

-----------------------------------------------------------------------------
(* What is listed *)

Fine(m) == m \in Machines /\ IsPermutation(m.order)

LEMMA SlotFacts ==
  ASSUME NEW m, Fine(m), NEW hive \in BOOLEAN
  PROVE  /\ SlotOf(m, hive) \in Slots \cup {NoSlot}
         /\ SlotOf(m, hive).efi = IF hive /\ WinIds = {Home} THEN Home ELSE None
         /\ hive /\ WinIds = {Home} => SlotOf(m, hive).def = m.def /\ SlotOf(m, hive).seq = m.seq
<1>1. IsPermutation(m.order) /\ m.def \in Guids /\ m.seq \in Guids \cup {None}
  BY DEF Fine, Machines
<1>2. PairedEntry(m.order, FALSE) = IF WinIds = {Home} THEN Home ELSE None
  BY <1>1, PairedHome, PairedNone
<1>3. Home \in WinIds /\ Home # None
  BY HomeAssumption, NoneAssumption
<1> QED
  BY <1>1, <1>2, <1>3 DEF SlotOf, Slots, NoSlot

\* The order does not matter to what is listed.
LEMMA ListsSeen ==
  ASSUME NEW m, Fine(m), NEW hive \in BOOLEAN
  PROVE  /\ Entries(m.order, SlotOf(m, hive)) \in Seq(Targets)
         /\ \A e : e \in Seen(hive) <=> \E i \in DOMAIN Entries(m.order, SlotOf(m, hive)) :
                                           Entries(m.order, SlotOf(m, hive))[i] = e
<1> DEFINE slot == SlotOf(m, hive)
           l == Entries(m.order, slot)
<1>1. IsPermutation(m.order) /\ m.order \in Seq(Ids)
  BY DEF Fine, Machines
<1>2. slot \in Slots \cup {NoSlot} /\ slot.efi = IF hive /\ WinIds = {Home} THEN Home ELSE None
  BY SlotFacts
<1> HIDE DEF slot
<1>3. l \in Seq(Targets)
  BY <1>1, <1>2, EntriesType
<1>4. \A e \in Targets : Listed(e, slot) <=> \E i \in DOMAIN l : l[i] = e
  BY <1>1, <1>2, EntriesComplete
<1>5. \A e : e \in Seen(hive) <=> e \in Targets /\ Listed(e, slot)
  BY <1>2 DEF Seen, Listed
<1> HIDE DEF l
<1>6. \A e : e \in Seen(hive) <=> \E i \in DOMAIN l : l[i] = e
  BY <1>3, <1>4, <1>5
<1> QED
  BY <1>3, <1>6 DEF l, slot

\* An entry of one list and one of the full list that have one key are one entry.
LEMMA SameKey ==
  ASSUME NEW hive \in BOOLEAN, NEW e \in Seen(hive), NEW f \in Seen(TRUE), Key(e) = Key(f)
  PROVE  e = f
<1>1. \A h \in BOOLEAN : \A t \in Seen(h) :
        /\ t \in Targets /\ t = [id |-> t.id, guid |-> t.guid]
        /\ t.guid # None => t.guid \in Guids /\ t.id = Home
  <2> SUFFICES ASSUME NEW h \in BOOLEAN, NEW t \in Seen(h)
               PROVE  /\ t \in Targets /\ t = [id |-> t.id, guid |-> t.guid]
                      /\ t.guid # None => t.guid \in Guids /\ t.id = Home
    OBVIOUS
  <2>1. t \in Targets /\ Listed(t, [efi |-> IF h /\ WinIds = {Home} THEN Home ELSE None])
    BY DEF Seen
  <2>2. t.id # None
    BY <2>1, NoneAssumption DEF Targets
  <2> QED  BY <2>1, <2>2 DEF Targets, Listed
<1>2. e \in Targets /\ f \in Targets /\ TRUE \in BOOLEAN
  BY <1>1
<1>3. CASE e.guid = None /\ f.guid = None
  BY <1>1, <1>2, <1>3 DEF Key
<1>4. CASE e.guid # None /\ f.guid # None
  BY <1>1, <1>2, <1>4 DEF Key
<1>5. CASE (e.guid = None) # (f.guid = None)
  <2>1. \A t \in Targets : t.id \in Ids
    BY DEF Targets
  <2>2. (Key(e) \in Ids /\ Key(f) \in Guids) \/ (Key(e) \in Guids /\ Key(f) \in Ids)
    BY <1>1, <1>2, <1>5, <2>1 DEF Key
  <2> QED  BY <2>2, KeyAssumption
<1> QED
  BY <1>3, <1>4, <1>5

\* The systems of a list, or all of it when there are none.
LEMMA OsOnlyProperties ==
  ASSUME NEW S, NEW l \in Seq(S)
  PROVE  /\ OsOnly(l) \in Seq(S)
         /\ \A e : (\E j \in DOMAIN OsOnly(l) : OsOnly(l)[j] = e) <=>
                   /\ \E i \in DOMAIN l : l[i] = e
                   /\ IsOs(e) \/ \A i \in DOMAIN l : ~IsOs(l[i])
<1> DEFINE kept == {i \in DOMAIN l : IsOs(l[i])}
           o == [j \in 1..Cardinality(kept) |-> l[Nth(kept, j)]]
<1>1. OsOnly(l) = IF kept = {} THEN l ELSE o
  BY DEF OsOnly
<1>2. CASE kept = {}
  BY <1>1, <1>2
<1>3. CASE kept # {}
  <2>1. kept \in SUBSET Nat /\ kept \in SUBSET (1..Len(l))
    OBVIOUS
  <2>2. IsFiniteSet(kept)
    <3>1. Len(l) \in Nat /\ 0 \in Int
      OBVIOUS
    <3>2. IsFiniteSet(1..Len(l))
      BY <3>1, FS_Interval
    <3> HIDE DEF kept
    <3> QED  BY <2>1, <3>2, FS_Subset
  <2>3. /\ Cardinality(kept) \in Nat
        /\ \A j \in 1..Cardinality(kept) : Nth(kept, j) \in kept
        /\ \A n \in kept : \E j \in 1..Cardinality(kept) : Nth(kept, j) = n
    <3> HIDE DEF kept
    <3> QED  BY <2>1, <2>2, NthProperties
  <2>4. \A n \in kept : l[n] \in S /\ IsOs(l[n]) /\ n \in DOMAIN l
    OBVIOUS
  <2>5. \A i \in DOMAIN l : IsOs(l[i]) => i \in kept
    OBVIOUS
  <2>6. \E i \in DOMAIN l : IsOs(l[i])
    BY <1>3
  <2> HIDE DEF kept
  <2>7. o \in Seq(S) /\ DOMAIN o = 1..Cardinality(kept)
    BY <2>3, <2>4
  <2>8. \A e : (\E j \in DOMAIN o : o[j] = e) <=> \E i \in DOMAIN l : l[i] = e /\ IsOs(e)
    BY <2>3, <2>4, <2>5
  <2> QED  BY <1>1, <1>3, <2>6, <2>7, <2>8
<1> QED
  BY <1>2, <1>3

\* What the window may see, flag by flag.
LEMMA ViewFacts ==
  ASSUME NEW m, Fine(m), NEW e \in BOOLEAN, SeesHive(e) \in BOOLEAN
  PROVE  /\ View(m, e) \in Seq(Flagged)
         /\ \A i \in DOMAIN View(m, e) :
              /\ View(m, e)[i].t \in Drawn(SeesHive(e))
              /\ View(m, e)[i].default = IsDefault(View(m, e)[i].t, m.order, SlotOf(m, SeesHive(e)))
              /\ View(m, e)[i].next = IsNext(View(m, e)[i].t, m.next, SlotOf(m, SeesHive(e)))
         /\ SeesVariables(e) => \A t \in Drawn(SeesHive(e)) : \E i \in DOMAIN View(m, e) : View(m, e)[i].t = t
         /\ ~SeesVariables(e) => View(m, e) = <<>>
<1> DEFINE slot == SlotOf(m, SeesHive(e))
           all == Listing(m, e)
           l == OsOnly(all)
           v == View(m, e)
<1>1. /\ all \in Seq(Targets)
      /\ SeesVariables(e) => \A t : t \in Seen(SeesHive(e)) <=> \E i \in DOMAIN all : all[i] = t
      /\ ~SeesVariables(e) => all = <<>>
  <2>1. SeesVariables(e) => all = Entries(m.order, SlotOf(m, SeesHive(e)))
    BY DEF Listing
  <2>2. ~SeesVariables(e) => all = <<>>
    BY DEF Listing
  <2>3. <<>> \in Seq(Targets)
    OBVIOUS
  <2> DEFINE whole == Entries(m.order, SlotOf(m, SeesHive(e)))
  <2>4. /\ whole \in Seq(Targets)
        /\ \A t : t \in Seen(SeesHive(e)) <=> \E i \in DOMAIN whole : whole[i] = t
    BY ListsSeen
  <2> HIDE DEF all, whole
  <2>5. SeesVariables(e) => all = whole
    BY <2>1 DEF whole
  <2> QED  BY ONLY <2>2, <2>3, <2>4, <2>5
<1>2. v = [i \in DOMAIN l |-> [t |-> l[i], default |-> IsDefault(l[i], m.order, slot),
                               next |-> IsNext(l[i], m.next, slot)]]
  BY DEF View
<1> HIDE DEF slot, all, v
<1>3. /\ l \in Seq(Targets)
      /\ \A t : (\E j \in DOMAIN l : l[j] = t) <=>
                /\ \E i \in DOMAIN all : all[i] = t
                /\ IsOs(t) \/ \A i \in DOMAIN all : ~IsOs(all[i])
  BY <1>1, OsOnlyProperties
<1> HIDE DEF l
<1>4. SeesVariables(e) => \A t : t \in Drawn(SeesHive(e)) <=> \E j \in DOMAIN l : l[j] = t
  BY <1>1, <1>3 DEF Drawn
<1>5. ~SeesVariables(e) => DOMAIN l = {}
  <2>1. DOMAIN <<>> = {}
    OBVIOUS
  <2>2. ~SeesVariables(e) => ~\E i \in DOMAIN all : TRUE
    BY <1>1, <2>1
  <2> QED  BY <1>3, <2>2
<1>6. \A t, o, s : IsDefault(t, o, s) \in BOOLEAN
  BY DEF IsDefault
<1>7. \A t, o, s : IsNext(t, o, s) \in BOOLEAN
  BY DEF IsNext
<1>8. v \in Seq(Flagged) /\ DOMAIN v = DOMAIN l
  <2>1. \A i \in DOMAIN l : l[i] \in Targets
    BY <1>3
  <2>2. \A i \in DOMAIN l : [t |-> l[i], default |-> IsDefault(l[i], m.order, slot),
                            next |-> IsNext(l[i], m.next, slot)] \in Flagged
    BY <2>1, <1>6, <1>7 DEF Flagged
  <2>3. Len(l) \in Nat /\ DOMAIN l = 1..Len(l)
    BY <1>3
  <2> QED  BY <1>2, <2>2, <2>3
<1>9. \A i \in DOMAIN l : /\ v[i].t = l[i]
                          /\ v[i].default = IsDefault(l[i], m.order, slot)
                          /\ v[i].next = IsNext(l[i], m.next, slot)
  BY <1>2
<1>10. ~SeesVariables(e) => v = <<>>
  BY <1>5, <1>8
<1>11. SeesVariables(e) => \A i \in DOMAIN l : l[i] \in Drawn(SeesHive(e))
  BY <1>4
<1>12. SeesVariables(e) => \A t \in Drawn(SeesHive(e)) : \E i \in DOMAIN l : l[i] = t
  BY <1>4
<1>13. \A i \in DOMAIN v : /\ v[i].t \in Drawn(SeesHive(e))
                           /\ v[i].default = IsDefault(v[i].t, m.order, slot)
                           /\ v[i].next = IsNext(v[i].t, m.next, slot)
  BY <1>5, <1>8, <1>9, <1>11
<1>14. SeesVariables(e) => \A t \in Drawn(SeesHive(e)) : \E i \in DOMAIN v : v[i].t = t
  BY <1>8, <1>9, <1>12
<1> QED
  BY <1>8, <1>10, <1>13, <1>14 DEF v, slot

-----------------------------------------------------------------------------
(* What a command makes of the machine *)

LEMMA ListingType ==
  ASSUME NEW m, Fine(m), NEW e \in BOOLEAN, espOpen \in BOOLEAN
  PROVE  Listing(m, e) \in Seq(Targets)
<1>1. SeesHive(e) \in BOOLEAN
  BY DEF SeesHive
<1>2. Entries(m.order, SlotOf(m, SeesHive(e))) \in Seq(Targets)
  BY <1>1, ListsSeen
<1>3. <<>> \in Seq(Targets)
  OBVIOUS
<1> QED
  BY <1>2, <1>3 DEF Listing

LEMMA SelectingFine ==
  ASSUME NEW m, Fine(m), NEW v, NEW t \in Targets
  PROVE  Fine(Firmware(m, v, t)) /\ Fine(Selecting(m, v, t))
<1>1. m = [order |-> m.order, next |-> m.next, def |-> m.def, seq |-> m.seq]
      /\ m.order \in Seq(Ids) /\ m.next \in Ids \cup {None}
      /\ m.def \in Guids /\ m.seq \in Guids \cup {None} /\ IsPermutation(m.order)
  BY DEF Fine, Machines
<1>2. t.id \in Ids /\ t.guid \in Guids \cup {None}
  BY DEF Targets
<1>3. MoveToFront(m.order, t.id) \in Seq(Ids) /\ IsPermutation(MoveToFront(m.order, t.id))
  BY <1>1, <1>2, MoveToFrontType, MoveToFrontPermutes
<1>4. Fine(Firmware(m, v, t))
  BY <1>1, <1>2, <1>3 DEF Fine, Machines, Firmware
<1>5. \A n : Fine(n) => Fine(Store(n, v, t))
  BY <1>2 DEF Fine, Machines, Store
<1> QED
  BY <1>4, <1>5 DEF Selecting

\* A command that sets a scope fails, or sets it to an entry that its selector finds.
LEMMA CommandsSet ==
  ASSUME NEW m, NEW v \in {"default", "next"}, NEW s, NEW e, NEW o \in Commands(m, v, s, e)
  PROVE  \/ o.machine = m /\ o.word = "notFound"
         \/ \E i \in DOMAIN Listing(m, e) :
              /\ Finds(s, Listing(m, e), i)
              /\ o.machine \in {m, Firmware(m, v, Listing(m, e)[i]), Selecting(m, v, Listing(m, e)[i])}
              /\ o.word = "ok" => o.machine = Selecting(m, v, Listing(m, e)[i])
<1> DEFINE l == Listing(m, e)
           found(q) == {q[i] : i \in {i \in DOMAIN q : Finds(s, q, i)}}
           hits == UNION {found(q) : q \in {Listing(m, e)}}
<1>1. Commands(m, v, s, e) = IF hits = {} THEN {Outcome(m, "notFound")}
                             ELSE UNION {Ways(m, v, t) : t \in hits}
  BY DEF Commands, Ways
<1>2. \A t \in hits : \E i \in DOMAIN l : Finds(s, l, i) /\ l[i] = t
  OBVIOUS
<1> HIDE DEF hits, l
<1>3. CASE hits = {}
  BY <1>1, <1>3 DEF Outcome
<1>4. CASE hits # {}
  <2>1. o \in UNION {Ways(m, v, t) : t \in hits}
    BY <1>1, <1>4
  <2>2. PICK t \in hits : o \in Ways(m, v, t)
    BY <2>1, Zenon
  <2>3. PICK i \in DOMAIN l : Finds(s, l, i) /\ l[i] = t
    BY <1>2
  <2>4. /\ o.machine \in {m, Firmware(m, v, t), Selecting(m, v, t)}
        /\ o.word = "ok" => o.machine = Selecting(m, v, t)
    BY <2>2 DEF Ways, Panics, Failures, Outcome
  <2> QED  BY <2>3, <2>4 DEF l
<1> QED
  BY <1>3, <1>4

LEMMA CommandsFine ==
  ASSUME NEW m, Fine(m), NEW v, NEW s, NEW e \in BOOLEAN, espOpen \in BOOLEAN,
         NEW o \in Commands(m, v, s, e)
  PROVE  Fine(o.machine)
<1>1. CASE v \in {"default", "next"}
  <2>1. CASE o.machine = m
    BY <2>1
  <2>2. CASE o.machine # m
    <3> DEFINE l == Listing(m, e)
    <3>1. PICK i \in DOMAIN l : o.machine \in {m, Firmware(m, v, l[i]), Selecting(m, v, l[i])}
      BY <1>1, <2>2, CommandsSet
    <3>2. l[i] \in Targets
      <4>1. l \in Seq(Targets)
        BY ListingType
      <4> HIDE DEF l
      <4> QED  BY <4>1
    <3> HIDE DEF l
    <3> QED  BY <3>1, <3>2, SelectingFine
  <2> QED  BY <2>1, <2>2
<1>2. CASE v = "clear"
  <2> DEFINE half == [m EXCEPT !.next = None]
             clear == Clearing(m, e)
  <2>1. Fine(half) /\ Fine(clear)
    BY DEF Fine, Machines, Clearing
  <2>2. o \in {Outcome(clear, "ok")} \cup Failures(m, half)
    BY <1>2 DEF Commands
  <2> HIDE DEF half, clear
  <2> QED  BY <2>1, <2>2 DEF Failures, Outcome
<1>3. CASE v \notin {"default", "next", "clear"}
  <2>1. o \in {Outcome(m, "ok")}
    BY <1>3 DEF Commands
  <2> QED  BY <2>1 DEF Outcome
<1> QED
  BY <1>1, <1>2, <1>3

\* A request to the broker changes nothing, or is a command with its privileges.
LEMMA RepliesCommand ==
  ASSUME NEW k, NEW s, NEW r \in Replies(k, s)
  PROVE  \/ r.machine = machine /\ r.word = "failed" /\ r.done = done[Who(k)]
         \/ \E o \in Commands(machine, verb[Who(k)], s, TRUE) :
              r.machine = o.machine /\ (r.word = "ok" => o.word = "ok")
<1> DEFINE served == IF Installed THEN Commands(machine, verb[Who(k)], s, TRUE) ELSE {}
           lost == IF May("broker") THEN served ELSE {}
<1>1. \/ \E o \in served : r = [machine |-> o.machine, word |-> Code(o.word), done |-> Fate(o.word)]
      \/ \E o \in lost : r = [machine |-> o.machine, word |-> "failed", done |-> Fate(o.word)]
      \/ r = [machine |-> machine, word |-> "failed", done |-> done[Who(k)]]
  BY DEF Replies
<1>2. \A o : o \in served \/ o \in lost => o \in Commands(machine, verb[Who(k)], s, TRUE)
  OBVIOUS
<1>3. \A w : Code(w) = "ok" => w = "ok"
  BY DEF Code
<1> HIDE DEF served, lost
<1>4. ASSUME NEW o \in Commands(machine, verb[Who(k)], s, TRUE),
             \/ r = [machine |-> o.machine, word |-> Code(o.word), done |-> Fate(o.word)]
             \/ r = [machine |-> o.machine, word |-> "failed", done |-> Fate(o.word)]
      PROVE  r.machine = o.machine /\ (r.word = "ok" => o.word = "ok")
  BY <1>3, <1>4
<1>5. CASE r = [machine |-> machine, word |-> "failed", done |-> done[Who(k)]]
  BY <1>5
<1> QED
  BY <1>1, <1>2, <1>4, <1>5

LEMMA RepliesFine ==
  ASSUME Fine(machine), espOpen \in BOOLEAN, NEW k, NEW s, NEW r \in Replies(k, s)
  PROVE  Fine(r.machine)
<1>1. \A v : \A o \in Commands(machine, v, s, TRUE) : Fine(o.machine)
  BY CommandsFine
<1>2. \/ r.machine = machine
      \/ \E o \in Commands(machine, verb[Who(k)], s, TRUE) : r.machine = o.machine
  BY RepliesCommand
<1> QED
  BY <1>1, <1>2

-----------------------------------------------------------------------------
(* Types *)

LEMMA DataParts ==
  DataInv <=> /\ Fine(machine) /\ espOpen \in BOOLEAN
              /\ sel \in [Callers -> SelectorSpace]
              /\ chosen \in [Copies -> Targets \cup {NoTarget}]
              /\ sent \in [kind : {"none", "list", "error", "gone"}, list : Seq(Flagged)]
              /\ shown \in Seq(Flagged)
              /\ status \in {"none", "error"} /\ confirm \in BOOLEAN /\ noPrompt \in BOOLEAN
              /\ banner \/ job => window = "open"
BY DEF DataInv, Fine

LEMMA SelectorTypes ==
  /\ NoSelector \in SelectorSpace /\ Selectors \subseteq SelectorSpace
  /\ \A t \in Targets : KeyOf(t) \in SelectorSpace
<1>1. \A t \in Targets : Key(t) \in Ids \cup Guids
  BY DEF Targets, Key
<1> QED
  BY <1>1, CliSelectorsAssumption DEF NoSelector, SelectorSpace, KeyOf

LEMMA AnswerTypes ==
  LET Answers == [kind : {"none", "list", "error", "gone"}, list : Seq(Flagged)]
  IN  /\ Nothing \in Answers /\ Said("error") \in Answers /\ Said("gone") \in Answers
      /\ \A l \in Seq(Flagged) : Fresh(l) \in Answers
<1>1. <<>> \in Seq(Flagged)
  OBVIOUS
<1> QED
  BY <1>1 DEF Nothing, Said, Fresh

\* The steps of a copy, by what they change.
LEMMA CopyChanges ==
  ASSUME NEW k, CopyStep(k) \/ Answer(k) \/ Kill(k)
  PROVE  /\ UNCHANGED <<constants, command>>
         /\ \/ machine' = machine
            \/ Switch(k) /\ \E o \in Commands(machine, verb[Who(k)], sel[Who(k)], elevated[k]) :
                              machine' = o.machine /\ Exit(k, Code(o.word))
            \/ (BrokerSet(k) \/ BrokerCall(k)) /\ \E s : \E r \in Replies(k, s) :
                                                    machine' = r.machine /\ Exit(k, r.word)
         /\ \/ chosen' = chosen
            \/ chosen' = [chosen EXCEPT ![k] = NoTarget]
            \/ Choose(k) /\ Move(k, "brokerSet")
                 /\ \E i \in DOMAIN Listing(machine, TRUE) :
                      /\ Finds(sel[Who(k)], Listing(machine, TRUE), i)
                      /\ chosen' = [chosen EXCEPT ![k] = Listing(machine, TRUE)[i]]
<1>1. CASE Dispatch(k) \/ Power(k) \/ Escalate(k) \/ Collect(k) \/ Answer(k) \/ Kill(k)
  BY <1>1 DEF Dispatch, Power, Escalate, Collect, Answer, Kill, world
<1>2. CASE Switch(k)
  BY <1>2 DEF Switch
<1>3. CASE BrokerSet(k)
  BY <1>3 DEF BrokerSet, Request
<1>4. CASE BrokerCall(k)
  BY <1>4 DEF BrokerCall, Request
<1>5. CASE Authorize(k)
  BY <1>5 DEF Authorize
<1>6. CASE Choose(k)
  BY <1>6 DEF Choose, world
<1> QED
  BY <1>1, <1>2, <1>3, <1>4, <1>5, <1>6 DEF CopyStep

LEMMA CopyData ==
  ASSUME GuiInv, DataInv, NEW c \in Callers, NEW d \in Depths, Elsewhere(<<c, d>>),
         CopyStep(<<c, d>>) \/ Answer(<<c, d>>) \/ Kill(<<c, d>>)
  PROVE  DataInv'
<1> DEFINE k == <<c, d>>
<1>1. /\ Fine(machine) /\ espOpen \in BOOLEAN /\ elevated[k] \in BOOLEAN
      /\ chosen \in [Copies -> Targets \cup {NoTarget}]
  BY DataParts, Parts, TheCopies DEF ControlOK
<1>2. UNCHANGED <<constants, command, drawn, sent>>
  BY CopyChanges DEF Elsewhere
<1>3. Fine(machine')
  <2>1. \A v, s : \A o \in Commands(machine, v, s, elevated[k]) : Fine(o.machine)
    BY <1>1, CommandsFine
  <2>2. \A s : \A r \in Replies(k, s) : Fine(r.machine)
    BY <1>1, RepliesFine
  <2>3. \/ machine' = machine
        \/ \E v, s : \E o \in Commands(machine, v, s, elevated[k]) : machine' = o.machine
        \/ \E s : \E r \in Replies(k, s) : machine' = r.machine
    BY CopyChanges
  <2> QED  BY <1>1, <2>1, <2>2, <2>3
<1>4. chosen' \in [Copies -> Targets \cup {NoTarget}]
  <2> DEFINE l == Listing(machine, TRUE)
  <2>1. l \in Seq(Targets)
    BY <1>1, ListingType
  <2>2. \/ chosen' = chosen
        \/ chosen' = [chosen EXCEPT ![k] = NoTarget]
        \/ \E i \in DOMAIN l : chosen' = [chosen EXCEPT ![k] = l[i]]
    BY CopyChanges
  <2> HIDE DEF l
  <2> QED  BY <1>1, <2>1, <2>2
<1> QED
  BY <1>2, <1>3, <1>4, DataParts DEF Fine, DataInv, constants, command, drawn

LEMMA JobData ==
  ASSUME GuiInv, DataInv, JobStep
  PROVE  DataInv'
<1>1. /\ Fine(machine) /\ espOpen \in BOOLEAN /\ elevated[Thread] \in BOOLEAN
  BY DataParts, Parts, TheCallers, TheCopies DEF ControlOK
<1>2. UNCHANGED <<constants, command, chosen, drawn>>
  BY DEF JobStep, Perform, Apply, AppliedElsewhere, Read, BrokerApply, BrokerRead, WorkerAt
<1>3. Fine(machine')
  <2>1. \A v, s : \A o \in Commands(machine, v, s, elevated[Thread]) : Fine(o.machine)
    BY <1>1, CommandsFine
  <2>2. \A s : \A r \in Replies(Thread, s) : Fine(r.machine)
    BY <1>1, RepliesFine
  <2>3. \/ machine' = machine
        \/ \E v, s : \E o \in Commands(machine, v, s, elevated[Thread]) : machine' = o.machine
        \/ \E s : \E r \in Replies(Thread, s) : machine' = r.machine
    BY DEF JobStep, Perform, Apply, AppliedElsewhere, Read, BrokerApply, BrokerRead, Request
  <2> QED  BY <1>1, <2>1, <2>2, <2>3
<1>4. sent' \in [kind : {"none", "list", "error", "gone"}, list : Seq(Flagged)]
  <2>1. \A e \in BOOLEAN : View(machine, e) \in Seq(Flagged)
    BY <1>1, ViewFacts DEF SeesHive
  <2>2. \/ sent' = sent
        \/ \E e \in BOOLEAN : sent' = Fresh(View(machine, e))
        \/ \E w \in {"error", "gone"} : sent' = Said(w)
    <3>1. \A w, p : Continues(w, p) => sent' = sent \/ \E q \in {"error", "gone"} : sent' = Said(q)
      BY DEF Continues, Works, Sends
    <3> QED  BY <1>1, <3>1 DEF JobStep, Perform, Apply, AppliedElsewhere, Read, BrokerApply,
                               BrokerRead, Works, Sends
  <2> QED  BY <2>1, <2>2, AnswerTypes DEF DataInv
<1> QED
  BY <1>2, <1>3, <1>4 DEF Fine, DataInv, constants, command, drawn

LEMMA WindowData ==
  ASSUME GuiInv, DataInv, WindowStep
  PROVE  DataInv'
<1>1. CASE Launch \/ \E i \in DOMAIN shown : Click(i)
  <2>1. PICK v, s, e : StartsJob(v, s, e) /\ s \in SelectorSpace
    <3>1. \A i \in DOMAIN shown : shown[i].t \in Targets
      <4>1. shown \in Seq(Flagged) /\ \A f \in Flagged : f.t \in Targets
        BY DEF DataInv, Flagged
      <4> QED  BY <4>1
    <3> QED  BY <1>1, <3>1, SelectorTypes DEF Launch, Click
  <2>2. /\ UNCHANGED <<constants, world, chosen, sent>>
        /\ sel' = [sel EXCEPT ![worker] = s] /\ status' = "none"
    BY <2>1 DEF StartsJob
  <2>3. /\ UNCHANGED <<shown, confirm, banner>> /\ noPrompt' \in BOOLEAN /\ window' = "open"
    BY <1>1 DEF Launch, Click, Draws, Installed, DataInv
  <2> QED  BY <2>1, <2>2, <2>3 DEF DataInv, constants, world
<1>2. CASE Poll
  <2>1. sent.list \in Seq(Flagged) /\ Nothing \in [kind : {"none", "list", "error", "gone"}, list : Seq(Flagged)]
    BY AnswerTypes DEF DataInv
  <2>2. UNCHANGED <<espOpen, machine, sel, chosen>>
    BY <1>2 DEF Poll, cliVars, constants, world, command
  <2> QED  BY <1>2, <2>1, <2>2 DEF Poll, DataInv
<1>3. CASE AskRestart \/ Confirm \/ BannerReturns
  <2>1. UNCHANGED <<espOpen, machine, sel, chosen>>
    BY <1>3 DEF AskRestart, Confirm, BannerReturns, cliVars, constants, world, command
  <2>2. UNCHANGED <<window, shown, job, sent>>
    BY <1>3 DEF AskRestart, Confirm, BannerReturns
  <2>3. /\ status' \in {"none", "error"} /\ confirm' \in BOOLEAN
        /\ banner' = banner \/ banner' = FALSE
    BY <1>3 DEF AskRestart, Confirm, BannerReturns, DataInv
  <2>4. noPrompt' \in BOOLEAN
    <3>1. noPrompt' = noPrompt \/ noPrompt' = ~noPrompt
      BY <1>3 DEF AskRestart, Confirm, BannerReturns
    <3> QED  BY <3>1, Zenon DEF DataInv
  <2> QED  BY <2>1, <2>2, <2>3, <2>4 DEF DataInv
<1>4. CASE ClickBanner
  BY <1>4 DEF ClickBanner, DataInv, constants, world, Draws
<1>5. CASE Close
  <2>1. Nothing \in [kind : {"none", "list", "error", "gone"}, list : Seq(Flagged)] /\ <<>> \in Seq(Flagged)
    BY AnswerTypes
  <2> QED  BY <1>5, <2>1 DEF Close, DataInv, constants, world, command
<1> QED
  BY <1>1, <1>2, <1>3, <1>4, <1>5 DEF WindowStep

LEMMA DataNext ==
  ASSUME GuiInv, DataInv, [Next]_vars
  PROVE  DataInv'
<1>1. CASE UNCHANGED vars
  BY <1>1 DEF vars, cliVars, drawn, constants, world, command, DataInv
<1>2. CASE \E u \in Users : Ask(u) /\ Elsewhere(First(u))
  <2>1. PICK u \in Users : Ask(u) /\ Elsewhere(First(u))
    BY <1>2
  <2>2. /\ UNCHANGED <<constants, world, chosen, drawn, sent>>
        /\ \E s \in SelectorSpace : sel' = [sel EXCEPT ![u] = s]
    BY <2>1, SelectorTypes DEF Ask, Elsewhere
  <2> QED  BY <2>2 DEF DataInv, drawn, constants, world
<1>3. CASE \E k \in Copies : Command(k) \/ ((Answer(k) \/ Kill(k)) /\ Elsewhere(k))
  <2>1. PICK c \in Callers, d \in Depths :
          Command(<<c, d>>) \/ ((Answer(<<c, d>>) \/ Kill(<<c, d>>)) /\ Elsewhere(<<c, d>>))
    BY <1>3 DEF Copies
  <2> QED  BY <2>1, CopyData DEF Command
<1>4. CASE Reap /\ Elsewhere(Drawing)
  BY <1>4 DEF Reap, Elsewhere, drawn, constants, command, DataInv
<1> QED
  BY <1>1, <1>2, <1>3, <1>4, WindowData, JobData DEF Next

LEMMA DataAlways == Spec => [](GuiInv /\ DataInv)
<1>1. Init => DataInv
  <2> SUFFICES ASSUME Init PROVE DataInv
    OBVIOUS
  <2>1. machine \in Machines /\ IsPermutation(machine.order)
    BY DEF Init, CliInit, IsPermutation, Machines
  <2>2. espOpen \in BOOLEAN
    BY DEF Init, CliInit
  <2>3. sel \in [Callers -> SelectorSpace] /\ chosen \in [Copies -> Targets \cup {NoTarget}]
    BY SelectorTypes DEF Init, CliInit
  <2>4. <<>> \in Seq(Flagged) /\ sent \in [kind : {"none", "list", "error", "gone"}, list : Seq(Flagged)]
    BY AnswerTypes DEF Init
  <2> QED  BY <2>1, <2>2, <2>3, <2>4 DEF Init, DataInv
<1>2. GuiInv /\ DataInv /\ [Next]_vars => DataInv'
  BY DataNext
<1> QED
  BY <1>1, <1>2, Invariance, PTL DEF Spec

\* Every variable keeps its type: a boot order read or written by any process is a
\* list of entries, and the window's data go with its state.
THEOREM FrontTypeCorrect == Spec => []TypeOK
<1>1. GuiInv /\ DataInv => TypeOK
  <2> SUFFICES ASSUME GuiInv, DataInv PROVE TypeOK
    OBVIOUS
  <2>1. prompts \in [Callers -> 0..2]
    <3>1. \A c \in Callers : prompts[c] \in Nat /\ prompts[c] <= 2
      BY Parts DEF ControlOK, CallerInv, PromptInv
    <3> QED  BY <3>1, Parts DEF ControlOK
  <2>2. CliTypeOK
    BY <2>1, Parts DEF CliTypeOK, DataInv, ControlOK
  <2>3. sent # Nothing => job /\ at[Thread] = "idle"
    BY Parts DEF WorkerInv
  <2> QED  BY <2>2, <2>3, Parts DEF TypeOK, DataInv, ControlOK
<1> QED
  BY <1>1, DataAlways, PTL

-----------------------------------------------------------------------------
(* The broker sets what was chosen *)

LEMMA FullList ==
  ASSUME NEW m, Fine(m)
  PROVE  /\ Listing(m, TRUE) \in Seq(Targets)
         /\ \A i \in DOMAIN Listing(m, TRUE) : Listing(m, TRUE)[i] \in Seen(TRUE)
<1>1. Listing(m, TRUE) = Entries(m.order, SlotOf(m, TRUE))
  <2>1. SeesHive(TRUE) = TRUE /\ SeesVariables(TRUE)
    BY DEF SeesHive, SeesVariables
  <2> QED  BY <2>1 DEF Listing
<1> DEFINE l == Entries(m.order, SlotOf(m, TRUE))
<1>2. l \in Seq(Targets) /\ \A e : e \in Seen(TRUE) <=> \E i \in DOMAIN l : l[i] = e
  BY ListsSeen
<1> HIDE DEF l
<1> QED
  BY <1>1, <1>2 DEF l

Choosing == {"power", "switch", "choose", "brokerSet", "brokerCall"}

\* A step that brings no copy to a place where a choice is made or carried out.
LEMMA ChoiceKept ==
  ASSUME ChoiceInv,
         \A c \in Callers, d \in Depths :
           \/ at'[<<c, d>>] \notin Choosing
           \/ /\ at'[<<c, d>>] = at[<<c, d>>] /\ elevated'[<<c, d>>] = elevated[<<c, d>>]
              /\ chosen'[<<c, d>>] = chosen[<<c, d>>] /\ verb'[c] = verb[c]
  PROVE  ChoiceInv'
<1> SUFFICES ASSUME NEW b \in Callers, NEW e \in Depths
             PROVE  /\ at'[<<b, e>>] = "switch" /\ Setting(b)' => elevated'[<<b, e>>]
                    /\ at'[<<b, e>>] = "choose" => Setting(b)'
                    /\ at'[<<b, e>>] = "brokerSet" => Setting(b)' /\ chosen'[<<b, e>>] \in Seen(TRUE)
                    /\ at'[<<b, e>>] \in {"power", "brokerCall"} => ~Setting(b)'
  BY DEF ChoiceInv
<1>1. /\ at[<<b, e>>] = "switch" /\ Setting(b) => elevated[<<b, e>>]
      /\ at[<<b, e>>] = "choose" => Setting(b)
      /\ at[<<b, e>>] = "brokerSet" => Setting(b) /\ chosen[<<b, e>>] \in Seen(TRUE)
      /\ at[<<b, e>>] \in {"power", "brokerCall"} => ~Setting(b)
  BY DEF ChoiceInv
<1>2. CASE at'[<<b, e>>] \notin Choosing
  BY <1>2 DEF Choosing
<1>3. CASE /\ at'[<<b, e>>] = at[<<b, e>>] /\ elevated'[<<b, e>>] = elevated[<<b, e>>]
           /\ chosen'[<<b, e>>] = chosen[<<b, e>>] /\ verb'[b] = verb[b]
  <2>1. Setting(b)' <=> Setting(b)
    BY <1>3 DEF Setting
  <2> QED  BY ONLY <1>1, <1>3, <2>1
<1> QED
  BY <1>2, <1>3

\* What a step of copy d of caller c does to where the others are.
Settles(c, d) ==
  \A b \in Callers, e \in Depths :
    \/ at'[<<b, e>>] \notin Choosing
    \/ ~(b = c /\ e = d) /\ at'[<<b, e>>] = at[<<b, e>>] /\ elevated'[<<b, e>>] = elevated[<<b, e>>]

LEMMA LeaveSettles ==
  ASSUME ControlOK, NEW c \in Callers, NEW d \in Depths, NEW w, Leave(<<c, d>>, w)
  PROVE  Settles(c, d)
<1>1. Left(c, d, w)
  BY LeaveEffect
<1> QED  BY ONLY <1>1, c \in Callers, d \in Depths DEF Left, Settles, Choosing

LEMMA ElevateSettles ==
  ASSUME ControlOK, NEW c \in Callers, NEW d \in Depths,
         Prompt(<<c, d>>) \/ \E e0 : Start(<<c, d>>, e0)
  PROVE  Settles(c, d)
<1>1. CASE Prompt(<<c, d>>)
  <2>1. Prompted(c, d)
    BY <1>1, PromptEffect
  <2> QED  BY ONLY <2>1, c \in Callers, d \in Depths DEF Prompted, Settles, Choosing
<1>2. CASE \E e0 : Start(<<c, d>>, e0)
  <2>1. PICK e0 : Started(c, d, e0)
    BY <1>2, StartEffect
  <2> QED  BY ONLY <2>1, c \in Callers, d \in Depths DEF Started, Settles, Choosing
<1> QED  BY <1>1, <1>2

\* Every step of a copy but the two that lead to a choice.
LEMMA CopySettles ==
  ASSUME ControlOK, NEW c \in Callers, NEW d \in Depths,
         CopyStep(<<c, d>>) \/ Answer(<<c, d>>) \/ Kill(<<c, d>>)
  PROVE  Settles(c, d) \/ Dispatch(<<c, d>>) \/ (Choose(<<c, d>>) /\ Move(<<c, d>>, "brokerSet"))
<1> DEFINE k == <<c, d>>
<1>l. (\E w : Leave(k, w)) => Settles(c, d)
  BY LeaveSettles
<1>e. (\E w : Exit(k, w)) => Settles(c, d)
  BY <1>l DEF Exit
<1>s. Prompt(k) \/ (\E e0 : Start(k, e0)) => Settles(c, d)
  BY ElevateSettles
<1>f. \A free : Elevate(k, free) => Settles(c, d)
  BY <1>s DEF Elevate
<1>1. CASE Power(k) \/ Switch(k) \/ BrokerSet(k) \/ BrokerCall(k)
  <2>1. \E w : Exit(k, w)
    BY <1>1 DEF Power, Switch, BrokerSet, BrokerCall
  <2> QED  BY <1>e, <2>1
<1>2. CASE Escalate(k) \/ Authorize(k)
  <2>1. (\E w : Exit(k, w)) \/ \E free : Elevate(k, free)
    BY <1>2 DEF Escalate, Authorize
  <2> QED  BY <1>e, <1>f, <2>1
<1>3. CASE Collect(k) \/ Kill(k)
  <2>1. \E w : Leave(k, w)
    BY <1>3 DEF Collect, Kill
  <2> QED  BY <1>l, <2>1
<1>4. CASE Choose(k)
  BY <1>4, <1>e DEF Choose
<1>5. CASE Answer(k)
  <2>1. (\E e0 : Start(k, e0)) \/ (at' = [at EXCEPT ![k] = "collect"] /\ elevated' = elevated)
    BY <1>5 DEF Answer
  <2>2. at' = [at EXCEPT ![k] = "collect"] /\ elevated' = elevated => Settles(c, d)
    BY DEF ControlOK, Copies, Settles, Choosing
  <2> QED  BY <1>s, <2>1, <2>2
<1> QED
  BY <1>1, <1>2, <1>3, <1>4, <1>5 DEF CopyStep

LEMMA CopyChoice ==
  ASSUME GuiInv, DataInv, ChoiceInv, NEW c \in Callers, NEW d \in Depths,
         CopyStep(<<c, d>>) \/ Answer(<<c, d>>) \/ Kill(<<c, d>>)
  PROVE  ChoiceInv'
<1> DEFINE k == <<c, d>>
<1>1. verb' = verb /\ sel' = sel
  BY CopyChanges DEF command
<1>2. \A b \in Callers, e \in Depths : ~(b = c /\ e = d) => chosen'[<<b, e>>] = chosen[<<b, e>>]
  <2>1. chosen \in [Copies -> Targets \cup {NoTarget}]
    BY DEF DataInv
  <2>2. chosen' = chosen \/ \E t : chosen' = [chosen EXCEPT ![k] = t]
    BY CopyChanges
  <2> QED  BY <2>1, <2>2 DEF Copies
<1>3. \A p : Move(k, p) => /\ at'[k] = p /\ elevated'[k] = elevated[k]
                           /\ \A b \in Callers, e \in Depths : ~(b = c /\ e = d) =>
                                at'[<<b, e>>] = at[<<b, e>>] /\ elevated'[<<b, e>>] = elevated[<<b, e>>]
  BY Parts, MoveEffect DEF Moved
<1>4. CASE Settles(c, d)
  <2>1. \A b \in Callers, e \in Depths :
          \/ at'[<<b, e>>] \notin Choosing
          \/ /\ at'[<<b, e>>] = at[<<b, e>>] /\ elevated'[<<b, e>>] = elevated[<<b, e>>]
             /\ chosen'[<<b, e>>] = chosen[<<b, e>>] /\ verb'[b] = verb[b]
    BY <1>1, <1>2, <1>4 DEF Settles
  <2> QED  BY <2>1, ChoiceKept
<1>5. ASSUME NEW p, Move(k, p), p = "brokerSet" => Setting(c) /\ chosen'[k] \in Seen(TRUE),
             p = "switch" /\ Setting(c) => elevated[k],
             p = "choose" => Setting(c), p \in {"power", "brokerCall"} => ~Setting(c)
      PROVE  ChoiceInv'
  <2>1. /\ at'[k] = p /\ elevated'[k] = elevated[k]
        /\ \A b \in Callers, e \in Depths : ~(b = c /\ e = d) =>
             at'[<<b, e>>] = at[<<b, e>>] /\ elevated'[<<b, e>>] = elevated[<<b, e>>]
    BY <1>3, <1>5
  <2> SUFFICES ASSUME NEW b \in Callers, NEW e \in Depths
               PROVE  /\ at'[<<b, e>>] = "switch" /\ Setting(b)' => elevated'[<<b, e>>]
                      /\ at'[<<b, e>>] = "choose" => Setting(b)'
                      /\ at'[<<b, e>>] = "brokerSet" => Setting(b)' /\ chosen'[<<b, e>>] \in Seen(TRUE)
                      /\ at'[<<b, e>>] \in {"power", "brokerCall"} => ~Setting(b)'
    BY DEF ChoiceInv
  <2>2. Setting(b)' <=> Setting(b)
    BY <1>1 DEF Setting
  <2>3. CASE b = c /\ e = d
    BY <1>5, <2>1, <2>2, <2>3
  <2>4. CASE ~(b = c /\ e = d)
    <3>1. /\ at[<<b, e>>] = "switch" /\ Setting(b) => elevated[<<b, e>>]
          /\ at[<<b, e>>] = "choose" => Setting(b)
          /\ at[<<b, e>>] = "brokerSet" => Setting(b) /\ chosen[<<b, e>>] \in Seen(TRUE)
          /\ at[<<b, e>>] \in {"power", "brokerCall"} => ~Setting(b)
      BY DEF ChoiceInv
    <3>2. /\ at'[<<b, e>>] = at[<<b, e>>] /\ elevated'[<<b, e>>] = elevated[<<b, e>>]
          /\ chosen'[<<b, e>>] = chosen[<<b, e>>]
      BY <1>2, <2>1, <2>4
    <3> QED  BY ONLY <2>2, <3>1, <3>2
  <2> QED  BY <2>3, <2>4
<1>6. CASE Dispatch(k)
  <2>1. Move(k, Route(k))
    BY <1>6 DEF Dispatch
  <2>2. /\ Route(k) # "brokerSet"
        /\ Route(k) = "choose" => Setting(c)
        /\ Route(k) \in {"power", "brokerCall"} => ~Setting(c)
        /\ Route(k) = "switch" /\ Setting(c) => elevated[k]
    BY DEF Route, Who, Setting, NeedsElevation
  <2> HIDE DEF k
  <2> QED  BY <1>5, <2>1, <2>2
<1>7. CASE Choose(k) /\ Move(k, "brokerSet")
  <2>1. Setting(c)
    BY <1>7 DEF Choose, ChoiceInv
  <2>2. chosen'[k] \in Seen(TRUE)
    <3> DEFINE l == Listing(machine, TRUE)
    <3>1. l \in Seq(Targets) /\ \A i \in DOMAIN l : l[i] \in Seen(TRUE)
      BY DataParts, FullList
    <3>2. at'[k] = "brokerSet"
      BY <1>3, <1>7
    <3>3. \A w : Exit(k, w) => at'[k] = "idle"
      <4>1. \A w : Exit(k, w) => Left(c, d, w)
        BY Parts, LeaveEffect DEF Exit
      <4>2. \A w : Left(c, d, w) => at'[<<c, d>>] = "idle"
        BY DEF Left
      <4> QED  BY <4>1, <4>2
    <3>4. \E i \in DOMAIN l : chosen' = [chosen EXCEPT ![k] = l[i]]
      BY <1>7, <3>2, <3>3 DEF Choose
    <3> HIDE DEF l
    <3> QED  BY <3>1, <3>4, TheCopies DEF DataInv
  <2> HIDE DEF k
  <2> QED  BY <1>5, <1>7, <2>1, <2>2
<1> QED
  BY <1>4, <1>6, <1>7, Parts, CopySettles

LEMMA JobSettles ==
  ASSUME ControlOK, JobStep
  PROVE  Settles(worker, 0) /\ UNCHANGED <<constants, command, chosen>>
<1>1. UNCHANGED <<constants, command, chosen>>
  BY DEF JobStep, Perform, Apply, AppliedElsewhere, Read, BrokerApply, BrokerRead, WorkerAt
<1>2. \A a : Sends(a) => Settles(worker, 0)
  <2>1. \A w : Leave(<<worker, 0>>, w) => Settles(worker, 0)
    BY LeaveSettles, TheCallers, TheCopies
  <2> QED  BY <2>1, TheCopies DEF Sends
<1>3. \A p \in JobPlaces : at' = [at EXCEPT ![Thread] = p] /\ elevated' = elevated => Settles(worker, 0)
  BY TheCallers, TheCopies DEF ControlOK, Settles, Choosing, JobPlaces
<1>4. \A p \in JobPlaces : Works(p) => Settles(worker, 0)
  BY <1>3 DEF Works, Move
<1>5. \A free : Elevate(Thread, free) => Settles(worker, 0)
  BY ElevateSettles, TheCallers, TheCopies DEF Elevate
<1>6. \A w : \A p \in JobPlaces : Continues(w, p) => Settles(worker, 0)
  BY <1>2, <1>4 DEF Continues
<1>7. /\ "read" \in JobPlaces /\ "brokerRead" \in JobPlaces
      /\ "apply" \in JobPlaces /\ "brokerApply" \in JobPlaces
  BY DEF JobPlaces
<1>8. CASE Perform
  <2>1. \/ \E p \in JobPlaces : Works(p)
        \/ \E free : Elevate(Thread, free)
    BY <1>7, <1>8 DEF Perform
  <2> QED  BY <1>1, <1>4, <1>5, <2>1
<1>9. CASE Apply \/ BrokerApply
  <2>1. \E w : \E p \in JobPlaces : Continues(w, p)
    BY <1>7, <1>9 DEF Apply, BrokerApply
  <2> QED  BY <1>1, <1>6, <2>1
<1>10. CASE AppliedElsewhere
  BY <1>1, <1>2, <1>3, <1>7, <1>10 DEF AppliedElsewhere
<1>11. CASE Read \/ BrokerRead
  BY <1>1, <1>2, <1>11 DEF Read, BrokerRead
<1> QED
  BY <1>8, <1>9, <1>10, <1>11 DEF JobStep

LEMMA JobChoice ==
  ASSUME GuiInv, ChoiceInv, JobStep
  PROVE  ChoiceInv'
<1>1. Settles(worker, 0) /\ chosen' = chosen /\ verb' = verb
  BY Parts, JobSettles DEF command
<1>2. \A b \in Callers, e \in Depths :
        \/ at'[<<b, e>>] \notin Choosing
        \/ /\ at'[<<b, e>>] = at[<<b, e>>] /\ elevated'[<<b, e>>] = elevated[<<b, e>>]
           /\ chosen'[<<b, e>>] = chosen[<<b, e>>] /\ verb'[b] = verb[b]
  BY <1>1 DEF Settles
<1> QED
  BY <1>2, ChoiceKept

LEMMA StartChoice ==
  ASSUME GuiInv, ChoiceInv, NEW v, NEW s, NEW e, StartsJob(v, s, e),
         ~Busy(ui) \/ e = elevated[Drawing]
  PROVE  ChoiceInv'
<1>1. /\ verb' = [verb EXCEPT ![worker] = v] /\ at' = [at EXCEPT ![<<worker, 0>>] = "perform"]
      /\ elevated' = [elevated EXCEPT ![<<worker, 0>>] = e, ![<<ui, 0>>] = e]
      /\ chosen' = chosen /\ ~Busy(worker)
  BY TheCopies DEF StartsJob
<1>2. \A d \in Depths : at[<<worker, d>>] = "idle"
  BY <1>1 DEF Busy
<1>3. at[<<ui, 0>>] = "idle" \/ e = elevated[<<ui, 0>>]
  BY TheCopies DEF Busy
<1> SUFFICES ASSUME NEW b \in Callers, NEW d \in Depths, at'[<<b, d>>] \in Choosing
             PROVE  /\ at'[<<b, d>>] = at[<<b, d>>] /\ elevated'[<<b, d>>] = elevated[<<b, d>>]
                    /\ chosen'[<<b, d>>] = chosen[<<b, d>>] /\ verb'[b] = verb[b]
  BY ChoiceKept
<1>4. at'[<<b, d>>] = at[<<b, d>>] /\ b # worker
  BY <1>1, <1>2, Parts, TheCallers DEF ControlOK, Choosing, Copies
<1>5. at[<<b, d>>] # "idle"
  BY <1>4 DEF Choosing
<1>6. elevated'[<<b, d>>] = elevated[<<b, d>>]
  BY <1>1, <1>3, <1>4, <1>5, Parts, TheCopies DEF ControlOK
<1> QED
  BY <1>1, <1>4, <1>6, Parts DEF ControlOK

LEMMA ChoiceNext ==
  ASSUME GuiInv, DataInv, ChoiceInv, [Next]_vars
  PROVE  ChoiceInv'
<1>c. ASSUME \A b \in Callers, d \in Depths : at'[<<b, d>>] \in Choosing =>
               /\ at'[<<b, d>>] = at[<<b, d>>] /\ elevated'[<<b, d>>] = elevated[<<b, d>>]
               /\ chosen'[<<b, d>>] = chosen[<<b, d>>] /\ verb'[b] = verb[b]
      PROVE  ChoiceInv'
  BY <1>c, ChoiceKept
<1>1. CASE UNCHANGED vars \/ Poll \/ AskRestart \/ Confirm \/ BannerReturns \/ Reap
  <2>1. UNCHANGED <<at, elevated, chosen, verb>>
    BY <1>1 DEF vars, cliVars, command, Poll, AskRestart, Confirm, BannerReturns, Reap
  <2> QED  BY <1>c, <2>1
<1>2. CASE Launch \/ \E i \in DOMAIN shown : Click(i)
  <2>1. \E v, s, e : StartsJob(v, s, e) /\ (~Busy(ui) \/ e = elevated[Drawing])
    BY <1>2 DEF Launch, Click
  <2> QED  BY <2>1, StartChoice
<1>3. CASE ClickBanner \/ \E u \in Users : Ask(u)
  <2>1. PICK u \in Callers : \E p \in {"dispatch", "authorize"} : \E v, e :
          /\ at' = [at EXCEPT ![<<u, 0>>] = p] /\ verb' = [verb EXCEPT ![u] = v]
          /\ elevated' = elevated \/ elevated' = [elevated EXCEPT ![<<u, 0>>] = e]
          /\ chosen' = chosen /\ ~Busy(u)
    BY <1>3, TheCallers, TheCopies DEF ClickBanner, Ask, First
  <2>2. \A d \in Depths : at[<<u, d>>] = "idle"
    BY <2>1 DEF Busy
  <2>3. \A b \in Callers, d \in Depths : at'[<<b, d>>] \in Choosing =>
          /\ b # u /\ at'[<<b, d>>] = at[<<b, d>>] /\ elevated'[<<b, d>>] = elevated[<<b, d>>]
          /\ verb'[b] = verb[b]
    BY <2>1, <2>2, Parts DEF ControlOK, Copies, Choosing
  <2> QED  BY <1>c, <2>1, <2>3
<1>4. CASE Close
  <2>1. /\ at' = [at EXCEPT ![Thread] = "idle", ![Drawing] = "idle"]
        /\ elevated' = [elevated EXCEPT ![Thread] = FALSE, ![Drawing] = FALSE]
        /\ UNCHANGED <<chosen, verb>>
    BY <1>4 DEF Close, command
  <2>2. \A b \in Callers, d \in Depths : at'[<<b, d>>] \in Choosing =>
          /\ <<b, d>> # Thread /\ <<b, d>> # Drawing
          /\ at'[<<b, d>>] = at[<<b, d>>] /\ elevated'[<<b, d>>] = elevated[<<b, d>>]
    BY <2>1, Parts, TheCallers, TheCopies DEF ControlOK, Copies, Choosing
  <2> QED  BY <1>c, <2>1, <2>2
<1>5. CASE \E k \in Copies : CopyStep(k) \/ Answer(k) \/ Kill(k)
  <2>1. PICK c \in Callers, d \in Depths : CopyStep(<<c, d>>) \/ Answer(<<c, d>>) \/ Kill(<<c, d>>)
    BY <1>5 DEF Copies
  <2> QED  BY <2>1, CopyChoice
<1> QED
  BY <1>1, <1>2, <1>3, <1>4, <1>5, JobChoice DEF Next, WindowStep, Command

LEMMA ChoiceAlways == Spec => [](GuiInv /\ DataInv /\ ChoiceInv)
<1>1. Init => ChoiceInv
  <2>1. Init => \A b \in Callers, d \in Depths : at[<<b, d>>] = "idle"
    BY TheCopies DEF Init, CliInit
  <2> QED  BY <2>1 DEF ChoiceInv
<1>2. GuiInv /\ DataInv /\ ChoiceInv /\ [Next]_vars => ChoiceInv'
  BY ChoiceNext
<1> QED
  BY <1>1, <1>2, DataAlways, PTL DEF Spec

\* While a copy is about to send what it chose, nobody else carries out its command.
LEMMA SetsItself ==
  ASSUME GuiInv, [Next]_vars, NEW c \in Callers, NEW d \in Depths,
         at[<<c, d>>] = "brokerSet", done'[c] # done[c]
  PROVE  BrokerSet(<<c, d>>)
<1>1. Busy(c)
  BY DEF Busy
<1>2. \A e \in Depths : e # d => ~Acting(at[<<c, e>>])
  <2>1. \A e, f \in Depths : e < f /\ Acting(at[<<c, e>>]) => at[<<c, f>>] = "idle"
    BY Parts DEF CallerInv, ChainInv
  <2>2. SUFFICES ASSUME NEW e \in Depths, e # d, Acting(at[<<c, e>>])
                 PROVE  FALSE
    OBVIOUS
  <2>3. Acting(at[<<c, d>>]) /\ at[<<c, d>>] # "idle" /\ at[<<c, e>>] # "idle"
    BY <2>2 DEF Acting
  <2>4. e < d \/ d < e
    BY <2>2 DEF Depths
  <2> QED  BY <2>1, <2>2, <2>3, <2>4
<1>3. done \in [Callers -> {"no"} \cup Fates]
  BY Parts
<1>4. ASSUME UNCHANGED vars \/ Poll \/ AskRestart \/ Confirm \/ BannerReturns \/ Close \/ Reap
      PROVE  FALSE
  <2>1. done' = done
    BY <1>4 DEF vars, cliVars, Poll, AskRestart, Confirm, BannerReturns, Close, Reap
  <2> QED  BY <2>1
<1>5. ASSUME Launch \/ \E i \in DOMAIN shown : Click(i)
      PROVE  FALSE
  <2>1. ~Busy(worker) /\ done' = [done EXCEPT ![worker] = "no"]
    BY <1>5 DEF Launch, Click, StartsJob
  <2> QED  BY <1>1, <1>3, <2>1
<1>6. ASSUME ClickBanner \/ \E u \in Users : Ask(u)
      PROVE  FALSE
  <2>1. \E u \in Callers : ~Busy(u) /\ done' = [done EXCEPT ![u] = "no"]
    BY <1>6, TheCallers DEF ClickBanner, Ask
  <2> QED  BY <1>1, <1>3, <2>1
<1>7. ASSUME JobStep
      PROVE  FALSE
  <2>1. done' = done \/ (at[Thread] \in {"apply", "read", "brokerApply", "brokerRead"}
                          /\ \E b : done' = [done EXCEPT ![worker] = b])
    BY <1>7 DEF JobStep, Perform, Apply, AppliedElsewhere, Read, BrokerApply, BrokerRead,
                WorkerAt, Did, Request, Who, Thread
  <2>2. c = worker /\ Acting(at[<<worker, 0>>]) /\ at[<<worker, 0>>] # "brokerSet"
    BY <1>3, <2>1, TheCopies DEF Acting
  <2> QED  BY <1>2, <2>2, TheCopies
<1>8. ASSUME NEW b \in Callers, NEW e \in Depths,
             CopyStep(<<b, e>>) \/ Answer(<<b, e>>) \/ Kill(<<b, e>>)
      PROVE  BrokerSet(<<c, d>>)
  <2>1. \/ done' = done
        \/ /\ at[<<b, e>>] \in {"power", "switch", "authorize", "brokerSet", "brokerCall"}
           /\ \E x : done' = [done EXCEPT ![b] = x]
    BY <1>8 DEF CopyStep, Dispatch, Power, Switch, Escalate, Authorize, Collect, Choose,
                BrokerSet, BrokerCall, Answer, Kill, Did, Request, Who
  <2>2. b = c /\ Acting(at[<<b, e>>])
    BY <1>3, <2>1 DEF Acting
  <2>3. b = c /\ e = d
    BY <1>2, <2>2
  <2>4. at[<<b, e>>] = "brokerSet"
    BY <2>3
  <2>5. BrokerSet(<<b, e>>)
    <3>1. done' # done
      OBVIOUS
    <3> QED  BY <1>8, <2>4, <3>1 DEF CopyStep, Dispatch, Power, Switch, Escalate, Authorize,
               Collect, Choose, BrokerCall, Answer, Kill
  <2> QED  BY <2>3, <2>5
<1>9. (\E k \in Copies : CopyStep(k) \/ Answer(k) \/ Kill(k)) => BrokerSet(<<c, d>>)
  BY <1>8 DEF Copies
<1> QED
  BY <1>4, <1>5, <1>6, <1>7, <1>9 DEF Next, WindowStep, Command

LEMMA BrokerSetsStep ==
  ASSUME GuiInv, DataInv, ChoiceInv, [Next]_vars
  PROVE  BrokerSetsChosenStep
<1> SUFFICES ASSUME NEW c \in Callers, NEW d \in Depths,
                    at[<<c, d>>] = "brokerSet", done'[c] # done[c]
             PROVE  machine' \in {machine, Firmware(machine, verb[c], chosen[<<c, d>>]),
                                 Selecting(machine, verb[c], chosen[<<c, d>>])}
  BY DEF BrokerSetsChosenStep, Copies, Who
<1> DEFINE t == chosen[<<c, d>>]
           l == Listing(machine, TRUE)
<1>1. Setting(c) /\ t \in Seen(TRUE)
  BY DEF ChoiceInv
<1>2. PICK r \in Replies(<<c, d>>, KeyOf(t)) : machine' = r.machine
  BY SetsItself DEF BrokerSet, Request
<1>3. \/ machine' = machine
      \/ \E o \in Commands(machine, verb[c], KeyOf(t), TRUE) : machine' = o.machine
  <2> HIDE DEF t
  <2>1. \A s : \A r0 \in Replies(<<c, d>>, s) :
          \/ r0.machine = machine
          \/ \E o \in Commands(machine, verb[Who(<<c, d>>)], s, TRUE) : r0.machine = o.machine
    BY RepliesCommand
  <2> QED  BY <1>2, <2>1 DEF Who
<1>4. \/ machine' = machine
      \/ \E i \in DOMAIN l : /\ Finds(KeyOf(t), l, i)
                             /\ machine' \in {machine, Firmware(machine, verb[c], l[i]),
                                              Selecting(machine, verb[c], l[i])}
  <2>1. verb[c] \in {"default", "next"}
    BY <1>1 DEF Setting
  <2> HIDE DEF t
  <2>2. \A v \in {"default", "next"} : \A s : \A o \in Commands(machine, v, s, TRUE) :
          \/ o.machine = machine
          \/ \E i \in DOMAIN l : /\ Finds(s, l, i)
                                 /\ o.machine \in {machine, Firmware(machine, v, l[i]), Selecting(machine, v, l[i])}
    BY CommandsSet
  <2> HIDE DEF l
  <2>3. CASE machine' = machine
    BY <2>3
  <2>4. CASE \E o \in Commands(machine, verb[c], KeyOf(t), TRUE) : machine' = o.machine
    <3>1. PICK o \in Commands(machine, verb[c], KeyOf(t), TRUE) : machine' = o.machine
      BY <2>4
    <3>2. \/ o.machine = machine
          \/ \E i \in DOMAIN l : /\ Finds(KeyOf(t), l, i)
                                 /\ o.machine \in {machine, Firmware(machine, verb[c], l[i]),
                                                  Selecting(machine, verb[c], l[i])}
      BY <2>1, <2>2
    <3> QED  BY ONLY <3>1, <3>2
  <2> QED  BY <1>3, <2>3, <2>4
<1>5. l \in Seq(Targets) /\ \A i \in DOMAIN l : l[i] \in Seen(TRUE)
  BY DataParts, FullList
<1>6. ASSUME NEW i \in DOMAIN l, Finds(KeyOf(t), l, i)
      PROVE  l[i] = t
  <2>1. /\ KeyOf(t).index = {} /\ KeyOf(t).labels = {} /\ KeyOf(t).keys = {Key(t)}
    BY DEF KeyOf
  <2> HIDE DEF t, l
  <2>2. Key(l[i]) = Key(t)
    BY <1>5, <1>6, <2>1, FoundHasKey
  <2> QED  BY <1>1, <1>5, <2>2, SameKey
<1> HIDE DEF t, l
<1> QED
  BY <1>4, <1>6 DEF t

\* Whatever happens between the two replies of the broker, the change is made to the
\* entry chosen on the first: keys are unique on every list (choose_os, set).
THEOREM BrokerSets == Spec => BrokerSetsChosen
<1>1. GuiInv /\ DataInv /\ ChoiceInv /\ [Next]_vars => [BrokerSetsChosenStep]_vars
  BY BrokerSetsStep
<1> QED
  BY <1>1, ChoiceAlways, PTL DEF Spec, BrokerSetsChosen

-----------------------------------------------------------------------------
(* What the window draws and asks for *)

LEMMA KeysKept ==
  ASSUME KeysInv, SeesStore' = SeesStore, UNCHANGED window,
         sel'[worker] = sel[worker], verb'[worker] = verb[worker],
         at'[Thread] = "apply" => elevated'[Thread],
         \A d \in Depths : at'[<<worker, d>>] = "brokerSet" =>
                              Key(chosen'[<<worker, d>>]) \in sel[worker].keys,
         shown' = shown \/ (shown' = sent.list /\ window = "open"),
         \/ sent'.list = sent.list
         \/ \A i \in DOMAIN sent'.list : sent'.list[i].t \in Drawn(SeesStore)
  PROVE  KeysInv'
<1>1. Drawn(SeesStore)' = Drawn(SeesStore)
  <2>1. \A b : Drawn(b)' = Drawn(b)
    BY DEF Drawn, Seen
  <2> QED  BY <2>1 DEF Drawn, Seen
<1>2. Setting(worker)' <=> Setting(worker)
  BY DEF Setting
<1>3. /\ sel[worker].index = {} /\ sel[worker].labels = {}
      /\ window = "closed" => shown = <<>>
      /\ window = "open" =>
           /\ \A i \in DOMAIN shown : shown[i].t \in Drawn(SeesStore)
           /\ \A i \in DOMAIN sent.list : sent.list[i].t \in Drawn(SeesStore)
           /\ Setting(worker) => \E e \in Drawn(SeesStore) : sel[worker] = KeyOf(e)
  BY DEF KeysInv
<1>4. window = "open" => \A i \in DOMAIN sent'.list : sent'.list[i].t \in Drawn(SeesStore)
  BY <1>3
<1>5. window = "open" => \A i \in DOMAIN shown' : shown'[i].t \in Drawn(SeesStore)
  BY <1>3
<1> QED
  BY <1>1, <1>2, <1>3, <1>4, <1>5 DEF KeysInv

LEMMA SeesSame ==
  ASSUME UNCHANGED constants, elevated'[Drawing] = elevated[Drawing]
  PROVE  SeesStore' = SeesStore
<1>1. Windows' = Windows /\ espOpen' = espOpen
  BY DEF constants, Windows
<1> QED  BY <1>1 DEF SeesStore

LEMMA CopyKeys ==
  ASSUME GuiInv, DataInv, KeysInv, NEW c \in Callers, NEW d \in Depths, Elsewhere(<<c, d>>),
         \/ <<c, d>> # Thread /\ (CopyStep(<<c, d>>) \/ Kill(<<c, d>>))
         \/ Answer(<<c, d>>)
  PROVE  KeysInv'
<1>1. Stirs(c, d) /\ UNCHANGED <<constants, command, drawn, sent>>
  BY Parts, CopyStirs, CopyChanges DEF Elsewhere
<1>2. SeesStore' = SeesStore
  BY <1>1, SeesSame, TheCallers, TheCopies DEF Stirs
<1>3. at'[Thread] = "apply" => elevated'[Thread]
  <2>1. at'[Thread] = at[Thread] \/ at'[Thread] \in {"waiting", "collect"}
    <3>1. CASE c # worker
      BY <1>1, <3>1, TheCallers, TheCopies DEF Stirs
    <3>2. CASE c = worker /\ d > 0
      BY <1>1, <3>2, TheCopies DEF Stirs
    <3>3. CASE c = worker /\ d = 0
      BY <3>3, Parts, ThreadAnswers, TheCopies
    <3> QED  BY <3>1, <3>2, <3>3 DEF Depths
  <2>2. elevated'[Thread] = elevated[Thread]
    BY <1>1, TheCallers, TheCopies DEF Stirs
  <2> QED  BY <2>1, <2>2 DEF KeysInv
<1>4. \A f \in Depths : at'[<<worker, f>>] = "brokerSet" =>
                           Key(chosen'[<<worker, f>>]) \in sel[worker].keys
  <2> SUFFICES ASSUME NEW f \in Depths, at'[<<worker, f>>] = "brokerSet"
               PROVE  Key(chosen'[<<worker, f>>]) \in sel[worker].keys
    OBVIOUS
  <2>1. at[<<worker, f>>] = "brokerSet" => Key(chosen[<<worker, f>>]) \in sel[worker].keys
    BY DEF KeysInv
  <2>2. chosen \in [Copies -> Targets \cup {NoTarget}] /\ <<c, d>> \in Copies /\ <<worker, f>> \in Copies
    BY TheCallers, TheCopies DEF DataInv
  <2>3. ~(worker = c /\ f = d) => chosen'[<<worker, f>>] = chosen[<<worker, f>>]
    <3>1. chosen' = chosen \/ \E t : chosen' = [chosen EXCEPT ![<<c, d>>] = t]
      BY CopyChanges
    <3> QED  BY <2>2, <3>1
  <2>4. CASE Settles(c, d)
    BY <2>1, <2>3, <2>4, TheCallers DEF Settles, Choosing
  <2>5. CASE Dispatch(<<c, d>>) \/ (Choose(<<c, d>>) /\ Move(<<c, d>>, "brokerSet"))
    <3>1. ~(worker = c /\ f = d) => at'[<<worker, f>>] = at[<<worker, f>>]
      <4>1. \A p : Move(<<c, d>>, p) => Moved(c, d, p)
        BY Parts, MoveEffect
      <4>2. \E p : Move(<<c, d>>, p)
        BY <2>5 DEF Dispatch
      <4> QED  BY <4>1, <4>2, TheCallers DEF Moved
    <3>2. CASE ~(worker = c /\ f = d)
      BY <2>1, <2>3, <3>1, <3>2
    <3>3. CASE worker = c /\ f = d
      <4>1. Choose(<<c, d>>)
        <5>1. Dispatch(<<c, d>>) => at'[<<c, d>>] = Route(<<c, d>>)
          BY Parts, MoveEffect DEF Dispatch, Moved
        <5>2. Route(<<c, d>>) # "brokerSet"
          BY DEF Route
        <5> QED  BY <2>5, <3>3, <5>1, <5>2
      <4> DEFINE l == Listing(machine, TRUE)
      <4>2. l \in Seq(Targets)
        BY DataParts, FullList
      <4>3. \A w : Exit(<<c, d>>, w) => at'[<<c, d>>] = "idle"
        <5>1. \A w : Exit(<<c, d>>, w) => Left(c, d, w)
          BY Parts, LeaveEffect DEF Exit
        <5>2. \A w : Left(c, d, w) => at'[<<c, d>>] = "idle"
          BY DEF Left
        <5> QED  BY <5>1, <5>2
      <4>4. PICK i \in DOMAIN l : Finds(sel[worker], l, i) /\ chosen' = [chosen EXCEPT ![<<c, d>>] = l[i]]
        BY <3>3, <4>1, <4>3 DEF Choose, Who
      <4>5. sel[worker].index = {} /\ sel[worker].labels = {}
        BY DEF KeysInv
      <4> HIDE DEF l
      <4>6. Key(l[i]) \in sel[worker].keys
        BY <4>2, <4>4, <4>5, FoundHasKey
      <4>7. chosen'[<<worker, f>>] = l[i]
        BY <2>2, <3>3, <4>4
      <4> QED  BY <4>6, <4>7
    <3> QED  BY <3>2, <3>3
  <2>6. CopyStep(<<c, d>>) \/ Answer(<<c, d>>) \/ Kill(<<c, d>>)
    OBVIOUS
  <2> QED  BY <2>4, <2>5, <2>6, Parts, CopySettles
<1> QED
  <2>1. UNCHANGED <<window, shown, sel, verb, sent>>
    BY <1>1 DEF command, drawn
  <2> QED  BY ONLY KeysInv, <1>2, <1>3, <1>4, <2>1, KeysKept

LEMMA JobKeys ==
  ASSUME GuiInv, ShownInv, DataInv, KeysInv, JobStep
  PROVE  KeysInv'
<1>1. Settles(worker, 0) /\ UNCHANGED <<constants, command, chosen>>
  BY Parts, JobSettles
<1>2. /\ UNCHANGED <<window, shown, job>> /\ window = "open" /\ sent.kind = "none"
      /\ elevated[Thread] = elevated[Drawing]
  BY JobParts DEF DataInv
<1>s. \A a : Sends(a) => sent' = a /\ at'[Thread] = "idle" /\ elevated'[Drawing] = elevated[Drawing]
  BY SendsEnds
<1>w. \A p : Works(p) => /\ sent' = sent /\ at'[Thread] = p
                         /\ elevated'[Thread] = elevated[Thread] /\ elevated'[Drawing] = elevated[Drawing]
  BY WorksAt
<1>3. ASSUME elevated'[Drawing] = elevated[Drawing],
             at'[Thread] = "apply" => elevated'[Thread],
             \/ sent'.list = sent.list
             \/ \A i \in DOMAIN sent'.list : sent'.list[i].t \in Drawn(SeesStore)
      PROVE  KeysInv'
  <2>1. SeesStore' = SeesStore
    BY <1>1, <1>3, SeesSame
  <2>2. \A f \in Depths : at'[<<worker, f>>] = "brokerSet" =>
                             Key(chosen'[<<worker, f>>]) \in sel[worker].keys
    <3>1. \A f \in Depths : at'[<<worker, f>>] = "brokerSet" =>
            at[<<worker, f>>] = "brokerSet" /\ chosen' = chosen
      BY <1>1, TheCallers DEF Settles, Choosing
    <3> QED  BY <3>1 DEF KeysInv
  <2>3. UNCHANGED <<window, shown, sel, verb>>
    BY <1>1, <1>2 DEF command
  <2> QED  BY <1>3, <2>1, <2>2, <2>3, KeysKept
<1>4. /\ Nothing.list = <<>> /\ Said("error").list = <<>> /\ Said("gone").list = <<>>
      /\ sent.list = <<>>
  BY <1>2, Parts DEF Nothing, Said, WorkerInv
<1>5. \A a : Sends(a) /\ a.list = <<>> => KeysInv'
  BY <1>3, <1>4, <1>s
<1>6. \A p : Works(p) /\ (p = "apply" => elevated[Thread]) => KeysInv'
  BY <1>3, <1>w
<1>7. \A w : \A p \in {"read", "brokerRead"} : Continues(w, p) => KeysInv'
  BY <1>4, <1>5, <1>6 DEF Continues
<1>8. CASE Perform
  <2>1. (\E p : Works(p) /\ (p = "apply" => elevated[Thread])) \/ (\E free : Elevate(Thread, free) /\ sent' = sent)
    BY <1>8 DEF Perform
  <2>2. ASSUME NEW free, Elevate(Thread, free), sent' = sent
        PROVE  KeysInv'
    <3>1. Prompt(Thread) \/ \E e0 : Start(Thread, e0)
      BY <2>2 DEF Elevate
    <3>2. Stirs(worker, 0)
      BY <3>1, Parts, ElevateStirs, TheCallers, TheCopies
    <3>3. elevated'[Drawing] = elevated[Drawing]
      BY <3>2, TheCallers, TheCopies DEF Stirs
    <3>4. at'[Thread] \in {"waiting", "asking"}
      BY <3>1, Parts, TheCallers, TheCopies DEF Prompt, Start, ControlOK
    <3> QED  BY <1>3, <2>2, <3>3, <3>4
  <2> QED  BY <1>6, <2>1, <2>2
<1>9. CASE Apply \/ BrokerApply
  BY <1>7, <1>9 DEF Apply, BrokerApply
<1>10. CASE AppliedElsewhere
  <2>1. CASE Sends(Said("error"))
    BY <1>4, <1>5, <2>1
  <2>2. CASE at' = [at EXCEPT ![Thread] = "read"] /\ UNCHANGED <<elevated, sent>>
    BY <1>3, <2>2, Parts, TheCallers, TheCopies DEF ControlOK
  <2> QED  BY <1>10, <2>1, <2>2 DEF AppliedElsewhere
<1>11. CASE Read \/ BrokerRead
  <2>1. ASSUME NEW e \in BOOLEAN, Sends(Fresh(View(machine, e))),
               e = elevated[Drawing] \/ (e /\ Windows)
        PROVE  KeysInv'
    <3>1. sent'.list = View(machine, e) /\ at'[Thread] = "idle" /\ elevated'[Drawing] = elevated[Drawing]
      BY <1>s, <2>1 DEF Fresh
    <3>2. Fine(machine) /\ SeesHive(e) \in BOOLEAN
      BY DataParts DEF SeesHive
    <3>3. \A i \in DOMAIN View(machine, e) : View(machine, e)[i].t \in Drawn(SeesHive(e))
      BY <3>2, ViewFacts
    <3>4. ~SeesVariables(e) => View(machine, e) = <<>>
      BY <3>2, ViewFacts
    <3>5. SeesVariables(e) => SeesHive(e) = SeesStore
      <4>1. elevated[Drawing] \in BOOLEAN /\ espOpen \in BOOLEAN
        BY DataParts, Parts, TheCallers, TheCopies DEF ControlOK
      <4> QED  BY <2>1, <4>1, Zenon DEF SeesVariables, SeesHive, SeesStore
    <3>6. \A i \in DOMAIN View(machine, e) : View(machine, e)[i].t \in Drawn(SeesStore)
      BY <3>3, <3>4, <3>5
    <3> QED  BY <1>3, <3>1, <3>6
  <2>2. CASE Read
    <3>1. elevated[Thread] \in BOOLEAN
      BY Parts, TheCallers, TheCopies DEF ControlOK
    <3> QED  BY <1>2, <2>1, <2>2, <3>1 DEF Read
  <2>3. CASE BrokerRead
    <3>1. Windows
      BY <1>2, <2>3, JobParts DEF BrokerRead, WorkerAt
    <3>2. CASE Sends(Said("error"))
      BY <1>4, <1>5, <3>2
    <3> QED  BY <2>1, <2>3, <3>1, <3>2 DEF BrokerRead
  <2> QED  BY <1>11, <2>2, <2>3
<1> QED
  BY <1>8, <1>9, <1>10, <1>11 DEF JobStep

LEMMA WindowKeys ==
  ASSUME GuiInv, DataInv, KeysInv, WindowStep
  PROVE  KeysInv'
<1>1. CASE \E i \in DOMAIN shown : Click(i)
  <2>1. PICK i \in DOMAIN shown : Click(i)
    BY <1>1
  <2>2. window = "open" /\ shown[i].t \in Drawn(SeesStore) /\ UNCHANGED <<window, shown>>
    BY <2>1 DEF Click, Draws, KeysInv
  <2>3. PICK v \in {"default", "next", "clear"}, s \in {KeyOf(shown[i].t), NoSelector} :
          /\ StartsJob(v, s, elevated[Drawing])
          /\ v # "clear" => s = KeyOf(shown[i].t)
    BY <2>1 DEF Click
  <2>4. /\ verb'[worker] = v /\ sel'[worker] = s /\ sent' = sent
        /\ at'[Thread] = "perform" /\ elevated'[Drawing] = elevated[Drawing]
        /\ \A d \in Depths : at'[<<worker, d>>] = IF d = 0 THEN "perform" ELSE "idle"
        /\ UNCHANGED constants
    <3>1. /\ verb' = [verb EXCEPT ![worker] = v] /\ sel' = [sel EXCEPT ![worker] = s]
          /\ at' = [at EXCEPT ![<<worker, 0>>] = "perform"] /\ ~Busy(worker)
          /\ elevated' = [elevated EXCEPT ![Thread] = elevated[Drawing], ![Drawing] = elevated[Drawing]]
          /\ UNCHANGED <<constants, sent>>
      BY <2>3, TheCopies DEF StartsJob
    <3>2. \A d \in Depths : at[<<worker, d>>] = "idle"
      BY <3>1 DEF Busy
    <3> QED  BY <3>1, <3>2, Parts, TheCallers, TheCopies DEF ControlOK, DataInv
  <2>5. SeesStore' = SeesStore
    BY <2>4, SeesSame
  <2>6. Drawn(SeesStore)' = Drawn(SeesStore)
    BY <2>5 DEF Drawn, Seen
  <2>7. s.index = {} /\ s.labels = {}
    BY DEF KeyOf, NoSelector
  <2>8. Setting(worker)' => sel'[worker] = KeyOf(shown[i].t)
    BY <2>3, <2>4 DEF Setting
  <2>9. \A d \in Depths : at'[<<worker, d>>] # "brokerSet"
    BY <2>4
  <2>10. /\ \A j \in DOMAIN shown : shown[j].t \in Drawn(SeesStore)
         /\ \A j \in DOMAIN sent.list : sent.list[j].t \in Drawn(SeesStore)
    BY <2>2 DEF KeysInv
  <2> QED  BY <2>2, <2>4, <2>6, <2>7, <2>8, <2>9, <2>10 DEF KeysInv
<1>2. CASE Launch
  <2>1. /\ window = "closed" /\ shown' = shown
        /\ \E e : StartsJob("list", NoSelector, e)
    BY <1>2 DEF Launch
  <2>2. /\ verb'[worker] = "list" /\ sel'[worker] = NoSelector /\ sent' = sent
        /\ at'[Thread] = "perform" /\ ~job
        /\ \A d \in Depths : at'[<<worker, d>>] = IF d = 0 THEN "perform" ELSE "idle"
    <3>1. /\ verb' = [verb EXCEPT ![worker] = "list"] /\ sel' = [sel EXCEPT ![worker] = NoSelector]
          /\ at' = [at EXCEPT ![<<worker, 0>>] = "perform"] /\ ~Busy(worker)
          /\ sent' = sent /\ ~job
      BY <2>1, TheCopies DEF StartsJob
    <3>2. \A d \in Depths : at[<<worker, d>>] = "idle"
      BY <3>1 DEF Busy
    <3> QED  BY <3>1, <3>2, Parts, TheCallers, TheCopies DEF ControlOK, DataInv
  <2>3. shown = <<>> /\ sent.list = <<>>
    BY <2>1, <2>2, Parts DEF KeysInv, WorkerInv, Nothing
  <2>4. ~Setting(worker)' /\ NoSelector.index = {} /\ NoSelector.labels = {}
    BY <2>2 DEF Setting, NoSelector
  <2>5. \A d \in Depths : at'[<<worker, d>>] # "brokerSet"
    BY <2>2
  <2> QED  BY <2>1, <2>2, <2>3, <2>4, <2>5 DEF KeysInv
<1>k. ASSUME UNCHANGED <<constants, window, elevated, chosen>>,
             sel'[worker] = sel[worker], verb'[worker] = verb[worker],
             \A d \in Depths : at'[<<worker, d>>] = at[<<worker, d>>],
             shown' = shown \/ (shown' = sent.list /\ window = "open"),
             sent'.list = sent.list \/ sent' = Nothing
      PROVE  KeysInv'
  <2>1. SeesStore' = SeesStore
    BY <1>k, SeesSame
  <2>2. at'[Thread] = at[Thread]
    BY <1>k, TheCopies
  <2>3. Nothing.list = <<>>
    BY DEF Nothing
  <2>4. \/ sent'.list = sent.list
        \/ \A i \in DOMAIN sent'.list : sent'.list[i].t \in Drawn(SeesStore)
    BY <1>k, <2>3
  <2>5. at'[Thread] = "apply" => elevated'[Thread]
    BY <1>k, <2>2 DEF KeysInv
  <2>6. \A d \in Depths : at'[<<worker, d>>] = "brokerSet" =>
                              Key(chosen'[<<worker, d>>]) \in sel[worker].keys
    BY <1>k DEF KeysInv
  <2> QED  BY <1>k, <2>1, <2>4, <2>5, <2>6, KeysKept
<1>3. CASE Poll
  BY <1>3, <1>k DEF Poll, Draws, cliVars, command
<1>4. CASE AskRestart \/ Confirm \/ BannerReturns
  BY <1>4, <1>k DEF AskRestart, Confirm, BannerReturns, cliVars, command
<1>5. CASE ClickBanner
  <2>1. /\ verb' = [verb EXCEPT ![ui] = IF noPrompt THEN "uninstall" ELSE "install"]
        /\ at' = [at EXCEPT ![<<ui, 0>>] = "authorize"]
        /\ UNCHANGED <<constants, window, elevated, chosen, sel, shown, sent>>
    BY <1>5, TheCopies DEF ClickBanner
  <2>2. /\ verb'[worker] = verb[worker]
        /\ \A d \in Depths : at'[<<worker, d>>] = at[<<worker, d>>]
    BY <2>1, Parts, TheCallers, TheCopies DEF ControlOK
  <2> QED  BY <1>k, <2>1, <2>2
<1>6. CASE Close
  <2>1. /\ at' = [at EXCEPT ![<<worker, 0>>] = "idle", ![<<ui, 0>>] = "idle"]
        /\ window' = "closed" /\ shown' = <<>> /\ UNCHANGED <<chosen, sel>>
    BY <1>6, TheCopies DEF Close, command
  <2>2. at'[Thread] = "idle" /\ \A d \in Depths : at'[<<worker, d>>] \in {"idle", at[<<worker, d>>]}
    BY <2>1, Parts, TheCallers, TheCopies DEF ControlOK
  <2> QED  BY <2>1, <2>2 DEF KeysInv
<1> QED
  BY <1>1, <1>2, <1>3, <1>4, <1>5, <1>6 DEF WindowStep

LEMMA KeysNext ==
  ASSUME GuiInv, ShownInv, DataInv, KeysInv, [Next]_vars
  PROVE  KeysInv'
<1>k. ASSUME UNCHANGED <<constants, window, shown, chosen, sent>>, elevated'[Drawing] = elevated[Drawing],
             elevated'[Thread] = elevated[Thread],
             sel'[worker] = sel[worker], verb'[worker] = verb[worker],
             \A d \in Depths : at'[<<worker, d>>] = at[<<worker, d>>]
      PROVE  KeysInv'
  <2>1. SeesStore' = SeesStore
    BY <1>k, SeesSame
  <2>2. at'[Thread] = at[Thread]
    BY <1>k, TheCopies
  <2>3. at'[Thread] = "apply" => elevated'[Thread]
    BY <1>k, <2>2 DEF KeysInv
  <2>4. \A d \in Depths : at'[<<worker, d>>] = "brokerSet" =>
                              Key(chosen'[<<worker, d>>]) \in sel[worker].keys
    BY <1>k DEF KeysInv
  <2> QED  BY <1>k, <2>1, <2>3, <2>4, KeysKept
<1>1. CASE UNCHANGED vars
  BY <1>1, <1>k DEF vars, cliVars, drawn, command
<1>2. CASE \E u \in Users : Ask(u) /\ Elsewhere(First(u))
  <2>1. PICK u \in Users : Ask(u) /\ Elsewhere(<<u, 0>>)
    BY <1>2 DEF First
  <2>2. u \in Callers /\ u # worker /\ u # ui
    BY TheCallers
  <2>3. /\ UNCHANGED <<constants, chosen, window, shown, sent>>
        /\ at' = [at EXCEPT ![<<u, 0>>] = "dispatch"]
        /\ \E e \in BOOLEAN : elevated' = [elevated EXCEPT ![<<u, 0>>] = e]
        /\ \E v : verb' = [verb EXCEPT ![u] = v]
        /\ \E s : sel' = [sel EXCEPT ![u] = s]
    BY <2>1 DEF Ask, First, Elsewhere, drawn
  <2>4. /\ elevated'[Thread] = elevated[Thread] /\ elevated'[Drawing] = elevated[Drawing]
        /\ \A e \in Depths : at'[<<worker, e>>] = at[<<worker, e>>]
        /\ verb'[worker] = verb[worker] /\ sel'[worker] = sel[worker]
    BY <2>2, <2>3, Parts, TheCallers, TheCopies DEF ControlOK, DataInv
  <2> QED  BY <1>k, <2>3, <2>4
<1>3. CASE \E k \in Copies : Command(k) \/ ((Answer(k) \/ Kill(k)) /\ Elsewhere(k))
  <2>1. PICK c \in Callers, d \in Depths :
          Command(<<c, d>>) \/ ((Answer(<<c, d>>) \/ Kill(<<c, d>>)) /\ Elsewhere(<<c, d>>))
    BY <1>3 DEF Copies
  <2>2. Kill(<<c, d>>) => <<c, d>> # Thread
    BY TheCallers, TheCopies DEF Kill, Who
  <2> QED  BY <2>1, <2>2, CopyKeys DEF Command
<1>4. CASE Reap /\ Elsewhere(Drawing)
  BY <1>4, <1>k DEF Reap, Elsewhere, drawn, constants, command
<1> QED
  BY <1>1, <1>2, <1>3, <1>4, WindowKeys, JobKeys DEF Next

-----------------------------------------------------------------------------
(* What a change that succeeded selected *)

LEMMA SelectingSelects ==
  ASSUME NEW m, Fine(m), NEW v \in {"default", "next"}, NEW t \in Targets
  PROVE  Selected(Selecting(m, v, t), v, t)
<1>1. /\ m = [order |-> m.order, next |-> m.next, def |-> m.def, seq |-> m.seq]
      /\ m.order \in Seq(Ids) /\ t.id \in Ids
  BY DEF Fine, Machines, Targets
<1>2. CASE v = "default"
  <2> DEFINE o == MoveToFront(m.order, t.id)
  <2>1. o[1] = t.id
    BY <1>1, FrontOf
  <2> HIDE DEF o
  <2>2. Firmware(m, v, t) = [m EXCEPT !.order = o]
    BY <1>2 DEF Firmware, o
  <2>3. Selecting(m, v, t).order = o
    BY <1>1, <1>2, <2>2 DEF Selecting, Store
  <2>4. t.guid # None => Selecting(m, v, t).def = t.guid
    BY <1>1, <1>2, <2>2 DEF Selecting, Store
  <2> QED  BY <1>2, <2>1, <2>3, <2>4 DEF Selected
<1>3. CASE v = "next"
  <2>1. Selecting(m, v, t).next = t.id /\ (t.guid # None => Selecting(m, v, t).seq = t.guid)
    BY <1>1, <1>3 DEF Selecting, Store, Firmware
  <2> QED  BY <1>3, <2>1 DEF Selected
<1> QED
  BY <1>2, <1>3

\* A command with privileges that is given a key selects the entry of that key.
LEMMA CommandSelects ==
  ASSUME NEW m, Fine(m), NEW v \in {"default", "next"}, NEW s, s.index = {}, s.labels = {},
         NEW o \in Commands(m, v, s, TRUE), o.word = "ok"
  PROVE  \E e \in Seen(TRUE) : Key(e) \in s.keys /\ Selected(o.machine, v, e)
<1> DEFINE l == Listing(m, TRUE)
<1>1. \E i \in DOMAIN l : Finds(s, l, i) /\ o.machine = Selecting(m, v, l[i])
  <2>1. PICK e : e = TRUE
    OBVIOUS
  <2>2. o \in Commands(m, v, s, e)
    BY <2>1
  <2>3. \E i \in DOMAIN Listing(m, e) :
          Finds(s, Listing(m, e), i) /\ o.machine = Selecting(m, v, Listing(m, e)[i])
    BY <2>2, CommandsSet
  <2> QED  BY <2>1, <2>3
<1>2. l \in Seq(Targets) /\ \A i \in DOMAIN l : l[i] \in Seen(TRUE)
  BY FullList
<1> HIDE DEF l
<1>3. PICK i \in DOMAIN l : Finds(s, l, i) /\ o.machine = Selecting(m, v, l[i])
  BY <1>1
<1>4. Key(l[i]) \in s.keys
  BY <1>2, <1>3, FoundHasKey
<1>5. l[i] \in Seen(TRUE) /\ l[i] \in Targets
  <2>1. \A j \in DOMAIN l : l[j] \in Seen(TRUE) /\ l[j] \in Targets
    BY <1>2 DEF Seen
  <2> QED  BY <2>1
<1>6. Selected(Selecting(m, v, l[i]), v, l[i])
  BY <1>5, SelectingSelects
<1> QED
  BY <1>3, <1>4, <1>5, <1>6

\* So does a request that the broker answered with Ok.
LEMMA ReplySelects ==
  ASSUME Fine(machine), NEW k, NEW v \in {"default", "next"}, v = verb[Who(k)],
         NEW s, s.index = {}, s.labels = {}, NEW r \in Replies(k, s), r.word = "ok"
  PROVE  \E e \in Seen(TRUE) : Key(e) \in s.keys /\ Selected(r.machine, v, e)
<1>1. PICK o \in Commands(machine, verb[Who(k)], s, TRUE) : r.machine = o.machine /\ o.word = "ok"
  <2>1. \/ r.machine = machine /\ r.word = "failed" /\ r.done = done[Who(k)]
        \/ \E o \in Commands(machine, verb[Who(k)], s, TRUE) :
             r.machine = o.machine /\ (r.word = "ok" => o.word = "ok")
    BY RepliesCommand
  <2> QED  BY <2>1
<1>2. \E e \in Seen(TRUE) : Key(e) \in s.keys /\ Selected(o.machine, v, e)
  BY <1>1, CommandSelects
<1> QED
  BY <1>1, <1>2

-----------------------------------------------------------------------------
(* A job that succeeds has made its change *)

\* While a copy of the worker's acts below its thread, nothing has succeeded yet.
LEMMA NotYet ==
  ASSUME GuiInv, ShownInv, window = "open", job, NEW d \in Depths, Acting(at[<<worker, d>>]),
         at[<<worker, d>>] \notin JobPlaces
  PROVE  ~Succeeded
<1>1. \A e, f \in Depths : e < f /\ (Acting(at[<<worker, e>>]) \/ Good(worker, e)) => at[<<worker, f>>] = "idle"
  BY Parts, TheCallers DEF CallerInv, ChainInv
<1>2. at[<<worker, d>>] # "idle" /\ at[<<worker, d>>] # "collect"
  BY DEF Acting
<1>3. sent.kind # "list"
  BY <1>2 DEF ShownInv, Busy
<1>4. at[Thread] \notin {"read", "brokerRead"}
  <2>1. SUFFICES ASSUME at[Thread] \in {"read", "brokerRead"}
                 PROVE  FALSE
    OBVIOUS
  <2>2. Acting(at[<<worker, 0>>]) /\ d # 0
    BY <2>1, TheCopies DEF Acting, JobPlaces
  <2>3. 0 < d
    BY <2>2 DEF Depths
  <2> QED  BY <1>1, <1>2, <2>2, <2>3, TheCopies
<1>5. \A e \in Depths : ~Good(worker, e)
  <2>1. SUFFICES ASSUME NEW e \in Depths, Good(worker, e)
                 PROVE  FALSE
    OBVIOUS
  <2>2. at[<<worker, e>>] = "collect"
    BY <2>1 DEF Good
  <2>3. d < e \/ e < d
    BY <1>2, <2>2 DEF Depths
  <2> QED  BY <1>1, <1>2, <2>1, <2>2, <2>3
<1> QED
  BY <1>3, <1>4, <1>5 DEF Succeeded

\* What a step of a copy makes of the copies that ended well.
GoodBefore(c, d) ==
  \A f \in Depths : Good(worker, f)' => Good(worker, f) \/ (c = worker /\ Good(worker, d))

LEMMA MoveGood ==
  ASSUME ControlOK, NEW c \in Callers, NEW d \in Depths,
         \/ Prompt(<<c, d>>) \/ \E e0 : Start(<<c, d>>, e0)
         \/ \E p : p # "collect" /\ Move(<<c, d>>, p)
  PROVE  GoodBefore(c, d)
<1>0. \A f \in Depths : f < 2 => f + 1 \in Depths
  BY DEF Depths
<1>1. CASE Prompt(<<c, d>>)
  <2>1. Prompted(c, d)
    BY <1>1, PromptEffect
  <2> QED  BY ONLY <1>0, <2>1, TheCallers DEF Prompted, GoodBefore, Good
<1>2. CASE \E e0 : Start(<<c, d>>, e0)
  <2>1. PICK e0 : Started(c, d, e0)
    BY <1>2, StartEffect
  <2> QED  BY ONLY <1>0, <2>1, TheCallers DEF Started, GoodBefore, Good
<1>3. CASE \E p : p # "collect" /\ Move(<<c, d>>, p)
  <2>1. PICK p : p # "collect" /\ Moved(c, d, p)
    BY <1>3, MoveEffect
  <2> QED  BY ONLY <1>0, <2>1, TheCallers DEF Moved, GoodBefore, Good
<1> QED
  BY <1>1, <1>2, <1>3

LEMMA LeaveGood ==
  ASSUME ControlOK, NEW c \in Callers, NEW d \in Depths, NEW w, Leave(<<c, d>>, w),
         w = "ok" => c # worker \/ Good(worker, d)
  PROVE  GoodBefore(c, d)
<1>0. /\ \A f \in Depths : f < 2 => f + 1 \in Depths
      /\ \A f \in Depths : f + 1 = d => d - 1 = f /\ d # 0
      /\ \A f \in Depths : ~(f + 1 = f) /\ (f + 1 = d + 1 => f = d)
  BY DEF Depths
<1>1. Left(c, d, w)
  BY LeaveEffect
<1> SUFFICES ASSUME NEW f \in Depths, Good(worker, f)', ~(c = worker /\ Good(worker, d))
             PROVE  Good(worker, f)
  BY DEF GoodBefore
<1>2. f < 2 /\ at'[<<worker, f>>] = "collect" /\ result'[<<worker, f + 1>>] = "ok"
  BY DEF Good
<1>3. /\ at'[<<worker, f>>] = IF worker = c /\ f = d THEN "idle"
                              ELSE IF worker = c /\ f + 1 = d /\ at[<<worker, f>>] = "waiting"
                                THEN "collect" ELSE at[<<worker, f>>]
      /\ result'[<<worker, f + 1>>] =
            IF worker = c /\ f + 1 = d /\ (d = 0 \/ at[<<c, d - 1>>] = "waiting") THEN w
            ELSE IF worker = c /\ f + 1 = d + 1 THEN "none" ELSE result[<<worker, f + 1>>]
  BY ONLY <1>0, <1>1, <1>2, TheCallers DEF Left
<1>4. CASE worker = c /\ f + 1 = d
  BY <1>0, <1>2, <1>3, <1>4 DEF Good
<1>5. CASE ~(worker = c /\ f + 1 = d)
  BY <1>0, <1>2, <1>3, <1>5 DEF Good
<1> QED
  BY <1>4, <1>5

\* A copy of the worker's ends well only after its child did, or by making the change.
LEMMA CopyGood ==
  ASSUME GuiInv, DataInv, ChoiceInv, KeysInv, Setting(worker), NEW c \in Callers, NEW d \in Depths,
         CopyStep(<<c, d>>) \/ Answer(<<c, d>>) \/ Kill(<<c, d>>)
  PROVE  GoodBefore(c, d) \/ (c = worker /\ MadeChange(machine'))
<1> DEFINE k == <<c, d>>
<1>l. \A w : Leave(k, w) /\ (w = "ok" => c # worker \/ Good(worker, d)) => GoodBefore(c, d)
  BY Parts, LeaveGood
<1>e. \A w : Exit(k, w) /\ (w # "ok" \/ c # worker) => GoodBefore(c, d)
  BY <1>l DEF Exit
<1>m. \A p : Move(k, p) /\ p # "collect" => GoodBefore(c, d)
  BY Parts, MoveGood
<1>s. Prompt(k) \/ (\E e0 : Start(k, e0)) => GoodBefore(c, d)
  BY Parts, MoveGood
<1>f. \A free : Elevate(k, free) => GoodBefore(c, d)
  BY <1>s DEF Elevate
<1>v. verb[worker] \in {"default", "next"} /\ sel[worker].index = {} /\ sel[worker].labels = {}
  BY DEF Setting, KeysInv
<1>1. CASE Dispatch(k)
  <2>1. Move(k, Route(k)) /\ Route(k) # "collect"
    BY <1>1 DEF Dispatch, Route
  <2> QED  BY <1>m, <2>1
<1>2. CASE Power(k) \/ BrokerCall(k) \/ Authorize(k)
  <2>1. at[k] \in {"power", "brokerCall", "authorize"}
    BY <1>2 DEF Power, BrokerCall, Authorize
  <2>2. c # worker
    <3>1. at[k] \in {"power", "brokerCall"} => ~Setting(c)
      BY DEF ChoiceInv
    <3>2. at[k] = "authorize" => verb[c] \in Authorizing
      BY Parts DEF CallerInv, RouteInv
    <3>3. verb[worker] \notin Authorizing
      BY Parts DEF WorkerInv
    <3> HIDE DEF k
    <3> QED  BY <2>1, <3>1, <3>2, <3>3
  <2>3. (\E w : Exit(k, w)) \/ \E free : Elevate(k, free)
    BY <1>2 DEF Power, BrokerCall, Authorize
  <2> QED  BY <1>e, <1>f, <2>2, <2>3
<1>3. CASE Switch(k)
  <2>1. PICK o \in Commands(machine, verb[c], sel[c], elevated[k]) :
          machine' = o.machine /\ Exit(k, Code(o.word))
    BY <1>3 DEF Switch, Who
  <2>2. CASE Code(o.word) # "ok" \/ c # worker
    BY <1>e, <2>1, <2>2
  <2>3. CASE Code(o.word) = "ok" /\ c = worker
    <3>1. o.word = "ok"
      BY <2>3 DEF Code
    <3>2. elevated[k] = TRUE
      <4>1. elevated[k]
        BY <1>3, <2>3 DEF Switch, ChoiceInv
      <4>2. elevated[k] \in BOOLEAN
        BY Parts, TheCopies DEF ControlOK
      <4> QED  BY <4>1, <4>2
    <3>3. o \in Commands(machine, verb[worker], sel[worker], TRUE)
      BY <2>1, <2>3, <3>2
    <3>4. \E e \in Seen(TRUE) : Key(e) \in sel[worker].keys /\ Selected(o.machine, verb[worker], e)
      BY <1>v, <3>1, <3>3, DataParts, CommandSelects
    <3> QED  BY <2>1, <2>3, <3>4 DEF MadeChange
  <2> QED  BY <2>2, <2>3
<1>4. CASE BrokerSet(k)
  <2>1. PICK r \in Replies(k, KeyOf(chosen[k])) : machine' = r.machine /\ Exit(k, r.word)
    BY <1>4 DEF BrokerSet, Request
  <2>2. CASE r.word # "ok" \/ c # worker
    BY <1>e, <2>1, <2>2
  <2>3. CASE r.word = "ok" /\ c = worker
    <3> DEFINE s == KeyOf(chosen[k])
    <3>1. s.index = {} /\ s.labels = {} /\ s.keys = {Key(chosen[k])}
      BY DEF KeyOf
    <3>2. Key(chosen[k]) \in sel[worker].keys
      BY <1>4, <2>3 DEF BrokerSet, KeysInv
    <3>3. verb[worker] = verb[Who(k)]
      BY <2>3 DEF Who
    <3> HIDE DEF s, k
    <3>4. \E e \in Seen(TRUE) : Key(e) \in s.keys /\ Selected(r.machine, verb[worker], e)
      <4>1. r \in Replies(k, s)
        BY <2>1 DEF s
      <4> QED  BY <1>v, <2>3, <3>1, <3>3, <4>1, DataParts, ReplySelects
    <3>5. PICK e \in Seen(TRUE) : Key(e) \in s.keys /\ Selected(r.machine, verb[worker], e)
      BY <3>4
    <3>6. Key(e) \in sel[worker].keys
      BY <3>1, <3>2, <3>5
    <3>7. MadeChange(r.machine)
      BY <3>5, <3>6 DEF MadeChange
    <3> QED  BY <2>1, <2>3, <3>7
  <2> QED  BY <2>2, <2>3
<1>5. CASE Escalate(k)
  <2>1. (\E w : Exit(k, w) /\ w # "ok") \/ \E free : Elevate(k, free)
    BY <1>5 DEF Escalate
  <2> QED  BY <1>e, <1>f, <2>1
<1>6. CASE Collect(k)
  <2>1. PICK text : Leave(k, Collected(k, text))
    BY <1>6 DEF Collect
  <2>2. c = worker /\ Collected(k, text) = "ok" => Good(worker, d)
    <3>1. Collected(k, text) = "ok" => result[<<c, d + 1>>] = "ok"
      BY DEF Collected, Child, Errors
    <3>2. at[k] = "collect"
      BY <1>6 DEF Collect
    <3>3. at[<<c, 2>>] # "collect"
      BY Parts DEF CallerInv, ChainInv
    <3>4. d = 2 \/ d < 2
      BY DEF Depths
    <3> QED  BY <3>1, <3>2, <3>3, <3>4 DEF Good
  <2> QED  BY <1>l, <2>1, <2>2
<1>7. CASE Choose(k)
  <2>1. Move(k, "brokerSet") \/ Exit(k, "notFound") \/ Exit(k, "failed")
    BY <1>7 DEF Choose
  <2> QED  BY <1>e, <1>m, <2>1
<1>8. CASE Kill(k)
  <2>1. Leave(k, IF k[2] = 0 THEN "left" ELSE "failed")
    BY <1>8 DEF Kill
  <2>2. (IF k[2] = 0 THEN "left" ELSE "failed") # "ok"
    OBVIOUS
  <2> QED  BY <1>l, <2>1, <2>2
<1>9. CASE Answer(k)
  <2>1. \/ \E e0 : Start(k, e0)
        \/ /\ at' = [at EXCEPT ![k] = "collect"]
           /\ result' = [result EXCEPT ![<<c, d + 1>>] = "refused"]
    BY <1>9 DEF Answer, Child
  <2>2. ASSUME at' = [at EXCEPT ![k] = "collect"],
               result' = [result EXCEPT ![<<c, d + 1>>] = "refused"]
        PROVE  GoodBefore(c, d)
    <3> SUFFICES ASSUME NEW f \in Depths, Good(worker, f)'
                 PROVE  Good(worker, f)
      BY DEF GoodBefore
    <3>1. f < 2 /\ at'[<<worker, f>>] = "collect" /\ result'[<<worker, f + 1>>] = "ok"
      BY DEF Good
    <3>2. <<worker, f>> \in Copies /\ <<worker, f + 1>> \in Copies
      BY <3>1, TheCallers DEF Copies, Depths
    <3>3. at \in [Copies -> CliPlaces \cup JobPlaces] /\ result \in [Copies -> Words]
      BY Parts DEF ControlOK
    <3>4. <<worker, f + 1>> # <<c, d + 1>> /\ result[<<worker, f + 1>>] = "ok"
      BY <2>2, <3>1, <3>2, <3>3
    <3>5. <<worker, f>> # <<c, d>>
      BY <3>4
    <3>6. at[<<worker, f>>] = "collect"
      BY <2>2, <3>1, <3>2, <3>3, <3>5
    <3> QED  BY <3>1, <3>4, <3>6 DEF Good
  <2> QED  BY <1>s, <2>1, <2>2
<1> QED
  BY <1>1, <1>2, <1>3, <1>4, <1>5, <1>6, <1>7, <1>8, <1>9 DEF CopyStep

LEMMA ChangeKept ==
  ASSUME ChangeInv, verb'[worker] = verb[worker], sel'[worker] = sel[worker],
         window' = "open" /\ Setting(worker) /\ Succeeded' /\ ~disturbed' =>
           \/ MadeChange(machine')
           \/ window = "open" /\ Succeeded /\ ~disturbed /\ machine' = machine
  PROVE  ChangeInv'
<1> SUFFICES ASSUME window' = "open", Setting(worker)', Succeeded', ~disturbed'
             PROVE  MadeChange(machine)'
  BY DEF ChangeInv
<1>1. Setting(worker)
  BY DEF Setting
<1>2. MadeChange(machine')
  BY <1>1 DEF ChangeInv
<1>3. Seen(TRUE)' = Seen(TRUE)
  BY DEF Seen
<1>4. PICK e \in Seen(TRUE) : Key(e) \in sel[worker].keys /\ Selected(machine', verb[worker], e)
  BY <1>2 DEF MadeChange
<1>5. Key(e) \in sel'[worker].keys /\ Selected(machine', verb'[worker], e)
  BY <1>4
<1>6. Selected(machine', verb'[worker], e) = Selected(machine, verb[worker], e)'
  BY DEF Selected
<1> QED
  BY <1>3, <1>5, <1>6 DEF MadeChange, Selected

LEMMA CopyChange ==
  ASSUME GuiInv, ShownInv, DataInv, ChoiceInv, KeysInv, ChangeInv,
         NEW c \in Callers, NEW d \in Depths, Elsewhere(<<c, d>>),
         \/ <<c, d>> # Thread /\ (CopyStep(<<c, d>>) \/ Kill(<<c, d>>))
         \/ Answer(<<c, d>>)
  PROVE  ChangeInv'
<1>1. Stirs(c, d) /\ UNCHANGED <<constants, command, drawn, sent, last>>
  BY Parts, CopyStirs, CopyChanges DEF Elsewhere
<1>2. UNCHANGED <<window, job, sent, last, verb, sel>>
  BY <1>1 DEF command, drawn
<1> SUFFICES ASSUME window' = "open", Setting(worker), Succeeded', ~disturbed'
             PROVE  \/ MadeChange(machine')
                    \/ window = "open" /\ Succeeded /\ ~disturbed /\ machine' = machine
  BY <1>2, ChangeKept
<1>3. window = "open" /\ ~disturbed /\ (machine' = machine \/ (job /\ c = worker))
  BY <1>2 DEF Elsewhere, Disturbs, Who, world
<1>4. at'[Thread] = at[Thread] \/ at'[Thread] \in {"waiting", "collect"}
  <2>1. CASE c # worker
    BY <1>1, <2>1, TheCallers, TheCopies DEF Stirs
  <2>2. CASE c = worker /\ d > 0
    BY <1>1, <2>2, TheCopies DEF Stirs
  <2>3. CASE c = worker /\ d = 0
    BY <2>3, Parts, ThreadAnswers, TheCopies
  <2> QED  BY <2>1, <2>2, <2>3 DEF Depths
<1>5. CopyStep(<<c, d>>) \/ Answer(<<c, d>>) \/ Kill(<<c, d>>)
  OBVIOUS
<1>6. CASE GoodBefore(c, d)
  <2>1. Succeeded
    <3>1. at'[Thread] \in {"read", "brokerRead"} => at[Thread] \in {"read", "brokerRead"}
      BY <1>4
    <3>2. (\E f \in Depths : Good(worker, f)') => \E f \in Depths : Good(worker, f)
      BY <1>6 DEF GoodBefore
    <3>3. \/ at'[Thread] \in {"read", "brokerRead"}
          \/ \E f \in Depths : Good(worker, f)'
          \/ sent'.kind = "list" \/ (~job' /\ last' = "list")
      BY DEF Succeeded
    <3> QED  BY <1>2, <3>1, <3>2, <3>3 DEF Succeeded
  <2>2. machine' = machine
    <3>1. SUFFICES ASSUME machine' # machine PROVE FALSE
      OBVIOUS
    <3>2. job /\ c = worker
      BY <1>3, <3>1
    <3>3. Switch(<<c, d>>) \/ BrokerSet(<<c, d>>) \/ BrokerCall(<<c, d>>)
      BY <1>5, <3>1, CopyChanges
    <3>4. at[<<worker, d>>] \in {"switch", "brokerSet", "brokerCall"}
      BY <3>2, <3>3 DEF Switch, BrokerSet, BrokerCall
    <3>5. Acting(at[<<worker, d>>]) /\ at[<<worker, d>>] \notin JobPlaces
      BY <3>4 DEF Acting, JobPlaces
    <3> QED  BY <1>3, <2>1, <3>2, <3>5, NotYet
  <2> QED  BY <1>3, <2>1, <2>2
<1> QED
  BY <1>5, <1>6, CopyGood

\* A job goes on to read only after its change was made.
LEMMA JobChange ==
  ASSUME GuiInv, ShownInv, DataInv, ChoiceInv, KeysInv, ChangeInv, JobStep
  PROVE  ChangeInv'
<1>1. UNCHANGED <<constants, command, chosen>>
  BY Parts, JobSettles
<1>2. /\ UNCHANGED <<window, job>> /\ window = "open" /\ sent.kind = "none" /\ job
      /\ disturbed' = disturbed /\ at[Thread] \in JobPlaces \cup {"collect"}
  BY JobParts DEF DataInv
<1> SUFFICES ASSUME Setting(worker), Succeeded', ~disturbed'
             PROVE  MadeChange(machine') \/ (Succeeded /\ machine' = machine)
  BY <1>1, <1>2, ChangeKept DEF command
<1>v. verb[worker] \in {"default", "next"} /\ sel[worker].index = {} /\ sel[worker].labels = {}
  BY DEF Setting, KeysInv
<1>3. \A e \in Depths : e # 0 => at[<<worker, e>>] # "collect"
  <2>1. /\ \A e, f \in Depths : e < f /\ Acting(at[<<worker, e>>]) => at[<<worker, f>>] = "idle"
        /\ \A e, f \in Depths : f = e + 1 /\ at[<<worker, e>>] = "collect" => at[<<worker, f>>] = "idle"
        /\ at[<<worker, 2>>] # "collect"
    BY Parts, TheCallers DEF CallerInv, ChainInv
  <2>2. Acting(at[<<worker, 0>>]) \/ at[<<worker, 0>>] = "collect"
    BY <1>2, TheCopies DEF Acting, JobPlaces
  <2>3. 1 = 0 + 1 /\ 0 < 1
    OBVIOUS
  <2>4. at[<<worker, 1>>] = "idle"
    BY <2>1, <2>2, <2>3, TheCopies
  <2> QED  BY <2>1, <2>4 DEF Depths
<1>4. ASSUME at'[Thread] # "collect", at'[Thread] \notin {"read", "brokerRead"}, sent'.kind # "list",
             \A e \in Depths : e # 0 => at'[<<worker, e>>] \in {at[<<worker, e>>], "dispatch"}
      PROVE  FALSE
  <2>1. \A e \in Depths : at'[<<worker, e>>] # "collect"
    BY <1>3, <1>4, TheCopies
  <2>2. \A e \in Depths : ~Good(worker, e)'
    BY <2>1 DEF Good
  <2> QED  BY <1>2, <1>4, <2>2 DEF Succeeded
<1>s. ASSUME NEW a, Sends(a), a.kind # "list" PROVE FALSE
  <2>1. /\ sent' = a /\ at'[Thread] = "idle"
        /\ \A e \in Depths : at'[<<worker, e>>] = IF e = 0 THEN "idle" ELSE at[<<worker, e>>]
    BY <1>s, SendsEnds
  <2> QED  BY <1>4, <1>s, <2>1
<1>w. ASSUME NEW p, Works(p), p \notin {"read", "brokerRead", "collect"} PROVE FALSE
  <2>1. at' = [at EXCEPT ![<<worker, 0>>] = p] /\ sent' = sent
    BY <1>w, TheCopies DEF Works, Move
  <2>2. /\ at'[Thread] = p
        /\ \A e \in Depths : e # 0 => at'[<<worker, e>>] = at[<<worker, e>>]
    BY <2>1, Parts, TheCallers, TheCopies DEF ControlOK
  <2> QED  BY <1>2, <1>4, <1>w, <2>1, <2>2
<1>k. Said("error").kind # "list" /\ Said("gone").kind # "list"
  BY DEF Said
<1>c. \A w : \A p : Continues(w, p) => w = "ok"
  BY <1>k, <1>s DEF Continues
<1>5. CASE Perform
  <2>1. verb[worker] # "list"
    BY <1>v
  <2>2. (\E p \in {"brokerApply", "apply"} : Works(p)) \/ (\E free : Elevate(Thread, free) /\ sent' = sent)
    BY <1>5, <2>1 DEF Perform
  <2>3. ASSUME NEW free, Elevate(Thread, free), sent' = sent
        PROVE  FALSE
    <3>1. /\ at'[Thread] \in {"waiting", "asking"}
          /\ \A e \in Depths : e # 0 => at'[<<worker, e>>] \in {at[<<worker, e>>], "dispatch"}
      <4>1. CASE Prompt(<<worker, 0>>)
        <5>1. Prompted(worker, 0)
          BY <4>1, Parts, PromptEffect, TheCallers, TheCopies
        <5> QED  BY <5>1, TheCallers, TheCopies DEF Prompted
      <4>2. CASE Start(<<worker, 0>>, TRUE)
        <5>1. \A x : Start(<<worker, 0>>, x) => Started(worker, 0, x)
          BY Parts, StartEffect, TheCallers, TheCopies
        <5>2. Started(worker, 0, TRUE)
          BY <4>2, <5>1
        <5> QED  BY <5>2, TheCallers, TheCopies DEF Started
      <4> QED  BY <2>3, <4>1, <4>2, TheCopies DEF Elevate
    <3> QED  BY <1>2, <1>4, <2>3, <3>1
  <2> QED  BY <1>w, <2>2, <2>3
<1>6. CASE Apply
  <2>1. PICK o \in Commands(machine, verb[worker], sel[worker], elevated[Thread]) :
          machine' = o.machine /\ Continues(o.word, "read")
    BY <1>6 DEF Apply
  <2>2. o.word = "ok"
    BY <1>c, <2>1
  <2>3. elevated[Thread] = TRUE
    <3>1. elevated[Thread] /\ elevated[Thread] \in BOOLEAN
      BY <1>6, Parts, TheCallers, TheCopies DEF Apply, WorkerAt, KeysInv, ControlOK
    <3> QED  BY <3>1
  <2>4. o \in Commands(machine, verb[worker], sel[worker], TRUE)
    BY <2>1, <2>3
  <2>5. \E e \in Seen(TRUE) : Key(e) \in sel[worker].keys /\ Selected(o.machine, verb[worker], e)
    BY <1>v, <2>2, <2>4, DataParts, CommandSelects
  <2> QED  BY <2>1, <2>5 DEF MadeChange
<1>7. CASE BrokerApply
  <2>1. PICK r \in Replies(Thread, sel[worker]) : machine' = r.machine /\ Continues(r.word, "brokerRead")
    BY <1>7 DEF BrokerApply, Request
  <2>2. r.word = "ok"
    BY <1>c, <2>1
  <2>3. verb[worker] = verb[Who(Thread)]
    BY DEF Who, Thread
  <2>4. \E e \in Seen(TRUE) : Key(e) \in sel[worker].keys /\ Selected(r.machine, verb[worker], e)
    BY <1>v, <2>1, <2>2, <2>3, DataParts, ReplySelects
  <2> QED  BY <2>1, <2>4 DEF MadeChange
<1>8. CASE AppliedElsewhere
  <2>1. at[Thread] = "collect" /\ machine' = machine
    BY <1>8 DEF AppliedElsewhere, WorkerAt
  <2>2. result[Child(Thread)] = "ok"
    BY <1>8, <1>k, <1>s DEF AppliedElsewhere
  <2>3. Good(worker, 0) /\ 0 \in Depths
    BY <2>1, <2>2, TheCopies DEF Good
  <2> QED  BY <2>1, <2>3 DEF Succeeded
<1>9. CASE Read \/ BrokerRead
  BY <1>9 DEF Read, BrokerRead, WorkerAt, Succeeded
<1> QED
  BY <1>5, <1>6, <1>7, <1>8, <1>9 DEF JobStep

\* A step that leaves the worker's copies and the machine alone succeeds at nothing.
LEMMA StillChange ==
  ASSUME ChangeInv, UNCHANGED <<machine, window, disturbed>>,
         sel'[worker] = sel[worker], verb'[worker] = verb[worker],
         \A d \in Depths : /\ at'[<<worker, d>>] = at[<<worker, d>>]
                           /\ result'[<<worker, d>>] = result[<<worker, d>>],
         \/ UNCHANGED <<job, sent, last>>
         \/ last' = sent.kind /\ sent' = Nothing
  PROVE  ChangeInv'
<1>1. Succeeded' => Succeeded
  <2>1. \A d \in Depths : Good(worker, d)' => Good(worker, d)
    <3>1. \A d \in Depths : d < 2 => d + 1 \in Depths
      BY DEF Depths
    <3> QED  BY <3>1 DEF Good
  <2>2. at'[Thread] = at[Thread]
    BY TheCopies
  <2>3. Nothing.kind # "list"
    BY DEF Nothing
  <2> QED  BY <2>1, <2>2, <2>3 DEF Succeeded
<1> QED
  BY <1>1, ChangeKept

LEMMA WindowChange ==
  ASSUME GuiInv, DataInv, ChangeInv, WindowStep
  PROVE  ChangeInv'
<1>1. CASE Launch \/ \E i \in DOMAIN shown : Click(i)
  <2>1. \E v, s, e : StartsJob(v, s, e)
    BY <1>1 DEF Launch, Click
  <2>2. /\ at' = [at EXCEPT ![<<worker, 0>>] = "perform"] /\ ~Busy(worker)
        /\ ~job /\ job' = TRUE /\ sent' = sent
    BY <2>1, TheCopies DEF StartsJob
  <2>3. \A d \in Depths : at'[<<worker, d>>] \in {"perform", "idle"}
    <3>1. \A d \in Depths : at[<<worker, d>>] = "idle"
      BY <2>2 DEF Busy
    <3> QED  BY <2>2, <3>1, Parts, TheCallers DEF ControlOK, Copies
  <2>4. sent.kind # "list"
    BY <2>2, Parts DEF WorkerInv
  <2>5. at'[Thread] \in {"perform", "idle"} /\ \A d \in Depths : ~Good(worker, d)'
    BY <2>3, TheCopies DEF Good
  <2>6. ~Succeeded'
    BY <2>2, <2>4, <2>5 DEF Succeeded
  <2> QED  BY <2>6 DEF ChangeInv
<1>2. CASE Poll \/ AskRestart \/ Confirm \/ BannerReturns
  <2>1. /\ UNCHANGED <<cliVars, window, disturbed>>
        /\ UNCHANGED <<job, sent, last>> \/ (last' = sent.kind /\ sent' = Nothing)
    BY <1>2 DEF Poll, AskRestart, Confirm, BannerReturns
  <2>2. UNCHANGED <<machine, sel, verb, at, result>>
    BY <2>1 DEF cliVars, world, command
  <2> QED  BY <2>1, <2>2, StillChange
<1>3. CASE ClickBanner
  <2>1. /\ verb' = [verb EXCEPT ![ui] = IF noPrompt THEN "uninstall" ELSE "install"]
        /\ at' = [at EXCEPT ![<<ui, 0>>] = "authorize"]
        /\ result' = [result EXCEPT ![<<ui, 0>>] = "none"]
        /\ UNCHANGED <<machine, window, disturbed, sel, job, sent, last>>
    BY <1>3, TheCopies DEF ClickBanner, world
  <2>2. /\ verb'[worker] = verb[worker]
        /\ \A d \in Depths : /\ at'[<<worker, d>>] = at[<<worker, d>>]
                              /\ result'[<<worker, d>>] = result[<<worker, d>>]
    BY <2>1, Parts, TheCallers, TheCopies DEF ControlOK
  <2> QED  BY <2>1, <2>2, StillChange
<1>4. CASE Close
  BY <1>4 DEF Close, ChangeInv
<1> QED
  BY <1>1, <1>2, <1>3, <1>4 DEF WindowStep

LEMMA ReapChange ==
  ASSUME GuiInv, ChangeInv, Reap, Elsewhere(Drawing)
  PROVE  ChangeInv'
<1>1. /\ UNCHANGED <<machine, sel, verb, at, result, window, shown, job, sent, last>>
      /\ disturbed' = (disturbed \/ (window = "open" /\ world' # world /\ ~(job /\ ui = worker)))
  BY DEF Reap, Elsewhere, Disturbs, Drawing, Who, drawn, command
<1>2. world' # world
  <2>1. "doomed" \in authorized /\ "doomed" \notin authorized'
    BY DEF Reap, Doomed, Lasting
  <2> QED  BY <2>1 DEF world
<1>3. disturbed' \/ window' # "open"
  BY <1>1, <1>2, TheCallers
<1> QED
  BY <1>3 DEF ChangeInv

LEMMA ChangeNext ==
  ASSUME GuiInv, ShownInv, DataInv, ChoiceInv, KeysInv, ChangeInv, [Next]_vars
  PROVE  ChangeInv'
<1>1. CASE UNCHANGED vars
  <2>1. UNCHANGED <<machine, sel, verb, at, result, window, disturbed, job, sent, last>>
    BY <1>1 DEF vars, cliVars, world, command, drawn
  <2> QED  BY <2>1, StillChange
<1>2. CASE \E u \in Users : Ask(u) /\ Elsewhere(First(u))
  <2>1. PICK u \in Users : Ask(u) /\ Elsewhere(<<u, 0>>)
    BY <1>2 DEF First
  <2>2. u \in Callers /\ u # worker
    BY TheCallers
  <2>3. /\ UNCHANGED <<world, window, job, sent, last>>
        /\ at' = [at EXCEPT ![<<u, 0>>] = "dispatch"]
        /\ result' = [result EXCEPT ![<<u, 0>>] = "none"]
        /\ \E v : verb' = [verb EXCEPT ![u] = v]
        /\ \E s : sel' = [sel EXCEPT ![u] = s]
    BY <2>1 DEF Ask, First, Elsewhere, drawn
  <2>4. disturbed' = disturbed
    BY <2>1, <2>3, Parts DEF Elsewhere, Disturbs, ControlOK
  <2>5. /\ verb'[worker] = verb[worker] /\ sel'[worker] = sel[worker]
        /\ \A d \in Depths : /\ at'[<<worker, d>>] = at[<<worker, d>>]
                              /\ result'[<<worker, d>>] = result[<<worker, d>>]
    BY <2>2, <2>3, Parts, TheCallers, TheCopies DEF ControlOK, DataInv
  <2> QED  BY <2>3, <2>4, <2>5, StillChange DEF world
<1>3. CASE \E k \in Copies : Command(k) \/ ((Answer(k) \/ Kill(k)) /\ Elsewhere(k))
  <2>1. PICK c \in Callers, d \in Depths :
          Command(<<c, d>>) \/ ((Answer(<<c, d>>) \/ Kill(<<c, d>>)) /\ Elsewhere(<<c, d>>))
    BY <1>3 DEF Copies
  <2>2. Kill(<<c, d>>) => <<c, d>> # Thread
    BY TheCallers, TheCopies DEF Kill, Who
  <2> QED  BY <2>1, <2>2, CopyChange DEF Command
<1> QED
  BY <1>1, <1>2, <1>3, WindowChange, JobChange, ReapChange DEF Next

\* What is drawn of an entry that was selected.
LEMMA SelectedIsFlagged ==
  ASSUME NEW m, Fine(m), NEW v \in {"default", "next"}, NEW hive \in BOOLEAN,
         NEW e \in Seen(hive), Selected(m, v, e)
  PROVE  IF v = "default" THEN IsDefault(e, m.order, SlotOf(m, hive))
         ELSE IsNext(e, m.next, SlotOf(m, hive))
<1>1. e \in Targets /\ Listed(e, [efi |-> IF hive /\ WinIds = {Home} THEN Home ELSE None])
  BY DEF Seen
<1>2. e.guid # None => hive /\ WinIds = {Home}
  <2>1. e.id # None
    BY <1>1, NoneAssumption DEF Targets
  <2> QED  BY <1>1, <2>1 DEF Listed
<1>3. e.guid # None => SlotOf(m, hive).def = m.def /\ SlotOf(m, hive).seq = m.seq
  BY <1>2, SlotFacts
<1>4. m.order # <<>>
  <2>1. Range(m.order) = Ids /\ Home \in Ids
    BY HomeAssumption DEF Fine, IsPermutation
  <2>2. Range(<<>>) = {}
    BY DEF Range
  <2> QED  BY <2>1, <2>2
<1> QED
  BY <1>3, <1>4 DEF Selected, IsDefault, IsNext

LEMMA ShownSelects ==
  ASSUME GuiInv, ShownInv, DataInv, KeysInv, ChangeInv
  PROVE  ClickSelects
<1> DEFINE clicked == {i \in DOMAIN shown : Key(shown[i].t) \in sel[worker].keys}
<1> SUFFICES ASSUME AtRest, last = "list", Sees, verb[worker] \in {"default", "next"}
             PROVE  /\ clicked # {}
                    /\ \A i \in clicked : IF verb[worker] = "default" THEN shown[i].default
                                           ELSE shown[i].next
  BY DEF ClickSelects
<1>1. shown = View(machine, Rights) /\ window = "open" /\ ~job /\ ~disturbed
  BY DEF AtRest, ShownInv
<1>2. Rights \in BOOLEAN /\ SeesVariables(Rights) /\ SeesHive(Rights) = SeesStore
      /\ SeesStore \in BOOLEAN
  <2>1. elevated[Drawing] \in BOOLEAN /\ espOpen \in BOOLEAN
    BY DataParts, Parts, TheCallers, TheCopies DEF ControlOK
  <2>2. SeesVariables(Rights)
    BY DEF Sees
  <2>3. Rights \in BOOLEAN /\ SeesStore \in BOOLEAN
    BY DEF Rights, SeesStore
  <2>4. SeesHive(Rights) = SeesStore
    <3>1. Windows => Rights
      BY <2>2 DEF SeesVariables
    <3>2. ~Windows => Rights = elevated[Drawing]
      BY <2>1, Zenon DEF Rights
    <3>3. SeesHive(Rights) <=> SeesStore
      BY <3>1, <3>2 DEF SeesHive, SeesStore
    <3>4. SeesHive(Rights) \in BOOLEAN
      BY DEF SeesHive, Rights
    <3> QED  BY <2>3, <3>3, <3>4
  <2> QED  BY <2>2, <2>3, <2>4
<1> DEFINE hive == SeesStore
<1>3. PICK e \in Drawn(hive) : sel[worker] = KeyOf(e)
  BY <1>1 DEF KeysInv, Setting
<1>4. PICK f \in Seen(TRUE) : Key(f) \in sel[worker].keys /\ Selected(machine, verb[worker], f)
  BY <1>1 DEF ChangeInv, Setting, Succeeded, MadeChange
<1>5. sel[worker].keys = {Key(e)}
  BY <1>3 DEF KeyOf
<1>6. \A t \in Drawn(hive) : t \in Seen(hive)
  BY DEF Drawn
<1>7. Fine(machine)
  BY DataParts
<1>8. /\ \A i \in DOMAIN shown :
           /\ shown[i].t \in Drawn(hive)
           /\ shown[i].default = IsDefault(shown[i].t, machine.order, SlotOf(machine, hive))
           /\ shown[i].next = IsNext(shown[i].t, machine.next, SlotOf(machine, hive))
      /\ \A t \in Drawn(hive) : \E i \in DOMAIN shown : shown[i].t = t
  <2>1. PICK r \in BOOLEAN : r = Rights
    BY <1>2
  <2>2. SeesVariables(r) /\ SeesHive(r) = hive /\ shown = View(machine, r)
    BY <1>1, <1>2, <2>1
  <2> HIDE DEF hive
  <2>3. /\ \A i \in DOMAIN View(machine, r) :
              /\ View(machine, r)[i].t \in Drawn(SeesHive(r))
              /\ View(machine, r)[i].default =
                   IsDefault(View(machine, r)[i].t, machine.order, SlotOf(machine, SeesHive(r)))
              /\ View(machine, r)[i].next =
                   IsNext(View(machine, r)[i].t, machine.next, SlotOf(machine, SeesHive(r)))
        /\ SeesVariables(r) => \A t \in Drawn(SeesHive(r)) :
                                 \E i \in DOMAIN View(machine, r) : View(machine, r)[i].t = t
    <3>1. SeesHive(r) \in BOOLEAN
      BY DEF SeesHive
    <3> QED  BY <1>7, <3>1, ViewFacts
  <2> QED  BY <2>2, <2>3
<1> HIDE DEF hive
<1>9. hive \in BOOLEAN
  BY <1>2 DEF hive
<1>10. e = f
  BY <1>3, <1>4, <1>5, <1>6, <1>9, SameKey
<1>11. clicked # {}
  BY <1>3, <1>5, <1>8
<1>12. ASSUME NEW i \in clicked
       PROVE  shown[i].t = f
  <2>1. shown[i].t \in Seen(hive) /\ Key(shown[i].t) = Key(f)
    BY <1>5, <1>6, <1>8, <1>10
  <2> QED  BY <1>9, <2>1, SameKey
<1>13. IF verb[worker] = "default" THEN IsDefault(f, machine.order, SlotOf(machine, hive))
       ELSE IsNext(f, machine.next, SlotOf(machine, hive))
  <2>1. f \in Seen(hive)
    BY <1>3, <1>6, <1>10
  <2> QED  BY <1>4, <1>7, <1>9, <2>1, SelectedIsFlagged
<1> QED
  BY <1>8, <1>11, <1>12, <1>13

\* A click that ended well selected the entry clicked: the window's list and the one
\* that the change is made on name it by the same key, in whatever order they are, and
\* only the change is followed by a reading (entry_card, perform).
THEOREM ClickSelected == Spec => []ClickSelects
<1> DEFINE Inv == GuiInv /\ ShownInv /\ DataInv /\ ChoiceInv /\ KeysInv /\ ChangeInv
<1>1. Init => ShownInv /\ KeysInv /\ ChangeInv
  <2> SUFFICES ASSUME Init PROVE ShownInv /\ KeysInv /\ ChangeInv
    OBVIOUS
  <2>1. /\ window = "closed" /\ shown = <<>> /\ sel[worker] = NoSelector
        /\ \A d \in Depths : at[<<worker, d>>] = "idle"
    BY TheCallers, TheCopies DEF Init, CliInit
  <2>2. NoSelector.index = {} /\ NoSelector.labels = {} /\ at[Thread] = "idle"
    BY <2>1, TheCopies DEF NoSelector
  <2> QED  BY <2>1, <2>2 DEF ShownInv, KeysInv, ChangeInv
<1>2. Inv /\ [Next]_vars => ShownInv' /\ KeysInv' /\ ChangeInv'
  BY ShownNext, KeysNext, ChangeNext
<1>3. Inv => ClickSelects
  BY ShownSelects
<1> QED
  BY <1>1, <1>2, <1>3, ChoiceAlways, PTL DEF Spec

=============================================================================
