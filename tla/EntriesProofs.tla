---------------------------- MODULE EntriesProofs ----------------------------
(***************************************************************************)
(* Lemmas about the operators of BootEntries, for any entries, objects and *)
(* order in which the store displays them.                                 *)
(***************************************************************************)
EXTENDS BootEntries, TLAPS, WellFoundedInduction, SequenceTheorems, FiniteSetTheorems

-----------------------------------------------------------------------------
(* The new order *)

\* A nonempty set of naturals has the least element that Least names.
LEMMA LeastProperties ==
  ASSUME NEW S \in SUBSET Nat, S # {}
  PROVE  Least(S) \in S /\ \A j \in S : Least(S) <= j
<1> DEFINE R == OpToRel(<, Nat)
<1>1. IsWellFoundedOn(R, Nat)
  BY NatLessThanWellFounded
<1>2. \E i \in S : \A j \in S : ~(<<j, i>> \in R)
  <2> HIDE DEF R
  <2> QED  BY <1>1, WFMin
<1>3. \A i, j \in Nat : <<j, i>> \in R <=> j < i
  BY DEF OpToRel
<1>4. PICK i \in S : \A j \in S : ~(<<j, i>> \in R)
  BY <1>2
<1>5. \A j \in S : i <= j
  <2> SUFFICES ASSUME NEW j \in S PROVE i <= j
    OBVIOUS
  <2>1. ~(j < i)
    BY <1>3, <1>4
  <2> QED  BY <2>1
<1> QED
  BY <1>5 DEF Least

\* Position finds an element that is there.
LEMMA PositionProperties ==
  ASSUME NEW S, NEW s \in Seq(S), NEW x \in Range(s)
  PROVE  Position(s, x) \in 1..Len(s) /\ s[Position(s, x)] = x
<1> DEFINE hits == {i \in DOMAIN s : s[i] = x}
<1>1. hits \in SUBSET Nat /\ hits # {}
  BY DEF Range
<1>2. Least(hits) \in hits
  <2> HIDE DEF hits
  <2> QED  BY <1>1, LeastProperties
<1> QED
  BY <1>2 DEF Position

\* Efi::set_default writes a list of entries...
LEMMA MoveToFrontType ==
  ASSUME NEW s \in Seq(Ids), NEW id \in Ids
  PROVE  MoveToFront(s, id) \in Seq(Ids)
<1>1. CASE id \in Range(s)
  <2>1. \A i \in 1..Len(s) : i # 1 /\ i <= Position(s, id) => s[i - 1] \in Ids
    OBVIOUS
  <2> QED  BY <1>1, <2>1 DEF MoveToFront
<1>2. CASE id \notin Range(s)
  BY <1>2 DEF MoveToFront
<1> QED
  BY <1>1, <1>2

\* ... which is a permutation of them if the one read was, with id in front.
LEMMA MoveToFrontPermutes ==
  ASSUME NEW s, IsPermutation(s), NEW id \in Ids
  PROVE  IsPermutation(MoveToFront(s, id)) /\ MoveToFront(s, id)[1] = id
<1> DEFINE m == MoveToFront(s, id)
           k == Position(s, id)
<1>1. s \in Seq(Ids) /\ IsInjective(s) /\ Range(s) = Ids
  BY DEF IsPermutation
<1>2. k \in 1..Len(s) /\ s[k] = id
  BY <1>1, PositionProperties
<1>3. m \in Seq(Ids) /\ Len(m) = Len(s) /\ DOMAIN m = 1..Len(s)
  BY <1>1, MoveToFrontType DEF MoveToFront
<1>4. \A i \in 1..Len(s) : m[i] = IF i = 1 THEN id ELSE IF i <= k THEN s[i - 1] ELSE s[i]
  BY <1>1 DEF MoveToFront
<1>5. \A i \in 1..Len(s) : \A j \in 1..Len(s) : s[i] = s[j] => i = j
  BY <1>1 DEF IsInjective
<1> HIDE DEF m, k
<1>6. \A i \in 1..Len(s) : i # 1 => m[i] # id
  <2> SUFFICES ASSUME NEW i \in 1..Len(s), i # 1 PROVE m[i] # id
    OBVIOUS
  <2>1. CASE i <= k
    BY <1>1, <1>2, <1>4, <1>5, <2>1
  <2>2. CASE ~(i <= k)
    BY <1>1, <1>2, <1>4, <1>5, <2>2
  <2> QED  BY <2>1, <2>2
<1>7. IsInjective(m)
  <2> SUFFICES ASSUME NEW a \in 1..Len(s), NEW b \in 1..Len(s), m[a] = m[b]
               PROVE  a = b
    BY <1>3 DEF IsInjective
  <2>1. CASE a = 1 \/ b = 1
    BY <1>1, <1>4, <1>6, <2>1
  <2>2. CASE a # 1 /\ b # 1
    <3>1. CASE a <= k /\ b <= k
      BY <1>1, <1>4, <1>5, <2>2, <3>1
    <3>2. CASE a <= k /\ ~(b <= k)
      BY <1>1, <1>2, <1>4, <1>5, <2>2, <3>2
    <3>3. CASE ~(a <= k) /\ b <= k
      BY <1>1, <1>2, <1>4, <1>5, <2>2, <3>3
    <3>4. CASE ~(a <= k) /\ ~(b <= k)
      BY <1>1, <1>4, <1>5, <2>2, <3>4
    <3> QED  BY <3>1, <3>2, <3>3, <3>4
  <2> QED  BY <2>1, <2>2
<1>8. \A x \in Ids : \E i \in 1..Len(s) : m[i] = x
  <2> SUFFICES ASSUME NEW x \in Ids PROVE \E i \in 1..Len(s) : m[i] = x
    OBVIOUS
  <2>1. PICK j \in 1..Len(s) : s[j] = x
    BY <1>1 DEF Range
  <2>2. CASE j = k
    BY <1>1, <1>2, <1>4, <2>1, <2>2
  <2>3. CASE j < k
    <3>1. j + 1 \in 1..Len(s) /\ j + 1 # 1 /\ j + 1 <= k /\ (j + 1) - 1 = j
      BY <1>1, <1>2, <2>3
    <3> QED  BY <1>4, <2>1, <3>1
  <2>4. CASE k < j
    BY <1>1, <1>2, <1>4, <2>1, <2>4
  <2> QED  BY <1>2, <2>2, <2>3, <2>4
<1>9. Range(m) = Ids
  BY <1>3, <1>8 DEF Range
<1>10. m[1] = id
  BY <1>1, <1>2, <1>4
<1> QED
  BY <1>3, <1>7, <1>9, <1>10 DEF IsPermutation, m

\* Whoever is moved is in front.
LEMMA FrontOf ==
  ASSUME NEW s \in Seq(Ids), NEW id \in Ids
  PROVE  MoveToFront(s, id)[1] = id
<1>1. CASE id \in Range(s)
  <2>1. 1 \in 1..Len(s)
    BY <1>1 DEF Range
  <2> QED  BY <1>1, <2>1 DEF MoveToFront
<1>2. CASE id \notin Range(s)
  BY <1>2 DEF MoveToFront
<1> QED
  BY <1>1, <1>2

-----------------------------------------------------------------------------
(* Places of a set *)

\* The places of a finite set of numbers, by their order, are all of them.
LEMMA NthProperties ==
  ASSUME NEW S \in SUBSET Nat, IsFiniteSet(S)
  PROVE  /\ Cardinality(S) \in Nat
         /\ \A i \in 1..Cardinality(S) : Nth(S, i) \in S
         /\ \A n \in S : \E i \in 1..Cardinality(S) : Nth(S, i) = n
<1> DEFINE Upto(n) == {m \in S : m <= n}
           size == Cardinality(S)
           rank == [n \in S |-> Cardinality(Upto(n))]
<1>1. size \in Nat
  BY FS_CardinalityType
<1>2. ASSUME NEW n \in S
      PROVE  IsFiniteSet(Upto(n)) /\ Cardinality(Upto(n)) \in 1..size
  <2>1. Upto(n) \in SUBSET S /\ n \in Upto(n)
    OBVIOUS
  <2> HIDE DEF Upto
  <2>2. IsFiniteSet(Upto(n)) /\ Cardinality(Upto(n)) <= size
    BY <2>1, FS_Subset
  <2>3. Cardinality(Upto(n)) \in Nat /\ Cardinality(Upto(n)) # 0
    BY <2>1, <2>2, FS_CardinalityType, FS_EmptySet
  <2> QED  BY <1>1, <2>2, <2>3
<1>3. ASSUME NEW a \in S, NEW b \in S, a < b
      PROVE  Cardinality(Upto(a)) # Cardinality(Upto(b))
  <2>0. (\A m \in S : m <= a => m <= b) /\ b <= b /\ ~(b <= a)
    BY <1>3
  <2>1. Upto(a) \in SUBSET Upto(b) /\ b \in Upto(b) /\ b \notin Upto(a)
    BY <2>0, Zenon
  <2> HIDE DEF Upto
  <2> QED  BY <1>2, <2>1, FS_Subset
<1>4. \A a, b \in S : Cardinality(Upto(a)) = Cardinality(Upto(b)) => a = b
  <2> HIDE DEF Upto
  <2> SUFFICES ASSUME NEW a \in S, NEW b \in S, a # b
               PROVE  Cardinality(Upto(a)) # Cardinality(Upto(b))
    OBVIOUS
  <2>1. a < b \/ b < a
    OBVIOUS
  <2> QED  BY <1>3, <2>1
<1>5. rank \in Injection(S, 1..size)
  <2> HIDE DEF Upto
  <2>1. rank \in [S -> 1..size]
    BY <1>2
  <2>2. \A a, b \in S : rank[a] = rank[b] => a = b
    BY <1>4
  <2> HIDE DEF rank
  <2> QED  BY <2>1, <2>2 DEF Injection, IsInjective
<1>6. IsFiniteSet(1..size) /\ Cardinality(1..size) = size
  BY <1>1, FS_Interval
<1>7. rank \in Surjection(S, 1..size)
  <2> HIDE DEF rank
  <2> QED  BY <1>5, <1>6, FS_Injection
<1>8. \A i \in 1..size : \E n \in S : Cardinality(Upto(n)) = i
  <2> HIDE DEF Upto
  <2> QED  BY <1>7 DEF Surjection
<1>9. \A i : Nth(S, i) = CHOOSE n \in S : Cardinality(Upto(n)) = i
  BY DEF Nth
<1> HIDE DEF Upto, rank
<1>10. \A i \in 1..size : Nth(S, i) \in S /\ Cardinality(Upto(Nth(S, i))) = i
  BY <1>8, <1>9
<1>11. \A n \in S : Nth(S, Cardinality(Upto(n))) = n
  BY <1>2, <1>4, <1>10
<1> QED
  BY <1>1, <1>2, <1>10, <1>11

-----------------------------------------------------------------------------
(* Pairing and listing *)

\* The store is paired with a Windows entry of the order, or with none.
LEMMA PairedEntryType ==
  ASSUME NEW s \in Seq(Ids), NEW b \in BOOLEAN
  PROVE  PairedEntry(s, b) \in WinIds \cup {None}
<1> DEFINE windows == {i \in DOMAIN s : s[i] \in WinIds}
<1>1. CASE windows = {}
  BY <1>1 DEF PairedEntry
<1>2. CASE windows # {}
  <2>1. windows \in SUBSET Nat
    OBVIOUS
  <2>2. Least(windows) \in windows
    <3> HIDE DEF windows
    <3> QED  BY <1>2, <2>1, LeastProperties
  <2>3. s[Least(windows)] \in WinIds
    BY <2>2
  <2> QED  BY <2>3 DEF PairedEntry
<1> QED
  BY <1>1, <1>2

\* The only Windows entry of a machine is the one the store is paired with.
LEMMA PairedHome ==
  ASSUME WinIds = {Home}, NEW s, IsPermutation(s), NEW b \in BOOLEAN
  PROVE  PairedEntry(s, b) = Home
<1> DEFINE windows == {i \in DOMAIN s : s[i] \in WinIds}
<1>1. s \in Seq(Ids) /\ IsInjective(s) /\ Range(s) = Ids
  BY DEF IsPermutation
<1>2. \A i, j \in windows : i = j
  BY <1>1 DEF IsInjective
<1>3. PICK n \in DOMAIN s : s[n] = Home
  BY <1>1, HomeAssumption DEF Range
<1>4. windows \in SUBSET Nat /\ n \in windows
  BY <1>1, <1>3
<1>5. PairedEntry(s, b) = s[Least(windows)]
  BY <1>2, <1>4 DEF PairedEntry
<1> HIDE DEF windows
<1>6. Least(windows) \in windows
  BY <1>4, LeastProperties
<1> QED
  BY <1>5, <1>6 DEF windows

\* Where the machine has another one, the store is paired with none.
LEMMA PairedNone ==
  ASSUME WinIds # {Home}, NEW s, IsPermutation(s)
  PROVE  PairedEntry(s, FALSE) = None
<1>1. PICK x \in WinIds : x # Home
  BY HomeAssumption
<1>2. PICK i \in DOMAIN s : s[i] = x
  BY HomeAssumption DEF IsPermutation, Range
<1>3. PICK j \in DOMAIN s : s[j] = Home
  BY HomeAssumption DEF IsPermutation, Range
<1>4. s[i] \in WinIds /\ s[j] \in WinIds /\ i # j
  BY <1>1, <1>2, <1>3, HomeAssumption
<1> QED
  BY <1>4 DEF PairedEntry

LEMMA SinglesProperties ==
  ASSUME NEW s \in Seq(Ids)
  PROVE  /\ Singles(s) \in Seq(Targets)
         /\ Len(Singles(s)) = Len(s)
         /\ \A i \in 1..Len(s) : Singles(s)[i] = Efi(s[i])
<1>1. \A i \in 1..Len(s) : Efi(s[i]) \in Targets
  BY DEF Efi, Targets
<1> QED
  BY <1>1 DEF Singles

LEMMA ExpandedProperties ==
  ASSUME NEW id \in Ids
  PROVE  /\ Expanded(id) \in Seq(Targets)
         /\ Len(Expanded(id)) = Len(Display)
         /\ \A i \in 1..Len(Display) : Expanded(id)[i] = [id |-> id, guid |-> Display[i]]
<1>1. \A i \in 1..Len(Display) : [id |-> id, guid |-> Display[i]] \in Targets
  BY DisplayAssumption DEF Targets
<1> QED
  BY <1>1, DisplayAssumption DEF Expanded

\* Switcher::entries lists targets.
LEMMA EntriesType ==
  ASSUME NEW s \in Seq(Ids), NEW st \in Slots \cup {NoSlot}
  PROVE  Entries(s, st) \in Seq(Targets)
<1>1. CASE st.efi \notin Range(s)
  BY <1>1, SinglesProperties DEF Entries
<1>2. CASE st.efi \in Range(s)
  <2> DEFINE k == Position(s, st.efi)
             before == SubSeq(s, 1, k - 1)
             after == SubSeq(s, k + 1, Len(s))
  <2>1. k \in 1..Len(s)
    BY <1>2, PositionProperties
  <2>2. before \in Seq(Ids) /\ after \in Seq(Ids)
    <3> HIDE DEF k
    <3> QED  BY <2>1, SubSeqProperties
  <2>3. Range(s) \subseteq Ids
    BY DEF Range
  <2>4. /\ Singles(before) \in Seq(Targets)
        /\ Expanded(st.efi) \in Seq(Targets)
        /\ Singles(after) \in Seq(Targets)
    <3> HIDE DEF before, after
    <3> QED  BY <1>2, <2>2, <2>3, SinglesProperties, ExpandedProperties
  <2>5. Entries(s, st) = Singles(before) \o Expanded(st.efi) \o Singles(after)
    BY <1>2 DEF Entries
  <2> HIDE DEF before, after
  <2> QED  BY <2>4, <2>5, ConcatProperties
<1> QED
  BY <1>1, <1>2

\* Where the elements of a concatenation are.
LEMMA ConcatIndex ==
  ASSUME NEW S, NEW a \in Seq(S), NEW b \in Seq(S), NEW m, NEW n, Len(a) = m, Len(b) = n
  PROVE  /\ a \o b \in Seq(S) /\ Len(a \o b) = m + n
         /\ \A i \in 1..m : (a \o b)[i] = a[i]
         /\ \A i \in 1..n : (a \o b)[m + i] = b[i]
<1>1. m \in Nat /\ n \in Nat
  OBVIOUS
<1>2. a \o b \in Seq(S) /\ Len(a \o b) = m + n
  OBVIOUS
<1>3. \A i \in 1..m : (a \o b)[i] = a[i]
  OBVIOUS
<1>4. ASSUME NEW i \in 1..n PROVE (a \o b)[m + i] = b[i]
  <2>1. m + i \in 1..(m + n) /\ ~(m + i <= m) /\ (m + i) - m = i
    BY <1>1
  <2> QED  BY <2>1
<1> QED
  BY <1>2, <1>3, <1>4

\* Over a permutation of the entries, Switcher::entries lists exactly the Listed
\* targets: it hides no entry, and shows the paired one only through its objects.
LEMMA EntriesComplete ==
  ASSUME NEW s, IsPermutation(s), NEW st \in Slots \cup {NoSlot}, NEW t \in Targets
  PROVE  Listed(t, st) <=> \E i \in DOMAIN Entries(s, st) : Entries(s, st)[i] = t
<1> DEFINE l == Entries(s, st)
<1>1. s \in Seq(Ids) /\ IsInjective(s) /\ Range(s) = Ids
  BY DEF IsPermutation
<1>2. \A a \in 1..Len(s) : \A b \in 1..Len(s) : s[a] = s[b] => a = b
  BY <1>1 DEF IsInjective
<1>3. PICK n \in 1..Len(s) : s[n] = t.id
  BY <1>1 DEF Range, Targets
<1>4. CASE st.efi \notin Ids
  <2>1. l = Singles(s)
    BY <1>1, <1>4 DEF Entries
  <2>2. st = NoSlot /\ st.efi # t.id
    BY <1>4, HomeAssumption DEF Slots, Targets
  <2>3. /\ DOMAIN l = 1..Len(s)
        /\ \A i \in 1..Len(s) : l[i] = [id |-> s[i], guid |-> None]
    BY <2>1, <1>1, SinglesProperties DEF Efi
  <2>4. t = [id |-> t.id, guid |-> t.guid]
    BY DEF Targets
  <2> HIDE DEF l
  <2>5. Listed(t, st) <=> t.guid = None
    BY <2>2, HomeAssumption DEF Listed
  <2>6. t.guid = None => l[n] = t
    BY <1>3, <2>3, <2>4
  <2>7. \A i \in 1..Len(s) : l[i] = t => t.guid = None
    BY <2>3
  <2> QED  BY <2>3, <2>5, <2>6, <2>7 DEF l
<1>5. CASE st.efi \in Ids
  <2> DEFINE k == Position(s, st.efi)
             d == Len(Display)
             before == Singles(SubSeq(s, 1, k - 1))
             mid == Expanded(st.efi)
             after == Singles(SubSeq(s, k + 1, Len(s)))
  <2>1. k \in 1..Len(s) /\ s[k] = st.efi
    BY <1>1, <1>5, PositionProperties
  <2>2. l = before \o mid \o after
    BY <1>1, <1>5 DEF Entries
  <2>3. /\ before \in Seq(Targets) /\ Len(before) = k - 1
        /\ \A i \in 1..(k - 1) : before[i] = [id |-> s[i], guid |-> None]
    <3> DEFINE b == SubSeq(s, 1, k - 1)
    <3> HIDE DEF k
    <3>1. b \in Seq(Ids) /\ Len(b) = k - 1 /\ \A i \in 1..(k - 1) : b[i] = s[i]
      BY <1>1, <2>1, SubSeqProperties
    <3> HIDE DEF b
    <3> QED  BY <3>1, SinglesProperties DEF Efi, b
  <2>4. /\ after \in Seq(Targets) /\ Len(after) = Len(s) - k
        /\ \A i \in 1..(Len(s) - k) : after[i] = [id |-> s[k + i], guid |-> None]
    <3> DEFINE a == SubSeq(s, k + 1, Len(s))
    <3> HIDE DEF k
    <3>1. a \in Seq(Ids) /\ Len(a) = Len(s) - k /\ \A i \in 1..(Len(s) - k) : a[i] = s[k + i]
      BY <1>1, <2>1, SubSeqProperties
    <3> HIDE DEF a
    <3> QED  BY <3>1, SinglesProperties DEF Efi, a
  <2>5. /\ mid \in Seq(Targets) /\ Len(mid) = d
        /\ \A i \in 1..d : mid[i] = [id |-> st.efi, guid |-> Display[i]]
    BY <1>5, ExpandedProperties
  <2>6. d \in Nat /\ \A i \in 1..d : Display[i] \in Guids /\ Display[i] # None
    BY DisplayAssumption, NoneAssumption
  <2> HIDE DEF before, mid, after, k, d, l
  <2>7. /\ l \in Seq(Targets) /\ Len(l) = (k - 1) + d + (Len(s) - k)
        /\ \A i \in 1..(k - 1) : l[i] = before[i]
        /\ \A i \in 1..d : l[(k - 1) + i] = mid[i]
        /\ \A i \in 1..(Len(s) - k) : l[(k - 1) + d + i] = after[i]
    <3> DEFINE start == before \o mid
    <3>1. /\ start \in Seq(Targets) /\ Len(start) = (k - 1) + d
          /\ \A i \in 1..(k - 1) : start[i] = before[i]
          /\ \A i \in 1..d : start[(k - 1) + i] = mid[i]
      BY <2>3, <2>5, ConcatIndex
    <3> HIDE DEF start
    <3>2. l = start \o after
      BY <2>2 DEF start
    <3>3. /\ l \in Seq(Targets) /\ Len(l) = (k - 1) + d + (Len(s) - k)
          /\ \A i \in 1..((k - 1) + d) : l[i] = start[i]
          /\ \A i \in 1..(Len(s) - k) : l[(k - 1) + d + i] = after[i]
      BY <2>4, <3>1, <3>2, ConcatIndex
    <3>4. \A i \in 1..(k - 1) : i \in 1..((k - 1) + d)
      BY <1>1, <2>1, <2>6
    <3>5. \A i \in 1..d : (k - 1) + i \in 1..((k - 1) + d)
      BY <1>1, <2>1, <2>6
    <3> QED  BY <3>1, <3>3, <3>4, <3>5
  <2>8. DOMAIN l = 1..Len(l)
    BY <2>7
  <2>9. ASSUME NEW i \in DOMAIN l, l[i] = t
        PROVE  Listed(t, st)
    <3>1. CASE i <= k - 1
      <4>1. i \in 1..(k - 1) /\ i \in 1..Len(s) /\ i # k
        BY <1>1, <2>1, <2>8, <3>1, <2>7, <2>6
      <4>2. t = [id |-> s[i], guid |-> None]
        BY <2>3, <2>7, <2>9, <4>1
      <4>3. s[i] # s[k]
        BY <1>2, <2>1, <4>1
      <4> QED  BY <2>1, <4>2, <4>3 DEF Listed
    <3>2. CASE k - 1 < i /\ i <= (k - 1) + d
      <4>1. i - (k - 1) \in 1..d /\ (k - 1) + (i - (k - 1)) = i
        BY <1>1, <2>1, <2>6, <2>7, <2>8, <3>2
      <4>2. t = [id |-> st.efi, guid |-> Display[i - (k - 1)]]
        BY <2>5, <2>7, <2>9, <4>1
      <4> QED  BY <4>1, <4>2, DisplayAssumption DEF Listed, Range, d
    <3>3. CASE (k - 1) + d < i
      <4> DEFINE j == i - ((k - 1) + d)
      <4> DEFINE n0 == Len(s)
      <4>0. /\ n0 \in Nat /\ k \in 1..n0 /\ d \in Nat
            /\ i \in 1..((k - 1) + d + (n0 - k)) /\ (k - 1) + d < i
        BY <1>1, <2>1, <2>6, <2>7, <2>8, <3>3
      <4> HIDE DEF n0
      <4>1. j \in 1..(n0 - k) /\ (k - 1) + d + j = i /\ k + j \in 1..n0 /\ k + j # k
        BY ONLY <4>0
      <4> USE DEF n0
      <4> HIDE DEF j
      <4>2. t = [id |-> s[k + j], guid |-> None]
        BY <2>4, <2>7, <2>9, <4>1
      <4>3. s[k + j] # s[k]
        BY <1>2, <2>1, <4>1
      <4> QED  BY <2>1, <4>2, <4>3 DEF Listed
    <3> QED  BY <2>1, <2>6, <2>8, <3>1, <3>2, <3>3
  <2>10. ASSUME Listed(t, st)
         PROVE  \E i \in DOMAIN l : l[i] = t
    <3>1. t = [id |-> t.id, guid |-> t.guid]
      BY DEF Targets
    <3>2. CASE t.guid = None /\ t.id # st.efi
      <4>1. n < k \/ k < n
        BY <1>1, <1>3, <2>1, <3>2
      <4>2. CASE n < k
        <5>1. n \in 1..(k - 1) /\ n \in DOMAIN l
          BY <1>1, <1>3, <2>1, <2>6, <2>7, <2>8, <4>2
        <5>2. l[n] = t
          BY <1>3, <2>3, <2>7, <3>1, <3>2, <5>1
        <5> QED  BY <5>1, <5>2
      <4>3. CASE k < n
        <5> DEFINE j == n - k
        <5>1. j \in 1..(Len(s) - k) /\ k + j = n /\ (k - 1) + d + j \in DOMAIN l
          BY <1>1, <1>3, <2>1, <2>6, <2>7, <2>8, <4>3
        <5> HIDE DEF j
        <5>2. l[(k - 1) + d + j] = t
          BY <1>3, <2>4, <2>7, <3>1, <3>2, <5>1
        <5> QED  BY <5>1, <5>2
      <4> QED  BY <4>1, <4>2, <4>3
    <3>3. CASE t.guid \in Range(Display) /\ t.id = st.efi
      <4>1. PICK j \in 1..d : Display[j] = t.guid
        BY <3>3, DisplayAssumption DEF Range, d
      <4>2. (k - 1) + j \in DOMAIN l
        BY <1>1, <2>1, <2>6, <2>7, <2>8, <4>1
      <4>3. l[(k - 1) + j] = t
        BY <2>5, <2>7, <3>1, <3>3, <4>1
      <4> QED  BY <4>2, <4>3
    <3> QED  BY <2>10, <3>2, <3>3 DEF Listed
  <2> QED  BY <2>9, <2>10 DEF l
<1> QED
  BY <1>4, <1>5

\* Switcher::entries gives an object only to the entry the store is paired with.
LEMMA EntriesObjects ==
  ASSUME NEW s \in Seq(Ids), NEW st \in Slots \cup {NoSlot}, NEW i \in DOMAIN Entries(s, st)
  PROVE  Entries(s, st)[i].guid # None => Entries(s, st)[i].id = st.efi
<1> DEFINE Own == {t \in Targets : t.guid # None => t.id = st.efi}
<1>1. ASSUME NEW a \in Seq(Ids) PROVE Singles(a) \in Seq(Own)
  <2>1. \A j \in 1..Len(a) : Efi(a[j]) \in Own
    BY <1>1 DEF Efi, Targets
  <2> QED  BY <1>1, <2>1 DEF Singles
<1>2. ASSUME st.efi \in Ids PROVE Expanded(st.efi) \in Seq(Own)
  <2>1. \A j \in 1..Len(Display) : [id |-> st.efi, guid |-> Display[j]] \in Own
    BY <1>2, DisplayAssumption DEF Targets
  <2> QED  BY <2>1, DisplayAssumption DEF Expanded
<1>3. Entries(s, st) \in Seq(Own)
  <2>1. CASE st.efi \notin Range(s)
    BY <1>1, <2>1 DEF Entries
  <2>2. CASE st.efi \in Range(s)
    <3> DEFINE k == Position(s, st.efi)
               before == SubSeq(s, 1, k - 1)
               after == SubSeq(s, k + 1, Len(s))
    <3>1. k \in 1..Len(s) /\ st.efi \in Ids
      BY <2>2, PositionProperties DEF Range
    <3>2. before \in Seq(Ids) /\ after \in Seq(Ids)
      <4> HIDE DEF k
      <4> QED  BY <3>1, SubSeqProperties
    <3>3. Entries(s, st) = Singles(before) \o Expanded(st.efi) \o Singles(after)
      BY <2>2 DEF Entries
    <3>4. Singles(before) \in Seq(Own) /\ Expanded(st.efi) \in Seq(Own) /\ Singles(after) \in Seq(Own)
      <4> HIDE DEF before, after, Own
      <4> QED  BY <1>1, <1>2, <3>1, <3>2
    <3> HIDE DEF before, after, Own
    <3> QED  BY <3>3, <3>4, ConcatProperties
  <2> QED  BY <2>1, <2>2
<1>4. Entries(s, st)[i] \in Own
  <2> HIDE DEF Own
  <2> QED  BY <1>3
<1> QED
  BY <1>4

-----------------------------------------------------------------------------
(* Selectors *)

\* An entry that is listed is found by its own key.
LEMMA KeyFinds ==
  ASSUME NEW l \in Seq(Targets), NEW t, NEW n \in DOMAIN l, l[n] = t
  PROVE  \E i \in DOMAIN l : Finds(KeyOf(t), l, i)
<1> DEFINE byKey == {j \in DOMAIN l : Key(l[j]) \in {Key(t)}}
<1>1. byKey \in SUBSET Nat /\ n \in byKey
  OBVIOUS
<1>2. Least(byKey) \in byKey
  <2> HIDE DEF byKey
  <2> QED  BY <1>1, LeastProperties
<1>3. {j \in DOMAIN l : j - 1 \in KeyOf(t).index} = {}
  BY DEF KeyOf
<1>4. {j \in DOMAIN l : Key(l[j]) \in KeyOf(t).keys} = byKey
  BY DEF KeyOf
<1>5. FirstOf(Least(byKey), byKey)
  <2> HIDE DEF byKey
  <2> QED  BY <1>1 DEF FirstOf
<1>6. Finds(KeyOf(t), l, Least(byKey))
  <2> HIDE DEF byKey
  <2> QED  BY <1>3, <1>4, <1>5 DEF Finds
<1> QED
  BY <1>2, <1>6

\* What a selector that is only a key finds has that key.
LEMMA FoundHasKey ==
  ASSUME NEW l \in Seq(Targets), NEW s, s.index = {}, s.labels = {}, NEW i, Finds(s, l, i)
  PROVE  i \in DOMAIN l /\ Key(l[i]) \in s.keys
<1> DEFINE byKey == {j \in DOMAIN l : Key(l[j]) \in s.keys}
<1>1. {j \in DOMAIN l : j - 1 \in s.index} = {} /\ {j \in DOMAIN l : l[j] \in s.labels} = {}
  OBVIOUS
<1>2. byKey # {} /\ i = Least(byKey)
  BY <1>1 DEF Finds, FirstOf
<1>3. byKey \in SUBSET Nat
  OBVIOUS
<1>4. Least(byKey) \in byKey
  <2> HIDE DEF byKey
  <2> QED  BY <1>2, <1>3, LeastProperties
<1> QED
  BY <1>2, <1>4

\* Whatever a selector finds is on the list.
LEMMA FoundIsListed ==
  ASSUME NEW l \in Seq(Targets), NEW s, NEW i, Finds(s, l, i)
  PROVE  i \in DOMAIN l
<1> DEFINE byIndex == {j \in DOMAIN l : j - 1 \in s.index}
           byKey == {j \in DOMAIN l : Key(l[j]) \in s.keys}
           byLabel == {j \in DOMAIN l : l[j] \in s.labels}
<1>1. \A hits \in SUBSET DOMAIN l : FirstOf(i, hits) => i \in DOMAIN l
  <2> SUFFICES ASSUME NEW hits \in SUBSET DOMAIN l, FirstOf(i, hits)
               PROVE  i \in DOMAIN l
    OBVIOUS
  <2>1. hits \in SUBSET Nat /\ hits # {} /\ i = Least(hits)
    BY DEF FirstOf
  <2> QED  BY <2>1, LeastProperties
<1>2. FirstOf(i, byIndex) \/ FirstOf(i, byKey) \/ FirstOf(i, byLabel)
  BY DEF Finds
<1> QED
  BY <1>1, <1>2

=============================================================================
