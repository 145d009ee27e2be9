-------------------------- MODULE ObjectTableProofs --------------------------
(***************************************************************************)
(* Theorems about ObjectTable, for any finite number of threads and        *)
(* objects, any names, and a table of any capacity.                        *)
(***************************************************************************)
EXTENDS ObjectTable, FiniteSetTheorems, SequenceTheorems, TLAPS

(***************************************************************************)
(* The inductive invariant.                                                *)
(***************************************************************************)

\* What a call in progress is doing.
Places == {"idle", "locate", "find", "find2", "again", "give", "by name", "undo", "undo2",
           "keep", "keep2", "unrefer", "unrefer2", "refer", "refer2", "make", "name it",
           "answer", "drop"}
Calls == {"none", "create", "open", "refer", "refer by name"}
Handles == Slots \cup {NoHandle}
Entries == [obj : Objects \cup {NoObject}, refs : Nat]
XObjects == [ptr : Nat, handles : Seq(Slots), name : Names \cup {NoName},
             kind : Kinds \cup {NoName}, stash : Handles]
Ops == [pc : Places, call : Calls, name : Names \cup {NoName}, kind : Kinds \cup {NoName},
        handle : Handles, first : Handles, got : Handles, pins : SUBSET Objects]

TypeOK ==
  /\ table \in [Slots -> Entries]
  /\ capacity \in Nat /\ lastFree \in Nat
  /\ names \in [Names -> Handles]
  /\ object \in [Objects -> XObjects]
  /\ op \in [Threads -> Ops]
  /\ owned \in [Slots -> Nat] /\ leaked \in [Slots -> Nat]
  /\ byPointer \in [Objects -> Handles]
  /\ lost \in BOOLEAN

\* An entry is free exactly when no one holds it, and free beyond the capacity.
SlotsOK ==
  /\ capacity = 0 \/ capacity > 1
  /\ \A h \in Slots : /\ table[h].obj = NoObject <=> table[h].refs = 0
                      /\ h >= capacity => table[h].obj = NoObject

\* handles_ lists the entries of its object, each once.
ListsHandle(o, h) == \E i \in DOMAIN object[o].handles : object[o].handles[i] = h
VectorsOK ==
  \A o \in Objects :
    /\ \A h \in Slots : ListsHandle(o, h) <=> table[h].obj = o
    /\ \A i, j \in DOMAIN object[o].handles :
         object[o].handles[i] = object[o].handles[j] => i = j
    /\ object[o].ptr > 0 => object[o].stash \in Slots

\* What the locals of a call hold, by place.
Pinless == {"locate", "again", "give", "by name", "make"}
Pinning == {"find", "find2", "undo", "undo2", "keep", "keep2", "unrefer", "unrefer2",
            "refer", "refer2", "name it", "answer"}
Handless == {"locate", "find", "find2", "keep", "keep2", "refer", "refer2", "make", "drop"}
ByName == {"locate", "find", "find2", "again", "give", "by name"}
Referring == {"refer", "refer2"}
CallOK(r) ==
  /\ r.pc = "idle" => r = Idle
  /\ r.pc \in Pinless => r.pins = {}
  /\ r.pc \in Pinning => \E o \in Objects : r.pins = {o}
  /\ r.pc \in Handless => r.got = NoHandle
  /\ r.pc \in ByName => r.handle \in Slots
  /\ r.pc \in Referring => r.call = "refer"
  /\ r.pc \in {"locate", "find", "find2"} => r.call \in {"create", "open", "refer by name"}
  /\ r.call = "refer by name" => r.pc \in {"locate", "find", "find2", "by name"}
  /\ r.pc = "by name" => r.call = "refer by name"
  /\ r.pc = "name it" => r.name \in Names /\ r.got \in Slots
CallsOK == \A t \in Threads : CallOK(op[t])

\* One reference on a pointer at a time.
ReferOK ==
  /\ \A t \in Threads : op[t].pc \in Referring =>
       /\ \A o \in op[t].pins : byPointer[o] = NoHandle
       /\ \A u \in Threads \ {t} : op[u].pc \in Referring => op[t].pins \cap op[u].pins = {}
  /\ \A t \in Threads : op[t].call = "refer by name" =>
       /\ \A o \in Objects : byPointer[o] = NoHandle
       /\ \A u \in Threads \ {t} : op[u].call \notin {"refer", "refer by name"}

\* An object that is about to be named has no name, and one creator.
NamingOK ==
  \A t \in Threads : op[t].pc = "name it" =>
    /\ \A o \in op[t].pins : object[o].name = NoName
    /\ \A u \in Threads \ {t} : op[u].pc = "name it" => op[t].pins \cap op[u].pins = {}

KeptIsOurs ==
  lost \/ \A t \in Threads :
    op[t].pc \in {"name it", "answer"} /\ op[t].got # NoHandle =>
      table[op[t].got].obj \in op[t].pins

IInv == /\ TypeOK /\ SlotsOK /\ VectorsOK /\ CallsOK /\ ReferOK /\ NamingOK
        /\ PointersCounted /\ HandlesCounted /\ KeptIsOurs /\ NamesLeadHome

(***************************************************************************)
(* Counting.                                                               *)
(***************************************************************************)
EntriesOf(o) == {h \in Slots : table[h].obj = o}
PinnersOf(o) == {t \in Threads : o \in op[t].pins}
PointersVia(h) == {o \in Objects : byPointer[o] = h}
CallsHolding(h) == {t \in Threads : op[t].got = h}

\* Two subsets of a finite set that differ at most in one element.
LEMMA Recount ==
  ASSUME NEW D, IsFiniteSet(D), NEW x, NEW A \in SUBSET D, NEW B \in SUBSET D, A \ {x} = B \ {x}
  PROVE  /\ Cardinality(A) \in Nat /\ Cardinality(B) \in Nat
         /\ (x \in A <=> x \in B) => Cardinality(B) = Cardinality(A)
         /\ x \in A /\ x \notin B => Cardinality(A) = Cardinality(B) + 1
         /\ x \notin A /\ x \in B => Cardinality(B) = Cardinality(A) + 1
         /\ x \in A => Cardinality(A) > 0
         /\ Cardinality(A) = 0 => A = {}
<1>1. IsFiniteSet(A) /\ IsFiniteSet(B)
  BY FS_Subset
<1>2. Cardinality(A) \in Nat /\ Cardinality(B) \in Nat
  BY <1>1, FS_CardinalityType
<1>3. (x \in A <=> x \in B) => A = B
  OBVIOUS
<1>4. x \in A /\ x \notin B => A = B \cup {x}
  OBVIOUS
<1>5. x \notin A /\ x \in B => B = A \cup {x}
  OBVIOUS
<1>6. x \notin B => Cardinality(B \cup {x}) = Cardinality(B) + 1
  BY <1>1, FS_AddElement
<1>7. x \notin A => Cardinality(A \cup {x}) = Cardinality(A) + 1
  BY <1>1, FS_AddElement
<1>8. Cardinality(A) = 0 <=> A = {}
  BY <1>1, FS_EmptySet
<1>9. QED
  BY <1>2, <1>3, <1>4, <1>5, <1>6, <1>7, <1>8

\* There are finitely many slots.
LEMMA SlotsFinite == ASSUME TableAssumption PROVE IsFiniteSet(Slots)
<1>1. MaxCapacity \in Nat
  BY DEF TableAssumption
<1>2. 1 \in Int /\ MaxCapacity - 1 \in Int
  BY <1>1
<1>3. QED
  BY <1>2, FS_Interval DEF Slots

\* A set of naturals has a least element: the sets of elements below each of them
\* are finite, and strict inclusion of finite sets is well founded.
LEMMA LeastElement ==
  ASSUME NEW S \in SUBSET Nat, S # {}
  PROVE  \E m \in S : \A k \in S : m <= k
<1> DEFINE Upto(m) == {k \in S : k <= m}
           T == {Upto(m) : m \in S}
<1>1. T \subseteq FiniteSubsetsOf(Nat)
  <2>1. ASSUME NEW m \in S PROVE IsFiniteSet(Upto(m)) /\ Upto(m) \subseteq Nat
    <3>1. Upto(m) \in SUBSET Nat /\ m \in Nat /\ \A s \in Upto(m) : s <= m
      OBVIOUS
    <3> HIDE DEF Upto
    <3>2. QED
      BY <3>1, FS_BoundedSetOfNaturals
  <2>2. QED
    BY <2>1 DEF FiniteSubsetsOf
<1>2. T # {}
  OBVIOUS
<1>3. IsWellFoundedOn(StrictSubsetOrdering(Nat), FiniteSubsetsOf(Nat))
  BY FS_StrictSubsetOrderingWellFounded
<1>4. PICK X \in T : \A Y \in T : ~ (<<Y, X>> \in StrictSubsetOrdering(Nat))
  <2> HIDE DEF T
  <2>1. QED
    BY <1>1, <1>2, <1>3, WFMin
<1>5. PICK m \in S : X = Upto(m)
  OBVIOUS
<1>6. ASSUME NEW k \in S, ~ (m <= k) PROVE FALSE
  <2>1. Upto(k) \in T /\ Upto(k) \subseteq Upto(m) /\ m \in Upto(m) /\ m \notin Upto(k)
    <3>1. k \in Nat /\ m \in Nat /\ k < m /\ S \subseteq Nat
      BY <1>6
    <3>2. Upto(k) \in T
      OBVIOUS
    <3>3. m \in Upto(m) /\ m \notin Upto(k)
      BY <3>1
    <3>5. ASSUME NEW j \in Upto(k) PROVE j \in Upto(m)
      BY <3>1
    <3>4. QED
      BY <3>2, <3>3, <3>5
  <2>2. Upto(k) \in SUBSET Nat /\ Upto(m) \in SUBSET Nat
    OBVIOUS
  <2>3. <<Upto(k), Upto(m)>> \in StrictSubsetOrdering(Nat)
    <3> HIDE DEF Upto
    <3>1. QED
      BY <2>1, <2>2 DEF StrictSubsetOrdering
  <2>4. QED
    BY <2>1, <2>3, <1>4, <1>5
<1>7. QED
  BY <1>6

(***************************************************************************)
(* The operators of the table.                                             *)
(***************************************************************************)
\* The scan order is a natural number.
LEMMA Remainder ==
  ASSUME NEW a \in Int, NEW n \in Nat, n > 0 PROVE a % n \in Nat
OBVIOUS

\* FindFreeSlot's scan stops at a free slot if there is one.
LEMMA ScanFinds ==
  ASSUME TableAssumption, TypeOK, FreeSlots # {}
  PROVE  NewSlot \in FreeSlots
<1>1. capacity \in Nat /\ lastFree \in Nat /\ FreeSlots \subseteq Nat
  BY DEF TypeOK, FreeSlots, Slots
<1>2. capacity - 1 \in Nat /\ capacity - 1 > 0
  BY <1>1 DEF FreeSlots, Slots
<1>3. ASSUME NEW h \in FreeSlots PROVE ScanOrder(h) \in Nat
  <2>1. h + capacity - 1 - lastFree \in Int
    BY <1>1
  <2>2. QED
    BY <2>1, <1>2, Remainder DEF ScanOrder
<1> DEFINE S == {ScanOrder(h) : h \in FreeSlots}
<1>4. S \in SUBSET Nat /\ S # {}
  BY <1>3
<1>5. PICK m \in S : \A k \in S : m <= k
  <2> HIDE DEF S
  <2>1. QED
    BY <1>4, LeastElement
<1>6. \E h \in FreeSlots : \A g \in FreeSlots : ScanOrder(h) <= ScanOrder(g)
  <2>1. PICK h \in FreeSlots : m = ScanOrder(h)
    OBVIOUS
  <2>2. \A g \in FreeSlots : ScanOrder(g) \in S
    OBVIOUS
  <2>3. QED
    BY <2>1, <2>2, <1>5
<1>7. QED
  BY <1>6 DEF NewSlot

\* The slot of a new entry is free and below the capacity, grown if need be.
LEMMA NewSlotIsFree ==
  ASSUME TableAssumption, TypeOK, SlotsOK, NEW h, FindFreeSlot(h)
  PROVE  /\ h \in Slots /\ table[h].obj = NoObject /\ table[h].refs = 0
         /\ capacity' \in Nat /\ lastFree' \in Nat
         /\ capacity' > 1 /\ h < capacity' /\ capacity <= capacity'
<1>1. capacity \in Nat /\ lastFree \in Nat /\ FirstCapacity \in Nat /\ FirstCapacity > 1
      /\ MaxCapacity \in Nat /\ h = NewSlot
  BY DEF TypeOK, TableAssumption, FindFreeSlot
<1>2. CASE FreeSlots # {}
  <2>1. h \in Slots /\ h < capacity /\ table[h].obj = NoObject
    BY <1>1, <1>2, ScanFinds DEF FreeSlots, Free
  <2>2. capacity' = capacity /\ lastFree' = lastFree
    BY <1>2 DEF FindFreeSlot, room
  <2>3. h \in Nat /\ h > 0
    BY <2>1 DEF Slots
  <2>4. QED
    BY <1>1, <2>1, <2>2, <2>3 DEF SlotsOK
<1>3. CASE FreeSlots = {}
  <2>1. h = capacity + 1 /\ NextCapacity <= MaxCapacity
        /\ capacity' = NextCapacity /\ lastFree' = capacity + 1
    BY <1>1, <1>3 DEF FindFreeSlot, NewSlot, CanGrow
  <2>2. NextCapacity \in Nat /\ NextCapacity > capacity + 1
    BY <1>1 DEF NextCapacity, SlotsOK
  <2>3. h \in Slots /\ h >= capacity
    BY <1>1, <2>1, <2>2 DEF Slots
  <2>4. QED
    BY <1>1, <2>1, <2>2, <2>3 DEF SlotsOK
<1>4. QED
  BY <1>2, <1>3

\* What finding and erasing an entry of a vector leaves, and what appending adds.
Lists(hs, h) == \E i \in DOMAIN hs : hs[i] = h
Distinct(hs) == \A i, j \in DOMAIN hs : hs[i] = hs[j] => i = j

\* Erasing an entry leaves the others, each still once.
LEMMA ErasedIsGone ==
  ASSUME NEW hs \in Seq(Slots), NEW h, Distinct(hs)
  PROVE  /\ Erased(hs, h) \in Seq(Slots)
         /\ Distinct(Erased(hs, h))
         /\ \A k \in Slots : Lists(Erased(hs, h), k) <=> k # h /\ Lists(hs, k)
<1>1. CASE ~ \E i \in DOMAIN hs : hs[i] = h
  BY <1>1 DEF Erased, Lists
<1>2. CASE \E i \in DOMAIN hs : hs[i] = h
  <2> DEFINE p == CHOOSE i \in DOMAIN hs : hs[i] = h
             e == SubSeq(hs, 1, p - 1) \o SubSeq(hs, p + 1, Len(hs))
  <2>1. Erased(hs, h) = e
    BY <1>2 DEF Erased, RemoveAt
  <2>2. p \in 1 .. Len(hs) /\ hs[p] = h /\ Len(hs) \in Nat /\ DOMAIN hs = 1 .. Len(hs)
    BY <1>2
  <2> HIDE DEF p
  <2> DEFINE n == Len(hs)
             s1 == SubSeq(hs, 1, p - 1)
             s2 == SubSeq(hs, p + 1, n)
  <2>3. s1 \in Seq(Slots) /\ Len(s1) = p - 1 /\ \A i \in 1 .. p - 1 : s1[i] = hs[i]
    BY <2>2
  <2>4. s2 \in Seq(Slots) /\ Len(s2) = n - p /\ \A i \in 1 .. n - p : s2[i] = hs[i + p]
    <3>1. p + 1 \in Int /\ n \in Int /\ \A i \in p + 1 .. n : hs[i] \in Slots
      BY <2>2
    <3>2. /\ s2 \in Seq(Slots) /\ Len(s2) = IF p + 1 <= n THEN n - (p + 1) + 1 ELSE 0
          /\ \A i \in 1 .. n - (p + 1) + 1 : s2[i] = hs[(p + 1) + i - 1]
      BY <3>1, SubSeqProperties
    <3> HIDE DEF s2
    <3>3. Len(s2) = n - p
      <4>1. p \in Nat /\ n \in Nat /\ p <= n
        BY <2>2
      <4>2. Len(s2) = IF p + 1 <= n THEN n - (p + 1) + 1 ELSE 0
        BY <3>2
      <4> HIDE DEF n
      <4>3. QED
        BY <4>1, <4>2
    <3>4. ASSUME NEW i \in 1 .. n - p PROVE s2[i] = hs[i + p]
      <4>1. i \in 1 .. n - (p + 1) + 1 /\ (p + 1) + i - 1 = i + p
        BY <2>2
      <4>2. QED
        BY <4>1, <3>2
    <3>5. QED
      BY <3>2, <3>3, <3>4
  <2>5. /\ e \in Seq(Slots) /\ Len(e) = n - 1
        /\ \A i \in 1 .. n - 1 : e[i] = IF i < p THEN hs[i] ELSE hs[i + 1]
    <3> HIDE DEF s1, s2
    <3>1. e = s1 \o s2
      BY DEF s1, s2
    <3>2. /\ s1 \o s2 \in Seq(Slots) /\ Len(s1 \o s2) = Len(s1) + Len(s2)
          /\ \A i \in 1 .. Len(s1) + Len(s2) :
               (s1 \o s2)[i] = IF i <= Len(s1) THEN s1[i] ELSE s2[i - Len(s1)]
      BY <2>3, <2>4, ConcatProperties
    <3> HIDE DEF e
    <3>3. Len(s1) + Len(s2) = n - 1 /\ n \in Nat /\ p \in Nat
      BY <2>2, <2>3, <2>4
    <3>4. ASSUME NEW i \in 1 .. n - 1 PROVE e[i] = IF i < p THEN hs[i] ELSE hs[i + 1]
      <4>1. e[i] = IF i <= p - 1 THEN s1[i] ELSE s2[i - (p - 1)]
        BY <3>1, <3>2, <3>3, <2>3
      <4>2. CASE i < p
        <5>1. i <= p - 1 /\ i \in 1 .. p - 1
          BY <4>2, <3>3
        <5>2. QED
          BY <5>1, <4>1, <4>2, <2>3
      <4>3. CASE ~ (i < p)
        <5>1. ~ (i <= p - 1) /\ i - (p - 1) \in 1 .. n - p /\ (i - (p - 1)) + p = i + 1
          BY <4>3, <3>3
        <5>2. QED
          BY <5>1, <4>1, <4>3, <2>4
      <4>4. QED
        BY <4>2, <4>3
    <3>5. QED
      BY <3>1, <3>2, <3>3, <3>4
  <2> HIDE DEF e, s1, s2
  <2>6. DOMAIN e = 1 .. n - 1
    BY <2>5
  <2>7. Distinct(e)
    <3> SUFFICES ASSUME NEW i \in 1 .. n - 1, NEW j \in 1 .. n - 1, e[i] = e[j] PROVE i = j
      BY <2>6 DEF Distinct
    <3> DEFINE f(k) == IF k < p THEN k ELSE k + 1
    <3>1. f(i) \in DOMAIN hs /\ f(j) \in DOMAIN hs /\ e[i] = hs[f(i)] /\ e[j] = hs[f(j)]
      BY <2>2, <2>5
    <3>2. f(i) = f(j)
      <4> HIDE DEF f
      <4>1. QED
        BY <3>1 DEF Distinct
    <3>3. QED
      BY <3>2, <2>2
  <2>8. ASSUME NEW k \in Slots, Lists(e, k) PROVE k # h /\ Lists(hs, k)
    <3>1. PICK i \in 1 .. n - 1 : e[i] = k
      BY <2>6, <2>8 DEF Lists
    <3> DEFINE m == IF i < p THEN i ELSE i + 1
    <3>2. m \in DOMAIN hs /\ m # p /\ hs[m] = k
      BY <2>2, <2>5, <3>1
    <3> HIDE DEF m
    <3>3. QED
      BY <2>2, <3>2 DEF Lists, Distinct
  <2>9. ASSUME NEW k \in Slots, k # h, Lists(hs, k) PROVE Lists(e, k)
    <3>1. PICK i \in 1 .. n : hs[i] = k
      BY <2>2, <2>9 DEF Lists
    <3> DEFINE m == IF i < p THEN i ELSE i - 1
    <3>2. m \in DOMAIN e /\ e[m] = k
      BY <2>2, <2>5, <2>6, <2>9, <3>1
    <3> HIDE DEF m
    <3>3. QED
      BY <3>2 DEF Lists
  <2>10. QED
    BY <2>1, <2>5, <2>7, <2>8, <2>9
<1>3. QED
  BY <1>1, <1>2

\* Appending an entry that was not listed adds it, once.
LEMMA AppendedIsLast ==
  ASSUME NEW hs \in Seq(Slots), NEW h \in Slots, Distinct(hs), ~ Lists(hs, h)
  PROVE  /\ Append(hs, h) \in Seq(Slots)
         /\ Distinct(Append(hs, h))
         /\ \A k \in Slots : Lists(Append(hs, h), k) <=> k = h \/ Lists(hs, k)
<1> DEFINE e == Append(hs, h)
           n == Len(hs)
<1>1. n \in Nat /\ DOMAIN hs = 1 .. n
  OBVIOUS
<1>2. e \in Seq(Slots) /\ Len(e) = n + 1 /\ e[n + 1] = h /\ \A i \in 1 .. n : e[i] = hs[i]
  BY <1>1
<1>3. DOMAIN e = 1 .. n + 1
  BY <1>2
<1> HIDE DEF e, n
<1>4. Distinct(e)
  BY <1>1, <1>2, <1>3 DEF Distinct, Lists
<1>5. ASSUME NEW k \in Slots PROVE Lists(e, k) <=> k = h \/ Lists(hs, k)
  <2>1. \A i \in 1 .. n + 1 : i \in 1 .. n \/ i = n + 1
    BY <1>1
  <2>2. \A i \in 1 .. n : i \in 1 .. n + 1
    BY <1>1
  <2>3. n + 1 \in 1 .. n + 1
    BY <1>1
  <2>4. Lists(e, k) => k = h \/ Lists(hs, k)
    BY <1>1, <1>2, <1>3, <2>1 DEF Lists
  <2>5. k = h \/ Lists(hs, k) => Lists(e, k)
    BY <1>1, <1>2, <1>3, <2>2, <2>3 DEF Lists
  <2>6. QED
    BY <2>4, <2>5
<1>6. QED
  BY <1>2, <1>4, <1>5 DEF e

(***************************************************************************)
(* Counts before and after a step of thread t.                             *)
(***************************************************************************)
\* A step of t.
OnlyThread(t) == \A u \in Threads \ {t} : op'[u] = op[u]

\* How many calls pin o.
LEMMA PinsRecount ==
  ASSUME TableAssumption, NEW t \in Threads, OnlyThread(t), NEW o
  PROVE  /\ Cardinality(PinnersOf(o)) \in Nat /\ Cardinality(PinnersOf(o)') \in Nat
         /\ (o \in op[t].pins <=> o \in op'[t].pins) =>
              Cardinality(PinnersOf(o)') = Cardinality(PinnersOf(o))
         /\ o \in op[t].pins /\ o \notin op'[t].pins =>
              Cardinality(PinnersOf(o)) = Cardinality(PinnersOf(o)') + 1
         /\ o \notin op[t].pins /\ o \in op'[t].pins =>
              Cardinality(PinnersOf(o)') = Cardinality(PinnersOf(o)) + 1
         /\ o \in op[t].pins => Cardinality(PinnersOf(o)) > 0
<1> DEFINE A == PinnersOf(o)
           B == PinnersOf(o)'
<1>1. IsFiniteSet(Threads) /\ A \in SUBSET Threads /\ B \in SUBSET Threads
  BY DEF TableAssumption, PinnersOf
<1>2. A \ {t} = B \ {t}
  BY DEF PinnersOf, OnlyThread
<1>3. (t \in A <=> o \in op[t].pins) /\ (t \in B <=> o \in op'[t].pins)
  BY DEF PinnersOf
<1> HIDE DEF A, B
<1>4. QED
  BY <1>1, <1>2, <1>3, Recount DEF A, B

\* How many calls hold a reference on h.
LEMMA HoldingRecount ==
  ASSUME TableAssumption, NEW t \in Threads, OnlyThread(t), NEW h
  PROVE  /\ Cardinality(CallsHolding(h)) \in Nat /\ Cardinality(CallsHolding(h)') \in Nat
         /\ (op[t].got = h <=> op'[t].got = h) =>
              Cardinality(CallsHolding(h)') = Cardinality(CallsHolding(h))
         /\ op[t].got = h /\ op'[t].got # h =>
              Cardinality(CallsHolding(h)) = Cardinality(CallsHolding(h)') + 1
         /\ op[t].got # h /\ op'[t].got = h =>
              Cardinality(CallsHolding(h)') = Cardinality(CallsHolding(h)) + 1
<1> DEFINE A == CallsHolding(h)
           B == CallsHolding(h)'
<1>1. IsFiniteSet(Threads) /\ A \in SUBSET Threads /\ B \in SUBSET Threads
  BY DEF TableAssumption, CallsHolding
<1>2. A \ {t} = B \ {t}
  BY DEF CallsHolding, OnlyThread
<1>3. (t \in A <=> op[t].got = h) /\ (t \in B <=> op'[t].got = h)
  BY DEF CallsHolding
<1> HIDE DEF A, B
<1>4. QED
  BY <1>1, <1>2, <1>3, Recount DEF A, B

\* How many referenced pointers are kept by h, when only o's may change.
LEMMA PointersRecount ==
  ASSUME TableAssumption, NEW o \in Objects,
         \A p \in Objects \ {o} : byPointer'[p] = byPointer[p], NEW h
  PROVE  /\ Cardinality(PointersVia(h)) \in Nat /\ Cardinality(PointersVia(h)') \in Nat
         /\ (byPointer[o] = h <=> byPointer'[o] = h) =>
              Cardinality(PointersVia(h)') = Cardinality(PointersVia(h))
         /\ byPointer[o] = h /\ byPointer'[o] # h =>
              Cardinality(PointersVia(h)) = Cardinality(PointersVia(h)') + 1
         /\ byPointer[o] # h /\ byPointer'[o] = h =>
              Cardinality(PointersVia(h)') = Cardinality(PointersVia(h)) + 1
<1> DEFINE A == PointersVia(h)
           B == PointersVia(h)'
<1>1. IsFiniteSet(Objects) /\ A \in SUBSET Objects /\ B \in SUBSET Objects
  BY DEF TableAssumption, PointersVia
<1>2. A \ {o} = B \ {o}
  BY DEF PointersVia
<1>3. (o \in A <=> byPointer[o] = h) /\ (o \in B <=> byPointer'[o] = h)
  BY DEF PointersVia
<1> HIDE DEF A, B
<1>4. QED
  BY <1>1, <1>2, <1>3, Recount DEF A, B

\* How many entries o has, when only h may change its object.
LEMMA EntriesRecount ==
  ASSUME TableAssumption, NEW h \in Slots,
         \A g \in Slots \ {h} : table'[g].obj = table[g].obj, NEW o
  PROVE  /\ Cardinality(EntriesOf(o)) \in Nat /\ Cardinality(EntriesOf(o)') \in Nat
         /\ (table[h].obj = o <=> table'[h].obj = o) =>
              Cardinality(EntriesOf(o)') = Cardinality(EntriesOf(o))
         /\ table[h].obj = o /\ table'[h].obj # o =>
              Cardinality(EntriesOf(o)) = Cardinality(EntriesOf(o)') + 1
         /\ table[h].obj # o /\ table'[h].obj = o =>
              Cardinality(EntriesOf(o)') = Cardinality(EntriesOf(o)) + 1
         /\ table[h].obj = o => Cardinality(EntriesOf(o)) > 0
<1> DEFINE A == EntriesOf(o)
           B == EntriesOf(o)'
<1>1. IsFiniteSet(Slots) /\ A \in SUBSET Slots /\ B \in SUBSET Slots
  BY SlotsFinite DEF EntriesOf
<1>2. A \ {h} = B \ {h}
  BY DEF EntriesOf
<1>3. (h \in A <=> table[h].obj = o) /\ (h \in B <=> table'[h].obj = o)
  BY DEF EntriesOf
<1> HIDE DEF A, B
<1>4. QED
  BY <1>1, <1>2, <1>3, Recount DEF A, B

\* An object has no entries exactly when its count of them is zero.
LEMMA EntriesCount ==
  ASSUME TableAssumption, NEW o
  PROVE  /\ Cardinality(EntriesOf(o)) \in Nat
         /\ Cardinality(EntriesOf(o)) = 0 => \A h \in Slots : table[h].obj # o
         /\ (\E h \in Slots : table[h].obj = o) => Cardinality(EntriesOf(o)) > 0
<1> DEFINE A == EntriesOf(o)
<1>1. IsFiniteSet(Slots) /\ A \in SUBSET Slots
  BY SlotsFinite DEF EntriesOf
<1>2. IsFiniteSet(A)
  BY <1>1, FS_Subset
<1>3. Cardinality(A) \in Nat /\ (Cardinality(A) = 0 <=> A = {})
  BY <1>2, FS_CardinalityType, FS_EmptySet
<1>4. QED
  BY <1>3 DEF EntriesOf

\* The count of referenced pointers is a number.
LEMMA PointersCount ==
  ASSUME TableAssumption, NEW h
  PROVE  Cardinality(PointersVia(h)) \in Nat
<1>1. IsFiniteSet(Objects) /\ PointersVia(h) \in SUBSET Objects
  BY DEF TableAssumption, PointersVia
<1>2. QED
  BY <1>1, FS_Subset, FS_CardinalityType

\* The counting invariants in these terms.
LEMMA PointersInTerms ==
  PointersCounted <=>
    \A o \in Objects : object[o].ptr = Cardinality(EntriesOf(o)) + Cardinality(PinnersOf(o))
BY DEF PointersCounted, EntriesOf, PinnersOf

\* The same for the counts of the entries.
LEMMA HandlesInTerms ==
  HandlesCounted <=>
    lost \/ \A h \in Slots : table[h].refs = owned[h] + leaked[h]
              + Cardinality(PointersVia(h)) + Cardinality(CallsHolding(h))
BY DEF HandlesCounted, PointersVia, CallsHolding

\* PointersCounted in the next state.
LEMMA PointersInTermsNext ==
  PointersCounted' <=>
    \A o \in Objects : object'[o].ptr = Cardinality(EntriesOf(o)') + Cardinality(PinnersOf(o)')
BY DEF PointersCounted, EntriesOf, PinnersOf

\* HandlesCounted in the next state.
LEMMA HandlesInTermsNext ==
  HandlesCounted' <=>
    lost' \/ \A h \in Slots : table'[h].refs = owned'[h] + leaked'[h]
              + Cardinality(PointersVia(h)') + Cardinality(CallsHolding(h)')
BY DEF HandlesCounted, PointersVia, CallsHolding

\* An entry keeps its object alive, a pin does too.
LEMMA EntryLives ==
  ASSUME TableAssumption, TypeOK, PointersCounted, NEW h \in Slots, NEW o \in Objects,
         table[h].obj = o
  PROVE  object[o].ptr \in Nat /\ object[o].ptr > 0
<1>1. Cardinality(EntriesOf(o)) \in Nat /\ Cardinality(EntriesOf(o)) > 0
  BY EntriesCount
<1>2. IsFiniteSet(Threads) /\ PinnersOf(o) \in SUBSET Threads
  BY DEF TableAssumption, PinnersOf
<1>3. Cardinality(PinnersOf(o)) \in Nat
  BY <1>2, FS_Subset, FS_CardinalityType
<1>4. QED
  BY <1>1, <1>3, PointersInTerms

\* A pin keeps its object alive, and is its last pointer only if no entry is left.
LEMMA PinLives ==
  ASSUME TableAssumption, TypeOK, PointersCounted, NEW t \in Threads, NEW o \in op[t].pins
  PROVE  /\ object[o].ptr \in Nat /\ object[o].ptr > 0
         /\ object[o].ptr = 1 => \A h \in Slots : table[h].obj # o
<1>1. o \in Objects
  BY DEF TypeOK, Ops
<1>2. IsFiniteSet(Threads) /\ PinnersOf(o) \in SUBSET Threads /\ t \in PinnersOf(o)
  BY DEF TableAssumption, PinnersOf
<1>3. Cardinality(PinnersOf(o)) \in Nat /\ Cardinality(PinnersOf(o)) > 0
  <2>1. IsFiniteSet(PinnersOf(o))
    BY <1>2, FS_Subset
  <2>2. Cardinality(PinnersOf(o)) \in Nat /\ Cardinality(PinnersOf(o)) # 0
    BY <1>2, <2>1, FS_CardinalityType, FS_EmptySet
  <2>3. QED
    BY <2>2
<1>4. Cardinality(EntriesOf(o)) \in Nat
      /\ (Cardinality(EntriesOf(o)) = 0 => \A h \in Slots : table[h].obj # o)
  BY EntriesCount
<1>5. object[o].ptr = Cardinality(EntriesOf(o)) + Cardinality(PinnersOf(o))
  BY <1>1, PointersInTerms
<1>6. QED
  BY <1>3, <1>4, <1>5

(***************************************************************************)
(* What a step does to the objects: nothing, pin, let go, remove, add.     *)
(***************************************************************************)
\* Every entry leads to the object it led to.
SameEntries == \A h \in Slots : table'[h].obj = table[h].obj
VectorsAre(o) ==
  /\ \A h \in Slots : Lists(object[o].handles, h) <=> table[h].obj = o
  /\ Distinct(object[o].handles)
  /\ object[o].ptr > 0 => object[o].stash \in Slots

\* VectorsOK, object by object.
LEMMA VectorsInTerms == VectorsOK <=> \A o \in Objects : VectorsAre(o)
BY DEF VectorsOK, VectorsAre, Lists, Distinct, ListsHandle

\* VectorsOK in the next state, object by object.
LEMMA VectorsInTermsNext == VectorsOK' <=> \A o \in Objects : VectorsAre(o)'
BY DEF VectorsOK, VectorsAre, Lists, Distinct, ListsHandle

\* Entries that stay are counted the same.
LEMMA SameEntriesCount ==
  ASSUME SameEntries, NEW o PROVE EntriesOf(o)' = EntriesOf(o)
BY DEF SameEntries, EntriesOf

\* A step that leaves the objects, the entries and the pins alone.
LEMMA ObjectsStay ==
  ASSUME TableAssumption, PointersCounted, VectorsOK, NEW t \in Threads, OnlyThread(t),
         op'[t].pins = op[t].pins, SameEntries, UNCHANGED object
  PROVE  PointersCounted' /\ VectorsOK'
<1>1. ASSUME NEW o \in Objects
      PROVE  object'[o].ptr = Cardinality(EntriesOf(o)') + Cardinality(PinnersOf(o)')
  BY PinsRecount, SameEntriesCount, PointersInTerms
<1>2. VectorsOK'
  BY DEF VectorsOK, ListsHandle, SameEntries
<1>3. QED
  BY <1>1, <1>2, PointersInTermsNext

\* What Retain changes in an object.
LEMMA PinnedIs ==
  ASSUME NEW x \in XObjects
  PROVE  /\ Pinned(x) \in XObjects /\ Pinned(x).ptr = x.ptr + 1
         /\ Pinned(x).handles = x.handles /\ Pinned(x).stash = x.stash
         /\ Pinned(x).name = x.name
BY DEF Pinned, XObjects

\* A call pins objects that have entries.
LEMMA ObjectsPinned ==
  ASSUME TableAssumption, TypeOK, PointersCounted, VectorsOK, NEW t \in Threads, OnlyThread(t),
         NEW P \in SUBSET Objects, op[t].pins = {}, op'[t].pins = P,
         \A o \in P : \E h \in Slots : table[h].obj = o,
         SameEntries, object' = Retained(P)
  PROVE  /\ PointersCounted' /\ VectorsOK' /\ object' \in [Objects -> XObjects]
         /\ \A o \in Objects : object'[o].name = object[o].name
<1>1. object' = [o \in Objects |-> IF o \in P THEN Pinned(object[o]) ELSE object[o]]
  BY DEF Retained
<1>2. object \in [Objects -> XObjects]
  BY DEF TypeOK
<1>3. ASSUME NEW o \in Objects
      PROVE  /\ object'[o] \in XObjects
             /\ object'[o].ptr = IF o \in P THEN object[o].ptr + 1 ELSE object[o].ptr
             /\ object'[o].handles = object[o].handles /\ object'[o].stash = object[o].stash
             /\ object'[o].name = object[o].name /\ object[o].ptr \in Nat
  <2>1. object[o] \in XObjects /\ object[o].ptr \in Nat
    BY <1>2 DEF XObjects
  <2>2. object'[o] = IF o \in P THEN Pinned(object[o]) ELSE object[o]
    BY <1>1
  <2>3. QED
    BY <2>1, <2>2, PinnedIs
<1>4. ASSUME NEW o \in P PROVE object[o].ptr > 0
  BY <1>4, EntryLives
<1>5. ASSUME NEW o \in Objects
      PROVE  object'[o].ptr = Cardinality(EntriesOf(o)') + Cardinality(PinnersOf(o)')
  <2>1. object[o].ptr = Cardinality(EntriesOf(o)) + Cardinality(PinnersOf(o))
    BY PointersInTerms
  <2>2. Cardinality(EntriesOf(o)) \in Nat /\ EntriesOf(o)' = EntriesOf(o)
    BY EntriesCount, SameEntriesCount
  <2>3. /\ Cardinality(PinnersOf(o)) \in Nat
        /\ Cardinality(PinnersOf(o)') = IF o \in P THEN Cardinality(PinnersOf(o)) + 1
                                        ELSE Cardinality(PinnersOf(o))
    BY PinsRecount
  <2>4. QED
    BY <1>3, <2>1, <2>2, <2>3
<1>6. ASSUME NEW o \in Objects PROVE VectorsAre(o)'
  BY <1>3, <1>4, VectorsInTerms DEF VectorsAre, SameEntries, Lists, Distinct
<1>7. QED
  BY <1>1, <1>3, <1>5, <1>6, PointersInTermsNext, VectorsInTermsNext

\* What Release changes in an object: its count, or all of it with the last.
LEMMA DroppedIs ==
  ASSUME NEW x \in XObjects, x.ptr > 0
  PROVE  /\ Dropped(x) \in XObjects /\ Dropped(x).ptr = x.ptr - 1
         /\ x.ptr = 1 => Dropped(x) = Dead
         /\ x.ptr # 1 => /\ Dropped(x).handles = x.handles /\ Dropped(x).name = x.name
                         /\ Dropped(x).stash = x.stash
<1>1. Dead \in XObjects /\ Dead.ptr = 0
  BY DEF Dead, XObjects, Handles
<1>2. CASE x.ptr = 1
  BY <1>1, <1>2 DEF Dropped
<1>3. CASE x.ptr # 1
  BY <1>3 DEF Dropped, XObjects
<1>4. QED
  BY <1>2, <1>3

\* An object that is not there has no count, no name and no handles.
LEMMA DeadIs ==
  /\ Dead.ptr = 0 /\ Dead.name = NoName /\ Dead.handles = <<>>
  /\ \A h : ~ Lists(<<>>, h)
  /\ Distinct(<<>>)
BY DEF Dead, Lists, Distinct

\* A call drops its pins: an object dies only if no entry leads to it, so no
\* entry's object loses its name.
LEMMA ObjectsReleased ==
  ASSUME TableAssumption, TypeOK, PointersCounted, VectorsOK, NEW t \in Threads, OnlyThread(t),
         op'[t].pins = {}, SameEntries, object' = Released(op[t].pins)
  PROVE  /\ PointersCounted' /\ VectorsOK' /\ object' \in [Objects -> XObjects]
         /\ \A o \in Objects : object'[o].name \in {object[o].name, NoName}
         /\ \A h \in Slots : table[h].obj # NoObject =>
              object'[table[h].obj].name = object[table[h].obj].name
<1> DEFINE P == op[t].pins
<1>1. P \in SUBSET Objects /\ object \in [Objects -> XObjects] /\ table \in [Slots -> Entries]
  BY DEF TypeOK, Ops
<1>2. ASSUME NEW o \in P
      PROVE  /\ object'[o] = Dropped(object[o]) /\ object[o].ptr \in Nat /\ object[o].ptr > 0
             /\ object[o].ptr = 1 => \A h \in Slots : table[h].obj # o
  BY <1>1, PinLives DEF Released
<1>3. ASSUME NEW o \in Objects, o \notin P PROVE object'[o] = object[o]
  BY <1>3 DEF Released
<1>4. ASSUME NEW o \in Objects
      PROVE  /\ object'[o] \in XObjects /\ object[o].ptr \in Nat
             /\ object'[o].ptr = IF o \in P THEN object[o].ptr - 1 ELSE object[o].ptr
  BY <1>1, <1>2, <1>3, DroppedIs DEF XObjects
<1>5. ASSUME NEW o \in Objects
      PROVE  object'[o].ptr = Cardinality(EntriesOf(o)') + Cardinality(PinnersOf(o)')
  <2>1. object[o].ptr = Cardinality(EntriesOf(o)) + Cardinality(PinnersOf(o))
    BY PointersInTerms
  <2>2. Cardinality(EntriesOf(o)) \in Nat /\ EntriesOf(o)' = EntriesOf(o)
    BY EntriesCount, SameEntriesCount
  <2>3. /\ Cardinality(PinnersOf(o)') \in Nat
        /\ Cardinality(PinnersOf(o)) = IF o \in P THEN Cardinality(PinnersOf(o)') + 1
                                       ELSE Cardinality(PinnersOf(o)')
    BY PinsRecount
  <2>4. QED
    BY <1>4, <2>1, <2>2, <2>3
<1>6. ASSUME NEW o \in Objects PROVE VectorsAre(o)'
  <2>1. VectorsAre(o)
    BY VectorsInTerms
  <2>2. CASE o \notin P
    BY <1>3, <2>1, <2>2 DEF VectorsAre, SameEntries, Lists, Distinct
  <2>3. CASE o \in P /\ object[o].ptr = 1
    <3>1. object'[o] = Dead /\ \A h \in Slots : table'[h].obj # o
      BY <1>1, <1>2, <2>3, DroppedIs DEF SameEntries
    <3>2. QED
      BY <3>1, DeadIs DEF VectorsAre, Lists, Distinct
  <2>4. CASE o \in P /\ object[o].ptr # 1
    <3>1. /\ object'[o].handles = object[o].handles /\ object'[o].stash = object[o].stash
          /\ object[o].ptr > 0
      BY <1>1, <1>2, <2>4, DroppedIs
    <3>2. QED
      BY <2>1, <3>1 DEF VectorsAre, SameEntries, Lists, Distinct
  <2>5. QED
    BY <2>2, <2>3, <2>4
<1>7. object' = [o \in Objects |-> object'[o]]
  BY DEF Released
<1>8. ASSUME NEW o \in Objects PROVE object'[o].name \in {object[o].name, NoName}
  BY <1>1, <1>2, <1>3, DroppedIs, DeadIs
<1>9. ASSUME NEW h \in Slots, table[h].obj # NoObject
      PROVE  object'[table[h].obj].name = object[table[h].obj].name
  <2>1. table[h].obj \in Objects
    BY <1>1, <1>9 DEF Entries
  <2>2. QED
    BY <1>1, <1>2, <1>3, <2>1, DroppedIs
<1>10. QED
  BY <1>4, <1>5, <1>6, <1>7, <1>8, <1>9, PointersInTermsNext, VectorsInTermsNext

\* A name that still leads somewhere leads where it did.
LEMMA NamesStay ==
  ASSUME TypeOK, NamesLeadHome, lost => lost',
         \A n \in Names : names'[n] \in {names[n], NoHandle},
         \A n \in Names, h \in Slots :
           names'[n] = h /\ table[h].obj # NoObject /\ object[table[h].obj].name = n =>
             /\ table'[h].obj = table[h].obj
             /\ object'[table[h].obj].name = object[table[h].obj].name
  PROVE  NamesLeadHome'
<1> SUFFICES ASSUME ~ lost', NEW n \in Names, names'[n] # NoHandle
             PROVE  table'[names'[n]].obj # NoObject /\ object'[table'[names'[n]].obj].name = n
  BY DEF NamesLeadHome
<1>1. names'[n] = names[n] /\ names[n] \in Slots
  BY DEF TypeOK, Handles
<1>2. table[names[n]].obj # NoObject /\ object[table[names[n]].obj].name = n
  BY <1>1 DEF NamesLeadHome
<1>3. QED
  BY <1>1, <1>2

\* RemoveHandle takes the entry, its place in handles_, the pointer and the name
\* away together.
LEMMA HandleRemoved ==
  ASSUME TableAssumption, TypeOK, PointersCounted, VectorsOK, NEW t \in Threads, OnlyThread(t),
         op'[t].pins = op[t].pins, NEW h \in Slots, table[h].obj # NoObject, RemoveHandle(h)
  PROVE  /\ PointersCounted' /\ VectorsOK' /\ object' \in [Objects -> XObjects]
         /\ names' \in [Names -> Handles] /\ table' = [table EXCEPT ![h] = FreeEntry]
         /\ \A o \in Objects : object'[o].name \in {object[o].name, NoName}
         /\ NamesLeadHome /\ (lost => lost') => NamesLeadHome'
<1>0. PICK o \in Objects : table[h].obj = o
  BY DEF TypeOK, Entries
<1> DEFINE x == object[o]
           y == [x EXCEPT !.handles = Erased(@, h)]
<1>1. table \in [Slots -> Entries] /\ object \in [Objects -> XObjects] /\ table[h].obj = o
      /\ names \in [Names -> Handles]
  BY <1>0 DEF TypeOK
<1>2. x \in XObjects /\ x.ptr \in Nat /\ x.ptr > 0 /\ x.handles \in Seq(Slots)
  BY <1>1, EntryLives DEF XObjects
<1>3. /\ table' = [table EXCEPT ![h] = FreeEntry]
      /\ names' = IF x.name = NoName THEN names ELSE [names EXCEPT ![x.name] = NoHandle]
      /\ object' = [object EXCEPT ![o] = Dropped(y)]
  BY <1>0 DEF RemoveHandle
<1>4. VectorsAre(o)
  BY <1>1, VectorsInTerms
<1>5. /\ Erased(x.handles, h) \in Seq(Slots) /\ Distinct(Erased(x.handles, h))
      /\ \A k \in Slots : Lists(Erased(x.handles, h), k) <=> k # h /\ Lists(x.handles, k)
  BY <1>2, <1>4, ErasedIsGone DEF VectorsAre
<1>6. /\ y \in XObjects /\ y.handles = Erased(x.handles, h) /\ y.ptr = x.ptr
      /\ y.name = x.name /\ y.stash = x.stash
  BY <1>2, <1>5 DEF XObjects
<1> HIDE DEF y
<1>7. object'[o] = Dropped(y) /\ Dropped(y) \in XObjects /\ Dropped(y).ptr = x.ptr - 1
  BY <1>1, <1>2, <1>3, <1>6, DroppedIs
<1>8. object' \in [Objects -> XObjects] /\ \A p \in Objects \ {o} : object'[p] = object[p]
  BY <1>1, <1>3, <1>7
<1>9. /\ \A g \in Slots \ {h} : table'[g] = table[g]
      /\ table'[h].obj = NoObject /\ NoObject \notin Objects
  BY <1>1, <1>3 DEF FreeEntry, TableAssumption
<1>16. ASSUME NEW p \in Objects
       PROVE  /\ Cardinality(EntriesOf(p)') \in Nat
              /\ Cardinality(EntriesOf(p)) = IF p = o THEN Cardinality(EntriesOf(p)') + 1
                                             ELSE Cardinality(EntriesOf(p)')
  BY <1>0, <1>9, EntriesRecount
<1>10. ASSUME NEW p \in Objects
       PROVE  object'[p].ptr = Cardinality(EntriesOf(p)') + Cardinality(PinnersOf(p)')
  <2>1. object[p].ptr = Cardinality(EntriesOf(p)) + Cardinality(PinnersOf(p))
    BY PointersInTerms
  <2>2. Cardinality(PinnersOf(p)') = Cardinality(PinnersOf(p)) /\ Cardinality(PinnersOf(p)) \in Nat
    BY PinsRecount
  <2>3. /\ Cardinality(EntriesOf(p)') \in Nat
        /\ Cardinality(EntriesOf(p)) = IF p = o THEN Cardinality(EntriesOf(p)') + 1
                                       ELSE Cardinality(EntriesOf(p)')
    BY <1>16
  <2>4. object'[p].ptr = IF p = o THEN object[p].ptr - 1 ELSE object[p].ptr
    BY <1>7, <1>8
  <2>5. QED
    BY <2>1, <2>2, <2>3, <2>4
<1>11. x.ptr = 1 => \A g \in Slots \ {h} : table[g].obj # o
  <2>1. x.ptr = Cardinality(EntriesOf(o)) + Cardinality(PinnersOf(o))
    BY <1>1, PointersInTerms
  <2>2. Cardinality(PinnersOf(o)) \in Nat
    BY PinsRecount
  <2>3. /\ Cardinality(EntriesOf(o)') \in Nat
        /\ Cardinality(EntriesOf(o)) = Cardinality(EntriesOf(o)') + 1
    BY <1>1, <1>16
  <2>4. ASSUME x.ptr = 1 PROVE Cardinality(EntriesOf(o)') = 0
    BY <2>1, <2>2, <2>3, <2>4
  <2>5. IsFiniteSet(EntriesOf(o)')
    <3>1. EntriesOf(o)' \in SUBSET Slots
      BY DEF EntriesOf
    <3>2. QED
      BY <3>1, SlotsFinite, FS_Subset
  <2>6. Cardinality(EntriesOf(o)') = 0 => EntriesOf(o)' = {}
    BY <2>5, FS_EmptySet
  <2>7. QED
    BY <2>4, <2>6, <1>9 DEF EntriesOf
<1>12. ASSUME NEW p \in Objects PROVE VectorsAre(p)'
  <2>1. VectorsAre(p)
    BY VectorsInTerms
  <2>2. CASE p # o
    BY <1>0, <1>8, <1>9, <2>1, <2>2 DEF VectorsAre, Lists, Distinct
  <2>3. CASE p = o /\ x.ptr = 1
    <3>1. object'[p] = Dead /\ \A g \in Slots : table'[g].obj # p
      BY <1>1, <1>2, <1>6, <1>7, <1>9, <1>11, <2>3, DroppedIs
    <3>2. QED
      BY <3>1, DeadIs DEF VectorsAre, Lists, Distinct
  <2>4. CASE p = o /\ x.ptr # 1
    <3>1. /\ object'[p].handles = Erased(x.handles, h) /\ object'[p].stash = x.stash
      BY <1>2, <1>6, <1>7, <2>4, DroppedIs
    <3>2. \A g \in Slots : Lists(Erased(x.handles, h), g) <=> table'[g].obj = o
      BY <1>1, <1>4, <1>5, <1>9 DEF VectorsAre
    <3>3. QED
      BY <1>2, <1>4, <1>5, <2>4, <3>1, <3>2 DEF VectorsAre, Lists, Distinct
  <2>5. QED
    BY <2>2, <2>3, <2>4
<1>13. ASSUME NEW p \in Objects PROVE object'[p].name \in {object[p].name, NoName}
  <2>1. Dropped(y).name \in {x.name, NoName}
    BY <1>2, <1>6, DroppedIs, DeadIs
  <2>2. QED
    BY <1>7, <1>8, <2>1
<1>14. names' \in [Names -> Handles] /\ \A n \in Names : names'[n] \in {names[n], NoHandle}
  <2>1. NoHandle \in Handles
    BY DEF Handles
  <2>2. QED
    BY <1>1, <1>3, <2>1
<1>15. ASSUME NamesLeadHome, lost => lost' PROVE NamesLeadHome'
  <2>1. ASSUME NEW n \in Names, NEW g \in Slots,
               names'[n] = g, table[g].obj # NoObject, object[table[g].obj].name = n
        PROVE  /\ table'[g].obj = table[g].obj
               /\ object'[table[g].obj].name = object[table[g].obj].name
    <3>1. NoHandle \notin Slots /\ NoName \notin Names
      BY DEF NoHandle, Slots, TableAssumption
    <3>2. n # x.name
      BY <1>1, <1>3, <2>1, <3>1
    <3>3. g # h
      BY <1>0, <2>1, <3>2
    <3>4. table[g].obj \in Objects /\ table[g].obj # o
      <4>1. table[g].obj \in Objects
        BY <1>1, <2>1 DEF Entries
      <4>2. QED
        BY <1>0, <4>1, <2>1, <3>2
    <3>5. QED
      BY <1>8, <1>9, <3>3, <3>4
  <2>2. QED
    BY <1>14, <1>15, <2>1, NamesStay
<1>17. QED
  BY <1>3, <1>8, <1>10, <1>12, <1>13, <1>14, <1>15, PointersInTermsNext, VectorsInTermsNext

\* Letting go of one reference: the entry's count, or the entry.
LEMMA HandleReleased ==
  ASSUME TableAssumption, TypeOK, PointersCounted, VectorsOK, SlotsOK, NEW t \in Threads,
         OnlyThread(t), op'[t].pins = op[t].pins, NEW h \in Slots, table[h].obj # NoObject,
         ReleaseHandle(h), UNCHANGED room
  PROVE  /\ PointersCounted' /\ VectorsOK' /\ SlotsOK'
         /\ object' \in [Objects -> XObjects] /\ names' \in [Names -> Handles]
         /\ table' \in [Slots -> Entries]
         /\ \A g \in Slots \ {h} : table'[g] = table[g]
         /\ table[h].refs \in Nat /\ table[h].refs > 0 /\ table'[h].refs = table[h].refs - 1
         /\ table'[h].obj \in {table[h].obj, NoObject}
         /\ \A o \in Objects : object'[o].name \in {object[o].name, NoName}
         /\ NamesLeadHome /\ (lost => lost') => NamesLeadHome'
<1>1. table \in [Slots -> Entries] /\ table[h].refs \in Nat /\ table[h].refs > 0
      /\ NoHandle \in Handles /\ NoObject \notin Objects
  BY DEF TypeOK, Entries, SlotsOK, Handles, TableAssumption
<1>2. CASE table[h].refs = 1
  <2>1. RemoveHandle(h)
    BY <1>2 DEF ReleaseHandle
  <2>2. /\ PointersCounted' /\ VectorsOK' /\ object' \in [Objects -> XObjects]
        /\ names' \in [Names -> Handles] /\ table' = [table EXCEPT ![h] = FreeEntry]
        /\ \A o \in Objects : object'[o].name \in {object[o].name, NoName}
        /\ NamesLeadHome /\ (lost => lost') => NamesLeadHome'
    BY <2>1, HandleRemoved
  <2>3. FreeEntry \in Entries /\ FreeEntry.obj = NoObject /\ FreeEntry.refs = 0
    BY DEF FreeEntry, Entries
  <2>4. /\ table' \in [Slots -> Entries] /\ table'[h].refs = 0 /\ table'[h].obj = NoObject
        /\ \A g \in Slots \ {h} : table'[g] = table[g]
    BY <1>1, <2>2, <2>3
  <2>5. SlotsOK'
    BY <2>4 DEF SlotsOK, room
  <2>6. QED
    BY <1>1, <1>2, <2>2, <2>4, <2>5
<1>3. CASE table[h].refs # 1
  <2>1. table' = [table EXCEPT ![h].refs = @ - 1] /\ UNCHANGED <<names, object>>
    BY <1>3 DEF ReleaseHandle
  <2>2. /\ table' \in [Slots -> Entries] /\ table'[h].refs = table[h].refs - 1
        /\ table'[h].refs > 0 /\ table'[h].obj = table[h].obj
        /\ \A g \in Slots \ {h} : table'[g] = table[g]
    BY <1>1, <1>3, <2>1 DEF Entries
  <2>3. SlotsOK'
    BY <2>2, <1>1 DEF SlotsOK, room
  <2>4. PointersCounted' /\ VectorsOK'
    BY <2>1, <2>2, ObjectsStay DEF SameEntries
  <2>5. object' \in [Objects -> XObjects] /\ names' \in [Names -> Handles]
    BY <2>1 DEF TypeOK
  <2>6. ASSUME NamesLeadHome, lost => lost' PROVE NamesLeadHome'
    BY <2>1, <2>2, <2>6, NamesStay
  <2>7. QED
    BY <1>1, <2>1, <2>2, <2>3, <2>4, <2>5, <2>6
<1>4. QED
  BY <1>2, <1>3

\* An unborn object is nowhere.
LEMMA UnbornIsNowhere ==
  ASSUME TableAssumption, TypeOK, PointersCounted, NEW o \in Unborn
  PROVE  /\ o \in Objects /\ object[o].ptr = 0 /\ byPointer[o] = NoHandle
         /\ \A h \in Slots : table[h].obj # o
         /\ \A t \in Threads : o \notin op[t].pins
         /\ Cardinality(EntriesOf(o)) = 0 /\ Cardinality(PinnersOf(o)) = 0
<1>1. o \in Objects /\ byPointer[o] = NoHandle /\ object[o].ptr \in Nat /\ ~ (object[o].ptr > 0)
  BY DEF Unborn, Alive, TypeOK, XObjects
<1>2. object[o].ptr = 0
  BY <1>1
<1>3. \A h \in Slots : table[h].obj # o
  BY <1>1, <1>2, EntryLives
<1>4. \A t \in Threads : o \notin op[t].pins
  BY <1>1, <1>2, PinLives
<1>5. EntriesOf(o) = {} /\ PinnersOf(o) = {}
  BY <1>3, <1>4 DEF EntriesOf, PinnersOf
<1>6. QED
  BY <1>1, <1>2, <1>3, <1>4, <1>5, FS_EmptySet

\* Fields of an object whose count and vector are rewritten.
LEMMA Rewritten ==
  ASSUME NEW x, x \in [ptr : Int, handles : Seq(Slots), name : Names \cup {NoName},
                       kind : Kinds \cup {NoName}, stash : Handles],
         NEW i \in Nat, NEW q \in Seq(Slots)
  PROVE  LET w == [x EXCEPT !.ptr = i, !.handles = q]
         IN  w \in XObjects /\ w.ptr = i /\ w.handles = q /\ w.name = x.name /\ w.stash = x.stash
BY DEF XObjects

\* AddHandle on an object that is being made: two pointers, the entry's and the
\* call's, and one handle.
LEMMA HandleAdded ==
  ASSUME TableAssumption, TypeOK, PointersCounted, VectorsOK, SlotsOK, NEW t \in Threads,
         OnlyThread(t), NEW o \in Unborn, NEW h \in Slots, NEW k \in Kinds \cup {NoName},
         AddHandle(o, h, [Dead EXCEPT !.ptr = 1, !.kind = k, !.stash = h]),
         op[t].pins = {}, op'[t].pins = {o}
  PROVE  /\ PointersCounted' /\ VectorsOK' /\ SlotsOK'
         /\ object' \in [Objects -> XObjects] /\ table' \in [Slots -> Entries]
         /\ capacity' \in Nat /\ lastFree' \in Nat
         /\ table[h].obj = NoObject /\ table[h].refs = 0
         /\ table'[h].obj = o /\ table'[h].refs = 1
         /\ \A g \in Slots \ {h} : table'[g] = table[g]
         /\ object'[o].name = NoName
         /\ \A p \in Objects \ {o} : object'[p] = object[p]
<1> DEFINE z == [Dead EXCEPT !.ptr = 1, !.kind = k, !.stash = h]
           y == [z EXCEPT !.ptr = @ + 1, !.handles = Append(@, h)]
<1>1. /\ table[h].obj = NoObject /\ table[h].refs = 0
      /\ capacity' \in Nat /\ lastFree' \in Nat
      /\ capacity' > 1 /\ h < capacity' /\ capacity <= capacity' /\ capacity \in Nat
      /\ table \in [Slots -> Entries] /\ object \in [Objects -> XObjects]
      /\ NoObject \notin Objects
  BY NewSlotIsFree DEF AddHandle, TypeOK, TableAssumption
<1>2. /\ table' = [table EXCEPT ![h] = [obj |-> o, refs |-> 1]]
      /\ object' = [object EXCEPT ![o] = y]
  BY DEF AddHandle
<1>3. /\ o \in Objects /\ \A g \in Slots : table[g].obj # o
      /\ Cardinality(EntriesOf(o)) = 0 /\ Cardinality(PinnersOf(o)) = 0
      /\ o \notin op[t].pins
  BY UnbornIsNowhere
<1>4. /\ y \in XObjects /\ h \in Nat /\ h > 0
      /\ y.ptr = 2 /\ y.handles = <<h>> /\ y.name = NoName /\ y.stash = h
  <2>1. Dead \in XObjects /\ Dead.handles = <<>> /\ Dead.name = NoName /\ h \in Handles
    BY DEF Dead, XObjects, Handles
  <2>2. z \in XObjects /\ z.ptr = 1 /\ z.handles = <<>> /\ z.name = NoName /\ z.stash = h
    BY <2>1 DEF XObjects
  <2>3. Append(<<>>, h) = <<h>> /\ <<h>> \in Seq(Slots)
    OBVIOUS
  <2> HIDE DEF z
  <2>7. y = [z EXCEPT !.ptr = 2, !.handles = <<h>>]
    BY <2>2, <2>3
  <2>8. z \in [ptr : Int, handles : Seq(Slots), name : Names \cup {NoName},
               kind : Kinds \cup {NoName}, stash : Handles]
    BY <2>2 DEF XObjects
  <2>4. y \in XObjects /\ y.ptr = 2 /\ y.handles = <<h>> /\ y.name = NoName /\ y.stash = h
    <3>1. 2 \in Nat
      OBVIOUS
    <3> HIDE DEF y
    <3>2. QED
      BY <3>1, <2>2, <2>3, <2>7, <2>8, Rewritten
  <2>5. h \in Nat /\ h > 0
    BY DEF Slots
  <2>6. QED
    BY <2>4, <2>5
<1> HIDE DEF y
<1>5. [obj |-> o, refs |-> 1] \in Entries
  BY <1>3 DEF Entries
<1>6. /\ table' \in [Slots -> Entries] /\ table'[h].obj = o /\ table'[h].refs = 1
      /\ \A g \in Slots \ {h} : table'[g] = table[g]
  BY <1>1, <1>2, <1>5
<1>7. /\ object' \in [Objects -> XObjects] /\ object'[o] = y
      /\ \A p \in Objects \ {o} : object'[p] = object[p]
  BY <1>1, <1>2, <1>3, <1>4
<1>8. SlotsOK'
  <2>1. ASSUME NEW g \in Slots
        PROVE  /\ table'[g].obj = NoObject <=> table'[g].refs = 0
               /\ g >= capacity' => table'[g].obj = NoObject
    <3>1. g \in Nat
      BY DEF Slots
    <3>2. CASE g = h
      BY <1>1, <1>3, <1>4, <1>6, <3>2
    <3>3. CASE g # h
      BY <1>1, <1>6, <3>1, <3>3 DEF SlotsOK
    <3>4. QED
      BY <3>2, <3>3
  <2>2. QED
    BY <2>1, <1>1 DEF SlotsOK
<1>9. ASSUME NEW p \in Objects
      PROVE  object'[p].ptr = Cardinality(EntriesOf(p)') + Cardinality(PinnersOf(p)')
  <2>1. object[p].ptr = Cardinality(EntriesOf(p)) + Cardinality(PinnersOf(p))
    BY PointersInTerms
  <2>2. /\ Cardinality(PinnersOf(p)) \in Nat
        /\ Cardinality(PinnersOf(p)') = IF p = o THEN Cardinality(PinnersOf(p)) + 1
                                        ELSE Cardinality(PinnersOf(p))
    BY PinsRecount, <1>3
  <2>3. /\ Cardinality(EntriesOf(p)) \in Nat
        /\ Cardinality(EntriesOf(p)') = IF p = o THEN Cardinality(EntriesOf(p)) + 1
                                        ELSE Cardinality(EntriesOf(p))
    BY <1>1, <1>6, EntriesRecount
  <2>4. CASE p = o
    BY <1>3, <1>4, <1>7, <2>2, <2>3, <2>4
  <2>5. CASE p # o
    BY <1>7, <2>1, <2>2, <2>3, <2>5
  <2>6. QED
    BY <2>4, <2>5
<1>10. ASSUME NEW p \in Objects PROVE VectorsAre(p)'
  <2>1. CASE p = o
    <3>1. \A g \in Slots : Lists(<<h>>, g) <=> g = h
      BY DEF Lists
    <3>2. Distinct(<<h>>)
      BY DEF Distinct
    <3>3. \A g \in Slots : table'[g].obj = o <=> g = h
      BY <1>3, <1>6
    <3>4. object'[p].handles = <<h>> /\ object'[p].stash = h
      BY <1>4, <1>7, <2>1
    <3>5. QED
      BY <2>1, <3>1, <3>2, <3>3, <3>4 DEF VectorsAre, Lists, Distinct
  <2>2. CASE p # o
    <3>1. VectorsAre(p) /\ object'[p] = object[p]
      BY VectorsInTerms, <1>7, <2>2
    <3>2. \A g \in Slots : table'[g].obj = p <=> table[g].obj = p
      BY <1>1, <1>6, <2>2
    <3>3. QED
      BY <3>1, <3>2 DEF VectorsAre, Lists, Distinct
  <2>3. QED
    BY <2>1, <2>2
<1>11. QED
  BY <1>1, <1>4, <1>6, <1>7, <1>8, <1>9, <1>10, PointersInTermsNext, VectorsInTermsNext

\* A second handle for an object, and the end of the first if it is closed with it.
LEMMA HandleDuplicated ==
  ASSUME TableAssumption, TypeOK, PointersCounted, VectorsOK, SlotsOK, NEW t \in Threads,
         NEW h \in Slots, NEW c \in BOOLEAN, DuplicateHandle(t, h, c)
  PROVE  \E g \in Slots \ {h} :
         /\ PointersCounted' /\ VectorsOK' /\ SlotsOK'
         /\ object' \in [Objects -> XObjects] /\ table' \in [Slots -> Entries]
         /\ names' \in [Names -> Handles] /\ owned' \in [Slots -> Nat]
         /\ capacity' \in Nat /\ lastFree' \in Nat
         /\ table[g].obj = NoObject /\ table[g].refs = 0
         /\ table'[g].obj = table[h].obj /\ table'[g].refs = 1
         /\ owned'[g] = owned[g] + 1
         /\ table'[h].obj \in {table[h].obj, NoObject}
         /\ table[h].refs \in Nat /\ table[h].refs > 0 /\ owned[h] \in Nat /\ owned[h] > 0
         /\ \/ table'[h].refs = table[h].refs /\ owned'[h] = owned[h]
            \/ table'[h].refs = table[h].refs - 1 /\ owned'[h] = owned[h] - 1
         /\ \A f \in Slots \ {g, h} : table'[f] = table[f] /\ owned'[f] = owned[f]
         /\ \A p \in Objects : object'[p].name = object[p].name
         /\ NamesLeadHome => NamesLeadHome'
<1>0. PICK o \in Objects : table[h].obj = o
  BY DEF DuplicateHandle, TypeOK, Entries
<1>1. PICK g : g = NewSlot
  OBVIOUS
<1> DEFINE gone == c /\ table[h].refs = 1
           hs == object[o].handles
           x == IF gone THEN [object[o] EXCEPT !.ptr = @ - 1, !.handles = Erased(@, h)]
                ELSE object[o]
           y == [x EXCEPT !.ptr = @ + 1,
                          !.handles = Erased(Append(hs, g), IF gone THEN h ELSE NoHandle)]
           left == IF gone THEN FreeEntry
                   ELSE [table[h] EXCEPT !.refs = IF c THEN @ - 1 ELSE @]
<1>2. /\ FindFreeSlot(g) /\ owned[h] > 0
      /\ table' = [table EXCEPT ![g] = [obj |-> o, refs |-> 1], ![h] = left]
      /\ object' = [object EXCEPT ![o] = y]
      /\ owned' = [owned EXCEPT ![g] = @ + 1, ![h] = IF c THEN @ - 1 ELSE @]
      /\ names' = IF gone /\ x.name # NoName THEN [names EXCEPT ![x.name] = NoHandle] ELSE names
      /\ UNCHANGED <<op, byPointer, leaked, lost>>
  BY <1>0, <1>1 DEF DuplicateHandle, Open
<1>3. /\ g \in Slots /\ table[g].obj = NoObject /\ table[g].refs = 0
      /\ capacity' \in Nat /\ lastFree' \in Nat
      /\ capacity' > 1 /\ g < capacity' /\ capacity <= capacity' /\ capacity \in Nat
      /\ table \in [Slots -> Entries] /\ object \in [Objects -> XObjects]
      /\ owned \in [Slots -> Nat] /\ names \in [Names -> Handles]
      /\ NoObject \notin Objects /\ NoName \notin Names
  BY <1>2, NewSlotIsFree DEF TypeOK, TableAssumption
<1>4. g # h /\ table[h].refs \in Nat /\ table[h].refs > 0 /\ o # NoObject
  BY <1>0, <1>3 DEF SlotsOK, Entries
<1>5. /\ left \in Entries /\ left.obj = (IF gone THEN NoObject ELSE o)
      /\ left.refs = IF c THEN table[h].refs - 1 ELSE table[h].refs
  BY <1>0, <1>3, <1>4 DEF FreeEntry, Entries
<1>6. /\ table'[g] = [obj |-> o, refs |-> 1] /\ table'[h] = left
      /\ \A f \in Slots \ {g, h} : table'[f] = table[f]
      /\ table' \in [Slots -> Entries]
  <2>1. [obj |-> o, refs |-> 1] \in Entries
    BY DEF Entries
  <2>2. table' = [f \in Slots |-> IF f = h THEN left ELSE IF f = g THEN [obj |-> o, refs |-> 1]
                                                     ELSE table[f]]
    <3>1. table' = [table EXCEPT ![g] = [obj |-> o, refs |-> 1], ![h] = left]
      BY <1>2
    <3> HIDE DEF left
    <3>2. QED
      BY <1>3, <1>4, <3>1
  <2> HIDE DEF left
  <2>3. QED
    BY <2>1, <2>2, <1>3, <1>4, <1>5
<1> HIDE DEF left
<1>7. /\ owned' \in [Slots -> Nat] /\ owned'[g] = owned[g] + 1
      /\ owned'[h] = (IF c THEN owned[h] - 1 ELSE owned[h]) /\ owned[h] \in Nat
      /\ \A f \in Slots \ {g, h} : owned'[f] = owned[f]
  BY <1>2, <1>3, <1>4
<1>8. /\ object[o] \in XObjects /\ object[o].ptr \in Nat /\ object[o].ptr > 0 /\ hs \in Seq(Slots)
      /\ VectorsAre(o)
  BY <1>0, <1>3, EntryLives, VectorsInTerms DEF XObjects
<1>9. /\ Append(hs, g) \in Seq(Slots) /\ Distinct(Append(hs, g))
      /\ \A k \in Slots : Lists(Append(hs, g), k) <=> k = g \/ Lists(hs, k)
  BY <1>3, <1>4, <1>8, AppendedIsLast DEF VectorsAre
<1> DEFINE e == Erased(Append(hs, g), IF gone THEN h ELSE NoHandle)
<1>10. /\ e \in Seq(Slots) /\ Distinct(e)
       /\ \A k \in Slots : Lists(e, k) <=> (gone => k # h) /\ (k = g \/ Lists(hs, k))
  <2>1. \A k \in Slots : k # NoHandle
    BY DEF Slots, NoHandle
  <2>2. QED
    BY <1>9, <2>1, ErasedIsGone
<1>11. x.ptr = (IF gone THEN object[o].ptr - 1 ELSE object[o].ptr)
       /\ x.name = object[o].name /\ x.kind = object[o].kind /\ x.stash = object[o].stash
       /\ DOMAIN x = DOMAIN object[o]
  BY <1>8 DEF XObjects
<1>12. /\ y \in XObjects /\ y.handles = e /\ y.name = object[o].name /\ y.stash = object[o].stash
       /\ y.ptr = IF gone THEN object[o].ptr ELSE object[o].ptr + 1
  <2>1. x.ptr + 1 = (IF gone THEN object[o].ptr ELSE object[o].ptr + 1) /\ x.ptr + 1 \in Nat
    BY <1>8, <1>11
  <2>2. y = [x EXCEPT !.ptr = x.ptr + 1, !.handles = e]
    OBVIOUS
  <2>4. /\ x \in [ptr : Int, handles : Seq(Slots), name : Names \cup {NoName},
                   kind : Kinds \cup {NoName}, stash : Handles]
    <3>1. Erased(hs, h) \in Seq(Slots)
      BY <1>8, ErasedIsGone DEF VectorsAre
    <3>2. object[o].ptr - 1 \in Int
      BY <1>8
    <3>3. ASSUME NEW i \in Int, NEW q \in Seq(Slots)
          PROVE  [object[o] EXCEPT !.ptr = i, !.handles = q] \in
                   [ptr : Int, handles : Seq(Slots), name : Names \cup {NoName},
                    kind : Kinds \cup {NoName}, stash : Handles]
      BY <1>8 DEF XObjects
    <3>4. object[o] \in [ptr : Int, handles : Seq(Slots), name : Names \cup {NoName},
                          kind : Kinds \cup {NoName}, stash : Handles]
      BY <1>8 DEF XObjects
    <3> HIDE DEF gone
    <3>5. QED
      BY <3>1, <3>2, <3>3, <3>4
  <2> HIDE DEF x, e, y, gone
  <2>3. QED
    BY <2>1, <2>2, <2>4, <1>10, <1>11, Rewritten
<1> HIDE DEF e, y
<1>13. /\ object' \in [Objects -> XObjects] /\ object'[o] = y
       /\ \A p \in Objects \ {o} : object'[p] = object[p]
  BY <1>2, <1>3, <1>12
<1>14. ASSUME NEW p \in Objects PROVE object'[p].name = object[p].name
  BY <1>12, <1>13
<1>15. names' \in [Names -> Handles] /\ \A n \in Names : names'[n] \in {names[n], NoHandle}
  <2>1. NoHandle \in Handles
    BY DEF Handles
  <2> HIDE DEF x
  <2>2. QED
    BY <1>2, <1>3, <2>1
<1>16. SlotsOK'
  <2>1. ASSUME NEW f \in Slots
        PROVE  /\ table'[f].obj = NoObject <=> table'[f].refs = 0
               /\ f >= capacity' => table'[f].obj = NoObject
    <3>1. f \in Nat /\ h \in Nat /\ g \in Nat
      BY <1>3 DEF Slots
    <3>2. CASE f = g
      BY <1>3, <1>4, <1>6, <3>1, <3>2
    <3>3. CASE f = h
      BY <1>0, <1>3, <1>4, <1>5, <1>6, <3>1, <3>3 DEF SlotsOK
    <3>4. CASE f # g /\ f # h
      BY <1>3, <1>6, <3>1, <3>4 DEF SlotsOK
    <3>5. QED
      BY <3>2, <3>3, <3>4
  <2>2. QED
    BY <2>1, <1>3 DEF SlotsOK
<1>17. ASSUME NEW p \in Objects
       PROVE  /\ Cardinality(EntriesOf(p)) \in Nat
              /\ Cardinality(EntriesOf(p)') = IF p = o /\ ~ gone THEN Cardinality(EntriesOf(p)) + 1
                                              ELSE Cardinality(EntriesOf(p))
  <2> DEFINE A == EntriesOf(p)
             B == EntriesOf(p)'
             M == IF p = o THEN A \cup {g} ELSE A
  <2>1. IsFiniteSet(Slots) /\ A \in SUBSET Slots /\ B \in SUBSET Slots /\ M \in SUBSET Slots
    BY SlotsFinite, <1>3 DEF EntriesOf
  <2>2. B = IF p = o /\ gone THEN M \ {h} ELSE M
    BY <1>0, <1>3, <1>4, <1>5, <1>6 DEF EntriesOf
  <2>3. (p = o => h \in A) /\ g \notin A
    BY <1>0, <1>3 DEF EntriesOf
  <2> HIDE DEF A, B
  <2>4. /\ Cardinality(A) \in Nat
        /\ Cardinality(M) = IF p = o THEN Cardinality(A) + 1 ELSE Cardinality(A)
    <3>1. A \ {g} = M \ {g}
      OBVIOUS
    <3>2. QED
      BY <2>1, <2>3, <3>1, Recount
  <2>5. Cardinality(B) = IF p = o /\ gone THEN Cardinality(M) - 1 ELSE Cardinality(M)
    <3>1. M \ {h} = B \ {h} /\ (p = o => h \in M)
      BY <2>2, <2>3
    <3>2. Cardinality(M) \in Nat /\ Cardinality(B) \in Nat
      BY <2>1, <3>1, Recount
    <3>3. CASE p = o /\ gone
      <4>1. h \in M /\ h \notin B
        BY <2>2, <3>1, <3>3
      <4>2. Cardinality(M) = Cardinality(B) + 1
        BY <2>1, <3>1, <4>1, Recount
      <4>3. QED
        BY <3>2, <3>3, <4>2
    <3>4. CASE ~ (p = o /\ gone)
      BY <2>2, <3>4
    <3>5. QED
      BY <3>3, <3>4
  <2>6. QED
    BY <2>4, <2>5 DEF A, B
<1>18. ASSUME NEW p \in Objects
       PROVE  object'[p].ptr = Cardinality(EntriesOf(p)') + Cardinality(PinnersOf(p)')
  <2>1. object[p].ptr = Cardinality(EntriesOf(p)) + Cardinality(PinnersOf(p))
    BY PointersInTerms
  <2>2. Cardinality(PinnersOf(p)) \in Nat /\ Cardinality(PinnersOf(p)') = Cardinality(PinnersOf(p))
    BY <1>2, PinsRecount DEF OnlyThread
  <2>3. QED
    BY <1>12, <1>13, <1>17, <2>1, <2>2
<1>19. ASSUME NEW p \in Objects PROVE VectorsAre(p)'
  <2>1. VectorsAre(p)
    BY VectorsInTerms
  <2>2. CASE p = o
    <3>1. ASSUME NEW f \in Slots PROVE Lists(e, f) <=> table'[f].obj = o
      <4> HIDE DEF gone, hs
      <4>1. Lists(hs, f) <=> table[f].obj = o
        BY <1>8 DEF VectorsAre, hs
      <4>2. Lists(e, f) <=> (gone => f # h) /\ (f = g \/ Lists(hs, f))
        BY <1>10
      <4>3. CASE f = g
        BY <1>4, <1>6, <4>2, <4>3
      <4>4. CASE f = h
        BY <1>0, <1>4, <1>5, <1>6, <4>1, <4>2, <4>4
      <4>5. CASE f # g /\ f # h
        BY <1>6, <4>1, <4>2, <4>5
      <4>6. QED
        BY <4>3, <4>4, <4>5
    <3>2. QED
      BY <1>8, <1>10, <1>12, <1>13, <2>2, <3>1 DEF VectorsAre, Lists, Distinct
  <2>3. CASE p # o
    <3>1. \A f \in Slots : table'[f].obj = p <=> table[f].obj = p
      BY <1>0, <1>3, <1>5, <1>6, <2>3
    <3>2. QED
      BY <1>13, <2>1, <2>3, <3>1 DEF VectorsAre, Lists, Distinct
  <2>4. QED
    BY <2>2, <2>3
<1>20. ASSUME NamesLeadHome PROVE NamesLeadHome'
  <2>1. ASSUME NEW n \in Names, NEW f \in Slots,
               names'[n] = f, table[f].obj # NoObject, object[table[f].obj].name = n
        PROVE  /\ table'[f].obj = table[f].obj
               /\ object'[table[f].obj].name = object[table[f].obj].name
    <3>1. NoHandle \notin Slots
      BY DEF NoHandle, Slots
    <3>2. f # g
      BY <1>3, <2>1
    <3>3. gone => f # h
      <4> HIDE DEF x
      <4>1. SUFFICES ASSUME gone, f = h PROVE FALSE
        OBVIOUS
      <4>2. x.name = n /\ n # NoName
        BY <1>0, <1>3, <1>11, <2>1, <4>1
      <4>3. names'[n] = NoHandle
        BY <1>2, <1>3, <4>1, <4>2
      <4>4. QED
        BY <2>1, <3>1, <4>3
    <3>4. table'[f].obj = table[f].obj
      BY <1>0, <1>5, <1>6, <3>2, <3>3
    <3>5. table[f].obj \in Objects
      BY <1>3, <2>1 DEF Entries
    <3>6. QED
      BY <1>14, <3>4, <3>5
  <2>2. lost => lost'
    BY <1>2
  <2>3. QED
    BY <1>15, <1>20, <2>1, <2>2, NamesStay
<1>21. /\ PointersCounted' /\ VectorsOK'
  BY <1>18, <1>19, PointersInTermsNext, VectorsInTermsNext
<1>22. /\ table'[g].obj = table[h].obj /\ table'[g].refs = 1
       /\ table'[h].obj \in {table[h].obj, NoObject}
       /\ \/ table'[h].refs = table[h].refs /\ owned'[h] = owned[h]
          \/ table'[h].refs = table[h].refs - 1 /\ owned'[h] = owned[h] - 1
  BY <1>0, <1>5, <1>6, <1>7
<1> HIDE DEF gone, x, hs
<1>23. QED
  BY <1>2, <1>3, <1>4, <1>6, <1>7, <1>13, <1>14, <1>15, <1>16, <1>20, <1>21, <1>22

(***************************************************************************)
(* What a step of one call leaves of the rest.                             *)
(***************************************************************************)
\* A call that works on one object has pinned that object alone.
LEMMA PinIs ==
  ASSUME TypeOK, CallsOK, NEW t \in Threads, op[t].pc \in Pinning
  PROVE  Pin(t) \in Objects /\ op[t].pins = {Pin(t)}
<1>1. PICK o \in Objects : op[t].pins = {o}
  BY DEF CallsOK, CallOK
<1>2. QED
  BY <1>1 DEF Pin

\* A step that moves one call to a place where its locals are in order.
LEMMA CallStep ==
  ASSUME TypeOK, CallsOK, NEW t \in Threads, NEW r \in Ops, op' = [op EXCEPT ![t] = r], CallOK(r)
  PROVE  CallsOK' /\ OnlyThread(t) /\ op'[t] = r /\ op' \in [Threads -> Ops]
<1>1. op \in [Threads -> Ops]
  BY DEF TypeOK
<1>2. op'[t] = r /\ OnlyThread(t) /\ op' \in [Threads -> Ops]
  BY <1>1 DEF OnlyThread
<1>3. ASSUME NEW u \in Threads PROVE CallOK(op'[u])
  BY <1>2 DEF CallsOK, OnlyThread
<1>4. CallsOK'
  BY <1>3 DEF CallsOK, CallOK
<1>5. QED
  BY <1>2, <1>4

\* A step that starts no reference on a pointer.
LEMMA ReferStep ==
  ASSUME ReferOK, NEW t \in Threads, OnlyThread(t),
         op'[t].pc \in Referring => op[t].pc \in Referring /\ op'[t].pins = op[t].pins,
         op'[t].call \in {"refer", "refer by name"} => op'[t].call = op[t].call,
         \A o \in Objects : byPointer'[o] \in {byPointer[o], NoHandle},
         \A u \in Threads : op[u].pins \subseteq Objects
  PROVE  ReferOK'
<1>1. ASSUME NEW u \in Threads, op'[u].pc \in Referring
      PROVE  op[u].pc \in Referring /\ op'[u].pins = op[u].pins
  BY <1>1 DEF OnlyThread
<1>2. ASSUME NEW u \in Threads, op'[u].call \in {"refer", "refer by name"}
      PROVE  op'[u].call = op[u].call
  BY <1>2 DEF OnlyThread
<1>3. ASSUME NEW u \in Threads, op'[u].pc \in Referring
      PROVE  /\ \A o \in op'[u].pins : byPointer'[o] = NoHandle
             /\ \A w \in Threads \ {u} : op'[w].pc \in Referring => op'[u].pins \cap op'[w].pins = {}
  <2>1. op[u].pc \in Referring /\ op'[u].pins = op[u].pins
    BY <1>1, <1>3
  <2>2. \A o \in op[u].pins : byPointer[o] = NoHandle
    BY <2>1 DEF ReferOK
  <2>3. ASSUME NEW w \in Threads \ {u}, op'[w].pc \in Referring
        PROVE  op'[u].pins \cap op'[w].pins = {}
    BY <1>1, <2>1, <2>3 DEF ReferOK
  <2>4. QED
    BY <2>1, <2>2, <2>3
<1>4. ASSUME NEW u \in Threads, op'[u].call = "refer by name"
      PROVE  /\ \A o \in Objects : byPointer'[o] = NoHandle
             /\ \A w \in Threads \ {u} : op'[w].call \notin {"refer", "refer by name"}
  <2>1. op[u].call = "refer by name"
    BY <1>2, <1>4
  <2>2. QED
    BY <1>2, <2>1 DEF ReferOK
<1>5. QED
  BY <1>3, <1>4 DEF ReferOK

\* A step that starts no naming and gives no object a name.
LEMMA NamingStep ==
  ASSUME NamingOK, NEW t \in Threads, OnlyThread(t),
         op'[t].pc = "name it" => op[t].pc = "name it" /\ op'[t].pins = op[t].pins,
         \A o \in Objects : object'[o].name \in {object[o].name, NoName},
         \A u \in Threads : op[u].pins \subseteq Objects
  PROVE  NamingOK'
<1>1. ASSUME NEW u \in Threads, op'[u].pc = "name it"
      PROVE  op[u].pc = "name it" /\ op'[u].pins = op[u].pins
  BY <1>1 DEF OnlyThread
<1>2. ASSUME NEW u \in Threads, op'[u].pc = "name it"
      PROVE  /\ \A o \in op'[u].pins : object'[o].name = NoName
             /\ \A w \in Threads \ {u} : op'[w].pc = "name it" => op'[u].pins \cap op'[w].pins = {}
  <2>1. op[u].pc = "name it" /\ op'[u].pins = op[u].pins
    BY <1>1, <1>2
  <2>2. \A o \in op[u].pins : object[o].name = NoName
    BY <2>1 DEF NamingOK
  <2>3. ASSUME NEW w \in Threads \ {u}, op'[w].pc = "name it"
        PROVE  op'[u].pins \cap op'[w].pins = {}
    BY <1>1, <2>1, <2>3 DEF NamingOK
  <2>4. QED
    BY <2>1, <2>2, <2>3
<1>3. QED
  BY <1>2 DEF NamingOK

\* A counted entry does not change hands: its object is there until no call holds it.
LEMMA HeldEntry ==
  ASSUME TableAssumption, TypeOK', SlotsOK', HandlesCounted', ~ lost', NEW u \in Threads,
         op'[u].got # NoHandle
  PROVE  op'[u].got \in Slots /\ table'[op'[u].got].obj # NoObject
<1>1. PICK h : h = op'[u].got
  OBVIOUS
<1>2. h \in Slots
  BY <1>1 DEF TypeOK, Ops, Handles
<1>3. Cardinality(CallsHolding(h)') \in Nat /\ Cardinality(CallsHolding(h)') > 0
  <2> DEFINE A == CallsHolding(h)'
  <2>1. IsFiniteSet(Threads) /\ A \in SUBSET Threads /\ u \in A
    BY <1>1 DEF TableAssumption, CallsHolding
  <2> HIDE DEF A
  <2>2. IsFiniteSet(A) /\ A # {}
    BY <2>1, FS_Subset
  <2>3. Cardinality(A) \in Nat /\ Cardinality(A) # 0
    BY <2>2, FS_CardinalityType, FS_EmptySet
  <2>4. QED
    BY <2>3 DEF A
<1>4. Cardinality(PointersVia(h)') \in Nat
  <2> DEFINE A == PointersVia(h)'
  <2>1. IsFiniteSet(Objects) /\ A \in SUBSET Objects
    BY DEF TableAssumption, PointersVia
  <2> HIDE DEF A
  <2>2. Cardinality(A) \in Nat
    BY <2>1, FS_Subset, FS_CardinalityType
  <2>3. QED
    BY <2>2 DEF A
<1>5. owned'[h] \in Nat /\ leaked'[h] \in Nat
  BY <1>2 DEF TypeOK
<1>6. table'[h].refs > 0
  <2>1. table'[h].refs = owned'[h] + leaked'[h]
              + Cardinality(PointersVia(h)') + Cardinality(CallsHolding(h)')
    BY <1>2, HandlesInTermsNext
  <2>2. QED
    BY <1>3, <1>4, <1>5, <2>1
<1>7. QED
  BY <1>1, <1>2, <1>6 DEF SlotsOK

\* Where a call has retained the handle it will answer with.
Keeping == {"name it", "answer"}

\* What a call has retained stays its object's, since a counted entry does not
\* change hands.
LEMMA KeptStep ==
  ASSUME TableAssumption, TypeOK, TypeOK', SlotsOK', HandlesCounted', KeptIsOurs,
         lost => lost', NEW t \in Threads, OnlyThread(t),
         \A g \in Slots : \/ table'[g].obj = table[g].obj
                          \/ table'[g].obj = NoObject \/ table[g].obj = NoObject,
         op'[t].pc \in Keeping /\ op'[t].got # NoHandle /\ ~ lost' =>
           \/ table'[op'[t].got].obj \in op'[t].pins
           \/ op[t].pc \in Keeping /\ op'[t].got = op[t].got /\ op'[t].pins = op[t].pins
  PROVE  KeptIsOurs'
<1> SUFFICES ASSUME ~ lost', NEW u \in Threads, op'[u].pc \in Keeping, op'[u].got # NoHandle
             PROVE  table'[op'[u].got].obj \in op'[u].pins
  BY DEF KeptIsOurs, Keeping
<1>1. CASE /\ op[u].pc \in Keeping /\ op'[u].got = op[u].got /\ op'[u].pins = op[u].pins
  <2>1. table[op[u].got].obj \in op[u].pins /\ op[u].pins \subseteq Objects
    BY <1>1 DEF KeptIsOurs, Keeping, TypeOK, Ops
  <2>2. op'[u].got \in Slots /\ table'[op'[u].got].obj # NoObject
    BY HeldEntry
  <2>3. table[op[u].got].obj # NoObject
    BY <2>1 DEF TableAssumption
  <2>4. table'[op'[u].got].obj = table[op'[u].got].obj
    BY <1>1, <2>2, <2>3
  <2>5. QED
    BY <1>1, <2>1, <2>4
<1>2. CASE table'[op'[u].got].obj \in op'[u].pins
  BY <1>2
<1>3. QED
  BY <1>1, <1>2 DEF OnlyThread

\* A step that moves no reference on a handle.
LEMMA CountsStay ==
  ASSUME TableAssumption, HandlesCounted, NEW t \in Threads, OnlyThread(t),
         op'[t].got = op[t].got, \A h \in Slots : table'[h].refs = table[h].refs,
         UNCHANGED given, lost => lost'
  PROVE  HandlesCounted'
<1> SUFFICES ASSUME ~ lost', NEW h \in Slots
             PROVE  table'[h].refs = owned'[h] + leaked'[h]
                      + Cardinality(PointersVia(h)') + Cardinality(CallsHolding(h)')
  BY HandlesInTermsNext
<1>1. table[h].refs = owned[h] + leaked[h]
              + Cardinality(PointersVia(h)) + Cardinality(CallsHolding(h))
  BY HandlesInTerms
<1>2. Cardinality(CallsHolding(h)') = Cardinality(CallsHolding(h))
  BY HoldingRecount
<1>3. PointersVia(h)' = PointersVia(h) /\ owned' = owned /\ leaked' = leaked
  BY DEF PointersVia, given
<1>4. QED
  BY <1>1, <1>2, <1>3

\* What the types say of the calls and the handles.
LEMMA PinsAreObjects ==
  TypeOK => /\ \A t \in Threads : op[t].pins \subseteq Objects /\ op[t] \in Ops
            /\ NoHandle \in Handles /\ Slots \subseteq Handles /\ NoHandle \notin Slots
BY DEF TypeOK, Ops, Handles, NoHandle, Slots

(***************************************************************************)
(* One lemma per action.  A call that looks an object up either pins what  *)
(* the handle names now or finds the entry free.                           *)
(***************************************************************************)
\* The fields of a thread that is in no call.
LEMMA IdleIs ==
  /\ Idle \in Ops /\ CallOK(Idle)
  /\ Idle.pc = "idle" /\ Idle.call = "none" /\ Idle.got = NoHandle /\ Idle.pins = {}
  /\ Idle.name = NoName /\ Idle.kind = NoName /\ Idle.handle = NoHandle /\ Idle.first = NoHandle
<1>1. /\ Idle.pc = "idle" /\ Idle.call = "none" /\ Idle.got = NoHandle /\ Idle.pins = {}
      /\ Idle.name = NoName /\ Idle.kind = NoName /\ Idle.handle = NoHandle
      /\ Idle.first = NoHandle
  BY DEF Idle
<1>2. Idle \in Ops
  BY DEF Idle, Ops, Places, Calls, Handles
<1>3. CallOK(Idle)
  BY <1>1 DEF CallOK, Pinless, Pinning, Handless, ByName, Referring
<1>4. QED
  BY <1>1, <1>2, <1>3

\* The call r, with o pinned.
With(r, o) == [r EXCEPT !.pins = {o}]

\* Fields of a call that pins one object.
LEMMA PinnedCall ==
  ASSUME NEW r \in Ops, NEW o \in Objects
  PROVE  LET s == With(r, o)
         IN  /\ s \in Ops /\ s.pins = {o} /\ s.pc = r.pc /\ s.call = r.call /\ s.name = r.name
             /\ s.kind = r.kind /\ s.handle = r.handle /\ s.first = r.first /\ s.got = r.got
BY DEF Ops, With

\* LookupObject pins the entry's object, or finds the entry free.
LEMMA LookupStep ==
  ASSUME TableAssumption, IInv, NEW t \in Threads, NEW h \in Slots,
         NEW found \in Ops, NEW missing \in Ops, Lookup(t, h, found, missing),
         op[t].pins = {}, missing.pins = {}, CallOK(missing),
         found.pc # "name it", missing.pc # "name it",
         \A o \in Objects : CallOK(With(found, o)),
         UNCHANGED <<table, room, names, lost>>
  PROVE  /\ OnlyThread(t) /\ op' \in [Threads -> Ops] /\ object' \in [Objects -> XObjects]
         /\ PointersCounted' /\ VectorsOK' /\ SlotsOK' /\ CallsOK' /\ NamingOK' /\ NamesLeadHome'
         /\ \/ table[h].obj = NoObject /\ op'[t] = missing
            \/ /\ table[h].obj \in Objects
               /\ op'[t] = With(found, table[h].obj)
<1> USE DEF IInv
<1>1. op \in [Threads -> Ops] /\ object \in [Objects -> XObjects] /\ table \in [Slots -> Entries]
  BY DEF TypeOK
<1>2. SlotsOK' /\ SameEntries
  BY DEF SlotsOK, SameEntries, room
<1>3. CASE Free(h)
  <2>1. op' = [op EXCEPT ![t] = missing] /\ object' = Retained({NoObject})
        /\ table[h].obj = NoObject
    BY <1>3 DEF Lookup, Free
  <2>2. object' = object
    BY <1>1, <2>1 DEF Retained, TableAssumption
  <2>3. CallsOK' /\ OnlyThread(t) /\ op'[t] = missing /\ op' \in [Threads -> Ops]
    BY <2>1, CallStep
  <2>4. PointersCounted' /\ VectorsOK'
    BY <2>2, <2>3, <1>2, ObjectsStay
  <2>5. NamingOK'
    BY <2>2, <2>3, NamingStep, PinsAreObjects
  <2>6. NamesLeadHome'
    BY <2>2 DEF NamesLeadHome
  <2>7. QED
    BY <1>1, <1>2, <2>1, <2>2, <2>3, <2>4, <2>5, <2>6
<1>4. CASE ~ Free(h)
  <2>1. PICK o \in Objects : table[h].obj = o
    BY <1>1, <1>4 DEF Free, Entries
  <2> DEFINE s == With(found, o)
  <2>2. op' = [op EXCEPT ![t] = s] /\ object' = Retained({o})
    BY <1>4, <2>1 DEF Lookup, With
  <2>3. s \in Ops /\ s.pins = {o} /\ s.pc = found.pc /\ CallOK(s)
    BY PinnedCall
  <2> HIDE DEF s
  <2>4. CallsOK' /\ OnlyThread(t) /\ op'[t] = s /\ op' \in [Threads -> Ops]
    BY <2>2, <2>3, CallStep
  <2>5. /\ PointersCounted' /\ VectorsOK' /\ object' \in [Objects -> XObjects]
        /\ \A p \in Objects : object'[p].name = object[p].name
    <3>1. {o} \in SUBSET Objects /\ op'[t].pins = {o}
          /\ \A p \in {o} : \E g \in Slots : table[g].obj = p
      BY <2>1, <2>3, <2>4
    <3>2. QED
      BY <1>2, <2>2, <2>4, <3>1, ObjectsPinned
  <2>6. NamingOK'
    BY <2>3, <2>4, <2>5, NamingStep, PinsAreObjects
  <2>7. NamesLeadHome'
    <3>1. ASSUME NEW g \in Slots, table[g].obj # NoObject
          PROVE  object'[table[g].obj].name = object[table[g].obj].name
      BY <1>1, <2>5, <3>1 DEF Entries
    <3>2. QED
      BY <3>1, NamesStay
  <2>8. QED
    BY <1>2, <2>1, <2>3, <2>4, <2>5, <2>6, <2>7 DEF s
<1>5. QED
  BY <1>3, <1>4

\* A call that looks up an object and moves no reference on a handle.
LEMMA LookupKeeps ==
  ASSUME TableAssumption, IInv, NEW t \in Threads, NEW h \in Slots,
         NEW found \in Ops, NEW missing \in Ops, Lookup(t, h, found, missing),
         op[t].pins = {}, missing.pins = {}, CallOK(missing),
         found.pc \notin Keeping \cup Referring, missing.pc \notin Keeping \cup Referring,
         found.got = op[t].got, missing.got = op[t].got,
         found.call = op[t].call \/ found.call = "none",
         missing.call = op[t].call \/ missing.call = "none",
         \A o \in Objects : CallOK(With(found, o)),
         UNCHANGED <<table, room, names, given, lost>>
  PROVE  IInv'
<1>1. UNCHANGED <<table, room, names, lost>> /\ UNCHANGED given
  OBVIOUS
<1>2. /\ OnlyThread(t) /\ op' \in [Threads -> Ops] /\ object' \in [Objects -> XObjects]
      /\ PointersCounted' /\ VectorsOK' /\ SlotsOK' /\ CallsOK' /\ NamingOK' /\ NamesLeadHome'
      /\ \/ table[h].obj = NoObject /\ op'[t] = missing
         \/ /\ table[h].obj \in Objects
            /\ op'[t] = With(found, table[h].obj)
  <2>1. found.pc # "name it" /\ missing.pc # "name it"
    BY DEF Keeping
  <2>2. QED
    BY <1>1, <2>1, LookupStep
<1>3. /\ op'[t].got = op[t].got /\ (op'[t].call = op[t].call \/ op'[t].call = "none")
      /\ op'[t].pc \notin Referring /\ op'[t].pc \notin Keeping
  <2>1. CASE op'[t] = missing
    BY <2>1
  <2>2. CASE table[h].obj \in Objects /\ op'[t] = With(found, table[h].obj)
    <3>1. PICK o \in Objects : op'[t] = With(found, o)
      BY <2>2
    <3>2. op'[t].pc = found.pc /\ op'[t].call = found.call /\ op'[t].got = found.got
      BY <3>1, PinnedCall
    <3>3. QED
      BY <3>2
  <2>3. QED
    BY <1>2, <2>1, <2>2
<1>4. TypeOK'
  BY <1>1, <1>2 DEF IInv, TypeOK, room, given
<1>5. ReferOK'
  BY <1>1, <1>2, <1>3, ReferStep, PinsAreObjects DEF IInv, given
<1>6. HandlesCounted'
  BY <1>1, <1>2, <1>3, CountsStay DEF IInv
<1>7. KeptIsOurs'
  BY <1>1, <1>2, <1>3, <1>4, <1>6, KeptStep DEF IInv
<1>8. QED
  BY <1>2, <1>4, <1>5, <1>6, <1>7 DEF IInv

\* A call that holds a reference and forgets it.
LEMMA LeakStep ==
  ASSUME TableAssumption, TypeOK, HandlesCounted, NEW t \in Threads, OnlyThread(t),
         op'[t].got = NoHandle,
         leaked' = IF op[t].got = NoHandle THEN leaked ELSE [leaked EXCEPT ![op[t].got] = @ + 1],
         \A h \in Slots : table'[h].refs = table[h].refs,
         UNCHANGED <<owned, byPointer>>, lost => lost'
  PROVE  HandlesCounted' /\ leaked' \in [Slots -> Nat]
<1>1. leaked \in [Slots -> Nat] /\ op[t].got \in Handles
  BY DEF TypeOK, Ops
<1>2. leaked' \in [Slots -> Nat]
  BY <1>1 DEF Handles
<1>3. ASSUME ~ lost', NEW h \in Slots
      PROVE  table'[h].refs = owned'[h] + leaked'[h]
               + Cardinality(PointersVia(h)') + Cardinality(CallsHolding(h)')
  <2>1. table[h].refs = owned[h] + leaked[h]
              + Cardinality(PointersVia(h)) + Cardinality(CallsHolding(h))
    BY <1>3, HandlesInTerms
  <2>2. h # NoHandle /\ leaked[h] \in Nat /\ owned[h] \in Nat
    BY <1>1 DEF Slots, NoHandle, TypeOK
  <2>3. PointersVia(h)' = PointersVia(h) /\ Cardinality(PointersVia(h)) \in Nat
    BY PointersCount DEF PointersVia
  <2>4. Cardinality(CallsHolding(h)) \in Nat /\ Cardinality(CallsHolding(h)') \in Nat
    BY HoldingRecount
  <2>5. CASE op[t].got = h
    <3>1. leaked'[h] = leaked[h] + 1
      BY <1>1, <2>2, <2>5
    <3>2. Cardinality(CallsHolding(h)) = Cardinality(CallsHolding(h)') + 1
      BY <2>2, <2>5, HoldingRecount
    <3>3. QED
      BY <2>1, <2>2, <2>3, <2>4, <3>1, <3>2
  <2>6. CASE op[t].got # h
    <3>1. leaked'[h] = leaked[h]
      BY <1>1, <2>6
    <3>2. Cardinality(CallsHolding(h)) = Cardinality(CallsHolding(h)')
      BY <2>2, <2>6, HoldingRecount
    <3>3. QED
      BY <2>1, <2>3, <3>1, <3>2
  <2>7. QED
    BY <2>5, <2>6
<1>4. QED
  BY <1>2, <1>3, HandlesInTermsNext

\* Fields of a call whose place changes.
LEMMA PlacedCall ==
  ASSUME NEW r \in Ops, NEW p \in Places
  PROVE  LET s == [r EXCEPT !.pc = p]
         IN  /\ s \in Ops /\ s.pins = r.pins /\ s.pc = p /\ s.call = r.call /\ s.name = r.name
             /\ s.kind = r.kind /\ s.handle = r.handle /\ s.first = r.first /\ s.got = r.got
BY DEF Ops

\* GetObjectByName's lookup of the handle it read from name_table_.
LEMMA LocateKeeps ==
  ASSUME TableAssumption, IInv, NEW t \in Threads, Locate(t) PROVE IInv'
<1> DEFINE r == op[t]
           found == [r EXCEPT !.pc = "find"]
           missing == [r EXCEPT !.pc = AfterFind(t)]
<1>1. /\ r \in Ops /\ r.pc = "locate" /\ r.pins = {} /\ r.got = NoHandle /\ r.handle \in Slots
      /\ r.call \in {"create", "open", "refer by name"}
  BY DEF IInv, TypeOK, CallsOK, CallOK, Locate, Pinless, Handless, ByName
<1>2. AfterFind(t) \in {"again", "give", "by name"}
      /\ (r.call = "refer by name" <=> AfterFind(t) = "by name")
  BY <1>1 DEF AfterFind
<1>3. AfterFind(t) \in Places /\ "find" \in Places
  BY <1>2 DEF Places
<1>4. found \in Ops /\ missing \in Ops /\ missing.pins = {} /\ missing.pc = AfterFind(t)
      /\ found.pc = "find" /\ missing.call = r.call /\ found.call = r.call
      /\ missing.got = NoHandle /\ found.got = NoHandle
      /\ missing.handle = r.handle /\ found.handle = r.handle
  BY <1>1, <1>3, PlacedCall
<1>5. Lookup(t, r.handle, found, missing) /\ UNCHANGED <<table, room, names, given, lost>>
  BY DEF Locate
<1> HIDE DEF found, missing
<1>6. CallOK(missing)
  BY <1>1, <1>2, <1>4 DEF CallOK, Pinless, Pinning, Handless, ByName, Referring
<1>7. ASSUME NEW o \in Objects PROVE CallOK(With(found, o))
  <2> DEFINE s == With(found, o)
  <2>1. /\ s \in Ops /\ s.pins = {o} /\ s.pc = "find" /\ s.call = r.call
        /\ s.got = NoHandle /\ s.handle = r.handle
    BY <1>4, PinnedCall
  <2> HIDE DEF s
  <2>2. CallOK(s)
    BY <1>1, <2>1 DEF CallOK, Pinless, Pinning, Handless, ByName, Referring
  <2>3. QED
    BY <2>2 DEF s
<1>8. found.pc \notin Keeping \cup Referring /\ missing.pc \notin Keeping \cup Referring
  BY <1>2, <1>4 DEF Keeping, Referring
<1>9. UNCHANGED <<table, room, names, given, lost>> /\ Lookup(t, r.handle, found, missing)
  BY <1>5
<1>10. QED
  BY <1>1, <1>4, <1>6, <1>7, <1>8, <1>9, LookupKeeps

\* A call that uses the object of a handle.
LEMMA UseKeeps ==
  ASSUME TableAssumption, IInv, NEW t \in Threads, NEW h \in Slots, Use(t, h) PROVE IInv'
<1> DEFINE found == [Idle EXCEPT !.pc = "drop"]
<1>1. op[t] = Idle /\ Lookup(t, h, found, Idle) /\ UNCHANGED <<table, room, names, given, lost>>
  BY DEF IInv, CallsOK, CallOK, Use, Ready
<1>2. found \in Ops /\ found.pc = "drop" /\ found.call = "none" /\ found.got = NoHandle
  BY IdleIs DEF Ops, Places
<1> HIDE DEF found
<1>3. ASSUME NEW o \in Objects PROVE CallOK(With(found, o))
  <2>1. /\ With(found, o).pc = "drop" /\ With(found, o).call = "none"
        /\ With(found, o).got = NoHandle
    BY <1>2, PinnedCall
  <2>2. QED
    BY <2>1 DEF CallOK, Pinless, Pinning, Handless, ByName, Referring
<1>4. found.pc \notin Keeping \cup Referring /\ Idle.pc \notin Keeping \cup Referring
  BY <1>2, IdleIs DEF Keeping, Referring
<1>5. /\ Idle \in Ops /\ CallOK(Idle) /\ op[t].pins = {} /\ Idle.pins = {}
      /\ found.got = op[t].got /\ Idle.got = op[t].got
      /\ found.call = "none" /\ Idle.call = "none"
  BY <1>1, <1>2, IdleIs
<1>6. UNCHANGED <<table, room, names, given, lost>>
  BY <1>1
<1>7. QED
  BY <1>1, <1>2, <1>3, <1>4, <1>5, <1>6, LookupKeeps

\* ObOpenObjectByPointer, through the handle stashed in the object's header.
LEMMA OpenByPointerKeeps ==
  ASSUME TableAssumption, IInv, NEW t \in Threads, NEW p \in Objects, OpenByPointer(t, p)
  PROVE  IInv'
<1> DEFINE found == [Idle EXCEPT !.pc = "keep"]
           h == object[p].stash
<1>1. op[t] = Idle /\ Lookup(t, h, found, Idle) /\ UNCHANGED <<table, room, names, given, lost>>
  BY DEF IInv, CallsOK, CallOK, OpenByPointer, Ready
<1>2. h \in Slots
  BY DEF IInv, VectorsOK, OpenByPointer, Alive
<1>3. found \in Ops /\ found.pc = "keep" /\ found.call = "none" /\ found.got = NoHandle
  BY IdleIs DEF Ops, Places
<1> HIDE DEF found, h
<1>4. ASSUME NEW o \in Objects PROVE CallOK(With(found, o))
  <2>1. /\ With(found, o).pc = "keep" /\ With(found, o).call = "none"
        /\ With(found, o).got = NoHandle /\ With(found, o).pins = {o}
    BY <1>3, PinnedCall
  <2>2. QED
    BY <2>1 DEF CallOK, Pinless, Pinning, Handless, ByName, Referring
<1>5. found.pc \notin Keeping \cup Referring /\ Idle.pc \notin Keeping \cup Referring
  BY <1>3, IdleIs DEF Keeping, Referring
<1>6. /\ Idle \in Ops /\ CallOK(Idle) /\ op[t].pins = {} /\ Idle.pins = {}
      /\ found.got = op[t].got /\ Idle.got = op[t].got
      /\ found.call = "none" /\ Idle.call = "none"
  BY <1>1, <1>3, IdleIs
<1>7. UNCHANGED <<table, room, names, given, lost>>
  BY <1>1
<1>8. QED
  BY <1>1, <1>2, <1>3, <1>4, <1>5, <1>6, <1>7, LookupKeeps

\* LookupNamedObject's own lookup, or the end of its hope for a match.
LEMMA AgainKeeps ==
  ASSUME TableAssumption, IInv, NEW t \in Threads, Again(t) PROVE IInv'
<1> DEFINE r == op[t]
           o == table[r.handle].obj
           found == [Idle EXCEPT !.pc = "undo", !.got = r.got]
           next == [r EXCEPT !.pc = "make", !.handle = NoHandle, !.got = NoHandle]
<1>1. r \in Ops /\ r.pc = "again" /\ r.pins = {} /\ r.handle \in Slots
      /\ r.call # "refer by name"
  BY DEF IInv, TypeOK, CallsOK, CallOK, Again, Pinless, ByName
<1>2. UNCHANGED <<table, room, names, owned, byPointer, lost>>
  BY DEF Again
<1>3. CASE o # NoObject /\ object[o].kind = r.kind
  <2>1. Lookup(t, r.handle, found, r) /\ leaked' = leaked
    BY <1>3 DEF Again
  <2>2. found \in Ops /\ found.pc = "undo" /\ found.call = "none" /\ found.got = r.got
    BY <1>1, IdleIs DEF Ops, Places
  <2> HIDE DEF found
  <2>3. ASSUME NEW p \in Objects PROVE CallOK(With(found, p))
    <3>1. With(found, p).pc = "undo" /\ With(found, p).call = "none" /\ With(found, p).pins = {p}
      BY <2>2, PinnedCall
    <3>2. QED
      BY <3>1 DEF CallOK, Pinless, Pinning, Handless, ByName, Referring
  <2>4. found.pc \notin Keeping \cup Referring /\ r.pc \notin Keeping \cup Referring
    BY <1>1, <2>2 DEF Keeping, Referring
  <2>5. CallOK(r) /\ r \in Ops /\ op[t].pins = {} /\ r.pins = {}
        /\ found.got = op[t].got /\ r.got = op[t].got /\ found.call = "none" /\ r.call = op[t].call
    BY <1>1, <2>2 DEF IInv, CallsOK
  <2>6. UNCHANGED <<table, room, names, given, lost>>
    BY <1>2, <2>1 DEF given
  <2>7. QED
    BY <1>1, <2>1, <2>2, <2>3, <2>4, <2>5, <2>6, LookupKeeps
<1>4. CASE ~ (o # NoObject /\ object[o].kind = r.kind)
  <2>1. /\ op' = [op EXCEPT ![t] = next] /\ object' = object
        /\ leaked' = IF r.got = NoHandle THEN leaked ELSE [leaked EXCEPT ![r.got] = @ + 1]
    BY <1>4 DEF Again
  <2>2. next \in Ops /\ next.pc = "make" /\ next.pins = {} /\ next.got = NoHandle
        /\ next.call = r.call
    BY <1>1 DEF Ops, Places, Handles
  <2> HIDE DEF next
  <2>3. CallOK(next)
    BY <1>1, <2>2 DEF CallOK, Pinless, Pinning, Handless, ByName, Referring
  <2>4. CallsOK' /\ OnlyThread(t) /\ op'[t] = next /\ op' \in [Threads -> Ops]
    BY <2>1, <2>2, <2>3, CallStep DEF IInv
  <2>5. /\ UNCHANGED <<table, names, object, owned, byPointer, lost>> /\ SameEntries /\ SlotsOK'
    BY <1>2, <2>1 DEF SameEntries, IInv, SlotsOK, room
  <2>6. PointersCounted' /\ VectorsOK'
    BY <1>1, <2>2, <2>4, <2>5, ObjectsStay DEF IInv
  <2>7. NamingOK'
    BY <2>2, <2>4, <2>5, NamingStep, PinsAreObjects DEF IInv
  <2>8. ReferOK'
    BY <1>1, <2>2, <2>4, <2>5, ReferStep, PinsAreObjects DEF IInv, Referring
  <2>9. HandlesCounted' /\ leaked' \in [Slots -> Nat]
    BY <2>1, <2>2, <2>4, <2>5, LeakStep DEF IInv
  <2>10. TypeOK'
    BY <1>2, <2>4, <2>5, <2>9 DEF IInv, TypeOK, room
  <2>11. KeptIsOurs'
    BY <2>2, <2>4, <2>5, <2>9, <2>10, KeptStep DEF IInv, Keeping
  <2>12. NamesLeadHome'
    BY <2>5 DEF IInv, NamesLeadHome
  <2>13. QED
    BY <2>4, <2>5, <2>6, <2>7, <2>8, <2>9, <2>10, <2>11, <2>12 DEF IInv
<1>5. QED
  BY <1>3, <1>4

\* A step that changes nothing but where its call is.
LEMMA PlainStep ==
  ASSUME TableAssumption, IInv, NEW t \in Threads, NEW r \in Ops, op' = [op EXCEPT ![t] = r],
         CallOK(r), r.pins = op[t].pins, r.got = op[t].got, r.pc \notin Keeping,
         UNCHANGED <<table, room, names, object, given, lost>>, ReferOK'
  PROVE  IInv'
<1>1. CallsOK' /\ OnlyThread(t) /\ op'[t] = r /\ op' \in [Threads -> Ops]
  BY CallStep DEF IInv
<1>2. /\ UNCHANGED <<table, names, object, lost>> /\ UNCHANGED given /\ UNCHANGED room
      /\ SameEntries /\ SlotsOK'
  BY DEF SameEntries, IInv, SlotsOK, room
<1>3. PointersCounted' /\ VectorsOK'
  BY <1>1, <1>2, ObjectsStay DEF IInv
<1>4. NamingOK'
  BY <1>1, <1>2, NamingStep, PinsAreObjects DEF IInv, Keeping
<1>5. HandlesCounted'
  BY <1>1, <1>2, CountsStay DEF IInv
<1>6. TypeOK'
  BY <1>1, <1>2 DEF IInv, TypeOK, room, given
<1>7. KeptIsOurs'
  BY <1>1, <1>2, <1>5, <1>6, KeptStep DEF IInv
<1>8. NamesLeadHome'
  BY <1>2 DEF IInv, NamesLeadHome
<1>9. QED
  BY <1>1, <1>2, <1>3, <1>4, <1>5, <1>6, <1>7, <1>8 DEF IInv

\* A create for which there is no room.
LEMMA NoRoomKeeps ==
  ASSUME TableAssumption, IInv, NEW t \in Threads, NoRoom(t) PROVE IInv'
<1>1. /\ op[t].pc = "make" /\ op[t].pins = {} /\ op[t].got = NoHandle
      /\ op' = [op EXCEPT ![t] = Idle] /\ UNCHANGED <<table, room, names, object, given, lost>>
  BY DEF NoRoom, IInv, CallsOK, CallOK, Pinless, Handless
<1>2. OnlyThread(t) /\ op'[t] = Idle
  BY <1>1, IdleIs, CallStep DEF IInv
<1>3. ReferOK'
  <2>1. Idle.pc \notin Referring /\ Idle.call \notin {"refer", "refer by name"}
    BY IdleIs DEF Referring
  <2>2. byPointer' = byPointer
    BY <1>1 DEF given
  <2>3. QED
    BY <1>2, <2>1, <2>2, ReferStep, PinsAreObjects DEF IInv
<1>4. UNCHANGED <<table, room, names, object, given, lost>>
  BY <1>1
<1>5. Idle.pc \notin Keeping
  BY IdleIs DEF Keeping
<1>6. QED
  BY <1>1, <1>3, <1>4, <1>5, IdleIs, PlainStep

\* The unlocked read of handles_.
LEMMA ReadFirstKeeps ==
  ASSUME TableAssumption, IInv, NEW t \in Threads, ReadFirst(t) PROVE IInv'
<1> DEFINE r == op[t]
           hs == object[Pin(t)].handles
           f == IF hs = <<>> THEN NoHandle ELSE hs[1]
           s == [r EXCEPT !.pc = Locked[@], !.first = f]
<1>1. /\ r \in Ops /\ r.pc \in {"find", "keep", "refer", "undo", "unrefer"} /\ CallOK(r)
      /\ op' = [op EXCEPT ![t].pc = Locked[@], ![t].first = f]
      /\ UNCHANGED <<table, room, names, object, given, lost>>
      /\ op \in [Threads -> Ops]
  BY DEF ReadFirst, IInv, TypeOK, CallsOK, Retains, Releases
<1>2. /\ Locked[r.pc] \in {"find2", "keep2", "refer2", "undo2", "unrefer2"}
      /\ (r.pc = "find" <=> Locked[r.pc] = "find2") /\ (r.pc = "keep" <=> Locked[r.pc] = "keep2")
      /\ (r.pc = "refer" <=> Locked[r.pc] = "refer2") /\ (r.pc = "undo" <=> Locked[r.pc] = "undo2")
      /\ Locked[r.pc] \in Places
  <2>1. /\ Locked["find"] = "find2" /\ Locked["keep"] = "keep2" /\ Locked["refer"] = "refer2"
        /\ Locked["undo"] = "undo2" /\ Locked["unrefer"] = "unrefer2"
    BY DEF Locked
  <2>2. Locked[r.pc] \in Places
    BY <1>1, <2>1 DEF Places
  <2>3. QED
    BY <1>1, <2>1, <2>2
<1>3. f \in Handles
  <2>1. Pin(t) \in Objects
    BY <1>1, PinIs DEF IInv, Pinning
  <2>2. hs \in Seq(Slots)
    BY <2>1 DEF IInv, TypeOK, XObjects
  <2>3. CASE hs = <<>>
    BY <2>3 DEF Handles
  <2>4. CASE hs # <<>>
    <3>1. hs[1] \in Slots
      BY <2>2, <2>4
    <3>2. QED
      BY <2>4, <3>1 DEF Handles
  <2>5. QED
    BY <2>3, <2>4
<1> HIDE DEF f
<1>4. /\ s \in Ops /\ s.pc = Locked[r.pc] /\ s.pins = r.pins /\ s.got = r.got
      /\ s.call = r.call /\ s.handle = r.handle /\ s.name = r.name
  BY <1>1, <1>2, <1>3 DEF Ops
<1>5. op' = [op EXCEPT ![t] = s]
  BY <1>1
<1> HIDE DEF s
<1>6. CallOK(s)
  BY <1>1, <1>2, <1>4 DEF CallOK, Pinless, Pinning, Handless, ByName, Referring
<1>7. OnlyThread(t) /\ op'[t] = s
  BY <1>4, <1>5, <1>6, CallStep DEF IInv
<1>8. ReferOK'
  <2>1. s.pc \in Referring => r.pc \in Referring
    BY <1>1, <1>2, <1>4 DEF Referring
  <2>2. byPointer' = byPointer
    BY <1>1 DEF given
  <2>3. QED
    BY <1>4, <1>7, <2>1, <2>2, ReferStep, PinsAreObjects DEF IInv
<1>9. s.pc \notin Keeping /\ UNCHANGED <<table, room, names, object, given, lost>>
  BY <1>1, <1>2, <1>4 DEF Keeping
<1>10. QED
  BY <1>4, <1>5, <1>6, <1>8, <1>9, PlainStep

\* GetObjectByName's read of name_table_.
LEMMA CallByNameKeeps ==
  ASSUME TableAssumption, IInv, NEW t \in Threads, CallByName(t) PROVE IInv'
<1>1. PICK n \in Names, k \in Kinds, call \in {"create", "open", "refer by name"} :
        LET r == [Idle EXCEPT !.call = call, !.name = n, !.handle = names[n],
                              !.kind = IF call = "create" THEN k ELSE NoName]
        IN  /\ call = "refer by name" => NoReference
            /\ \/ names[n] # NoHandle /\ op' = [op EXCEPT ![t] = [r EXCEPT !.pc = "locate"]]
               \/ /\ names[n] = NoHandle /\ call = "create"
                  /\ op' = [op EXCEPT ![t] = [r EXCEPT !.pc = "make"]]
  BY DEF CallByName
<1>2. op[t] = Idle /\ UNCHANGED <<table, room, names, object, given, lost>>
  BY DEF CallByName, Ready, IInv, CallsOK, CallOK
<1> DEFINE r == [Idle EXCEPT !.call = call, !.name = n, !.handle = names[n],
                             !.kind = IF call = "create" THEN k ELSE NoName]
<1>3. names[n] \in Handles /\ call \in Calls /\ NoHandle \notin Slots
  <2>1. names[n] \in Handles
    BY DEF IInv, TypeOK
  <2>2. call \in Calls
    BY DEF Calls
  <2>3. QED
    <3>1. NoHandle \notin Slots
      BY PinsAreObjects DEF IInv
    <3>2. QED
      BY <2>1, <2>2, <3>1
<1>4. r \in Ops /\ r.call = call /\ r.handle = names[n] /\ r.pins = {} /\ r.got = NoHandle
  BY <1>3, IdleIs DEF Ops
<1> HIDE DEF r
<1>5. PICK s : /\ op' = [op EXCEPT ![t] = s]
               /\ \/ s = [r EXCEPT !.pc = "locate"] /\ names[n] # NoHandle
                  \/ s = [r EXCEPT !.pc = "make"] /\ call = "create"
  BY <1>1 DEF r
<1>6. /\ s \in Ops /\ s.call = call /\ s.handle = names[n] /\ s.pins = {} /\ s.got = NoHandle
      /\ \/ s.pc = "locate" /\ names[n] # NoHandle
         \/ s.pc = "make" /\ call = "create"
  <2>1. "locate" \in Places /\ "make" \in Places
    BY DEF Places
  <2>2. CASE s = [r EXCEPT !.pc = "locate"] /\ names[n] # NoHandle
    BY <1>4, <2>1, <2>2, PlacedCall
  <2>3. CASE s = [r EXCEPT !.pc = "make"] /\ call = "create"
    BY <1>4, <2>1, <2>3, PlacedCall
  <2>4. QED
    BY <1>5, <2>2, <2>3
<1>7. CallOK(s)
  <2>1. s.pc = "locate" => s.handle \in Slots
    BY <1>3, <1>6 DEF Handles
  <2>2. QED
    BY <1>6, <2>1 DEF CallOK, Pinless, Pinning, Handless, ByName, Referring
<1>8. OnlyThread(t) /\ op'[t] = s
  BY <1>5, <1>6, <1>7, CallStep DEF IInv
<1>9. ReferOK'
  <2>1. byPointer' = byPointer /\ s.pc \notin Referring
    BY <1>2, <1>6 DEF given, Referring
  <2>2. CASE call # "refer by name"
    <3>1. s.call \notin {"refer", "refer by name"}
      BY <1>6, <2>2
    <3>2. QED
      BY <1>8, <2>1, <3>1, ReferStep, PinsAreObjects DEF IInv
  <2>3. CASE call = "refer by name"
    <3>1. /\ \A o \in Objects : byPointer[o] = NoHandle
          /\ \A u \in Threads : op[u].call \notin {"refer", "refer by name"}
      BY <1>1, <2>3 DEF NoReference
    <3>2. \A u \in Threads : op[u].pc \notin Referring
      BY <3>1 DEF IInv, CallsOK, CallOK
    <3>3. \A u \in Threads : op'[u].pc \notin Referring
      BY <1>8, <2>1, <3>2 DEF OnlyThread
    <3>4. \A u \in Threads \ {t} : op'[u].call \notin {"refer", "refer by name"}
      BY <1>8, <3>1 DEF OnlyThread
    <3>5. QED
      BY <2>1, <3>1, <3>3, <3>4 DEF ReferOK
  <2>4. QED
    BY <2>2, <2>3
<1>10. s.pc \notin Keeping /\ op[t].pins = {} /\ op[t].got = NoHandle
  BY <1>2, <1>6, IdleIs DEF Keeping
<1>11. UNCHANGED <<table, room, names, object, given, lost>>
  BY <1>2
<1>12. QED
  BY <1>5, <1>6, <1>7, <1>9, <1>10, <1>11, PlainStep

\* A call that lets go of the objects it has pinned.
LEMMA LetGo ==
  ASSUME TableAssumption, IInv, NEW t \in Threads, NEW r \in Ops, op' = [op EXCEPT ![t] = r],
         CallOK(r), r.pins = {}, r.pc # "name it", SameEntries,
         object' = Released(op[t].pins), names' = names, lost => lost'
  PROVE  /\ OnlyThread(t) /\ op'[t] = r /\ op' \in [Threads -> Ops]
         /\ object' \in [Objects -> XObjects] /\ PointersCounted' /\ VectorsOK'
         /\ CallsOK' /\ NamingOK' /\ NamesLeadHome'
<1>1. CallsOK' /\ OnlyThread(t) /\ op'[t] = r /\ op' \in [Threads -> Ops]
  BY CallStep DEF IInv
<1>2. /\ PointersCounted' /\ VectorsOK' /\ object' \in [Objects -> XObjects]
      /\ \A o \in Objects : object'[o].name \in {object[o].name, NoName}
      /\ \A h \in Slots : table[h].obj # NoObject =>
           object'[table[h].obj].name = object[table[h].obj].name
  BY <1>1, ObjectsReleased DEF IInv
<1>3. NamingOK'
  BY <1>1, <1>2, NamingStep, PinsAreObjects DEF IInv
<1>4. NamesLeadHome'
  BY <1>2, NamesStay DEF IInv, SameEntries
<1>5. QED
  BY <1>1, <1>2, <1>3, <1>4

\* The object_refs of a call go out of scope.
LEMMA DropKeeps ==
  ASSUME TableAssumption, IInv, NEW t \in Threads, Drop(t) PROVE IInv'
<1>1. /\ op[t].pc = "drop" /\ op[t].got = NoHandle /\ object' = Released(op[t].pins)
      /\ op' = [op EXCEPT ![t] = Idle]
      /\ UNCHANGED <<table, names, lost>> /\ UNCHANGED room /\ UNCHANGED given
  BY DEF Drop, IInv, CallsOK, CallOK, Handless
<1>2. SameEntries /\ Idle.pc # "name it"
  BY <1>1, IdleIs DEF SameEntries
<1>3. /\ OnlyThread(t) /\ op'[t] = Idle /\ op' \in [Threads -> Ops]
      /\ object' \in [Objects -> XObjects] /\ PointersCounted' /\ VectorsOK'
      /\ CallsOK' /\ NamingOK' /\ NamesLeadHome'
  BY <1>1, <1>2, IdleIs, LetGo
<1>4. SlotsOK'
  BY <1>1 DEF IInv, SlotsOK, room
<1>5. HandlesCounted'
  BY <1>1, <1>3, IdleIs, CountsStay DEF IInv
<1>6. TypeOK'
  BY <1>1, <1>3 DEF IInv, TypeOK, room, given
<1>7. ReferOK'
  BY <1>1, <1>3, IdleIs, ReferStep, PinsAreObjects DEF IInv, given, Referring
<1>8. KeptIsOurs'
  BY <1>1, <1>2, <1>3, <1>4, <1>5, <1>6, IdleIs, KeptStep DEF IInv, Keeping, SameEntries
<1>9. QED
  BY <1>3, <1>4, <1>5, <1>6, <1>7, <1>8 DEF IInv

\* The guest gets a reference with the answer.
LEMMA AnswerStep ==
  ASSUME TableAssumption, TypeOK, HandlesCounted, NEW t \in Threads, OnlyThread(t),
         NEW h \in Slots, Answer(t, h), op'[t].got = NoHandle, SameEntries,
         \A g \in Slots : table'[g].refs = table[g].refs
  PROVE  /\ HandlesCounted' /\ owned' \in [Slots -> Nat] /\ lost' \in BOOLEAN
         /\ (lost => lost') /\ UNCHANGED <<byPointer, leaked>>
<1>1. /\ owned' = [owned EXCEPT ![h] = @ + 1] /\ UNCHANGED <<byPointer, leaked>>
      /\ lost' = (lost \/ op[t].got # h) /\ owned \in [Slots -> Nat] /\ lost \in BOOLEAN
  BY DEF Answer, TypeOK
<1>2. owned' \in [Slots -> Nat] /\ lost' \in BOOLEAN /\ (lost => lost')
  BY <1>1
<1>3. ASSUME ~ lost', NEW g \in Slots
      PROVE  table'[g].refs = owned'[g] + leaked'[g]
               + Cardinality(PointersVia(g)') + Cardinality(CallsHolding(g)')
  <2>1. /\ op[t].got = h
        /\ table[g].refs = owned[g] + leaked[g]
              + Cardinality(PointersVia(g)) + Cardinality(CallsHolding(g))
    BY <1>1, <1>3, HandlesInTerms
  <2>2. g # NoHandle /\ leaked[g] \in Nat /\ owned[g] \in Nat
    BY PinsAreObjects DEF TypeOK
  <2>3. PointersVia(g)' = PointersVia(g) /\ Cardinality(PointersVia(g)) \in Nat
    BY <1>1, PointersCount DEF PointersVia
  <2>4. Cardinality(CallsHolding(g)) \in Nat /\ Cardinality(CallsHolding(g)') \in Nat
    BY HoldingRecount
  <2>5. CASE g = h
    <3>1. owned'[g] = owned[g] + 1
      BY <1>1, <2>5
    <3>2. Cardinality(CallsHolding(g)) = Cardinality(CallsHolding(g)') + 1
      BY <2>1, <2>2, <2>5, HoldingRecount
    <3>3. QED
      BY <1>1, <2>1, <2>2, <2>3, <2>4, <3>1, <3>2
  <2>6. CASE g # h
    <3>1. owned'[g] = owned[g]
      BY <1>1, <2>6
    <3>2. Cardinality(CallsHolding(g)) = Cardinality(CallsHolding(g)')
      BY <2>1, <2>2, <2>6, HoldingRecount
    <3>3. QED
      BY <1>1, <2>1, <2>3, <3>1, <3>2
  <2>7. QED
    BY <2>5, <2>6
<1>4. QED
  BY <1>1, <1>2, <1>3, HandlesInTermsNext

\* The answer is handles_[0], read again.
LEMMA GiveFirstKeeps ==
  ASSUME TableAssumption, IInv, NEW t \in Threads, GiveFirst(t) PROVE IInv'
<1>1. PICK h \in FirstHandles(Pin(t)) : Answer(t, h)
  BY DEF GiveFirst
<1>2. /\ op[t].pc = "answer" /\ object' = Released(op[t].pins)
      /\ op' = [op EXCEPT ![t] = Idle] /\ UNCHANGED <<table, names>> /\ UNCHANGED room
  BY DEF GiveFirst
<1>3. h \in Slots
  <2>1. Pin(t) \in Objects
    BY <1>2, PinIs DEF IInv, Pinning
  <2>2. object[Pin(t)].handles \in Seq(Slots)
    BY <2>1 DEF IInv, TypeOK, XObjects
  <2>3. CASE object[Pin(t)].handles = <<>>
    BY <1>1, <2>3 DEF FirstHandles
  <2>4. CASE object[Pin(t)].handles # <<>>
    <3>1. object[Pin(t)].handles[1] \in Slots
      BY <2>2, <2>4
    <3>2. QED
      BY <1>1, <2>4, <3>1 DEF FirstHandles
  <2>5. QED
    BY <2>3, <2>4
<1>4. SameEntries /\ Idle.pc # "name it" /\ (lost => lost')
  BY <1>1, <1>2, IdleIs DEF SameEntries, Answer
<1>5. /\ OnlyThread(t) /\ op'[t] = Idle /\ op' \in [Threads -> Ops]
      /\ object' \in [Objects -> XObjects] /\ PointersCounted' /\ VectorsOK'
      /\ CallsOK' /\ NamingOK' /\ NamesLeadHome'
  BY <1>2, <1>4, IdleIs, LetGo
<1>6. SlotsOK'
  BY <1>2 DEF IInv, SlotsOK, room
<1>7. /\ HandlesCounted' /\ owned' \in [Slots -> Nat] /\ lost' \in BOOLEAN
      /\ (lost => lost') /\ UNCHANGED <<byPointer, leaked>>
  BY <1>1, <1>2, <1>3, <1>4, <1>5, IdleIs, AnswerStep DEF IInv
<1>8. TypeOK'
  BY <1>2, <1>5, <1>7 DEF IInv, TypeOK, room
<1>9. ReferOK'
  BY <1>5, <1>7, IdleIs, ReferStep, PinsAreObjects DEF IInv, Referring
<1>10. KeptIsOurs'
  BY <1>4, <1>5, <1>6, <1>7, <1>8, IdleIs, KeptStep DEF IInv, Keeping, SameEntries
<1>11. QED
  BY <1>5, <1>6, <1>7, <1>8, <1>9, <1>10 DEF IInv

\* ObOpenObjectByName's answer is the handle found under the name.
LEMMA GiveFoundKeeps ==
  ASSUME TableAssumption, IInv, NEW t \in Threads, GiveFound(t) PROVE IInv'
<1> DEFINE h == op[t].handle
<1>1. /\ op[t].pc = "give" /\ op[t].pins = {} /\ h \in Slots /\ Answer(t, h)
      /\ op' = [op EXCEPT ![t] = Idle] /\ UNCHANGED <<table, names, object>> /\ UNCHANGED room
  BY DEF GiveFound, IInv, CallsOK, CallOK, Pinless, ByName
<1>2. /\ CallsOK' /\ OnlyThread(t) /\ op'[t] = Idle /\ op' \in [Threads -> Ops]
      /\ Idle.pins = {} /\ Idle.got = NoHandle /\ Idle.pc = "idle" /\ Idle.call = "none"
  BY <1>1, IdleIs, CallStep DEF IInv
<1>3. SameEntries /\ SlotsOK' /\ \A g \in Slots : table'[g].refs = table[g].refs
  BY <1>1 DEF SameEntries, SlotsOK, IInv, room
<1>4. PointersCounted' /\ VectorsOK'
  BY <1>1, <1>2, <1>3, ObjectsStay DEF IInv
<1>5. /\ HandlesCounted' /\ owned' \in [Slots -> Nat] /\ lost' \in BOOLEAN
      /\ (lost => lost') /\ UNCHANGED <<byPointer, leaked>>
  BY <1>1, <1>2, <1>3, AnswerStep DEF IInv
<1>6. TypeOK'
  BY <1>1, <1>2, <1>5 DEF IInv, TypeOK, room
<1>7. NamingOK'
  BY <1>1, <1>2, NamingStep, PinsAreObjects DEF IInv
<1>8. ReferOK'
  BY <1>2, <1>5, ReferStep, PinsAreObjects DEF IInv, Referring
<1>9. KeptIsOurs'
  BY <1>2, <1>3, <1>5, <1>6, KeptStep DEF IInv, Keeping, SameEntries
<1>10. NamesLeadHome'
  BY <1>1, <1>5 DEF IInv, NamesLeadHome
<1>11. QED
  BY <1>2, <1>3, <1>4, <1>5, <1>6, <1>7, <1>8, <1>9, <1>10 DEF IInv

\* GetAllObjects pins every object of the table.
LEMMA CollectKeeps ==
  ASSUME TableAssumption, IInv, NEW t \in Threads, Collect(t) PROVE IInv'
<1> DEFINE all == {table[h].obj : h \in Slots} \ {NoObject}
           r == [Idle EXCEPT !.pc = "drop", !.pins = all]
<1>1. /\ op[t] = Idle /\ object' = Retained(all) /\ op' = [op EXCEPT ![t] = r]
      /\ UNCHANGED <<table, names, lost>> /\ UNCHANGED room /\ UNCHANGED given
  BY DEF Collect, IInv, CallsOK, CallOK
<1>2. all \in SUBSET Objects /\ \A o \in all : \E h \in Slots : table[h].obj = o
  BY DEF IInv, TypeOK, Entries
<1> HIDE DEF all
<1>3. r \in Ops /\ r.pc = "drop" /\ r.pins = all /\ r.got = NoHandle /\ r.call = "none"
  BY <1>2, IdleIs DEF Ops, Places
<1> HIDE DEF r
<1>4. CallOK(r)
  BY <1>3 DEF CallOK, Pinless, Pinning, Handless, ByName, Referring
<1>5. CallsOK' /\ OnlyThread(t) /\ op'[t] = r /\ op' \in [Threads -> Ops]
  BY <1>1, <1>3, <1>4, CallStep DEF IInv
<1>6. SameEntries /\ SlotsOK' /\ op[t].pins = {} /\ op[t].got = NoHandle
  BY <1>1, IdleIs DEF SameEntries, IInv, SlotsOK, room
<1>7. /\ PointersCounted' /\ VectorsOK' /\ object' \in [Objects -> XObjects]
      /\ \A o \in Objects : object'[o].name = object[o].name
  BY <1>1, <1>2, <1>3, <1>5, <1>6, ObjectsPinned DEF IInv
<1>8. HandlesCounted'
  BY <1>1, <1>3, <1>5, <1>6, CountsStay DEF IInv
<1>9. TypeOK'
  BY <1>1, <1>5, <1>7 DEF IInv, TypeOK, room, given
<1>10. ReferOK'
  BY <1>1, <1>3, <1>5, ReferStep, PinsAreObjects DEF IInv, given, Referring
<1>11. NamingOK'
  BY <1>3, <1>5, <1>7, NamingStep, PinsAreObjects DEF IInv
<1>12. KeptIsOurs'
  BY <1>1, <1>3, <1>5, <1>6, <1>8, <1>9, KeptStep DEF IInv, Keeping, SameEntries
<1>13. NamesLeadHome'
  <2>1. ASSUME NEW g \in Slots, table[g].obj # NoObject
        PROVE  object'[table[g].obj].name = object[table[g].obj].name
    BY <1>7, <2>1 DEF IInv, TypeOK, Entries
  <2>2. QED
    BY <1>1, <1>6, <2>1, NamesStay DEF IInv, SameEntries
<1>14. QED
  BY <1>5, <1>6, <1>7, <1>8, <1>9, <1>10, <1>11, <1>12, <1>13 DEF IInv

\* A reference on a native pointer is asked for.
LEMMA ReferenceKeeps ==
  ASSUME TableAssumption, IInv, NEW t \in Threads, NEW h \in Slots, Reference(t, h) PROVE IInv'
<1> DEFINE found == [Idle EXCEPT !.pc = "refer", !.call = "refer"]
<1>1. /\ op[t] = Idle /\ Lookup(t, h, found, Idle)
      /\ UNCHANGED <<table, room, names, lost>> /\ UNCHANGED given
      /\ table[h].obj # NoObject /\ byPointer[table[h].obj] = NoHandle
      /\ \A u \in Threads : /\ op[u].call = "refer" => table[h].obj \notin op[u].pins
                            /\ op[u].call # "refer by name"
  BY DEF Reference, Ready, IInv, CallsOK, CallOK, Free
<1>2. found \in Ops /\ found.pc = "refer" /\ found.call = "refer" /\ found.got = NoHandle
  BY IdleIs DEF Ops, Places, Calls
<1> HIDE DEF found
<1>3. ASSUME NEW o \in Objects
      PROVE  /\ CallOK(With(found, o)) /\ With(found, o).pc = "refer"
             /\ With(found, o).call = "refer" /\ With(found, o).got = NoHandle
             /\ With(found, o).pins = {o}
  <2>1. /\ With(found, o).pc = "refer" /\ With(found, o).call = "refer"
        /\ With(found, o).got = NoHandle /\ With(found, o).pins = {o}
    BY <1>2, PinnedCall
  <2>2. QED
    BY <2>1 DEF CallOK, Pinless, Pinning, Handless, ByName, Referring
<1>4. /\ OnlyThread(t) /\ op' \in [Threads -> Ops] /\ object' \in [Objects -> XObjects]
      /\ PointersCounted' /\ VectorsOK' /\ SlotsOK' /\ CallsOK' /\ NamingOK' /\ NamesLeadHome'
      /\ \/ table[h].obj = NoObject /\ op'[t] = Idle
         \/ table[h].obj \in Objects /\ op'[t] = With(found, table[h].obj)
  <2>1. op[t].pins = {} /\ Idle.pins = {} /\ found.pc # "name it" /\ Idle.pc # "name it"
    BY <1>1, <1>2, IdleIs
  <2>2. Lookup(t, h, found, Idle) /\ UNCHANGED <<table, room, names, lost>>
    BY <1>1
  <2>3. QED
    BY <1>2, <1>3, <2>1, <2>2, IdleIs, LookupStep
<1>5. PICK o \in Objects : table[h].obj = o /\ op'[t] = With(found, o)
  BY <1>1, <1>4
<1>6. /\ op'[t].pc = "refer" /\ op'[t].call = "refer" /\ op'[t].got = NoHandle
      /\ op'[t].pins = {o}
  BY <1>3, <1>5
<1>7. TypeOK'
  BY <1>1, <1>4 DEF IInv, TypeOK, room, given
<1>8. ReferOK'
  <2>1. \A u \in Threads : op[u].pc \in Referring => op[u].call = "refer"
    BY DEF IInv, CallsOK, CallOK
  <2>2. ASSUME NEW u \in Threads, op'[u].pc \in Referring
        PROVE  /\ \A q \in op'[u].pins : byPointer'[q] = NoHandle
               /\ \A w \in Threads \ {u} : op'[w].pc \in Referring => op'[u].pins \cap op'[w].pins = {}
    <3>1. byPointer' = byPointer
      BY <1>1 DEF given
    <3>2. \A w \in Threads \ {t} : op'[w] = op[w] /\ (op'[w].pc \in Referring => o \notin op'[w].pins)
      BY <1>1, <1>4, <1>5, <2>1 DEF OnlyThread
    <3>3. CASE u = t
      BY <1>1, <1>5, <1>6, <3>1, <3>2, <3>3
    <3>4. CASE u # t
      <4>1. op[u].pc \in Referring /\ op'[u] = op[u]
        BY <2>2, <3>2, <3>4
      <4>2. \A q \in op'[u].pins : byPointer'[q] = NoHandle
        BY <3>1, <4>1 DEF IInv, ReferOK
      <4>3. ASSUME NEW w \in Threads \ {u}, op'[w].pc \in Referring
            PROVE  op'[u].pins \cap op'[w].pins = {}
        <5>1. CASE w = t
          BY <1>6, <2>2, <3>2, <3>4, <5>1
        <5>2. CASE w # t
          BY <3>2, <4>1, <4>3, <5>2 DEF IInv, ReferOK
        <5>3. QED
          BY <5>1, <5>2
      <4>4. QED
        BY <4>2, <4>3
    <3>5. QED
      BY <3>3, <3>4
  <2>3. \A u \in Threads : op'[u].call # "refer by name"
    BY <1>1, <1>4, <1>6 DEF OnlyThread
  <2>4. QED
    BY <2>2, <2>3 DEF ReferOK
<1>9. HandlesCounted'
  BY <1>1, <1>4, <1>6, IdleIs, CountsStay DEF IInv
<1>10. KeptIsOurs'
  BY <1>1, <1>4, <1>6, <1>7, <1>9, KeptStep DEF IInv, Keeping
<1>11. QED
  BY <1>4, <1>7, <1>8, <1>9, <1>10 DEF IInv

\* ObReferenceObjectByName, which forgets the reference by name.
LEMMA ReferenceByNameKeeps ==
  ASSUME TableAssumption, IInv, NEW t \in Threads, ReferenceByName(t) PROVE IInv'
<1> DEFINE r == op[t]
           refer == [Idle EXCEPT !.pc = "refer", !.call = "refer"]
           drop == [Idle EXCEPT !.pc = "drop"]
<1>1. PICK found \in {refer, drop} : Lookup(t, r.handle, found, Idle)
  BY DEF ReferenceByName
<1>2. /\ r \in Ops /\ r.pc = "by name" /\ r.pins = {} /\ r.handle \in Slots
      /\ r.call = "refer by name"
      /\ UNCHANGED <<table, room, names, lost>> /\ UNCHANGED <<owned, byPointer>>
      /\ leaked' = IF r.got = NoHandle THEN leaked ELSE [leaked EXCEPT ![r.got] = @ + 1]
  BY DEF ReferenceByName, IInv, TypeOK, CallsOK, CallOK, Pinless, ByName
<1>3. found \in Ops /\ found.pc \in {"refer", "drop"} /\ found.got = NoHandle
      /\ found.call \in {"none", "refer"} /\ (found.pc = "refer" => found.call = "refer")
  <2>1. CASE found = refer
    BY <2>1, IdleIs DEF Ops, Places, Calls
  <2>2. CASE found = drop
    BY <2>2, IdleIs DEF Ops, Places, Calls
  <2>3. QED
    BY <1>1, <2>1, <2>2
<1> HIDE DEF refer, drop
<1>4. ASSUME NEW o \in Objects
      PROVE  /\ CallOK(With(found, o)) /\ With(found, o).pc = found.pc
             /\ With(found, o).call = found.call /\ With(found, o).got = NoHandle
             /\ With(found, o).pins = {o}
  <2>1. /\ With(found, o).pc = found.pc /\ With(found, o).call = found.call
        /\ With(found, o).got = NoHandle /\ With(found, o).pins = {o}
    BY <1>3, PinnedCall
  <2>2. QED
    BY <1>3, <2>1 DEF CallOK, Pinless, Pinning, Handless, ByName, Referring
<1>5. /\ OnlyThread(t) /\ op' \in [Threads -> Ops] /\ object' \in [Objects -> XObjects]
      /\ PointersCounted' /\ VectorsOK' /\ SlotsOK' /\ CallsOK' /\ NamingOK' /\ NamesLeadHome'
      /\ \/ table[r.handle].obj = NoObject /\ op'[t] = Idle
         \/ table[r.handle].obj \in Objects /\ op'[t] = With(found, table[r.handle].obj)
  <2>1. Idle.pins = {} /\ found.pc # "name it" /\ Idle.pc # "name it"
    BY <1>3, IdleIs
  <2>2. UNCHANGED <<table, room, names, lost>>
    BY <1>2
  <2>3. QED
    BY <1>1, <1>2, <1>3, <1>4, <2>1, <2>2, IdleIs, LookupStep
<1>6. /\ op'[t].got = NoHandle /\ op'[t].pc \notin Keeping /\ op'[t].call # "refer by name"
  <2>1. CASE op'[t] = Idle
    BY <2>1, IdleIs DEF Keeping
  <2>2. CASE table[r.handle].obj \in Objects /\ op'[t] = With(found, table[r.handle].obj)
    <3>1. PICK o \in Objects : op'[t] = With(found, o)
      BY <2>2
    <3>2. QED
      BY <1>3, <1>4, <3>1 DEF Keeping
  <2>3. QED
    BY <1>5, <2>1, <2>2
<1>7. HandlesCounted' /\ leaked' \in [Slots -> Nat]
  BY <1>2, <1>5, <1>6, LeakStep DEF IInv
<1>8. TypeOK'
  BY <1>2, <1>5, <1>7 DEF IInv, TypeOK, room
<1>9. ReferOK'
  <2>1. /\ \A o \in Objects : byPointer'[o] = NoHandle
        /\ \A u \in Threads \ {t} : op'[u].call \notin {"refer", "refer by name"}
    BY <1>2, <1>5 DEF IInv, ReferOK, OnlyThread
  <2>2. \A u \in Threads \ {t} : op'[u].pc \notin Referring
    BY <1>5, <2>1 DEF CallsOK, CallOK
  <2>3. op'[t].pins \subseteq Objects
    BY <1>8, PinsAreObjects DEF TypeOK, Ops
  <2>4. QED
    BY <1>6, <2>1, <2>2, <2>3 DEF ReferOK
<1>10. KeptIsOurs'
  BY <1>2, <1>5, <1>6, <1>7, <1>8, KeptStep DEF IInv
<1>11. QED
  BY <1>5, <1>7, <1>8, <1>9, <1>10 DEF IInv

\* ObDereferenceObject: the pointer's reference becomes the call's, or leaks.
LEMMA DereferenceKeeps ==
  ASSUME TableAssumption, IInv, NEW t \in Threads, NEW p \in Objects, Dereference(t, p)
  PROVE  IInv'
<1>0. PICK got : got = byPointer[p]
  OBVIOUS
<1> DEFINE h == object[p].stash
           found == [Idle EXCEPT !.pc = "unrefer", !.got = got]
<1>1. /\ op[t] = Idle /\ Lookup(t, h, found, Idle) /\ got # NoHandle
      /\ UNCHANGED <<table, room, names, lost>> /\ UNCHANGED owned
      /\ leaked' = (IF Free(h) THEN [leaked EXCEPT ![got] = @ + 1] ELSE leaked)
      /\ byPointer' = [byPointer EXCEPT ![p] = NoHandle]
  BY <1>0 DEF Dereference, Ready, IInv, CallsOK, CallOK
<1>2. /\ h \in Slots /\ got \in Slots /\ byPointer \in [Objects -> Handles]
      /\ leaked \in [Slots -> Nat] /\ NoHandle \in Handles
  BY <1>0, <1>1 DEF IInv, TypeOK, VectorsOK, Dereference, Alive, Handles
<1>3. found \in Ops /\ found.pc = "unrefer" /\ found.call = "none" /\ found.got = got
  BY <1>2, IdleIs DEF Ops, Places, Handles
<1> HIDE DEF found, h
<1>4. ASSUME NEW o \in Objects
      PROVE  /\ CallOK(With(found, o)) /\ With(found, o).pc = "unrefer"
             /\ With(found, o).call = "none" /\ With(found, o).got = got
  <2>1. /\ With(found, o).pc = "unrefer" /\ With(found, o).call = "none"
        /\ With(found, o).got = got /\ With(found, o).pins = {o}
    BY <1>3, PinnedCall
  <2>2. QED
    BY <2>1 DEF CallOK, Pinless, Pinning, Handless, ByName, Referring
<1>5. /\ OnlyThread(t) /\ op' \in [Threads -> Ops] /\ object' \in [Objects -> XObjects]
      /\ PointersCounted' /\ VectorsOK' /\ SlotsOK' /\ CallsOK' /\ NamingOK' /\ NamesLeadHome'
      /\ \/ table[h].obj = NoObject /\ op'[t] = Idle
         \/ table[h].obj \in Objects /\ op'[t] = With(found, table[h].obj)
  <2>1. op[t].pins = {} /\ Idle.pins = {} /\ found.pc # "name it" /\ Idle.pc # "name it"
    BY <1>1, <1>3, IdleIs
  <2>2. Lookup(t, h, found, Idle) /\ UNCHANGED <<table, room, names, lost>>
    BY <1>1
  <2>3. QED
    BY <1>2, <1>3, <1>4, <2>1, <2>2, IdleIs, LookupStep
<1>6. /\ op'[t].pc \notin Keeping /\ op'[t].pc \notin Referring /\ op'[t].call = "none"
      /\ \/ table[h].obj = NoObject /\ op'[t].got = NoHandle
         \/ table[h].obj # NoObject /\ op'[t].got = got
  <2>1. CASE table[h].obj = NoObject /\ op'[t] = Idle
    BY <2>1, IdleIs DEF Keeping, Referring
  <2>2. CASE table[h].obj \in Objects /\ op'[t] = With(found, table[h].obj)
    <3>1. PICK o \in Objects : table[h].obj = o /\ op'[t] = With(found, o)
      BY <2>2
    <3>2. table[h].obj # NoObject
      BY <2>2 DEF TableAssumption
    <3>3. QED
      BY <1>4, <3>1, <3>2 DEF Keeping, Referring
  <2>3. QED
    BY <1>5, <2>1, <2>2
<1>7. /\ byPointer' \in [Objects -> Handles] /\ byPointer'[p] = NoHandle
      /\ \A o \in Objects \ {p} : byPointer'[o] = byPointer[o]
      /\ leaked' \in [Slots -> Nat]
      /\ \A g \in Slots : leaked'[g] = IF g = got /\ table[h].obj = NoObject THEN leaked[g] + 1
                                       ELSE leaked[g]
  BY <1>1, <1>2 DEF Free
<1>8. HandlesCounted'
  <2>1. SUFFICES ASSUME ~ lost', NEW g \in Slots
                 PROVE  table'[g].refs = owned'[g] + leaked'[g]
                          + Cardinality(PointersVia(g)') + Cardinality(CallsHolding(g)')
    BY HandlesInTermsNext
  <2>2. table[g].refs = owned[g] + leaked[g]
          + Cardinality(PointersVia(g)) + Cardinality(CallsHolding(g))
    BY <1>1, <2>1, HandlesInTerms DEF IInv
  <2>3. /\ g # NoHandle /\ leaked[g] \in Nat /\ owned[g] \in Nat /\ op[t].got = NoHandle
        /\ table' = table /\ owned' = owned
    BY <1>1, IdleIs, PinsAreObjects DEF IInv, TypeOK
  <2>4. /\ Cardinality(PointersVia(g)) \in Nat /\ Cardinality(PointersVia(g)') \in Nat
        /\ Cardinality(CallsHolding(g)) \in Nat /\ Cardinality(CallsHolding(g)') \in Nat
    BY <1>5, <1>7, HoldingRecount, PointersRecount
  <2>5. CASE g = got
    <3>1. Cardinality(PointersVia(g)) = Cardinality(PointersVia(g)') + 1
      BY <1>0, <1>7, <2>3, <2>5, PointersRecount
    <3>2. CASE table[h].obj = NoObject
      <4>1. Cardinality(CallsHolding(g)') = Cardinality(CallsHolding(g))
        BY <1>5, <1>6, <2>3, <3>2, HoldingRecount
      <4>2. leaked'[g] = leaked[g] + 1
        BY <1>7, <2>5, <3>2
      <4>3. QED
        BY <2>2, <2>3, <2>4, <3>1, <4>1, <4>2
    <3>3. CASE table[h].obj # NoObject
      <4>1. Cardinality(CallsHolding(g)') = Cardinality(CallsHolding(g)) + 1
        BY <1>5, <1>6, <2>3, <2>5, <3>3, HoldingRecount
      <4>2. leaked'[g] = leaked[g]
        BY <1>7, <3>3
      <4>3. QED
        BY <2>2, <2>3, <2>4, <3>1, <4>1, <4>2
    <3>4. QED
      BY <3>2, <3>3
  <2>6. CASE g # got
    <3>1. Cardinality(PointersVia(g)) = Cardinality(PointersVia(g)')
      BY <1>0, <1>7, <2>3, <2>6, PointersRecount
    <3>2. Cardinality(CallsHolding(g)') = Cardinality(CallsHolding(g))
      BY <1>5, <1>6, <2>3, <2>6, HoldingRecount
    <3>3. leaked'[g] = leaked[g]
      BY <1>7, <2>6
    <3>4. QED
      BY <2>2, <2>3, <3>1, <3>2, <3>3
  <2>7. QED
    BY <2>5, <2>6
<1>9. TypeOK'
  BY <1>1, <1>5, <1>7 DEF IInv, TypeOK, room
<1>10. ReferOK'
  BY <1>5, <1>6, <1>7, ReferStep, PinsAreObjects DEF IInv
<1>11. KeptIsOurs'
  BY <1>1, <1>5, <1>6, <1>8, <1>9, KeptStep DEF IInv
<1>12. QED
  BY <1>5, <1>8, <1>9, <1>10, <1>11 DEF IInv

(***************************************************************************)
(* Closing and duplicating.                                                *)
(***************************************************************************)

\* NtClose gives up one of the guest's references, which the entry has counted.
LEMMA CloseKeeps ==
  ASSUME TableAssumption, IInv, NEW t \in Threads, NEW h \in Slots, Close(t, h) PROVE IInv'
<1>1. /\ owned[h] \in Nat /\ owned[h] > 0 /\ owned \in [Slots -> Nat]
      /\ owned' = [owned EXCEPT ![h] = @ - 1]
      /\ UNCHANGED <<op, byPointer, leaked, lost>> /\ UNCHANGED room
      /\ IF table[h].obj = NoObject THEN UNCHANGED <<table, names, object>> ELSE ReleaseHandle(h)
  BY DEF Close, Open, Free, IInv, TypeOK
<1>2. owned' \in [Slots -> Nat] /\ \A g \in Slots : owned'[g] = IF g = h THEN owned[g] - 1 ELSE owned[g]
  BY <1>1
<1>3. OnlyThread(t) /\ op'[t] = op[t]
  BY <1>1 DEF OnlyThread
<1>4. /\ PointersCounted' /\ VectorsOK' /\ SlotsOK' /\ NamesLeadHome'
      /\ object' \in [Objects -> XObjects] /\ names' \in [Names -> Handles]
      /\ table' \in [Slots -> Entries]
      /\ \A g \in Slots \ {h} : table'[g] = table[g]
      /\ table'[h].obj \in {table[h].obj, NoObject}
      /\ table[h].obj = NoObject => table' = table
      /\ table[h].obj # NoObject => /\ table[h].refs \in Nat /\ table[h].refs > 0
                                    /\ table'[h].refs = table[h].refs - 1
      /\ \A o \in Objects : object'[o].name \in {object[o].name, NoName}
  <2>1. CASE table[h].obj = NoObject
    <3>1. UNCHANGED <<table, names, object>>
      BY <1>1, <2>1
    <3>2. PointersCounted' /\ VectorsOK'
      BY <1>3, <3>1, ObjectsStay DEF IInv, SameEntries
    <3>3. SlotsOK' /\ NamesLeadHome'
      BY <1>1, <3>1 DEF IInv, SlotsOK, NamesLeadHome, room
    <3>4. QED
      BY <2>1, <3>1, <3>2, <3>3 DEF IInv, TypeOK
  <2>2. CASE table[h].obj # NoObject
    <3>1. ReleaseHandle(h) /\ UNCHANGED room /\ UNCHANGED lost
      BY <1>1, <2>2
    <3>2. QED
      BY <1>3, <2>2, <3>1, HandleReleased DEF IInv
  <2>3. QED
    BY <2>1, <2>2
<1>5. HandlesCounted'
  <2>1. SUFFICES ASSUME ~ lost', NEW g \in Slots
                 PROVE  table'[g].refs = owned'[g] + leaked'[g]
                          + Cardinality(PointersVia(g)') + Cardinality(CallsHolding(g)')
    BY HandlesInTermsNext
  <2>2. table[g].refs = owned[g] + leaked[g]
          + Cardinality(PointersVia(g)) + Cardinality(CallsHolding(g))
    BY <1>1, <2>1, HandlesInTerms DEF IInv
  <2>3. /\ PointersVia(g)' = PointersVia(g) /\ CallsHolding(g)' = CallsHolding(g)
        /\ leaked' = leaked
    BY <1>1 DEF PointersVia, CallsHolding
  <2>4. /\ Cardinality(PointersVia(g)) \in Nat /\ Cardinality(CallsHolding(g)) \in Nat
        /\ owned[g] \in Nat /\ leaked[g] \in Nat
    BY <1>3, PointersCount, HoldingRecount DEF IInv, TypeOK
  <2>5. CASE g # h
    BY <1>2, <1>4, <2>2, <2>3, <2>5
  <2>6. CASE g = h
    <3>1. table[h].refs > 0
      BY <1>1, <2>2, <2>4, <2>6
    <3>2. table[h].obj # NoObject
      BY <3>1 DEF IInv, SlotsOK
    <3>3. QED
      BY <1>2, <1>4, <2>2, <2>3, <2>4, <2>6, <3>2
  <2>7. QED
    BY <2>5, <2>6
<1>6. TypeOK'
  BY <1>1, <1>2, <1>4 DEF IInv, TypeOK, room
<1>7. CallsOK'
  BY <1>1 DEF IInv, CallsOK, CallOK
<1>8. ReferOK'
  BY <1>1 DEF IInv, ReferOK
<1>9. NamingOK'
  BY <1>3, <1>4, NamingStep, PinsAreObjects DEF IInv
<1>10. KeptIsOurs'
  BY <1>1, <1>3, <1>4, <1>5, <1>6, KeptStep DEF IInv
<1>11. QED
  BY <1>4, <1>5, <1>6, <1>7, <1>8, <1>9, <1>10 DEF IInv

\* A duplicate is one more reference, on an entry of its own.
LEMMA DuplicateHandleKeeps ==
  ASSUME TableAssumption, IInv, NEW t \in Threads, NEW h \in Slots, NEW c \in BOOLEAN,
         DuplicateHandle(t, h, c)
  PROVE  IInv'
<1>1. UNCHANGED <<op, byPointer, leaked, lost>>
  BY DEF DuplicateHandle
<1>2. OnlyThread(t) /\ op'[t] = op[t]
  BY <1>1 DEF OnlyThread
<1>3. PICK g \in Slots \ {h} :
         /\ PointersCounted' /\ VectorsOK' /\ SlotsOK'
         /\ object' \in [Objects -> XObjects] /\ table' \in [Slots -> Entries]
         /\ names' \in [Names -> Handles] /\ owned' \in [Slots -> Nat]
         /\ capacity' \in Nat /\ lastFree' \in Nat
         /\ table[g].obj = NoObject /\ table[g].refs = 0
         /\ table'[g].obj = table[h].obj /\ table'[g].refs = 1
         /\ owned'[g] = owned[g] + 1
         /\ table'[h].obj \in {table[h].obj, NoObject}
         /\ table[h].refs \in Nat /\ table[h].refs > 0 /\ owned[h] \in Nat /\ owned[h] > 0
         /\ \/ table'[h].refs = table[h].refs /\ owned'[h] = owned[h]
            \/ table'[h].refs = table[h].refs - 1 /\ owned'[h] = owned[h] - 1
         /\ \A f \in Slots \ {g, h} : table'[f] = table[f] /\ owned'[f] = owned[f]
         /\ \A p \in Objects : object'[p].name = object[p].name
         /\ NamesLeadHome => NamesLeadHome'
  BY HandleDuplicated DEF IInv
<1>4. HandlesCounted'
  <2>1. SUFFICES ASSUME ~ lost', NEW f \in Slots
                 PROVE  table'[f].refs = owned'[f] + leaked'[f]
                          + Cardinality(PointersVia(f)') + Cardinality(CallsHolding(f)')
    BY HandlesInTermsNext
  <2>2. table[f].refs = owned[f] + leaked[f]
          + Cardinality(PointersVia(f)) + Cardinality(CallsHolding(f))
    BY <1>1, <2>1, HandlesInTerms DEF IInv
  <2>3. /\ PointersVia(f)' = PointersVia(f) /\ CallsHolding(f)' = CallsHolding(f)
        /\ leaked' = leaked
    BY <1>1 DEF PointersVia, CallsHolding
  <2>4. /\ Cardinality(PointersVia(f)) \in Nat /\ Cardinality(CallsHolding(f)) \in Nat
        /\ owned[f] \in Nat /\ leaked[f] \in Nat
    BY <1>2, PointersCount, HoldingRecount DEF IInv, TypeOK
  <2>5. CASE f = g
    BY <1>3, <2>2, <2>3, <2>4, <2>5
  <2>6. CASE f = h
    BY <1>3, <2>2, <2>3, <2>4, <2>6
  <2>7. CASE f # g /\ f # h
    BY <1>3, <2>2, <2>3, <2>7
  <2>8. QED
    BY <2>5, <2>6, <2>7
<1>5. TypeOK'
  BY <1>1, <1>3 DEF IInv, TypeOK
<1>6. CallsOK' /\ ReferOK'
  BY <1>1 DEF IInv, CallsOK, CallOK, ReferOK
<1>7. NamingOK'
  BY <1>2, <1>3, NamingStep, PinsAreObjects DEF IInv
<1>8. KeptIsOurs'
  BY <1>1, <1>2, <1>3, <1>4, <1>5, KeptStep DEF IInv
<1>9. QED
  BY <1>3, <1>4, <1>5, <1>6, <1>7, <1>8 DEF IInv

(***************************************************************************)
(* Under the lock, after the unlocked read.                                *)
(***************************************************************************)

\* One more reference on an entry in use.
EntryTaken(h) ==
  /\ table' \in [Slots -> Entries] /\ SameEntries /\ SlotsOK'
  /\ table'[h].refs = table[h].refs + 1 /\ table[h].refs \in Nat
  /\ \A g \in Slots \ {h} : table'[g].refs = table[g].refs

\* RetainHandle adds one reference and leaves the entry where it was.
LEMMA EntryIsTaken ==
  ASSUME TableAssumption, TypeOK, SlotsOK, NEW h \in Slots, table[h].obj # NoObject,
         table' = [table EXCEPT ![h].refs = @ + 1], UNCHANGED room
  PROVE  EntryTaken(h)
<1> DEFINE e == [table[h] EXCEPT !.refs = @ + 1]
<1>1. /\ table \in [Slots -> Entries] /\ table[h] \in Entries /\ table[h].refs \in Nat
      /\ table' = [table EXCEPT ![h] = e] /\ capacity' = capacity
  BY DEF TypeOK, Entries, room
<1>2. e \in Entries /\ e.obj = table[h].obj /\ e.refs = table[h].refs + 1
  BY <1>1 DEF Entries
<1> HIDE DEF e
<1>3. /\ table' \in [Slots -> Entries] /\ SameEntries
      /\ table'[h].refs = table[h].refs + 1
      /\ \A g \in Slots \ {h} : table'[g].refs = table[g].refs
  BY <1>1, <1>2 DEF SameEntries
<1>4. ASSUME NEW g \in Slots
      PROVE  /\ table'[g].obj = NoObject <=> table'[g].refs = 0
             /\ g >= capacity' => table'[g].obj = NoObject
  <2>1. CASE g = h
    BY <1>1, <1>3, <2>1 DEF SlotsOK, SameEntries
  <2>2. CASE g # h
    BY <1>1, <1>3, <2>2 DEF SlotsOK, SameEntries
  <2>3. QED
    BY <2>1, <2>2
<1>5. SlotsOK'
  BY <1>1, <1>4 DEF SlotsOK
<1>6. QED
  BY <1>1, <1>3, <1>5 DEF EntryTaken

\* XObject::RetainHandle(): the reference is the call's, or the native pointer's.
LEMMA RetainFirstKeeps ==
  ASSUME TableAssumption, IInv, NEW t \in Threads, RetainFirst(t) PROVE IInv'
<1>1. PICK o \in Objects : o = Pin(t) /\ op[t].pins = {o}
  BY PinIs DEF IInv, RetainFirst, Retains, Locked, Pinning
<1> DEFINE r == op[t]
           ok == Has(r.first, o)
           f == IF ok THEN r.first ELSE NoHandle
           taken == [r EXCEPT !.got = f, !.first = NoHandle]
           found == [taken EXCEPT !.pc = AfterFind(t), !.pins = {}]
           kept == [taken EXCEPT !.pc = "answer"]
           referred == [r EXCEPT !.pc = "drop", !.first = NoHandle]
<1>2. /\ r \in Ops /\ r.pins = {o} /\ r.got = NoHandle
      /\ r.pc \in {"find2", "keep2", "refer2"}
      /\ table' = (IF ok THEN [table EXCEPT ![r.first].refs = @ + 1] ELSE table)
      /\ UNCHANGED <<names, owned, leaked>> /\ UNCHANGED room
  BY <1>1 DEF RetainFirst, Retains, Locked, IInv, TypeOK, CallsOK, CallOK, Handless
<1>3. \/ /\ r.pc = "find2" /\ object' = Released(r.pins) /\ op' = [op EXCEPT ![t] = found]
         /\ UNCHANGED <<byPointer, lost>>
      \/ /\ r.pc = "keep2" /\ op' = [op EXCEPT ![t] = kept]
         /\ UNCHANGED <<object, byPointer, lost>>
      \/ /\ r.pc = "refer2" /\ op' = [op EXCEPT ![t] = referred]
         /\ byPointer' = (IF ok THEN [byPointer EXCEPT ![o] = r.first] ELSE byPointer)
         /\ lost' = (lost \/ ~ ok) /\ UNCHANGED object
  BY <1>1 DEF RetainFirst
<1>4. /\ ok => r.first \in Slots /\ table[r.first].obj = o /\ EntryTaken(r.first)
      /\ ~ ok => table' = table
      /\ f \in Handles /\ (lost => lost')
  <2>1. ok => r.first \in Slots /\ table[r.first].obj = o /\ o # NoObject
    BY DEF Has, TableAssumption
  <2>2. ok => EntryTaken(r.first)
    BY <1>2, <2>1, EntryIsTaken DEF IInv
  <2>3. lost => lost'
    <3> HIDE DEF ok, found, kept, referred
    <3>1. QED
      BY <1>3
  <2>4. f \in Handles
    <3> HIDE DEF ok
    <3>1. QED
      BY <2>1 DEF Handles
  <2>5. QED
    BY <1>2, <2>1, <2>2, <2>3, <2>4
<1>5. /\ table' \in [Slots -> Entries] /\ SameEntries /\ SlotsOK'
      /\ \A g \in Slots : /\ table[g].refs \in Nat
                          /\ table'[g].refs = IF g = f THEN table[g].refs + 1 ELSE table[g].refs
  <2>1. NoHandle \notin Slots /\ \A g \in Slots : table[g].refs \in Nat
    BY DEF NoHandle, Slots, IInv, TypeOK, Entries
  <2>2. CASE ok
    BY <1>4, <2>1, <2>2 DEF EntryTaken
  <2>3. CASE ~ ok
    BY <1>2, <1>4, <2>1, <2>3 DEF SameEntries, IInv, TypeOK, SlotsOK, room
  <2>4. QED
    BY <2>2, <2>3
<1> HIDE DEF ok
<1>6. CASE r.pc \in {"find2", "keep2"}
  <2> DEFINE s == IF r.pc = "find2" THEN found ELSE kept
  <2>1. /\ op' = [op EXCEPT ![t] = s] /\ UNCHANGED <<byPointer, lost>>
        /\ object' = IF r.pc = "find2" THEN Released(r.pins) ELSE object
    BY <1>3, <1>6
  <2>2. taken \in Ops /\ taken.got = f /\ taken.call = r.call /\ taken.handle = r.handle
        /\ taken.pins = r.pins /\ taken.name = r.name /\ NoHandle \in Handles
    BY <1>2, <1>4 DEF Ops, Handles
  <2>3. /\ r.pc = "find2" =>
             /\ AfterFind(t) \in {"again", "give", "by name"} /\ r.handle \in Slots
             /\ r.call = "refer by name" <=> AfterFind(t) = "by name"
        /\ r.pc = "keep2" => r.call # "refer by name"
    BY <1>2 DEF IInv, CallsOK, CallOK, AfterFind, ByName
  <2> HIDE DEF taken, f
  <2>4. /\ s \in Ops /\ s.got = f /\ s.call = r.call /\ s.handle = r.handle
        /\ r.pc = "find2" => s.pc = AfterFind(t) /\ s.pins = {}
        /\ r.pc = "keep2" => s.pc = "answer" /\ s.pins = {o}
    BY <1>2, <1>6, <2>2, <2>3 DEF Ops, Places
  <2> HIDE DEF s
  <2>5. /\ CallOK(s) /\ s.pc # "name it" /\ s.pc \notin Referring
        /\ s.pc \in Keeping => r.pc = "keep2"
    BY <1>6, <2>3, <2>4
       DEF CallOK, Pinless, Pinning, Handless, ByName, Referring, Keeping
  <2>6. /\ OnlyThread(t) /\ op'[t] = s /\ op' \in [Threads -> Ops] /\ CallsOK'
        /\ object' \in [Objects -> XObjects] /\ PointersCounted' /\ VectorsOK'
        /\ NamingOK' /\ NamesLeadHome'
    <3>1. CASE r.pc = "find2"
      <4>1. object' = Released(r.pins) /\ s.pins = {} /\ names' = names
        BY <1>2, <2>1, <2>4, <3>1
      <4> HIDE DEF r
      <4>2. QED
        BY <1>4, <1>5, <2>1, <2>4, <2>5, <4>1, LetGo DEF r
    <3>2. CASE r.pc = "keep2"
      <4>1. object' = object /\ s.pins = op[t].pins /\ names' = names /\ lost' = lost
        BY <1>2, <2>1, <2>4, <3>2
      <4>2. OnlyThread(t) /\ op'[t] = s /\ op' \in [Threads -> Ops] /\ CallsOK'
        BY <2>1, <2>4, <2>5, CallStep DEF IInv
      <4>3. PointersCounted' /\ VectorsOK'
        BY <1>5, <4>1, <4>2, ObjectsStay DEF IInv
      <4>4. NamingOK'
        BY <2>5, <4>1, <4>2, NamingStep, PinsAreObjects DEF IInv
      <4>5. NamesLeadHome'
        <5>1. \A n \in Names : names[n] \in Slots \cup {NoHandle}
          BY DEF IInv, TypeOK, Handles
        <5>2. QED
          BY <1>5, <4>1, <5>1 DEF IInv, NamesLeadHome, SameEntries
      <4>6. QED
        BY <4>1, <4>2, <4>3, <4>4, <4>5 DEF IInv, TypeOK
    <3>3. QED
      BY <1>6, <3>1, <3>2
  <2>7. HandlesCounted'
    <3>1. SUFFICES ASSUME ~ lost', NEW g \in Slots
                   PROVE  table'[g].refs = owned'[g] + leaked'[g]
                            + Cardinality(PointersVia(g)') + Cardinality(CallsHolding(g)')
      BY HandlesInTermsNext
    <3>2. table[g].refs = owned[g] + leaked[g]
            + Cardinality(PointersVia(g)) + Cardinality(CallsHolding(g))
      BY <2>1, <3>1, HandlesInTerms DEF IInv
    <3>3. /\ PointersVia(g)' = PointersVia(g) /\ owned' = owned /\ leaked' = leaked
          /\ Cardinality(PointersVia(g)) \in Nat /\ owned[g] \in Nat /\ leaked[g] \in Nat
      BY <1>2, <2>1, PointersCount DEF PointersVia, IInv, TypeOK
    <3>4. /\ Cardinality(CallsHolding(g)) \in Nat
          /\ Cardinality(CallsHolding(g)') = IF g = f THEN Cardinality(CallsHolding(g)) + 1
                                             ELSE Cardinality(CallsHolding(g))
      <4>1. op[t].got # g
        BY <1>2 DEF NoHandle, Slots
      <4>2. QED
        BY <2>4, <2>6, <4>1, HoldingRecount
    <3>5. QED
      BY <1>5, <3>2, <3>3, <3>4
  <2>8. TypeOK'
    BY <1>2, <1>5, <2>1, <2>6 DEF IInv, TypeOK, room
  <2>9. ReferOK'
    BY <2>1, <2>4, <2>5, <2>6, ReferStep, PinsAreObjects DEF IInv
  <2>10. KeptIsOurs'
    <3>1. op'[t].pc \in Keeping /\ op'[t].got # NoHandle => table'[op'[t].got].obj \in op'[t].pins
      BY <1>4, <1>5, <2>4, <2>5, <2>6 DEF f, SameEntries
    <3>2. QED
      BY <1>4, <1>5, <2>6, <2>7, <2>8, <3>1, KeptStep DEF IInv, SameEntries
  <2>11. QED
    BY <1>5, <2>6, <2>7, <2>8, <2>9, <2>10 DEF IInv
<1>7. CASE r.pc = "refer2"
  <2>1. /\ op' = [op EXCEPT ![t] = referred] /\ UNCHANGED object /\ lost' = (lost \/ ~ ok)
        /\ byPointer' = (IF ok THEN [byPointer EXCEPT ![o] = r.first] ELSE byPointer)
        /\ byPointer[o] = NoHandle /\ r.call = "refer" /\ byPointer \in [Objects -> Handles]
    BY <1>2, <1>3, <1>7 DEF IInv, ReferOK, CallsOK, CallOK, Referring, TypeOK
  <2>2. /\ referred \in Ops /\ referred.pc = "drop" /\ referred.pins = {o}
        /\ referred.got = NoHandle /\ referred.call = "refer"
    BY <1>2, <2>1 DEF Ops, Places, Handles
  <2> HIDE DEF referred
  <2>3. CallOK(referred)
    BY <2>2 DEF CallOK, Pinless, Pinning, Handless, ByName, Referring
  <2>4. OnlyThread(t) /\ op'[t] = referred /\ op' \in [Threads -> Ops] /\ CallsOK'
    BY <2>1, <2>2, <2>3, CallStep DEF IInv
  <2>5. /\ byPointer' \in [Objects -> Handles]
        /\ \A p \in Objects \ {o} : byPointer'[p] = byPointer[p]
        /\ byPointer'[o] = f
    BY <1>4, <2>1 DEF Handles
  <2>6. PointersCounted' /\ VectorsOK'
    BY <1>2, <1>5, <2>1, <2>2, <2>4, ObjectsStay DEF IInv
  <2>7. NamingOK'
    BY <2>1, <2>2, <2>4, NamingStep, PinsAreObjects DEF IInv
  <2>8. HandlesCounted'
    <3>1. SUFFICES ASSUME ~ lost', NEW g \in Slots
                   PROVE  table'[g].refs = owned'[g] + leaked'[g]
                            + Cardinality(PointersVia(g)') + Cardinality(CallsHolding(g)')
      BY HandlesInTermsNext
    <3>2. /\ table[g].refs = owned[g] + leaked[g]
            + Cardinality(PointersVia(g)) + Cardinality(CallsHolding(g))
      BY <2>1, <3>1, HandlesInTerms DEF IInv
    <3>3. /\ owned' = owned /\ leaked' = leaked
          /\ Cardinality(CallsHolding(g)) \in Nat /\ owned[g] \in Nat /\ leaked[g] \in Nat
          /\ Cardinality(CallsHolding(g)') = Cardinality(CallsHolding(g))
      BY <1>2, <2>2, <2>4, HoldingRecount DEF IInv, TypeOK
    <3>4. /\ Cardinality(PointersVia(g)) \in Nat
          /\ Cardinality(PointersVia(g)') = IF g = f THEN Cardinality(PointersVia(g)) + 1
                                            ELSE Cardinality(PointersVia(g))
      <4>1. byPointer[o] # g
        BY <2>1 DEF NoHandle, Slots
      <4>2. QED
        BY <2>5, <4>1, PointersRecount
    <3>5. QED
      BY <1>5, <3>2, <3>3, <3>4
  <2>9. TypeOK'
    BY <1>2, <1>5, <2>1, <2>4, <2>5 DEF IInv, TypeOK, room
  <2>10. ReferOK'
    <3>1. ASSUME NEW u \in Threads, op'[u].pc \in Referring
          PROVE  u # t /\ op[u].pc \in Referring /\ op'[u] = op[u] /\ o \notin op[u].pins
      <4>1. u # t /\ op'[u] = op[u]
        BY <2>2, <2>4, <3>1 DEF OnlyThread, Referring
      <4>2. op[t].pins \cap op[u].pins = {}
        BY <1>7, <3>1, <4>1 DEF IInv, ReferOK, Referring
      <4>3. QED
        BY <1>2, <3>1, <4>1, <4>2
    <3>2. ASSUME NEW u \in Threads, op'[u].pc \in Referring
          PROVE  /\ \A p \in op'[u].pins : byPointer'[p] = NoHandle
                 /\ \A w \in Threads \ {u} : op'[w].pc \in Referring =>
                                               op'[u].pins \cap op'[w].pins = {}
      <4>1. op[u].pc \in Referring /\ op'[u] = op[u] /\ o \notin op[u].pins
            /\ op[u].pins \subseteq Objects
        BY <3>1, <3>2, PinsAreObjects DEF IInv
      <4>2. \A p \in op[u].pins : byPointer[p] = NoHandle
        BY <4>1 DEF IInv, ReferOK
      <4>3. \A w \in Threads \ {u} : op[w].pc \in Referring => op[u].pins \cap op[w].pins = {}
        BY <4>1 DEF IInv, ReferOK
      <4>4. QED
        BY <2>5, <3>1, <4>1, <4>2, <4>3
    <3>3. ASSUME NEW u \in Threads, op'[u].call = "refer by name" PROVE FALSE
      <4>1. u # t /\ op[u].call = "refer by name"
        BY <2>2, <2>4, <3>3 DEF OnlyThread
      <4>2. QED
        BY <2>1, <4>1 DEF IInv, ReferOK
    <3>4. QED
      BY <3>2, <3>3 DEF ReferOK
  <2>11. KeptIsOurs'
    BY <1>4, <1>5, <2>2, <2>4, <2>8, <2>9, KeptStep DEF IInv, SameEntries, Keeping
  <2>12. NamesLeadHome'
    <3>1. \A n \in Names : names[n] \in Slots \cup {NoHandle}
      BY DEF IInv, TypeOK, Handles
    <3>2. QED
      BY <1>2, <1>4, <1>5, <2>1, <3>1 DEF IInv, NamesLeadHome, SameEntries
  <2>13. QED
    BY <1>5, <2>4, <2>6, <2>7, <2>8, <2>9, <2>10, <2>11, <2>12 DEF IInv
<1>8. QED
  BY <1>2, <1>6, <1>7

\* XObject::ReleaseHandle(): the entry is the call's own, or the table is lost.
LEMMA ReleaseFirstKeeps ==
  ASSUME TableAssumption, IInv, NEW t \in Threads, ReleaseFirst(t) PROVE IInv'
<1>0. op[t].pc \in {"undo2", "unrefer2"}
  BY DEF ReleaseFirst, Releases, Locked
<1>1. PICK o \in Objects : o = Pin(t) /\ op[t].pins = {o}
  BY <1>0, PinIs DEF IInv, Pinning
<1> DEFINE r == op[t]
           h == r.first
           ok == Has(h, o)
           s == [r EXCEPT !.pc = IF r.pc = "undo2" THEN "keep" ELSE "drop",
                          !.got = NoHandle, !.first = NoHandle]
<1>2. /\ r \in Ops /\ r.pins = {o} /\ r.pc \in {"undo2", "unrefer2"}
      /\ r.call # "refer by name" /\ NoHandle \in Handles
      /\ op' = [op EXCEPT ![t] = s] /\ UNCHANGED <<owned, byPointer>> /\ UNCHANGED room
      /\ lost' = (lost \/ (ok /\ h # r.got))
  <2>1. r \in Ops /\ r.pins = {o} /\ r.call # "refer by name" /\ NoHandle \in Handles
    BY <1>0, <1>1, PinsAreObjects DEF IInv, CallsOK, CallOK
  <2>2. /\ op' = [op EXCEPT ![t] = s] /\ UNCHANGED <<owned, byPointer>> /\ UNCHANGED room
        /\ lost' = (lost \/ (ok /\ h # r.got))
    BY <1>1 DEF ReleaseFirst
  <2>3. QED
    BY <1>0, <2>1, <2>2
<1>3. \/ ok /\ ReleaseHandle(h) /\ leaked' = leaked
      \/ /\ ~ ok /\ UNCHANGED <<table, names, object>>
         /\ leaked' = IF r.got = NoHandle THEN leaked ELSE [leaked EXCEPT ![r.got] = @ + 1]
  BY <1>1 DEF ReleaseFirst
<1>4. /\ s \in Ops /\ s.pc \in {"keep", "drop"} /\ s.pins = {o}
      /\ s.got = NoHandle /\ s.call = r.call
  BY <1>2 DEF Ops, Places
<1> HIDE DEF s
<1>5. CallOK(s) /\ s.pc \notin Referring \cup Keeping \cup {"name it"}
  BY <1>2, <1>4 DEF CallOK, Pinless, Pinning, Handless, ByName, Referring, Keeping
<1>6. OnlyThread(t) /\ op'[t] = s /\ op' \in [Threads -> Ops] /\ CallsOK'
  BY <1>2, <1>4, <1>5, CallStep DEF IInv
<1>7. /\ PointersCounted' /\ VectorsOK' /\ SlotsOK' /\ NamesLeadHome' /\ HandlesCounted'
      /\ object' \in [Objects -> XObjects] /\ names' \in [Names -> Handles]
      /\ table' \in [Slots -> Entries] /\ leaked' \in [Slots -> Nat]
      /\ \A g \in Slots : table'[g].obj \in {table[g].obj, NoObject}
      /\ \A p \in Objects : object'[p].name \in {object[p].name, NoName}
  <2>1. CASE ok
    <3>1. /\ ReleaseHandle(h) /\ leaked' = leaked /\ h \in Slots /\ table[h].obj # NoObject
      BY <1>3, <2>1 DEF Has, TableAssumption
    <3>2. op'[t].pins = op[t].pins /\ UNCHANGED room /\ (lost => lost')
      BY <1>1, <1>2, <1>4, <1>6
    <3> HIDE DEF h, ok
    <3>3. /\ PointersCounted' /\ VectorsOK' /\ SlotsOK' /\ NamesLeadHome'
          /\ object' \in [Objects -> XObjects] /\ names' \in [Names -> Handles]
          /\ table' \in [Slots -> Entries]
          /\ \A g \in Slots \ {h} : table'[g] = table[g]
          /\ table[h].refs \in Nat /\ table[h].refs > 0 /\ table'[h].refs = table[h].refs - 1
          /\ table'[h].obj \in {table[h].obj, NoObject}
          /\ \A p \in Objects : object'[p].name \in {object[p].name, NoName}
      BY <1>6, <3>1, <3>2, HandleReleased DEF IInv
    <3>4. HandlesCounted'
      <4>1. SUFFICES ASSUME ~ lost', NEW g \in Slots
                     PROVE  table'[g].refs = owned'[g] + leaked'[g]
                              + Cardinality(PointersVia(g)') + Cardinality(CallsHolding(g)')
        BY HandlesInTermsNext
      <4>2. /\ table[g].refs = owned[g] + leaked[g]
              + Cardinality(PointersVia(g)) + Cardinality(CallsHolding(g))
        BY <3>2, <4>1, HandlesInTerms DEF IInv
      <4>3. /\ PointersVia(g)' = PointersVia(g) /\ owned' = owned /\ leaked' = leaked
            /\ Cardinality(PointersVia(g)) \in Nat /\ owned[g] \in Nat /\ leaked[g] \in Nat
        BY <1>2, <3>1, PointersCount DEF PointersVia, IInv, TypeOK
      <4>4. h = op[t].got /\ g # NoHandle
        BY <1>2, <2>1, <4>1, PinsAreObjects DEF IInv
      <4>5. Cardinality(CallsHolding(g)) \in Nat /\ Cardinality(CallsHolding(g)') \in Nat
        BY <1>6, HoldingRecount
      <4>6. CASE g = h
        <5>1. Cardinality(CallsHolding(g)) = Cardinality(CallsHolding(g)') + 1
          BY <1>4, <1>6, <4>4, <4>6, HoldingRecount
        <5>2. QED
          BY <3>3, <4>2, <4>3, <4>5, <4>6, <5>1
      <4>7. CASE g # h
        <5>1. Cardinality(CallsHolding(g)) = Cardinality(CallsHolding(g)')
          BY <1>4, <1>6, <4>4, <4>7, HoldingRecount
        <5>2. QED
          BY <3>3, <4>2, <4>3, <4>7, <5>1
      <4>8. QED
        BY <4>6, <4>7
    <3>5. QED
      BY <3>1, <3>3, <3>4 DEF IInv, TypeOK
  <2>2. CASE ~ ok
    <3>1. /\ UNCHANGED <<table, names, object>>
          /\ leaked' = IF op[t].got = NoHandle THEN leaked ELSE [leaked EXCEPT ![op[t].got] = @ + 1]
          /\ op'[t].pins = op[t].pins /\ op'[t].got = NoHandle /\ (lost => lost')
      BY <1>1, <1>2, <1>3, <1>4, <1>6, <2>2
    <3>2. PointersCounted' /\ VectorsOK'
      BY <1>6, <3>1, ObjectsStay DEF IInv, SameEntries
    <3>3. HandlesCounted' /\ leaked' \in [Slots -> Nat]
      BY <1>2, <1>6, <3>1, LeakStep DEF IInv
    <3>4. SlotsOK' /\ NamesLeadHome'
      BY <1>2, <3>1 DEF IInv, SlotsOK, NamesLeadHome, room
    <3>5. QED
      BY <3>1, <3>2, <3>3, <3>4 DEF IInv, TypeOK
  <2>3. QED
    BY <2>1, <2>2
<1>8. lost' \in BOOLEAN /\ (lost => lost')
  BY <1>2 DEF IInv, TypeOK, Has
<1>9. TypeOK'
  BY <1>2, <1>6, <1>7, <1>8 DEF IInv, TypeOK, room
<1>10. ReferOK'
  BY <1>2, <1>4, <1>5, <1>6, ReferStep, PinsAreObjects DEF IInv
<1>11. NamingOK'
  BY <1>5, <1>6, <1>7, NamingStep, PinsAreObjects DEF IInv
<1>12. KeptIsOurs'
  BY <1>5, <1>6, <1>7, <1>8, <1>9, KeptStep DEF IInv
<1>13. QED
  BY <1>6, <1>7, <1>9, <1>10, <1>11, <1>12 DEF IInv

(***************************************************************************)
(* Making and naming an object.                                            *)
(***************************************************************************)

\* A new entry starts with the reference its creator will answer with.
LEMMA MakeStep ==
  ASSUME TableAssumption, IInv, NEW t \in Threads, op[t].pins = {}, op[t].got = NoHandle,
         NEW r, r.kind \in Kinds \cup {NoName}, r.name \in Names \cup {NoName}, Make(t, r)
  PROVE  IInv'
<1>1. PICK o \in Unborn, h \in Slots :
        /\ AddHandle(o, h, [Dead EXCEPT !.ptr = 1, !.kind = r.kind, !.stash = h])
        /\ op' = [op EXCEPT ![t] =
                    [Idle EXCEPT !.pc = IF r.name = NoName THEN "answer" ELSE "name it",
                                 !.name = r.name, !.pins = {o}, !.got = h]]
  BY DEF Make
<1> DEFINE s == [Idle EXCEPT !.pc = IF r.name = NoName THEN "answer" ELSE "name it",
                             !.name = r.name, !.pins = {o}, !.got = h]
<1>2. /\ UNCHANGED <<names, lost>> /\ UNCHANGED given
      /\ o \in Objects /\ \A g \in Slots : table[g].obj # o
      /\ \A u \in Threads : o \notin op[u].pins
  BY UnbornIsNowhere DEF Make, IInv
<1>3. /\ s \in Ops /\ s.pc \in Keeping /\ s.pins = {o} /\ s.got = h /\ s.call = "none"
      /\ s.name \in Names \cup {NoName} /\ (s.pc = "name it" => s.name \in Names)
  <2>1. PICK p \in {"answer", "name it"}, n \in Names \cup {NoName} :
          /\ p = (IF r.name = NoName THEN "answer" ELSE "name it")
          /\ n = r.name /\ (p = "name it" => n \in Names)
    OBVIOUS
  <2>2. s = [Idle EXCEPT !.pc = p, !.name = n, !.pins = {o}, !.got = h]
    BY <2>1
  <2>3. h \in Handles /\ {o} \in SUBSET Objects /\ p \in Places /\ Idle \in Ops
    BY <1>2, <2>1, IdleIs DEF Handles, Places
  <2> HIDE DEF s
  <2>4. s \in Ops /\ s.pc = p /\ s.pins = {o} /\ s.got = h /\ s.call = Idle.call /\ s.name = n
    BY <2>2, <2>3 DEF Ops
  <2>5. QED
    BY <2>1, <2>4, IdleIs DEF Keeping
<1>4. op' = [op EXCEPT ![t] = s]
  BY <1>1
<1> HIDE DEF s
<1>5. CallOK(s) /\ s.pc \notin Referring
  BY <1>2, <1>3 DEF CallOK, Pinless, Pinning, Handless, ByName, Referring, Keeping
<1>6. OnlyThread(t) /\ op'[t] = s /\ op' \in [Threads -> Ops] /\ CallsOK'
  BY <1>3, <1>4, <1>5, CallStep DEF IInv
<1>7. /\ PointersCounted' /\ VectorsOK' /\ SlotsOK'
      /\ object' \in [Objects -> XObjects] /\ table' \in [Slots -> Entries]
      /\ capacity' \in Nat /\ lastFree' \in Nat
      /\ table[h].obj = NoObject /\ table[h].refs = 0
      /\ table'[h].obj = o /\ table'[h].refs = 1
      /\ \A g \in Slots \ {h} : table'[g] = table[g]
      /\ object'[o].name = NoName
      /\ \A p \in Objects \ {o} : object'[p] = object[p]
  <2>1. PICK k \in Kinds \cup {NoName} : k = r.kind
    OBVIOUS
  <2>2. AddHandle(o, h, [Dead EXCEPT !.ptr = 1, !.kind = k, !.stash = h])
    BY <1>1, <2>1
  <2>3. op'[t].pins = {o}
    BY <1>3, <1>6
  <2>4. QED
    BY <1>6, <2>2, <2>3, HandleAdded DEF IInv
<1>8. HandlesCounted'
  <2>1. SUFFICES ASSUME ~ lost', NEW g \in Slots
                 PROVE  table'[g].refs = owned'[g] + leaked'[g]
                          + Cardinality(PointersVia(g)') + Cardinality(CallsHolding(g)')
    BY HandlesInTermsNext
  <2>2. table[g].refs = owned[g] + leaked[g]
          + Cardinality(PointersVia(g)) + Cardinality(CallsHolding(g))
    BY <1>2, <2>1, HandlesInTerms DEF IInv
  <2>3. /\ PointersVia(g)' = PointersVia(g) /\ owned' = owned /\ leaked' = leaked
        /\ Cardinality(PointersVia(g)) \in Nat /\ owned[g] \in Nat /\ leaked[g] \in Nat
    BY <1>2, PointersCount DEF PointersVia, given, IInv, TypeOK
  <2>4. /\ Cardinality(CallsHolding(g)) \in Nat
        /\ Cardinality(CallsHolding(g)') = IF g = h THEN Cardinality(CallsHolding(g)) + 1
                                           ELSE Cardinality(CallsHolding(g))
    <3>1. op[t].got # g
      BY PinsAreObjects DEF IInv
    <3>2. QED
      BY <1>3, <1>6, <3>1, HoldingRecount
  <2>5. CASE g = h
    BY <1>7, <2>2, <2>3, <2>4, <2>5
  <2>6. CASE g # h
    BY <1>7, <2>2, <2>3, <2>4, <2>6
  <2>7. QED
    BY <2>5, <2>6
<1>9. TypeOK'
  BY <1>2, <1>6, <1>7 DEF IInv, TypeOK, given
<1>10. ReferOK'
  BY <1>2, <1>3, <1>5, <1>6, ReferStep, PinsAreObjects DEF IInv, given
<1>11. NamingOK'
  <2>1. ASSUME NEW u \in Threads, op'[u].pc = "name it"
        PROVE  /\ \A p \in op'[u].pins : object'[p].name = NoName
               /\ \A w \in Threads \ {u} : op'[w].pc = "name it" => op'[u].pins \cap op'[w].pins = {}
    <3>1. ASSUME NEW w \in Threads \ {t}
          PROVE  op'[w] = op[w] /\ o \notin op[w].pins /\ op[w].pins \subseteq Objects
      BY <1>2, <1>6, PinsAreObjects DEF IInv, OnlyThread
    <3>2. CASE u = t
      <4>1. op'[u].pins = {o}
        BY <1>3, <1>6, <3>2
      <4>2. \A w \in Threads \ {u} : o \notin op'[w].pins
        BY <3>1, <3>2
      <4>3. QED
        BY <1>7, <4>1, <4>2
    <3>3. CASE u # t
      <4>1. op'[u] = op[u] /\ o \notin op[u].pins /\ op[u].pins \subseteq Objects
        BY <3>1, <3>3
      <4>2. \A p \in op[u].pins : object[p].name = NoName
        BY <2>1, <4>1 DEF IInv, NamingOK
      <4>3. ASSUME NEW w \in Threads \ {u}, op'[w].pc = "name it"
            PROVE  op'[u].pins \cap op'[w].pins = {}
        <5>1. CASE w = t
          BY <1>3, <1>6, <4>1, <5>1
        <5>2. CASE w # t
          BY <2>1, <3>1, <4>1, <4>3, <5>2 DEF IInv, NamingOK
        <5>3. QED
          BY <5>1, <5>2
      <4>4. QED
        BY <1>7, <4>1, <4>2, <4>3
    <3>4. QED
      BY <3>2, <3>3
  <2>2. QED
    BY <2>1 DEF NamingOK
<1>12. KeptIsOurs'
  <2>1. \A g \in Slots : table'[g].obj = table[g].obj \/ table[g].obj = NoObject
    BY <1>7
  <2>2. table'[op'[t].got].obj \in op'[t].pins
    BY <1>3, <1>6, <1>7
  <2>3. QED
    BY <1>2, <1>6, <1>7, <1>8, <1>9, <2>1, <2>2, KeptStep DEF IInv
<1>13. NamesLeadHome'
  <2>1. ASSUME NEW g \in Slots, table[g].obj # NoObject
        PROVE  /\ table'[g].obj = table[g].obj
               /\ object'[table[g].obj].name = object[table[g].obj].name
    <3>1. g # h /\ table[g].obj # o /\ table[g].obj \in Objects
      BY <1>2, <1>7, <2>1 DEF IInv, TypeOK, Entries
    <3>2. QED
      BY <1>7, <3>1
  <2>2. QED
    BY <1>2, <2>1, NamesStay DEF IInv
<1>14. QED
  BY <1>6, <1>7, <1>8, <1>9, <1>10, <1>11, <1>12, <1>13 DEF IInv

\* A create by name that found nothing, and one without a name.
LEMMA MakeKeeps ==
  ASSUME TableAssumption, IInv, NEW t \in Threads, MakeNamed(t) \/ MakeUnnamed(t) PROVE IInv'
<1>1. CASE MakeNamed(t)
  <2>1. /\ op[t].pins = {} /\ op[t].got = NoHandle /\ op[t] \in Ops /\ Make(t, op[t])
    BY <1>1 DEF MakeNamed, IInv, TypeOK, CallsOK, CallOK, Pinless, Handless
  <2>2. op[t].kind \in Kinds \cup {NoName} /\ op[t].name \in Names \cup {NoName}
    BY <2>1 DEF Ops
  <2>3. QED
    BY <2>1, <2>2, MakeStep
<1>2. CASE MakeUnnamed(t)
  <2>1. PICK k \in Kinds : Make(t, [Idle EXCEPT !.kind = k])
    BY <1>2 DEF MakeUnnamed
  <2>2. op[t] = Idle
    BY <1>2 DEF MakeUnnamed, Ready, IInv, CallsOK, CallOK
  <2>3. [Idle EXCEPT !.kind = k].kind = k /\ [Idle EXCEPT !.kind = k].name = NoName
    BY DEF Idle
  <2>4. QED
    BY <2>1, <2>2, <2>3, IdleIs, MakeStep
<1>3. QED
  BY <1>1, <1>2

\* A name that was free leads to the entry whose reference the creator holds: it
\* is still in handles_, unless the table is lost.
LEMMA AddNameMappingKeeps ==
  ASSUME TableAssumption, IInv, NEW t \in Threads, AddNameMapping(t) PROVE IInv'
<1>1. PICK o \in Objects : o = Pin(t) /\ op[t].pins = {o}
  BY PinIs DEF IInv, AddNameMapping, Pinning
<1>2. PICK n \in Names : n = op[t].name
  BY DEF AddNameMapping, IInv, CallsOK, CallOK
<1>3. PICK h \in FirstHandles(o) : names' = IF names[n] = NoHandle THEN [names EXCEPT ![n] = h] ELSE names
  BY <1>1, <1>2 DEF AddNameMapping
<1> DEFINE r == op[t]
           s == [r EXCEPT !.pc = "answer", !.name = NoName]
           x == [object[o] EXCEPT !.name = n]
<1>4. /\ r \in Ops /\ r.pc = "name it" /\ r.got \in Slots /\ r.call # "refer by name"
      /\ op' = [op EXCEPT ![t] = s] /\ object' = [object EXCEPT ![o] = x]
      /\ UNCHANGED <<table, lost>> /\ UNCHANGED room /\ UNCHANGED given
      /\ object[o] \in XObjects /\ object \in [Objects -> XObjects]
      /\ object[o].name = NoName /\ names \in [Names -> Handles] /\ NoName \notin Names
  <2>1. op' = [op EXCEPT ![t] = s]
    BY <1>2 DEF AddNameMapping, IInv, TypeOK
  <2>2. object' = [object EXCEPT ![o] = x]
    BY <1>1, <1>2 DEF AddNameMapping
  <2>3. QED
    BY <1>1, <2>1, <2>2
       DEF AddNameMapping, IInv, TypeOK, CallsOK, CallOK, NamingOK, TableAssumption
<1>5. /\ s \in Ops /\ s.pc = "answer" /\ s.pins = {o} /\ s.got = r.got /\ s.call = r.call
  BY <1>1, <1>4 DEF Ops, Places
<1>6. /\ x \in XObjects /\ x.name = n /\ x.ptr = object[o].ptr
      /\ x.handles = object[o].handles /\ x.stash = object[o].stash
  BY <1>4 DEF XObjects
<1> HIDE DEF s, x
<1>7. CallOK(s) /\ s.pc \notin Referring
  BY <1>4, <1>5 DEF CallOK, Pinless, Pinning, Handless, ByName, Referring
<1>8. OnlyThread(t) /\ op'[t] = s /\ op' \in [Threads -> Ops] /\ CallsOK'
  BY <1>4, <1>5, <1>7, CallStep DEF IInv
<1>9. /\ object' \in [Objects -> XObjects] /\ object'[o].name = n
      /\ \A p \in Objects : /\ object'[p].ptr = object[p].ptr /\ object'[p].stash = object[p].stash
                            /\ object'[p].handles = object[p].handles
                            /\ p # o => object'[p] = object[p]
  BY <1>4, <1>6
<1>10. /\ h \in Slots
       /\ ~ lost => table[h].obj = o
  <2>1. object[o].handles \in Seq(Slots) /\ VectorsAre(o)
    BY <1>4, VectorsInTerms DEF IInv, XObjects
  <2>2. CASE object[o].handles = <<>>
    <3>1. table[r.got].obj # o
      BY <1>4, <2>1, <2>2, DeadIs DEF VectorsAre
    <3>2. lost
      BY <1>1, <1>4, <3>1, PinsAreObjects DEF IInv, KeptIsOurs
    <3>3. QED
      BY <1>3, <2>2, <3>2 DEF FirstHandles
  <2>3. CASE object[o].handles # <<>>
    <3>1. h = object[o].handles[1] /\ 1 \in DOMAIN object[o].handles /\ h \in Slots
      BY <1>3, <2>1, <2>3 DEF FirstHandles
    <3>2. QED
      BY <2>1, <3>1 DEF VectorsAre, Lists
  <2>4. QED
    BY <2>2, <2>3
<1>11. /\ names' \in [Names -> Handles]
       /\ \A m \in Names : names'[m] = IF m = n /\ names[n] = NoHandle THEN h ELSE names[m]
  BY <1>3, <1>4, <1>10 DEF Handles
<1>12. SlotsOK' /\ SameEntries
  BY <1>4 DEF IInv, SlotsOK, SameEntries, room
<1>13. PointersCounted'
  <2>1. ASSUME NEW p \in Objects
        PROVE  object'[p].ptr = Cardinality(EntriesOf(p)') + Cardinality(PinnersOf(p)')
    <3>1. Cardinality(PinnersOf(p)') = Cardinality(PinnersOf(p))
      BY <1>1, <1>5, <1>8, PinsRecount
    <3>2. EntriesOf(p)' = EntriesOf(p)
      BY <1>12, SameEntriesCount
    <3>3. QED
      BY <1>9, <3>1, <3>2, PointersInTerms DEF IInv
  <2>2. QED
    BY <2>1, PointersInTermsNext
<1>14. VectorsOK'
  BY <1>9, <1>12 DEF IInv, VectorsOK, ListsHandle, SameEntries
<1>15. HandlesCounted'
  BY <1>4, <1>5, <1>8, CountsStay DEF IInv
<1>16. TypeOK'
  BY <1>4, <1>8, <1>9, <1>11 DEF IInv, TypeOK, room, given
<1>17. ReferOK'
  BY <1>4, <1>5, <1>7, <1>8, ReferStep, PinsAreObjects DEF IInv, given
<1>18. NamingOK'
  <2>1. ASSUME NEW u \in Threads, op'[u].pc = "name it"
        PROVE  u # t /\ op'[u] = op[u] /\ o \notin op[u].pins /\ op[u].pins \subseteq Objects
    <3>1. u # t /\ op'[u] = op[u]
      BY <1>5, <1>8, <2>1 DEF OnlyThread
    <3>2. op[t].pins \cap op[u].pins = {}
      BY <1>4, <2>1, <3>1 DEF IInv, NamingOK
    <3>3. QED
      BY <1>1, <3>1, <3>2, PinsAreObjects DEF IInv
  <2>2. ASSUME NEW u \in Threads, op'[u].pc = "name it"
        PROVE  /\ \A p \in op'[u].pins : object'[p].name = NoName
               /\ \A w \in Threads \ {u} : op'[w].pc = "name it" => op'[u].pins \cap op'[w].pins = {}
    <3>1. op'[u] = op[u] /\ o \notin op[u].pins /\ op[u].pins \subseteq Objects
      BY <2>1, <2>2
    <3>2. \A p \in op[u].pins : object[p].name = NoName
      BY <2>2, <3>1 DEF IInv, NamingOK
    <3>3. \A w \in Threads \ {u} : op[w].pc = "name it" => op[u].pins \cap op[w].pins = {}
      BY <2>2, <3>1 DEF IInv, NamingOK
    <3>4. QED
      BY <1>9, <2>1, <3>1, <3>2, <3>3
  <2>3. QED
    BY <2>2 DEF NamingOK
<1>19. KeptIsOurs'
  BY <1>1, <1>4, <1>5, <1>8, <1>12, <1>15, <1>16, KeptStep DEF IInv, SameEntries, Keeping
<1>20. NamesLeadHome'
  <2>1. SUFFICES ASSUME ~ lost, NEW m \in Names, names'[m] # NoHandle
                 PROVE  /\ table[names'[m]].obj # NoObject
                        /\ object'[table[names'[m]].obj].name = m
    BY <1>4 DEF NamesLeadHome
  <2>2. CASE m = n /\ names[n] = NoHandle
    BY <1>9, <1>10, <1>11, <2>1, <2>2 DEF TableAssumption
  <2>3. CASE ~ (m = n /\ names[n] = NoHandle)
    <3>1. names'[m] = names[m] /\ names[m] \in Slots
      BY <1>4, <1>11, <2>1, <2>3 DEF Handles
    <3>2. /\ table[names[m]].obj # NoObject /\ object[table[names[m]].obj].name = m
      BY <2>1, <3>1 DEF IInv, NamesLeadHome
    <3>3. table[names[m]].obj \in Objects \ {o}
      BY <1>4, <3>1, <3>2 DEF IInv, TypeOK, Entries
    <3>4. QED
      BY <1>9, <3>1, <3>2, <3>3
  <2>4. QED
    BY <2>2, <2>3
<1>21. QED
  BY <1>8, <1>12, <1>13, <1>14, <1>15, <1>16, <1>17, <1>18, <1>19, <1>20 DEF IInv

(***************************************************************************)
(* Theorems.                                                               *)
(***************************************************************************)

\* The table starts empty.
LEMMA InitHolds == ASSUME TableAssumption, Init PROVE IInv
<1>1. /\ table = [h \in Slots |-> FreeEntry] /\ capacity = 0 /\ lastFree = 0
      /\ names = [n \in Names |-> NoHandle] /\ object = [o \in Objects |-> Dead]
      /\ op = [t \in Threads |-> Idle] /\ owned = [h \in Slots |-> 0]
      /\ byPointer = [o \in Objects |-> NoHandle] /\ leaked = [h \in Slots |-> 0]
      /\ lost = FALSE
  BY DEF Init
<1>2. FreeEntry \in Entries /\ FreeEntry.obj = NoObject /\ FreeEntry.refs = 0
  BY DEF FreeEntry, Entries
<1>3. Dead \in XObjects /\ NoHandle \in Handles
  BY DEF Dead, XObjects, Handles
<1>4. TypeOK
  BY <1>1, <1>2, <1>3, IdleIs DEF TypeOK
<1>5. \A h \in Slots : table[h].obj = NoObject /\ table[h].refs = 0
  BY <1>1, <1>2
<1>6. SlotsOK
  BY <1>1, <1>5 DEF SlotsOK
<1>7. \A o \in Objects : VectorsAre(o)
  BY <1>1, <1>5, DeadIs DEF VectorsAre, TableAssumption
<1>8. VectorsOK
  BY <1>7, VectorsInTerms
<1>9. \A t \in Threads : op[t] = Idle
  BY <1>1
<1>10. CallsOK /\ ReferOK /\ NamingOK /\ KeptIsOurs
  BY <1>9, IdleIs DEF CallsOK, ReferOK, NamingOK, KeptIsOurs, Referring
<1>11. PointersCounted
  <2>1. ASSUME NEW o \in Objects
        PROVE  object[o].ptr = Cardinality(EntriesOf(o)) + Cardinality(PinnersOf(o))
    <3>1. EntriesOf(o) = {} /\ PinnersOf(o) = {}
      BY <1>5, <1>9, <2>1, IdleIs DEF EntriesOf, PinnersOf, TableAssumption
    <3>2. object[o].ptr = 0
      BY <1>1, DeadIs
    <3>3. QED
      BY <3>1, <3>2, FS_EmptySet
  <2>2. QED
    BY <2>1, PointersInTerms
<1>12. HandlesCounted
  <2>1. ASSUME NEW h \in Slots
        PROVE  table[h].refs = owned[h] + leaked[h]
                 + Cardinality(PointersVia(h)) + Cardinality(CallsHolding(h))
    <3>1. PointersVia(h) = {} /\ CallsHolding(h) = {}
      BY <1>1, <1>9, IdleIs, PinsAreObjects, <1>4 DEF PointersVia, CallsHolding
    <3>2. table[h].refs = 0 /\ owned[h] = 0 /\ leaked[h] = 0
      BY <1>1, <1>5
    <3>3. QED
      BY <3>1, <3>2, FS_EmptySet
  <2>2. QED
    BY <2>1, HandlesInTerms
<1>13. NamesLeadHome
  BY <1>1 DEF NamesLeadHome
<1>14. QED
  BY <1>4, <1>6, <1>8, <1>10, <1>11, <1>12, <1>13 DEF IInv

\* Nothing changes in a stuttering step.
LEMMA StutterHolds == ASSUME IInv, UNCHANGED vars PROVE IInv'
<1>1. /\ UNCHANGED <<table, capacity, lastFree, names, object>>
      /\ UNCHANGED <<op, owned, byPointer, leaked, lost>>
  BY DEF vars
<1>2. TypeOK' /\ SlotsOK' /\ CallsOK' /\ ReferOK' /\ NamingOK' /\ KeptIsOurs'
  BY <1>1 DEF IInv, TypeOK, SlotsOK, CallsOK, CallOK, ReferOK, NamingOK, KeptIsOurs
<1>3. VectorsOK' /\ PointersCounted' /\ HandlesCounted' /\ NamesLeadHome'
  BY <1>1 DEF IInv, VectorsOK, ListsHandle, PointersCounted, HandlesCounted, NamesLeadHome
<1>4. QED
  BY <1>2, <1>3 DEF IInv

\* Every step of every thread keeps the invariant.
LEMMA StepHolds == ASSUME TableAssumption, IInv, Next PROVE IInv'
<1>1. PICK t \in Threads :
    \/ CallByName(t) \/ Locate(t) \/ Again(t)
    \/ ReadFirst(t) \/ RetainFirst(t) \/ ReleaseFirst(t)
    \/ GiveFound(t) \/ GiveFirst(t) \/ NoRoom(t)
    \/ MakeNamed(t) \/ MakeUnnamed(t) \/ AddNameMapping(t)
    \/ Collect(t) \/ Drop(t) \/ ReferenceByName(t)
    \/ \E h \in Slots :
         \/ Close(t, h) \/ Use(t, h) \/ Reference(t, h) \/ DuplicateFull(t, h)
         \/ \E c \in BOOLEAN : DuplicateHandle(t, h, c)
    \/ \E o \in Objects : Dereference(t, o) \/ OpenByPointer(t, o)
  BY DEF Next
<1>2. CASE CallByName(t) \/ Locate(t) \/ Again(t)
  BY <1>2, CallByNameKeeps, LocateKeeps, AgainKeeps
<1>3. CASE ReadFirst(t) \/ RetainFirst(t) \/ ReleaseFirst(t)
  BY <1>3, ReadFirstKeeps, RetainFirstKeeps, ReleaseFirstKeeps
<1>4. CASE GiveFound(t) \/ GiveFirst(t) \/ NoRoom(t)
  BY <1>4, GiveFoundKeeps, GiveFirstKeeps, NoRoomKeeps
<1>5. CASE MakeNamed(t) \/ MakeUnnamed(t) \/ AddNameMapping(t)
  BY <1>5, MakeKeeps, AddNameMappingKeeps
<1>6. CASE Collect(t) \/ Drop(t) \/ ReferenceByName(t)
  BY <1>6, CollectKeeps, DropKeeps, ReferenceByNameKeeps
<1>7. ASSUME NEW h \in Slots,
             \/ Close(t, h) \/ Use(t, h) \/ Reference(t, h) \/ DuplicateFull(t, h)
             \/ \E c \in BOOLEAN : DuplicateHandle(t, h, c)
      PROVE  IInv'
  <2>1. CASE Close(t, h) \/ DuplicateFull(t, h)
    BY <2>1, CloseKeeps DEF DuplicateFull
  <2>2. CASE Use(t, h) \/ Reference(t, h)
    BY <2>2, UseKeeps, ReferenceKeeps
  <2>3. CASE \E c \in BOOLEAN : DuplicateHandle(t, h, c)
    BY <2>3, DuplicateHandleKeeps
  <2>4. QED
    BY <1>7, <2>1, <2>2, <2>3
<1>8. ASSUME NEW o \in Objects, Dereference(t, o) \/ OpenByPointer(t, o) PROVE IInv'
  BY <1>8, DereferenceKeeps, OpenByPointerKeeps
<1>9. QED
  BY <1>1, <1>2, <1>3, <1>4, <1>5, <1>6, <1>7, <1>8

\* The inductive invariant holds of every state of every behaviour, whatever the
\* threads, the objects and the sizes of the table.
THEOREM Invariance == Spec => []IInv
<1>1. Init => IInv
  BY TableAssumption, InitHolds
<1>2. IInv /\ [Next]_vars => IInv'
  BY TableAssumption, StepHolds, StutterHolds
<1>3. QED
  BY <1>1, <1>2, PTL DEF Spec

\* Every variable of the table, the objects and the calls keeps its type.
THEOREM TypeCorrectness == Spec => []TypeOK
<1>1. IInv => TypeOK
  BY DEF IInv
<1>2. QED
  BY <1>1, Invariance, PTL

\* An object's pointer count is the number of its entries in the table plus the
\* calls that have pinned it, at every step of every interleaving: it is deleted
\* by the last of them and by no other (XObject::Retain and Release).
THEOREM PointersAreCounted == Spec => []PointersCounted
<1>1. IInv => PointersCounted
  BY DEF IInv
<1>2. QED
  BY <1>1, Invariance, PTL

\* An entry's handle_ref_count is what guests, referenced pointers and calls in
\* progress hold on it (ObjectTable::RetainHandle, ReleaseHandle).
THEOREM HandlesAreCounted == Spec => []HandlesCounted
<1>1. IInv => HandlesCounted
  BY DEF IInv
<1>2. QED
  BY <1>1, Invariance, PTL

\* The reference a call retained through the unlocked read of handles_ is one on
\* the object it pinned (XObject::RetainHandle).
THEOREM RetainedIsPinned == Spec => []RetainedIsOurs
<1>1. IInv => RetainedIsOurs
  BY DEF IInv, KeptIsOurs, RetainedIsOurs
<1>2. QED
  BY <1>1, Invariance, PTL

\* A name in name_table_ leads to an object of that name, although names and
\* entries are changed by different calls (AddNameMapping, RemoveHandle).
THEOREM NamesAlwaysLeadHome == Spec => []NamesLeadHome
<1>1. IInv => NamesLeadHome
  BY DEF IInv
<1>2. QED
  BY <1>1, Invariance, PTL
=============================================================================
