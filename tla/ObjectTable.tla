---------------------------- MODULE ObjectTable ----------------------------
(***************************************************************************)
(* The kernel's handle table: what xboxkrnl's object calls do to           *)
(* ObjectTable and to the reference counts of XObject, when several guest  *)
(* threads create, open by name, duplicate, use and close at once.         *)
(*                                                                         *)
(* Every call into the table holds the recursive global lock, so it is one *)
(* step; name_table_ has a lock of its own, taken inside the global one    *)
(* but, by GetObjectByName, not outside it.  What happens between the      *)
(* steps of one call, above all between the unlocked read of               *)
(* XObject::handles_ and the locked call it is for, is what is modelled.   *)
(* A handle is the number of its slot.                                     *)
(***************************************************************************)
EXTENDS Naturals, Sequences, FiniteSets, SequencesExt

CONSTANTS Threads, Objects, Names, Kinds,
          NoObject, NoName,
          FirstCapacity,   \* 16 * 1024 entries in the code
          MaxCapacity,     \* bound: realloc fails beyond it
          MaxOwned         \* bound: references guests have been given and not closed

ASSUME TableAssumption ==
  /\ FirstCapacity \in Nat /\ FirstCapacity > 1
  /\ MaxCapacity \in Nat /\ MaxOwned \in Nat
  /\ IsFiniteSet(Threads) /\ IsFiniteSet(Objects)
  /\ NoObject \notin Objects /\ NoName \notin Names

Slots == 1 .. MaxCapacity - 1    \* slot 0 is never a handle
NoHandle == 0

VARIABLES
  table,      \* table_: per slot its object and handle_ref_count
  capacity,   \* table_capacity_
  lastFree,   \* last_free_entry_
  names,      \* name_table_
  object,     \* per XObject: pointer count, handles_, name_, type, stashed handle
  op,         \* per thread: where it is in its call, and the call's locals
  owned,      \* history: references on a handle the guest has been given
  byPointer,  \* history: the handle that keeps a referenced native pointer alive
  leaked,     \* history: references no one will ever release
  lost        \* history: a call has released, or answered with, a handle it
              \* holds no reference on

vars == <<table, capacity, lastFree, names, object, op, owned, byPointer, leaked, lost>>
given == <<owned, byPointer, leaked>>
room == <<capacity, lastFree>>

Alive(o) == object[o].ptr > 0
Dead == [ptr |-> 0, handles |-> <<>>, name |-> NoName, kind |-> NoName, stash |-> NoHandle]
FreeEntry == [obj |-> NoObject, refs |-> 0]
Idle == [pc |-> "idle", call |-> "none", name |-> NoName, kind |-> NoName,
         handle |-> NoHandle, first |-> NoHandle, got |-> NoHandle, pins |-> {}]

Init ==
  /\ table = [h \in Slots |-> FreeEntry]
  /\ capacity = 0 /\ lastFree = 0
  /\ names = [n \in Names |-> NoHandle]
  /\ object = [o \in Objects |-> Dead]
  /\ op = [t \in Threads |-> Idle]
  /\ owned = [h \in Slots |-> 0]
  /\ byPointer = [o \in Objects |-> NoHandle]
  /\ leaked = [h \in Slots |-> 0]
  /\ lost = FALSE

(***************************************************************************)
(* Slots and pointer counts.                                               *)
(***************************************************************************)
Free(h) == table[h].obj = NoObject

\* The scan starts at last_free_entry_, wraps, and skips slot 0.
ScanOrder(h) == (h + capacity - 1 - lastFree) % (capacity - 1)
FreeSlots == {h \in Slots : h < capacity /\ Free(h)}
NextCapacity == IF 2 * capacity > FirstCapacity THEN 2 * capacity ELSE FirstCapacity
CanGrow == NextCapacity <= MaxCapacity
NewSlot == IF FreeSlots # {}
           THEN CHOOSE h \in FreeSlots : \A g \in FreeSlots : ScanOrder(h) <= ScanOrder(g)
           ELSE capacity + 1
FindFreeSlot(h) ==
  /\ h = NewSlot
  /\ IF FreeSlots # {} THEN UNCHANGED room
     ELSE CanGrow /\ capacity' = NextCapacity /\ lastFree' = capacity + 1

\* The last Release deletes the object.
Dropped(x) == IF x.ptr = 1 THEN Dead ELSE [x EXCEPT !.ptr = @ - 1]
Pinned(x) == [x EXCEPT !.ptr = @ + 1]
Released(objs) == [o \in Objects |-> IF o \in objs THEN Dropped(object[o]) ELSE object[o]]
Retained(objs) == [o \in Objects |-> IF o \in objs THEN Pinned(object[o]) ELSE object[o]]
Pin(t) == CHOOSE o \in op[t].pins : TRUE

(***************************************************************************)
(* RetainHandle and ReleaseHandle under the lock.  Removing the last       *)
(* reference takes the handle off its object, drops the object's name,     *)
(* whichever of its handles this was, and gives back the table's pointer.  *)
(***************************************************************************)
HasAny(h, o) == h \in Slots /\ h < capacity /\ ~Free(h)    \* mutant
Has(h, o) == h \in Slots /\ h < capacity /\ table[h].obj = o

\* find and erase in handles_; a handle is in one vector, and there once.
Erased(hs, h) ==
  IF \E i \in DOMAIN hs : hs[i] = h THEN RemoveAt(hs, CHOOSE i \in DOMAIN hs : hs[i] = h) ELSE hs

RemoveHandleKeepsName(h) ==    \* mutant
  LET o == table[h].obj
  IN  /\ table' = [table EXCEPT ![h] = FreeEntry]
      /\ object' = [object EXCEPT ![o] = Dropped([@ EXCEPT !.handles = Erased(@, h)])]
      /\ UNCHANGED names
RemoveHandle(h) ==
  LET o == table[h].obj
      x == object[o]
  IN  /\ table' = [table EXCEPT ![h] = FreeEntry]
      /\ names' = IF x.name = NoName THEN names ELSE [names EXCEPT ![x.name] = NoHandle]
      /\ object' = [object EXCEPT ![o] = Dropped([x EXCEPT !.handles = Erased(@, h)])]

ReleaseHandleAtOnce(h) == RemoveHandle(h)    \* mutant
ReleaseHandle(h) ==
  IF table[h].refs = 1
  THEN RemoveHandle(h)
  ELSE /\ table' = [table EXCEPT ![h].refs = @ - 1]
       /\ UNCHANGED <<names, object>>

\* A new entry holds one reference, for whoever asked for it.
AddHandle(o, h, x) ==
  /\ FindFreeSlot(h)
  /\ table' = [table EXCEPT ![h] = [obj |-> o, refs |-> 1]]
  /\ object' = [object EXCEPT ![o] = [x EXCEPT !.ptr = @ + 1, !.handles = Append(@, h)]]

(***************************************************************************)
(* Creating and opening.                                                   *)
(***************************************************************************)
\* Bounds: few references, and no new call once one has leaked or is lost.
Few == FoldFunction(+, Cardinality({o \in Objects : byPointer[o] # NoHandle}), owned) < MaxOwned
Ready(t) == op[t].pc = "idle" /\ ~lost /\ \A h \in Slots : leaked[h] = 0

\* Bound: while a reference by name is being taken there is no other reference.
NoReference ==
  /\ \A o \in Objects : byPointer[o] = NoHandle
  /\ \A u \in Threads : op[u].call \notin {"refer", "refer by name"}

\* GetObjectByName, first half: under name_mutex_ only.  A create without a match
\* goes on to make the object, the other calls fail without one.
CallByName(t) ==
  /\ Ready(t) /\ Few
  /\ \E n \in Names, k \in Kinds, call \in {"create", "open", "refer by name"} :
       LET r == [Idle EXCEPT !.call = call, !.name = n, !.handle = names[n],
                                !.kind = IF call = "create" THEN k ELSE NoName]
       IN  /\ call = "refer by name" => NoReference
           /\ \/ names[n] # NoHandle /\ op' = [op EXCEPT ![t] = [r EXCEPT !.pc = "locate"]]
              \/ /\ names[n] = NoHandle /\ call = "create"
                 /\ op' = [op EXCEPT ![t] = [r EXCEPT !.pc = "make"]]
  /\ UNCHANGED <<table, room, names, object, given, lost>>

\* LookupObject: whatever the handle names now, pinned.
LookupUnpinned(t, h, found, missing) ==    \* mutant
  /\ op' = IF Free(h) THEN [op EXCEPT ![t] = missing]
           ELSE [op EXCEPT ![t] = [found EXCEPT !.pins = {table[h].obj}]]
  /\ UNCHANGED object
Lookup(t, h, found, missing) ==
  /\ op' = IF Free(h) THEN [op EXCEPT ![t] = missing]
           ELSE [op EXCEPT ![t] = [found EXCEPT !.pins = {table[h].obj}]]
  /\ object' = Retained({table[h].obj})

\* GetObjectByName, second half: the object may be gone or be another one.
AfterFind(t) == CASE op[t].call = "create" -> "again"
                  [] op[t].call = "open" -> "give"
                  [] op[t].call = "refer by name" -> "by name"
Locate(t) ==
  /\ op[t].pc = "locate"
  /\ Lookup(t, op[t].handle, [op[t] EXCEPT !.pc = "find"],
                             [op[t] EXCEPT !.pc = AfterFind(t)])
  /\ UNCHANGED <<table, room, names, given, lost>>

\* LookupNamedObject's own lookup; a reference on an object of another type is
\* forgotten.
Again(t) ==
  LET r == op[t]
      o == table[r.handle].obj
  IN  /\ r.pc = "again"
      /\ IF o # NoObject /\ object[o].kind = r.kind
         THEN /\ Lookup(t, r.handle, [Idle EXCEPT !.pc = "undo", !.got = r.got], r)
              /\ UNCHANGED leaked
         ELSE /\ op' = [op EXCEPT ![t] =
                          [r EXCEPT !.pc = "make", !.handle = NoHandle, !.got = NoHandle]]
              /\ leaked' = IF r.got = NoHandle THEN leaked ELSE [leaked EXCEPT ![r.got] = @ + 1]
              /\ UNCHANGED object
      /\ UNCHANGED <<table, room, names, owned, byPointer, lost>>

(***************************************************************************)
(* XObject::RetainHandle() and ReleaseHandle(): the first entry of         *)
(* handles_ is read without the lock, then used under it, if the entry     *)
(* still belongs to the object.                                            *)
(***************************************************************************)
Retains == {"find", "keep", "refer"}
Releases == {"undo", "unrefer"}
Locked == [find |-> "find2", keep |-> "keep2", refer |-> "refer2",
           undo |-> "undo2", unrefer |-> "unrefer2"]

ReadFirst(t) ==
  /\ op[t].pc \in Retains \cup Releases
  /\ LET hs == object[Pin(t)].handles
     IN  op' = [op EXCEPT ![t].pc = Locked[@], ![t].first = IF hs = <<>> THEN NoHandle ELSE hs[1]]
  /\ UNCHANGED <<table, room, names, object, given, lost>>

RetainFirst(t) ==
  LET r == op[t]
      o == Pin(t)
      ok == Has(r.first, o)
      taken == [r EXCEPT !.got = IF ok THEN r.first ELSE NoHandle, !.first = NoHandle]
  IN  /\ r.pc \in {Locked[s] : s \in Retains}
      /\ table' = IF ok THEN [table EXCEPT ![r.first].refs = @ + 1] ELSE table
      /\ \/ /\ r.pc = "find2"        \* and GetObjectByName lets go of the object
            /\ object' = Released({o})
            /\ op' = [op EXCEPT ![t] = [taken EXCEPT !.pc = AfterFind(t), !.pins = {}]]
            /\ UNCHANGED <<byPointer, lost>>
         \/ /\ r.pc = "keep2"
            /\ op' = [op EXCEPT ![t] = [taken EXCEPT !.pc = "answer"]]
            /\ UNCHANGED <<object, byPointer, lost>>
         \/ /\ r.pc = "refer2"
            /\ byPointer' = IF ok THEN [byPointer EXCEPT ![o] = r.first] ELSE byPointer
            /\ lost' = (lost \/ ~ok)
            /\ op' = [op EXCEPT ![t] = [r EXCEPT !.pc = "drop", !.first = NoHandle]]
            /\ UNCHANGED object
      /\ UNCHANGED <<room, names, owned, leaked>>

ReleaseFirst(t) ==
  LET r == op[t]
      ok == Has(r.first, Pin(t))
  IN  /\ r.pc \in {Locked[s] : s \in Releases}
      /\ IF ok THEN ReleaseHandle(r.first) /\ UNCHANGED leaked
         ELSE /\ leaked' = IF r.got = NoHandle THEN leaked ELSE [leaked EXCEPT ![r.got] = @ + 1]
              /\ UNCHANGED <<table, names, object>>
      /\ lost' = (lost \/ (ok /\ r.first # r.got))
      /\ op' = [op EXCEPT ![t] = [r EXCEPT !.pc = IF r.pc = "undo2" THEN "keep" ELSE "drop",
                                          !.got = NoHandle, !.first = NoHandle]]
      /\ UNCHANGED <<room, owned, byPointer>>

\* The handle the call answers with; it is the guest's if a reference was taken.
Answer(t, h) ==
  /\ owned' = [owned EXCEPT ![h] = @ + 1]
  /\ lost' = (lost \/ op[t].got # h)
  /\ UNCHANGED <<byPointer, leaked>>

\* ObOpenObjectByName answers with the handle it found under the name.
GiveFound(t) ==
  /\ op[t].pc = "give"
  /\ Answer(t, op[t].handle)
  /\ op' = [op EXCEPT ![t] = Idle]
  /\ UNCHANGED <<table, room, names, object>>

\* handle(): handles_[0], read again.  An empty vector yields anything.
FirstHandles(o) == IF object[o].handles = <<>> THEN Slots ELSE {object[o].handles[1]}
GiveFirst(t) ==
  /\ op[t].pc = "answer"
  /\ \E h \in FirstHandles(Pin(t)) : Answer(t, h)
  /\ object' = Released(op[t].pins)
  /\ op' = [op EXCEPT ![t] = Idle]
  /\ UNCHANGED <<table, room, names>>

\* new XObject, AddHandle and Initialize, which stashes handle() in the guest's
\* header.  The constructor ignores a full table; the model ends the call there
\* (bound: 16 * 1024 entries and more never run out).
Unborn == {o \in Objects : ~Alive(o) /\ byPointer[o] = NoHandle}
NoRoom(t) ==
  /\ op[t].pc = "make"
  /\ Unborn = {} \/ (FreeSlots = {} /\ ~CanGrow)
  /\ op' = [op EXCEPT ![t] = Idle]
  /\ UNCHANGED <<table, room, names, object, given, lost>>

Make(t, r) ==
  /\ \E o \in Unborn, h \in Slots :
       /\ AddHandle(o, h, [Dead EXCEPT !.ptr = 1, !.kind = r.kind, !.stash = h])
       /\ op' = [op EXCEPT ![t] =
                   [Idle EXCEPT !.pc = IF r.name = NoName THEN "answer" ELSE "name it",
                                !.name = r.name, !.pins = {o}, !.got = h]]
  /\ UNCHANGED <<names, given, lost>>
MakeNamed(t) == op[t].pc = "make" /\ Make(t, op[t])
MakeUnnamed(t) == Ready(t) /\ Few /\ \E k \in Kinds : Make(t, [Idle EXCEPT !.kind = k])

\* SetAttributes: the object keeps the name even if the mapping collides.
AddNameMapping(t) ==
  LET n == op[t].name
  IN  /\ op[t].pc = "name it"
      /\ object' = [object EXCEPT ![Pin(t)].name = n]
      /\ \E h \in FirstHandles(Pin(t)) :
           names' = IF names[n] = NoHandle THEN [names EXCEPT ![n] = h] ELSE names
      /\ op' = [op EXCEPT ![t].pc = "answer", ![t].name = NoName]
      /\ UNCHANGED <<table, room, given, lost>>

(***************************************************************************)
(* Calls on a handle the guest has.                                        *)
(***************************************************************************)
Open(h) == owned[h] > 0

\* NtClose.
Close(t, h) ==
  /\ Ready(t) /\ Open(h)
  /\ IF Free(h) THEN UNCHANGED <<table, names, object>> ELSE ReleaseHandle(h)
  /\ owned' = [owned EXCEPT ![h] = @ - 1]
  /\ UNCHANGED <<room, op, byPointer, leaked, lost>>

\* DuplicateHandle: the source is closed under the same lock, and also when the
\* table is full.
DuplicateHandle(t, h, closeSource) ==
  LET o == table[h].obj
      gone == closeSource /\ table[h].refs = 1
      left == IF gone THEN FreeEntry
              ELSE [table[h] EXCEPT !.refs = IF closeSource THEN @ - 1 ELSE @]
      x == IF gone THEN [object[o] EXCEPT !.ptr = @ - 1, !.handles = Erased(@, h)] ELSE object[o]
  IN  /\ Ready(t) /\ Open(h) /\ o # NoObject /\ Few
      /\ FreeSlots # {} \/ CanGrow
      /\ LET g == NewSlot
         IN  /\ FindFreeSlot(g)
             /\ table' = [table EXCEPT ![g] = [obj |-> o, refs |-> 1], ![h] = left]
             /\ object' = [object EXCEPT ![o] =
                  [x EXCEPT !.ptr = @ + 1,
                            !.handles = Erased(Append(object[o].handles, g),
                                               IF gone THEN h ELSE NoHandle)]]
             /\ owned' = [owned EXCEPT ![g] = @ + 1, ![h] = IF closeSource THEN @ - 1 ELSE @]
      /\ names' = IF gone /\ x.name # NoName THEN [names EXCEPT ![x.name] = NoHandle] ELSE names
      /\ UNCHANGED <<op, byPointer, leaked, lost>>

DuplicateFull(t, h) ==
  /\ FreeSlots = {} /\ ~CanGrow
  /\ Close(t, h)

\* Calls that look the object up, use it and drop it.
Use(t, h) ==
  /\ Ready(t) /\ Open(h)
  /\ Lookup(t, h, [Idle EXCEPT !.pc = "drop"], Idle)
  /\ UNCHANGED <<table, room, names, given, lost>>

\* ObReferenceObjectByHandle; bound: one reference on a pointer at a time.
Reference(t, h) ==
  /\ Ready(t) /\ Open(h) /\ Few
  /\ ~Free(h) /\ byPointer[table[h].obj] = NoHandle
  /\ \A u \in Threads : /\ op[u].call = "refer" => table[h].obj \notin op[u].pins
                        /\ op[u].call # "refer by name"
  /\ Lookup(t, h, [Idle EXCEPT !.pc = "refer", !.call = "refer"], Idle)
  /\ UNCHANGED <<table, room, names, given, lost>>

\* ObReferenceObjectByName goes on with the handle it found: the reference that
\* GetObjectByName took on it is forgotten, and a wrong type ends the call.
ReferenceByName(t) ==
  LET r == op[t]
  IN  /\ r.pc = "by name"
      /\ \E found \in {[Idle EXCEPT !.pc = "refer", !.call = "refer"], [Idle EXCEPT !.pc = "drop"]} :
           Lookup(t, r.handle, found, Idle)
      /\ leaked' = IF r.got = NoHandle THEN leaked ELSE [leaked EXCEPT ![r.got] = @ + 1]
      /\ UNCHANGED <<table, room, names, owned, byPointer, lost>>

\* ObOpenObjectByPointer: a handle for an object the guest has a reference on.
OpenByPointer(t, o) ==
  /\ Ready(t) /\ Few /\ byPointer[o] # NoHandle /\ Alive(o)
  /\ Lookup(t, object[o].stash, [Idle EXCEPT !.pc = "keep"], Idle)
  /\ UNCHANGED <<table, room, names, given, lost>>

\* ObDereferenceObject: the object is found through the handle in its header.
Dereference(t, o) ==
  LET h == object[o].stash
      got == byPointer[o]
  IN  /\ Ready(t) /\ got # NoHandle /\ Alive(o)
      /\ Lookup(t, h, [Idle EXCEPT !.pc = "unrefer", !.got = got], Idle)
      /\ leaked' = IF Free(h) THEN [leaked EXCEPT ![got] = @ + 1] ELSE leaked
      /\ byPointer' = [byPointer EXCEPT ![o] = NoHandle]
      /\ UNCHANGED <<table, room, names, owned, lost>>

\* GetAllObjects.
Collect(t) ==
  LET all == {table[h].obj : h \in Slots} \ {NoObject}
  IN  /\ op[t].pc = "idle"
      /\ object' = Retained(all)
      /\ op' = [op EXCEPT ![t] = [Idle EXCEPT !.pc = "drop", !.pins = all]]
      /\ UNCHANGED <<table, room, names, given, lost>>

\* The object_refs of the call go out of scope.
Drop(t) ==
  /\ op[t].pc = "drop"
  /\ object' = Released(op[t].pins)
  /\ op' = [op EXCEPT ![t] = Idle]
  /\ UNCHANGED <<table, room, names, given, lost>>

Next ==
  \E t \in Threads :
    \/ CallByName(t) \/ Locate(t) \/ Again(t)
    \/ ReadFirst(t) \/ RetainFirst(t) \/ ReleaseFirst(t)
    \/ GiveFound(t) \/ GiveFirst(t) \/ NoRoom(t)
    \/ MakeNamed(t) \/ MakeUnnamed(t) \/ AddNameMapping(t)
    \/ Collect(t) \/ Drop(t) \/ ReferenceByName(t)
    \/ \E h \in Slots :
         \/ Close(t, h) \/ Use(t, h) \/ Reference(t, h) \/ DuplicateFull(t, h)
         \/ \E c \in BOOLEAN : DuplicateHandle(t, h, c)
    \/ \E o \in Objects : Dereference(t, o) \/ OpenByPointer(t, o)

Spec == Init /\ [][Next]_vars

(***************************************************************************)
(* Properties.                                                             *)
(***************************************************************************)

\* An object lives exactly as long as an entry of the table or a pinned pointer
\* refers to it: none is freed in use, none is forgotten (Retain, Release).
PointersCounted ==
  \A o \in Objects :
    object[o].ptr = Cardinality({h \in Slots : table[h].obj = o})
                  + Cardinality({t \in Threads : o \in op[t].pins})

\* The count of an entry is what guests, referenced pointers and calls in
\* progress hold on it, so it is open as long as one of them needs it; unless a
\* call has answered with a handle it failed to retain, or released one that it
\* did not hold (RetainHandle, ReleaseHandle).
HandlesCounted ==
  lost \/ \A h \in Slots :
    table[h].refs = owned[h] + leaked[h]
                  + Cardinality({o \in Objects : byPointer[o] = h})
                  + Cardinality({t \in Threads : op[t].got = h})

\* The handle a call is about to answer with, having retained it for the object
\* it pinned, is that object's: the slot read from handles_ without the lock may
\* have been given to another one before the lock was taken (RetainHandle).
RetainedIsOurs ==
  lost \/ \A t \in Threads :
    op[t].pc = "answer" /\ op[t].got # NoHandle => table[op[t].got].obj \in op[t].pins

\* A name leads to a live object of that name, never to a freed entry or to
\* whoever reused its slot (AddNameMapping, RemoveHandle).
NamesLeadHome ==
  lost \/ \A n \in Names : names[n] # NoHandle =>
    LET o == table[names[n]].obj IN o # NoObject /\ object[o].name = n
=============================================================================
