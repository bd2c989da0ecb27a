---------------------------- MODULE TableLifecycle ----------------------------
(***************************************************************************)
(* The lifecycle of tables in src/Lib/Runtime/Table.cpp: createTable       *)
(* (createTableImpl, the initial grow, the compartment id), cloneTable,    *)
(* ~Table, and isAddressOwnedByTable over the global `tables` list, with   *)
(* the guest's sets and grows racing them.                                 *)
(*                                                                         *)
(* A table object is a model value, chosen when the operation starts and  *)
(* reused after a delete as the allocator may; allocateVirtualPages returns one of    *)
(* the reservations in Regions that is not in use, or nullptr (NoRegion)   *)
(* when none is left.  Slots hold a reference or Zero, the word of a       *)
(* committed slot nothing has written (decoded as out-of-bounds); the bias *)
(* encoding and the steps inside growTableImpl and setTableElement are the *)
(* subject of Table.tla and are single steps here, taken under the locks   *)
(* the code takes.                                                         *)
(***************************************************************************)
EXTENDS Integers, Sequences, SequencesExt, FiniteSets

CONSTANTS
  Threads,        \* threads calling the Runtime API
  TableObjs,      \* Table objects that new can return
  Regions,        \* address ranges allocateVirtualPages can reserve
  NoRegion,       \* nullptr, returned when no range is left
  NoThread,       \* no holder of a resizing mutex
  NoTable,        \* no table found
  Refs,           \* references a slot can hold
  Zero,           \* the zero word of a slot never written
  InitTable,      \* the table that exists initially
  InitRegion,     \* its reservation
  InitElem,       \* the element createTable fills new tables with
  MinElems,       \* type.size.min of every table
  MaxElems,       \* type.size.max of every table
  GrowDeltas,     \* deltas of table.grow
  QuotaMax,       \* the resource quota's tableElems limit
  MaxOps          \* operations started per thread

ASSUME /\ InitTable \in TableObjs /\ InitRegion \in Regions /\ InitElem \in Refs
       /\ NoRegion \notin Regions /\ NoTable \notin TableObjs /\ Zero \notin Refs
       /\ MinElems <= MaxElems /\ MinElems <= QuotaMax

Indices == 0 .. MaxElems - 1

VARIABLES
  objs,           \* objs[t]: "unused" (not yet new-ed), "alive" or "deleted"
  region,         \* region[t]: table->elements, a reservation or NoRegion
  allocated,      \* the reservations the platform has handed out
  registry,       \* the global `tables` vector
  compartment,    \* the tables with a compartment id (id != UINTPTR_MAX)
  numElements,    \* numElements[t]: table->numElements
  slots,          \* slots[t][i]: element i of table t
  quotaUsed,      \* the resource quota's tableElems
  resizeOwner,    \* resizeOwner[t]: the thread holding t's resizingMutex
  pc,             \* pc[th]: the step thread th is at
  loc,            \* loc[th]: its locals
  ret,            \* ret[th]: the result of its last operation
  opsDone         \* operations started by each thread

vars == <<objs, region, allocated, registry, compartment, numElements, slots,
          quotaUsed, resizeOwner, pc, loc, ret, opsDone>>

NoLoc == [op |-> "none", t |-> NoTable, src |-> NoTable, n |-> 0, i |-> 0,
          seen |-> [i \in Indices |-> {}]]

\* A table the guest and the host can name: created, given an id, and not
\* dropped by its compartment (which destroys only unreferenced tables).
Reachable(t) ==
  /\ objs[t] = "alive"
  /\ t \in compartment
  /\ \A o \in Threads : pc[o] = "idle" \/ loc[o].op # "destroy" \/ loc[o].t # t

\* The memory new can return: never used, or freed by a delete, and not
\* already taken by an operation under way.
FreeObjs == {t \in TableObjs : objs[t] # "alive" /\ \A o \in Threads : loc[o].t # t \/ pc[o] = "idle"}

Begin(th) ==
  /\ pc[th] = "idle"
  /\ opsDone[th] < MaxOps
  /\ opsDone' = [opsDone EXCEPT ![th] = @ + 1]

\* Mutant: returning leaves the resizing mutexes held.
FinishKeepsLocks(th, result) ==
  /\ pc' = [pc EXCEPT ![th] = "idle"]
  /\ ret' = [ret EXCEPT ![th] = result]
  /\ UNCHANGED resizeOwner

\* Return from the operation; Lock<> destructors release every resizing
\* mutex the thread holds.
Finish(th, result) ==
  /\ pc' = [pc EXCEPT ![th] = "idle"]
  /\ ret' = [ret EXCEPT ![th] = result]
  /\ resizeOwner' = [t \in TableObjs |-> IF resizeOwner[t] = th THEN NoThread ELSE resizeOwner[t]]

-----------------------------------------------------------------------------
(* isAddressOwnedByTable (lines 280-297): the first table in the list     *)
(* whose reservation contains the address.                                 *)

Resolution(r) ==
  LET k == SelectInSeq(registry, LAMBDA t : region[t] = r)
  IN IF k = 0 THEN NoTable ELSE registry[k]

Resolve(th, r) ==
  /\ Begin(th)
  /\ Finish(th, [op |-> "resolve", ok |-> Resolution(r) # NoTable])
  /\ UNCHANGED <<objs, region, allocated, registry, compartment, numElements, slots,
                 quotaUsed, loc>>

-----------------------------------------------------------------------------
(* createTableImpl (lines 70-100).                                         *)

\* new Table, then allocateVirtualPages; numReservedBytes is set whether
\* or not the allocation succeeded.  On failure the table is deleted.
CreateImpl(th) ==
  LET t == loc[th].t IN
  /\ pc[th] = "createImpl"
  /\ objs' = [objs EXCEPT ![t] = "alive"]
  /\ numElements' = [numElements EXCEPT ![t] = 0]
  /\ slots' = [slots EXCEPT ![t] = [i \in Indices |-> Zero]]
  /\ IF Regions \ allocated = {}
       THEN /\ region' = [region EXCEPT ![t] = NoRegion]
            /\ pc' = [pc EXCEPT ![th] = "destroyUnregister"]
            /\ UNCHANGED allocated
       ELSE \E r \in Regions \ allocated :
              /\ region' = [region EXCEPT ![t] = r]
              /\ allocated' = allocated \cup {r}
              /\ pc' = [pc EXCEPT ![th] = "createRegister"]
  /\ UNCHANGED <<registry, compartment, quotaUsed, resizeOwner, loc, ret, opsDone>>

\* Lines 95-99: push_back under tablesMutex.
CreateRegister(th) ==
  /\ pc[th] = "createRegister"
  /\ registry' = Append(registry, loc[th].t)
  /\ pc' = [pc EXCEPT ![th] = IF loc[th].op = "create" THEN "createGrow" ELSE "cloneGrow"]
  /\ UNCHANGED <<objs, region, allocated, compartment, numElements, slots, quotaUsed,
                 resizeOwner, loc, ret, opsDone>>

-----------------------------------------------------------------------------
(* growTableImpl (lines 102-162) as one step under the resizing mutex.    *)
(* Committing a page may fail whenever the table grows.                    *)

\* Mutant: the quota is not consulted.
GrowAllowedNoQuota(t, delta) == numElements[t] + delta <= MaxElems

GrowAllowed(t, delta) ==
  /\ quotaUsed + delta <= QuotaMax
  /\ numElements[t] + delta <= MaxElems

\* The new slots hold fill, or stay Zero when they are not initialized.
GrowSucceeds(t, delta, fill) ==
  /\ delta = 0 \/ GrowAllowed(t, delta)
  /\ numElements' = [numElements EXCEPT ![t] = @ + delta]
  /\ slots' = [slots EXCEPT ![t] = [i \in Indices |->
                 IF numElements[t] <= i /\ i < numElements[t] + delta THEN fill ELSE @[i]]]
  /\ quotaUsed' = quotaUsed + delta

\* Refused by the quota or the limits, or the commit failed: the quota
\* charge is refunded and nothing changes.
GrowFails(t, delta) ==
  /\ delta > 0
  /\ UNCHANGED <<numElements, slots, quotaUsed>>

-----------------------------------------------------------------------------
(* createTable (lines 164-201).                                            *)

CreateBegin(th) ==
  /\ Begin(th)
  /\ pc' = [pc EXCEPT ![th] = "createImpl"]
  /\ \E t \in FreeObjs : loc' = [loc EXCEPT ![th] = [NoLoc EXCEPT !.op = "create", !.t = t]]
  /\ UNCHANGED <<objs, region, allocated, registry, compartment, numElements, slots,
                 quotaUsed, resizeOwner, ret>>

\* Lines 181-186: grow to the minimum, filling with the element (null
\* having become the uninitialized sentinel); on failure delete the table.
CreateGrow(th) ==
  LET t == loc[th].t IN
  /\ pc[th] = "createGrow"
  /\ \/ /\ GrowSucceeds(t, MinElems, InitElem)
        /\ pc' = [pc EXCEPT ![th] = "createAddToCompartment"]
     \/ /\ GrowFails(t, MinElems)
        /\ pc' = [pc EXCEPT ![th] = "destroyUnregister"]
  /\ UNCHANGED <<objs, region, allocated, registry, compartment, resizeOwner, loc, ret,
                 opsDone>>

\* Lines 188-199: compartment->tables.add, which fails when the
\* compartment's index space is full (here a free choice); on failure the
\* table, whose id is still UINTPTR_MAX, is deleted.
CreateAddToCompartment(th) ==
  LET t == loc[th].t IN
  /\ pc[th] = "createAddToCompartment"
  /\ \/ /\ compartment' = compartment \cup {t}
        /\ Finish(th, [op |-> "create", ok |-> TRUE])
     \/ /\ pc' = [pc EXCEPT ![th] = "destroyUnregister"]
        /\ UNCHANGED <<compartment, resizeOwner, ret>>
  /\ UNCHANGED <<objs, region, allocated, registry, numElements, slots, quotaUsed, loc,
                 opsDone>>

-----------------------------------------------------------------------------
(* cloneTable (lines 203-241).                                             *)

\* The clone holds the source's resizing mutex until its elements are
\* copied.  seen[i] (a ghost) collects every value the source's slot i
\* holds from this point on.
CloneBegin(th, s) ==
  /\ Begin(th)
  /\ Reachable(s)
  /\ resizeOwner[s] = NoThread
  /\ resizeOwner' = [resizeOwner EXCEPT ![s] = th]
  /\ pc' = [pc EXCEPT ![th] = "createImpl"]
  /\ \E t \in FreeObjs :
       loc' = [loc EXCEPT ![th] = [NoLoc EXCEPT !.op = "clone", !.t = t, !.src = s,
                                     !.n = numElements[s],
                                     !.seen = [i \in Indices |-> {slots[s][i]}]]]
  /\ UNCHANGED <<objs, region, allocated, registry, compartment, numElements, slots,
                 quotaUsed, ret>>

\* Lines 215-219: grow to the source's size without initializing.
CloneGrow(th) ==
  LET t == loc[th].t IN
  /\ pc[th] = "cloneGrow"
  /\ \/ /\ GrowSucceeds(t, loc[th].n, Zero)
        /\ pc' = [pc EXCEPT ![th] = "cloneCopy"]
     \/ /\ GrowFails(t, loc[th].n)
        /\ pc' = [pc EXCEPT ![th] = "destroyUnregister"]
  /\ UNCHANGED <<objs, region, allocated, registry, compartment, resizeOwner, loc, ret,
                 opsDone>>

\* Lines 221-227: one iteration of the copy loop, a load of the source
\* element and a store into the clone.
CloneCopy(th) ==
  LET l == loc[th] IN
  /\ pc[th] = "cloneCopy"
  /\ l.i < l.n
  /\ slots' = [slots EXCEPT ![l.t][l.i] = slots[l.src][l.i]]
  /\ loc' = [loc EXCEPT ![th].i = @ + 1]
  /\ UNCHANGED <<objs, region, allocated, registry, compartment, numElements, quotaUsed,
                 resizeOwner, pc, ret, opsDone>>

\* Line 229: the loop is done and the resizing mutex is released.
CloneUnlock(th) ==
  LET l == loc[th] IN
  /\ pc[th] = "cloneCopy"
  /\ l.i >= l.n
  /\ resizeOwner' = [resizeOwner EXCEPT ![l.src] = NoThread]
  /\ pc' = [pc EXCEPT ![th] = "cloneInsert"]
  /\ ret' = [ret EXCEPT ![th] = [op |-> "cloning", ok |-> TRUE, srcSize |-> numElements[l.src],
                                   size |-> numElements[l.t], copied |-> slots[l.t],
                                   seen |-> l.seen]]
  /\ UNCHANGED <<objs, region, allocated, registry, compartment, numElements, slots,
                 quotaUsed, loc, opsDone>>

\* Lines 233-239: the clone takes the source's id in the new compartment.
CloneInsert(th) ==
  /\ pc[th] = "cloneInsert"
  /\ compartment' = compartment \cup {loc[th].t}
  /\ Finish(th, [ret[th] EXCEPT !.op = "clone"])
  /\ UNCHANGED <<objs, region, allocated, registry, numElements, slots, quotaUsed, loc,
                 opsDone>>

-----------------------------------------------------------------------------
(* ~Table (lines 243-278), run by the compartment that drops a table and   *)
(* by the failure paths of createTable and cloneTable.                     *)

\* The compartment drops a table no operation is using.  ~Table checks
\* none of this: that no thread holds the table or its resizing mutex is
\* the contract of its callers, which the guard states.
DestroyBegin(th, t) ==
  /\ Begin(th)
  /\ Reachable(t)
  /\ resizeOwner[t] = NoThread
  /\ \A o \in Threads : pc[o] = "idle" \/ t \notin {loc[o].t, loc[o].src}
  /\ pc' = [pc EXCEPT ![th] = "destroyUnregister"]
  /\ loc' = [loc EXCEPT ![th] = [NoLoc EXCEPT !.op = "destroy", !.t = t]]
  /\ UNCHANGED <<objs, region, allocated, registry, compartment, numElements, slots,
                 quotaUsed, resizeOwner, ret>>

\* Mutant: the erase loop never matches the table.
DestroyUnregisterNoErase(th) ==
  /\ pc[th] = "destroyUnregister"
  /\ compartment' = compartment \ {loc[th].t}
  /\ pc' = [pc EXCEPT ![th] = "destroyFree"]
  /\ UNCHANGED <<objs, region, allocated, registry, numElements, slots, quotaUsed,
                 resizeOwner, loc, ret, opsDone>>

\* Lines 245-267: leave the compartment (when the table has an id), then
\* erase the first occurrence from the global list under tablesMutex.
DestroyUnregister(th) ==
  /\ pc[th] = "destroyUnregister"
  /\ compartment' = compartment \ {loc[th].t}
  /\ registry' = RemoveFirst(registry, loc[th].t)
  /\ pc' = [pc EXCEPT ![th] = "destroyFree"]
  /\ UNCHANGED <<objs, region, allocated, numElements, slots, quotaUsed, resizeOwner,
                 loc, ret, opsDone>>

\* Mutant: the quota is not credited.
DestroyFreeNoQuota(th) ==
  LET t == loc[th].t IN
  /\ pc[th] = "destroyFree"
  /\ allocated' = allocated \ {region[t]}
  /\ objs' = [objs EXCEPT ![t] = "deleted"]
  /\ Finish(th, [op |-> loc[th].op, ok |-> loc[th].op = "destroy"])
  /\ UNCHANGED <<region, registry, compartment, numElements, slots, quotaUsed, loc, opsDone>>

\* Lines 269-278: free the reservation at table->elements (numReservedBytes
\* is never 0), credit the quota with numElements, and free the object.  A
\* failed createTable or cloneTable then returns nullptr.
DestroyFree(th) ==
  LET t == loc[th].t IN
  /\ pc[th] = "destroyFree"
  /\ allocated' = allocated \ {region[t]}
  /\ quotaUsed' = quotaUsed - numElements[t]
  /\ objs' = [objs EXCEPT ![t] = "deleted"]
  /\ Finish(th, [op |-> loc[th].op, ok |-> loc[th].op = "destroy"])
  /\ UNCHANGED <<region, registry, compartment, numElements, slots, loc, opsDone>>

-----------------------------------------------------------------------------
(* The guest's operations on a reachable table.                           *)

\* setTableElement (lines 362-375) on an index below the size, as one
\* atomic exchange; every clone of the table under way sees the value.
Set(th, t, i, v) ==
  /\ Begin(th)
  /\ Reachable(t)
  /\ i < numElements[t]
  /\ slots' = [slots EXCEPT ![t][i] = v]
  /\ loc' = [o \in Threads |->
               IF pc[o] # "idle" /\ loc[o].op = "clone" /\ loc[o].src = t
                 THEN [loc[o] EXCEPT !.seen[i] = @ \cup {v}] ELSE loc[o]]
  /\ Finish(th, [op |-> "set", ok |-> TRUE])
  /\ UNCHANGED <<objs, region, allocated, registry, compartment, numElements, quotaUsed>>

\* Mutant: the grow does not wait for the resizing mutex.
GrowTableNoLock(th, t, delta) ==
  /\ Begin(th)
  /\ Reachable(t)
  /\ \/ GrowSucceeds(t, delta, InitElem) \/ GrowFails(t, delta)
  /\ Finish(th, [op |-> "grow", ok |-> TRUE])
  /\ UNCHANGED <<objs, region, allocated, registry, compartment, loc>>

\* growTable (lines 394-400, 102-162): blocked while a clone holds the
\* resizing mutex.
GrowTable(th, t, delta) ==
  /\ Begin(th)
  /\ Reachable(t)
  /\ resizeOwner[t] = NoThread
  /\ \/ GrowSucceeds(t, delta, InitElem) \/ GrowFails(t, delta)
  /\ Finish(th, [op |-> "grow", ok |-> TRUE])
  /\ UNCHANGED <<objs, region, allocated, registry, compartment, loc>>

\* Every thread has returned from its last operation.
Terminated ==
  /\ \A th \in Threads : pc[th] = "idle" /\ opsDone[th] = MaxOps
  /\ UNCHANGED vars

-----------------------------------------------------------------------------
(* The specification.                                                      *)

\* The initial table, created and registered; no other object exists.
Init ==
  /\ objs = [t \in TableObjs |-> IF t = InitTable THEN "alive" ELSE "unused"]
  /\ region = [t \in TableObjs |-> IF t = InitTable THEN InitRegion ELSE NoRegion]
  /\ allocated = {InitRegion}
  /\ registry = <<InitTable>>
  /\ compartment = {InitTable}
  /\ numElements = [t \in TableObjs |-> IF t = InitTable THEN MinElems ELSE 0]
  /\ slots = [t \in TableObjs |-> [i \in Indices |->
                IF t = InitTable /\ i < MinElems THEN InitElem ELSE Zero]]
  /\ quotaUsed = MinElems
  /\ resizeOwner = [t \in TableObjs |-> NoThread]
  /\ pc = [th \in Threads |-> "idle"]
  /\ loc = [th \in Threads |-> NoLoc]
  /\ ret = [th \in Threads |-> [op |-> "none", ok |-> TRUE]]
  /\ opsDone = [th \in Threads |-> 0]

Start(th) ==
  \/ CreateBegin(th)
  \/ \E t \in TableObjs :
       \/ CloneBegin(th, t)
       \/ DestroyBegin(th, t)
       \/ \E i \in Indices, v \in Refs : Set(th, t, i, v)
       \/ \E d \in GrowDeltas : GrowTable(th, t, d)
  \/ \E r \in Regions : Resolve(th, r)

Continue(th) ==
  \/ CreateImpl(th) \/ CreateRegister(th) \/ CreateGrow(th) \/ CreateAddToCompartment(th)
  \/ CloneGrow(th) \/ CloneCopy(th) \/ CloneUnlock(th) \/ CloneInsert(th)
  \/ DestroyUnregister(th) \/ DestroyFree(th)

Next == (\E th \in Threads : Start(th) \/ Continue(th)) \/ Terminated

\* A thread inside an operation keeps running: none of the steps after
\* Start waits on another thread (the mutexes are taken at Start).
Spec == Init /\ [][Next]_vars /\ \A th \in Threads : WF_vars(Continue(th))

-----------------------------------------------------------------------------
(* Properties.                                                             *)

TypeOK ==
  /\ objs \in [TableObjs -> {"unused", "alive", "deleted"}]
  /\ region \in [TableObjs -> Regions \cup {NoRegion}]
  /\ allocated \subseteq Regions
  /\ registry \in Seq(TableObjs)
  /\ numElements \in [TableObjs -> 0 .. MaxElems]
  /\ slots \in [TableObjs -> [Indices -> Refs \cup {Zero}]]
  /\ quotaUsed \in 0 .. QuotaMax
  /\ resizeOwner \in [TableObjs -> Threads \cup {NoThread}]

\* Spec I5, I6 and section 4.5, about the order of ~Table's steps and the
\* failure paths of createTable and cloneTable: every table in the global
\* list is alive, appears once, owns a reservation the platform has not
\* taken back, and is what isAddressOwnedByTable answers for an address in
\* it, whatever tables are being created, cloned and destroyed meanwhile.
RegistryResolvesLiveTables ==
  /\ IsInjective(registry)
  /\ \A k \in 1 .. Len(registry) :
       LET t == registry[k] IN
       /\ objs[t] = "alive"
       /\ region[t] \in allocated
       /\ Resolution(region[t]) = t

\* The quota stays equal to the elements of the tables alive, across the
\* failure paths of createTable and cloneTable that delete a half-built
\* table and across ~Table.
QuotaMatchesLiveTables ==
  quotaUsed = SumFunctionOnSet(numElements, {t \in TableObjs : objs[t] = "alive"})

\* Spec section 4.4 and the note of section 7: cloneTable holds the source's
\* resizing mutex, so the clone has the source's size, and each element of
\* the clone is a value that source element held while the clone ran (a
\* concurrent set may make the clone a mix of older and newer values).
CloneCopiesSourceValues ==
  \A th \in Threads :
    ret[th].op \in {"cloning", "clone"} /\ ret[th].ok =>
      /\ ret[th].size = ret[th].srcSize
      /\ \A i \in 0 .. ret[th].size - 1 : ret[th].copied[i] \in ret[th].seen[i]

\* Spec section 3 ("on destruction the reservation is returned to the
\* OS"): ~Table frees only a reservation the table owns.
DestroyFreesOwnReservation ==
  \A th \in Threads : pc[th] = "destroyFree" => region[loc[th].t] \in allocated

\* cloneTable's resizingLock is released on every path: by unlock() after
\* the copy (line 229) and by the Lock<> destructor when createTableImpl or
\* the grow fails and the clone returns nullptr (lines 212-219).  Every
\* resizing mutex a clone takes is eventually released, so a grow or a
\* destroy of the source is not shut out forever.
ResizingMutexReleased ==
  \A t \in TableObjs : resizeOwner[t] # NoThread ~> resizeOwner[t] = NoThread

====
