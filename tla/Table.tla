-------------------------------- MODULE Table --------------------------------
(***************************************************************************)
(* The runtime Table of src/Lib/Runtime/Table.cpp: the element store of    *)
(* biased references, its growth under the resizing mutex with the         *)
(* element quota and lazy page commit, and the slot operations get, set,   *)
(* size and the call_indirect failure path, run by concurrent threads.     *)
(*                                                                         *)
(* A slot holds a machine word: the address of the referenced object minus *)
(* the address of the out-of-bounds sentinel, modulo 2^UptrBits.  A zero   *)
(* word therefore decodes to the out-of-bounds sentinel.  Reading a slot   *)
(* on a page that was never committed faults; the fault is turned into an  *)
(* out-of-bounds exception (unwindSignalsAsExceptions, isAddressOwned...). *)
(*                                                                         *)
(* Each thread runs at most MaxOps operations; an operation of several     *)
(* steps keeps its locals in loc[th] and its program counter in pc[th].    *)
(***************************************************************************)
EXTENDS Integers, FiniteSets, Functions, Bags

CONSTANTS
  Tables,         \* the tables (model values)
  Threads,        \* guest and host threads (model values)
  Refs,           \* function references a slot can hold (model values)
  OOBElem,        \* getOutOfBoundsElement(): the out-of-bounds sentinel
  UninitElem,     \* getUninitializedElement(): the uninitialized sentinel
  NullRef,        \* the null Object* (address 0)
  NoThread,       \* owner of a free mutex
  Addr,           \* Addr[o]: the address of object o
  SigOf,          \* SigOf[o]: the encoded function type of function o
  UptrBits,       \* width of Uptr
  ReservedElems,  \* numReservedElements (2^32 in the code)
  MaxTableElems,  \* IR::maxTableElems
  TypeMin,        \* type.size.min: the size the table is created with
  TypeMax,        \* type.size.max
  ElemsPerPage,   \* platform page size / sizeof(Table::Element)
  QuotaMax,       \* the resource quota's tableElems limit
  GrowDeltas,     \* numElementsToGrow inputs
  GrowElems,      \* initializeToElement inputs of growTableImpl
  SetValues,      \* values passed to setTableElement (NullRef for null)
  Indices,        \* element indices passed by callers
  Sigs,           \* expected signatures passed to call_indirect
  MaxOps          \* operations per thread (bound of the model)

Objects == Refs \cup {OOBElem, UninitElem, NullRef}
Modulus == 2 ^ UptrBits
Word == 0 .. Modulus - 1

ASSUME /\ Objects \subseteq DOMAIN Addr /\ \A o \in Objects : Addr[o] \in Word
       /\ Addr[NullRef] = 0
       /\ \A a, b \in Objects : a # b => Addr[a] # Addr[b]
       /\ Objects \subseteq DOMAIN SigOf /\ SigOf[OOBElem] = 0 /\ SigOf[UninitElem] = 0
       /\ TypeMin <= TypeMax /\ TypeMin <= MaxTableElems
       /\ MaxTableElems < ReservedElems /\ ReservedElems < Modulus
       /\ GrowDeltas \subseteq Word /\ Indices \subseteq Word

VARIABLES
  elems,        \* elems[t][i]: the biased word of slot i (zero-filled pages)
  numElements,  \* numElements[t]: the published element count
  committed,    \* committed[t]: the set of committed page numbers
  quotaUsed,    \* resourceQuota->tableElems: elements charged
  resizeOwner,  \* resizeOwner[t]: holder of table->resizingMutex
  pc,           \* pc[th]: where thread th is in its current operation
  loc,          \* loc[th]: the locals of that operation
  ret,          \* ret[th]: the outcome of th's last operation
  opsDone,      \* opsDone[th]: operations th has started
  held          \* held[t][i]: ghost, the bag of references written into slot i
                \* and not yet displaced (handed back by a set, or overwritten)

\* The slot words together with their ghost.
slotVars == <<elems, held>>

\* Ghost update of a write of object o into slot i of t that hands back the
\* bag out of displaced references.
Displace(t, i, out, o) == held' = [held EXCEPT ![t][i] = (@ (-) out) (+) SetToBag({o})]

vars == <<elems, held, numElements, committed, quotaUsed, resizeOwner, pc, loc, ret, opsDone>>

-----------------------------------------------------------------------------
(* Sentinel and bias encoding (Table.cpp 39-68).                           *)

\* objectToBiasedTableElementValue: address minus the OOB sentinel's address.
objectToBiasedTableElementValue(o) == (Addr[o] - Addr[OOBElem]) % Modulus

\* biasedTableElementValueToObject: add the OOB sentinel's address back and
\* name the object at that address (a table of the stored words).
DecodedObject ==
  [w \in {objectToBiasedTableElementValue(o) : o \in Objects} |->
     CHOOSE o \in Objects : Addr[o] = (w + Addr[OOBElem]) % Modulus]

biasedTableElementValueToObject(w) == DecodedObject[w]

\* Mutant: the page count rounded down.
getNumPlatformPagesFloor(n) == n \div ElemsPerPage

\* getNumPlatformPages for a count of elements: pages, rounded up.
getNumPlatformPages(n) == (n + ElemsPerPage - 1) \div ElemsPerPage

PageOf(i) == i \div ElemsPerPage

\* The object an API call returns for a slot object: the uninitialized
\* sentinel is turned back into null.
ToApi(o) == IF o = UninitElem THEN NullRef ELSE o

-----------------------------------------------------------------------------
(* Helpers for the thread state machine.                                   *)

Finish(th, r) ==
  /\ pc' = [pc EXCEPT ![th] = "idle"]
  /\ ret' = [ret EXCEPT ![th] = r]

Begin(th) ==
  /\ pc[th] = "idle"
  /\ opsDone[th] < MaxOps
  /\ opsDone' = [opsDone EXCEPT ![th] = @ + 1]

-----------------------------------------------------------------------------
(* growTableImpl (Table.cpp 102-162).                                      *)

\* Mutant: only the implementation limit is checked, not the type's max.
GrowExceedsImplLimitsOnly(old, delta) ==
  \/ delta > MaxTableElems
  \/ old > (MaxTableElems - delta) % Modulus

\* Mutant: the limit checked on the sum, which wraps around in Uptr.
GrowExceedsLimitsWrapping(old, delta) ==
  \/ (old + delta) % Modulus > TypeMax
  \/ (old + delta) % Modulus > MaxTableElems

\* The limit check of lines 121-124, in Uptr arithmetic.
GrowExceedsLimits(old, delta) ==
  \/ delta > TypeMax
  \/ old > (TypeMax - delta) % Modulus
  \/ delta > MaxTableElems
  \/ old > (MaxTableElems - delta) % Modulus

\* Mutant: the quota is charged without checking its limit.
QuotaAllocateUnchecked(delta) == TRUE

\* The quota allocation of line 113 (ResourceQuota::allocate).
QuotaAllocate(delta) == quotaUsed + delta <= QuotaMax

\* Entry: delta zero reads the count with no lock (line 109); otherwise the
\* quota is charged before the mutex is taken (lines 113-114).
GrowBegin(th, t, delta, e) ==
  /\ Begin(th)
  /\ IF delta = 0
       THEN /\ Finish(th, [op |-> "grow", ok |-> TRUE, old |-> numElements[t]])
            /\ UNCHANGED <<quotaUsed, loc>>
     ELSE IF ~QuotaAllocate(delta)
       THEN /\ Finish(th, [op |-> "grow", ok |-> FALSE, old |-> 0])
            /\ UNCHANGED <<quotaUsed, loc>>
     ELSE /\ quotaUsed' = quotaUsed + delta
          /\ pc' = [pc EXCEPT ![th] = "growLock"]
          /\ loc' = [loc EXCEPT ![th] = [t |-> t, delta |-> delta, elem |-> e,
                                          old |-> 0, new |-> 0, next |-> 0]]
          /\ UNCHANGED ret
  /\ UNCHANGED <<slotVars, numElements, committed, resizeOwner>>

\* Lines 116-128: with the resizing mutex held, read the count; a grow past
\* the limits refunds the quota and returns false (the mutex is released on
\* return).
GrowReject(th) ==
  LET l == loc[th] IN
  /\ pc[th] = "growLock"
  /\ resizeOwner[l.t] = NoThread
  /\ GrowExceedsLimits(numElements[l.t], l.delta)
  /\ quotaUsed' = quotaUsed - l.delta
  /\ Finish(th, [op |-> "grow", ok |-> FALSE, old |-> 0])
  /\ UNCHANGED <<slotVars, numElements, committed, resizeOwner, loc, opsDone>>

\* Lines 116-131: otherwise keep the mutex and compute the new count.
GrowLock(th) ==
  LET l == loc[th]
      old == numElements[l.t]
  IN /\ pc[th] = "growLock"
     /\ resizeOwner[l.t] = NoThread
     /\ ~GrowExceedsLimits(old, l.delta)
     /\ resizeOwner' = [resizeOwner EXCEPT ![l.t] = th]
     /\ pc' = [pc EXCEPT ![th] = "growCommit"]
     /\ loc' = [loc EXCEPT ![th].old = old, ![th].new = (old + l.delta) % Modulus,
                            ![th].next = old]
     /\ UNCHANGED <<slotVars, numElements, committed, quotaUsed, ret, opsDone>>

\* Lines 132-139: commit the pages from the old page count up to the new one,
\* when the count of pages changes.
GrowCommit(th) ==
  LET l == loc[th]
      prevPages == getNumPlatformPages(l.old)
      newPages == getNumPlatformPages(l.new)
  IN /\ pc[th] = "growCommit"
     /\ committed' = [committed EXCEPT ![l.t] = @ \cup (prevPages .. newPages - 1)]
     /\ pc' = [pc EXCEPT ![th] = "growInit"]
     /\ UNCHANGED <<slotVars, numElements, quotaUsed, resizeOwner, loc, ret, opsDone>>

\* Mutant: a failed commit returns false without refunding the quota.
GrowCommitFailNoRefund(th) ==
  LET l == loc[th] IN
  /\ pc[th] = "growCommit"
  /\ getNumPlatformPages(l.new) # getNumPlatformPages(l.old)
  /\ resizeOwner' = [resizeOwner EXCEPT ![l.t] = NoThread]
  /\ Finish(th, [op |-> "grow", ok |-> FALSE, old |-> 0])
  /\ UNCHANGED <<slotVars, numElements, committed, quotaUsed, loc, opsDone>>

\* Lines 136-143: the platform refuses to commit the new pages; the quota
\* is refunded and the grow returns false.
GrowCommitFail(th) ==
  LET l == loc[th] IN
  /\ pc[th] = "growCommit"
  /\ getNumPlatformPages(l.new) # getNumPlatformPages(l.old)
  /\ quotaUsed' = quotaUsed - l.delta
  /\ resizeOwner' = [resizeOwner EXCEPT ![l.t] = NoThread]
  /\ Finish(th, [op |-> "grow", ok |-> FALSE, old |-> 0])
  /\ UNCHANGED <<slotVars, numElements, committed, loc, opsDone>>

\* Mutant: the initializing loop advances without storing.
GrowInitSkipStore(th) ==
  LET l == loc[th] IN
  /\ pc[th] = "growInit"
  /\ l.next < l.new
  /\ loc' = [loc EXCEPT ![th].next = @ + 1]
  /\ UNCHANGED <<slotVars, numElements, committed, quotaUsed, resizeOwner, pc, ret, opsDone>>

\* Lines 145-155: release-store the biased fill value into each new slot,
\* in ascending order.
GrowInit(th) ==
  LET l == loc[th] IN
  /\ pc[th] = "growInit"
  /\ l.next < l.new
  /\ elems' = [elems EXCEPT ![l.t][l.next] = objectToBiasedTableElementValue(l.elem)]
  /\ Displace(l.t, l.next, EmptyBag, l.elem)
  /\ loc' = [loc EXCEPT ![th].next = @ + 1]
  /\ UNCHANGED <<numElements, committed, quotaUsed, resizeOwner, pc, ret, opsDone>>

\* Mutant: the count is published whether or not the new slots are stored.
GrowPublishEarly(th) ==
  LET l == loc[th] IN
  /\ pc[th] = "growInit"
  /\ numElements' = [numElements EXCEPT ![l.t] = l.new]
  /\ resizeOwner' = [resizeOwner EXCEPT ![l.t] = NoThread]
  /\ Finish(th, [op |-> "grow", ok |-> TRUE, old |-> l.old])
  /\ UNCHANGED <<slotVars, committed, quotaUsed, loc, opsDone>>

\* Lines 157-161: release-store the new count last, then unlock and return
\* the old count.
GrowPublish(th) ==
  LET l == loc[th] IN
  /\ pc[th] = "growInit"
  /\ l.next >= l.new
  /\ numElements' = [numElements EXCEPT ![l.t] = l.new]
  /\ resizeOwner' = [resizeOwner EXCEPT ![l.t] = NoThread]
  /\ Finish(th, [op |-> "grow", ok |-> TRUE, old |-> l.old])
  /\ UNCHANGED <<slotVars, committed, quotaUsed, loc, opsDone>>

-----------------------------------------------------------------------------
(* setTableElement / setTableElementNonNull (Table.cpp 303-331, 362-377).   *)

\* Null is stored as the uninitialized sentinel; an index past the
\* reservation, or a load from an uncommitted page (a fault), raises an
\* out-of-bounds exception; otherwise the current word is loaded.
SetBegin(th, t, idx, v) ==
  LET obj == IF v = NullRef THEN UninitElem ELSE v IN
  /\ Begin(th)
  /\ IF idx >= ReservedElems \/ PageOf(idx) \notin committed[t]
       THEN /\ Finish(th, [op |-> "set", ok |-> FALSE, idx |-> idx])
            /\ UNCHANGED loc
       ELSE /\ pc' = [pc EXCEPT ![th] = "setCAS"]
            /\ loc' = [loc EXCEPT ![th] = [t |-> t, idx |-> idx, obj |-> obj,
                                            old |-> elems[t][idx]]]
            /\ UNCHANGED ret
  /\ UNCHANGED <<slotVars, numElements, committed, quotaUsed, resizeOwner>>

\* Mutant: a load followed by a plain store in place of compare-exchange.
SetStore(th) ==
  LET l == loc[th]
      cur == elems[l.t][l.idx]
      oldObj == biasedTableElementValueToObject(l.old)
  IN /\ pc[th] = "setCAS"
     /\ IF oldObj = OOBElem
          THEN /\ Finish(th, [op |-> "set", ok |-> FALSE, idx |-> l.idx])
               /\ UNCHANGED slotVars
          ELSE /\ elems' = [elems EXCEPT ![l.t][l.idx] = objectToBiasedTableElementValue(l.obj)]
               /\ Displace(l.t, l.idx, SetToBag({oldObj}), l.obj)
               /\ Finish(th, [op |-> "set", ok |-> TRUE, idx |-> l.idx,
                              prev |-> ToApi(oldObj)])
     /\ UNCHANGED <<numElements, committed, quotaUsed, resizeOwner, loc, opsDone>>

\* Mutant: a failed exchange retries with the stale expected word.
SetCASNoReload(th) ==
  LET l == loc[th]
      cur == elems[l.t][l.idx]
      oldObj == biasedTableElementValueToObject(l.old)
  IN /\ pc[th] = "setCAS"
     /\ CASE oldObj = OOBElem ->
               /\ Finish(th, [op |-> "set", ok |-> FALSE, idx |-> l.idx])
               /\ UNCHANGED slotVars
          [] cur = l.old ->
               /\ elems' = [elems EXCEPT ![l.t][l.idx] = objectToBiasedTableElementValue(l.obj)]
               /\ Displace(l.t, l.idx, SetToBag({oldObj}), l.obj)
               /\ Finish(th, [op |-> "set", ok |-> TRUE, idx |-> l.idx,
                              prev |-> ToApi(oldObj)])
          [] OTHER -> UNCHANGED <<slotVars, pc, ret>>
     /\ UNCHANGED <<numElements, committed, quotaUsed, resizeOwner, loc, opsDone>>

\* One turn of the compare_exchange loop (lines 321-328): an expected word
\* that decodes to the out-of-bounds sentinel raises; a matching word is
\* replaced and the old object returned; otherwise the loop retries with the
\* word the exchange observed.  (A spurious failure of compare_exchange_weak
\* reloads the same word, a step that changes nothing.)
SetCAS(th) ==
  LET l == loc[th]
      cur == elems[l.t][l.idx]
      oldObj == biasedTableElementValueToObject(l.old)
  IN /\ pc[th] = "setCAS"
     /\ CASE oldObj = OOBElem ->
               /\ Finish(th, [op |-> "set", ok |-> FALSE, idx |-> l.idx])
               /\ UNCHANGED <<slotVars, loc>>
          [] cur = l.old ->
               /\ elems' = [elems EXCEPT ![l.t][l.idx] = objectToBiasedTableElementValue(l.obj)]
               /\ Displace(l.t, l.idx, SetToBag({oldObj}), l.obj)
               /\ Finish(th, [op |-> "set", ok |-> TRUE, idx |-> l.idx,
                              prev |-> ToApi(oldObj)])
               /\ UNCHANGED loc
          [] OTHER ->
               /\ loc' = [loc EXCEPT ![th].old = cur]
               /\ UNCHANGED <<slotVars, pc, ret>>
     /\ UNCHANGED <<numElements, committed, quotaUsed, resizeOwner, opsDone>>

-----------------------------------------------------------------------------
(* getTableElement, table.size and callIndirectFail.                       *)

\* getTableElementNonNull (lines 333-360): an access to slot idx raises out-of-bounds: the index is past the
\* reservation, the slot's page is not committed (the load faults), or the
\* slot decodes to the out-of-bounds sentinel.
SlotIsOutOfBounds(t, idx) ==
  \/ idx >= ReservedElems
  \/ PageOf(idx) \notin committed[t]
  \/ biasedTableElementValueToObject(elems[t][idx]) = OOBElem

\* getTableElement (lines 379-387): the check above, then the sentinel
\* decode, the uninitialized sentinel returned as null.
Get(th, t, idx) ==
  LET oob == SlotIsOutOfBounds(t, idx) IN
  /\ Begin(th)
  /\ Finish(th, [op |-> "get", ok |-> ~oob, idx |-> idx, size |-> numElements[t],
                 val |-> IF oob THEN OOBElem
                         ELSE ToApi(biasedTableElementValueToObject(elems[t][idx]))])
  /\ UNCHANGED <<slotVars, numElements, committed, quotaUsed, resizeOwner, loc>>

\* Lines 389-392, 456-462: an acquire load of the count.
Size(th, t) ==
  /\ Begin(th)
  /\ Finish(th, [op |-> "size", val |-> numElements[t]])
  /\ UNCHANGED <<slotVars, numElements, committed, quotaUsed, resizeOwner, loc>>

\* The generated call_indirect loads the slot (no bounds check: guest
\* indices are 32-bit and the reservation holds 2^32 slots; an uncommitted
\* page faults into an out-of-bounds exception), decodes it and compares
\* the callee's type encoding with the expected one.  On a mismatch it calls
\* callIndirectFail (lines 601-634), which names the error from the callee.
callIndirectFail(callee) ==
  CASE callee = OOBElem    -> "outOfBoundsTableAccess"
    [] callee = UninitElem -> "uninitializedTableElement"
    [] OTHER               -> "indirectCallSignatureMismatch"

CallIndirect(th, t, idx, sig) ==
  LET callee == biasedTableElementValueToObject(elems[t][idx]) IN
  /\ Begin(th)
  /\ idx < ReservedElems
  /\ Finish(th, [op |-> "call", idx |-> idx, callee |-> callee,
                 outcome |-> IF PageOf(idx) \notin committed[t]
                               THEN "outOfBoundsTableAccess"
                             ELSE IF SigOf[callee] = sig THEN "called"
                             ELSE callIndirectFail(callee)])
  /\ UNCHANGED <<slotVars, numElements, committed, quotaUsed, resizeOwner, loc>>

-----------------------------------------------------------------------------
(* The specification.                                                      *)

\* createTable (lines 164-202) with an initial element that is a reference
\* or null (stored as the uninitialized sentinel), grown to the minimum.
Init ==
  /\ \E init \in [Tables -> Refs \cup {UninitElem}] :
       elems = [t \in Tables |-> [i \in 0 .. ReservedElems - 1 |->
                  IF i < TypeMin THEN objectToBiasedTableElementValue(init[t]) ELSE 0]]
       /\ held = [t \in Tables |-> [i \in 0 .. ReservedElems - 1 |->
                  IF i < TypeMin THEN SetToBag({init[t]}) ELSE EmptyBag]]
  /\ numElements = [t \in Tables |-> TypeMin]
  /\ committed = [t \in Tables |-> 0 .. getNumPlatformPages(TypeMin) - 1]
  /\ quotaUsed = Cardinality(Tables) * TypeMin
  /\ resizeOwner = [t \in Tables |-> NoThread]
  /\ pc = [th \in Threads |-> "idle"]
  /\ loc = [th \in Threads |-> [t |-> CHOOSE t \in Tables : TRUE]]
  /\ ret = [th \in Threads |-> [op |-> "none"]]
  /\ opsDone = [th \in Threads |-> 0]

\* Steps of an operation already under way.
Continue(th) ==
  \/ GrowReject(th) \/ GrowLock(th) \/ GrowCommit(th) \/ GrowCommitFail(th)
  \/ GrowInit(th) \/ GrowPublish(th)
  \/ SetCAS(th)

\* A thread starts an operation on a table with inputs from the small sets.
Start(th) ==
  \E t \in Tables :
    \/ \E d \in GrowDeltas, e \in GrowElems : GrowBegin(th, t, d, e)
    \/ \E i \in Indices, v \in SetValues : SetBegin(th, t, i, v)
    \/ \E i \in Indices : Get(th, t, i)
    \/ Size(th, t)
    \/ \E i \in Indices, s \in Sigs : CallIndirect(th, t, i, s)

\* Every thread has run its operations to the end.
Terminated ==
  /\ \A th \in Threads : pc[th] = "idle" /\ opsDone[th] = MaxOps
  /\ UNCHANGED vars

Next == (\E th \in Threads : Start(th) \/ Continue(th)) \/ Terminated

\* Native threads are scheduled by the OS: a thread in the middle of an
\* operation keeps being given steps.  Starting an operation is the
\* caller's choice and gets no fairness.
Fairness == \A th \in Threads : WF_vars(Continue(th))

Spec == Init /\ [][Next]_vars /\ Fairness

-----------------------------------------------------------------------------
(* Properties.                                                             *)

TypeOK ==
  /\ elems \in [Tables -> [0 .. ReservedElems - 1 -> Word]]
  /\ numElements \in [Tables -> Word]
  /\ committed \in [Tables -> SUBSET Nat]
  /\ quotaUsed \in 0 .. QuotaMax
  /\ resizeOwner \in [Tables -> Threads \cup {NoThread}]
  /\ pc \in [Threads -> {"idle", "growLock", "growCommit", "growInit", "setCAS"}]
  /\ opsDone \in [Threads -> 0 .. MaxOps]

\* I1: every slot below the published count decodes to a reference or to
\* the uninitialized sentinel, never to the out-of-bounds one.  The grow
\* path must have stored the fill value before it published the count.
ValidSlotsNotOutOfBounds ==
  \A t \in Tables : \A i \in 0 .. numElements[t] - 1 :
    biasedTableElementValueToObject(elems[t][i]) # OOBElem

\* I4: the committed pages cover every published slot and every slot the
\* grow path is about to store to, so neither a reader of a valid index
\* nor the initializing loop of growTableImpl ever touches an uncommitted
\* page.
CommittedCoversElements ==
  /\ \A t \in Tables : \A i \in 0 .. numElements[t] - 1 : PageOf(i) \in committed[t]
  /\ \A th \in Threads :
       pc[th] = "growInit" =>
         \A i \in loc[th].old .. loc[th].new - 1 : PageOf(i) \in committed[loc[th].t]

\* The element quota charges exactly the published elements of all tables
\* plus the deltas of the grows that have charged the quota (before the
\* mutex, line 113) and have neither published nor refunded yet: every
\* failure path of growTableImpl gives back what it took.
InFlightCharge(th) ==
  IF pc[th] \in {"growLock", "growCommit", "growInit"} THEN loc[th].delta ELSE 0

QuotaConserved ==
  quotaUsed = SumFunction(numElements) + SumFunction([th \in Threads |-> InFlightCharge(th)])

\* I3: the published count never exceeds the type's maximum nor the
\* implementation's maximum, whatever the delta a caller passed.
SizeWithinLimits ==
  \A t \in Tables : numElements[t] <= TypeMax /\ numElements[t] <= MaxTableElems

\* A table never shrinks: no grow, whatever its delta, lowers the count
\* (the limit check must reject a delta whose sum wraps around Uptr).
SizeMonotonic == [][\A t \in Tables : numElements'[t] >= numElements[t]]_numElements

\* Every reference stored in a slot is handed back at most once: the
\* references written into a slot and not yet displaced are exactly the one
\* it holds.  setTableElement's compare-exchange loop (lines 320-328) returns
\* the element its own write replaced, so two racing sets never both return
\* the same previous element while the other's write is lost.
SetOwnershipConserved ==
  \A t \in Tables, i \in 0 .. ReservedElems - 1 :
    held[t][i] = IF biasedTableElementValueToObject(elems[t][i]) = OOBElem
                   THEN EmptyBag
                   ELSE SetToBag({biasedTableElementValueToObject(elems[t][i])})

\* Every operation a thread has started (a grow waiting for the resizing
\* mutex, a set retrying its compare-exchange) eventually returns.
OperationsComplete == \A th \in Threads : pc[th] # "idle" ~> pc[th] = "idle"

\* Spec section 8: for every index at or above the size, get raises an
\* out-of-bounds exception.
GetBeyondSizeRaises ==
  \A th \in Threads : (ret[th].op = "get" /\ ret[th].ok) => ret[th].idx < ret[th].size

\* wavmAssert(object) in getTableElementNonNull (line 358) and section 9 of
\* the spec: a slot holds a reference or one of the two sentinels, never
\* the biased null pointer.
SlotsNeverNull ==
  \A t \in Tables : \A i \in 0 .. ReservedElems - 1 :
    biasedTableElementValueToObject(elems[t][i]) # NullRef

\* The grow of table t that is past its page commit, when there is one:
\* from there on it cannot fail, and it is linearized at that step.
PendingGrowers(t) == {th \in Threads : pc[th] = "growInit" /\ loc[th].t = t}

\* The size of t with a committed grow counted, and the element at 0-based
\* index i: a slot the pending grow has not stored yet holds its fill value.
AbstractSize(t) ==
  IF PendingGrowers(t) = {} THEN numElements[t]
  ELSE loc[CHOOSE th \in PendingGrowers(t) : TRUE].new

AbstractElem(t, i) ==
  IF \E th \in PendingGrowers(t) : i >= loc[th].next
    THEN loc[CHOOSE th \in PendingGrowers(t) : TRUE].elem
    ELSE biasedTableElementValueToObject(elems[t][i])

\* Table implements AbstractTable under the mapping that sees each table as
\* its elements below AbstractSize: the initializing stores of a grow are
\* stutters, and every completed compare-exchange is one element write.
TableContents == [t \in Tables |-> [i \in 1 .. AbstractSize(t) |-> AbstractElem(t, i - 1)]]

Abstract == INSTANCE AbstractTable
              WITH contents <- TableContents, Elems <- Refs \cup {UninitElem}, MaxSize <- TypeMax

\* Every behaviour of the table threads is one of AbstractTable: sizes only
\* grow, by uniform fills of at most type.max, and slots change one by one.
ImplementsAbstractTable == Abstract!Spec

====
