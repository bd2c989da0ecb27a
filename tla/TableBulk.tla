------------------------------ MODULE TableBulk ------------------------------
(***************************************************************************)
(* The bulk table instructions of src/Lib/Runtime/Table.cpp on top of the  *)
(* Table model: table.copy, table.fill, table.init over the passive element *)
(* segments of one module instance, and elem.drop.  They run in the same   *)
(* threads as the slot operations and grows of Table.                      *)
(*                                                                         *)
(* Inside a bulk loop each element access is one step.  A checked write    *)
(* (setTableElementNonNull) is taken as one atomic step: its compare-      *)
(* exchange loop only retries when another write changed the slot, and a   *)
(* slot that is not out-of-bounds never becomes so again, so the loop      *)
(* raises or writes exactly as one atomic check-and-store would.           *)
(*                                                                         *)
(* A segment's element vector is shared (std::shared_ptr) by the module    *)
(* instance's elemSegments slot and by every table.init that copied the    *)
(* pointer; segHolders[s] is that set of owners, and the vector is freed   *)
(* when it becomes empty.                                                  *)
(***************************************************************************)
EXTENDS Table, Sequences

CONSTANTS
  Segments,       \* element segment indices of the module instance
  SegElems,       \* SegElems[s]: the segment's entries, a reference or NullRef
  ModuleInstance, \* the module instance, as an owner of segment vectors
  Offsets,        \* destination and source offsets passed to the instructions
  CopyCounts,     \* element counts passed to table.copy
  FillCounts,     \* element counts passed to table.fill
  InitCounts      \* element counts passed to table.init

ASSUME /\ \A s \in Segments : SegElems[s] \in Seq(Refs \cup {NullRef})
       /\ ModuleInstance \notin Threads

VARIABLE segHolders   \* segHolders[s]: the owners of segment s's vector

bulkVars == <<vars, segHolders>>

\* The table state and thread state a bulk step leaves alone besides elems.
TableRest == <<numElements, committed, quotaUsed, resizeOwner, opsDone>>

\* Mutant: the object is stored without the bias encoding.
WriteSlotUnbiased(t, idx, obj) ==
  /\ elems' = [elems EXCEPT ![t][idx] = obj]
  /\ held' = [held EXCEPT ![t][idx] = SetToBag({obj})]

\* A checked write of setTableElementNonNull as one step (see above).
WriteSlot(t, idx, obj) ==
  /\ elems' = [elems EXCEPT ![t][idx] = objectToBiasedTableElementValue(obj)]
  /\ held' = [held EXCEPT ![t][idx] = SetToBag({obj})]

DecodedSlot(t, idx) == biasedTableElementValueToObject(elems[t][idx])

-----------------------------------------------------------------------------
(* table.copy (Table.cpp 541-579).                                          *)

\* Mutant: the direction test reversed.
CopyDescendingSwapped(sourceOffset, destOffset) == sourceOffset > destOffset

\* Line 555: copying to higher indices runs in descending order.
CopyDescending(sourceOffset, destOffset) == sourceOffset < destOffset

\* The offset of iteration k from the start of the range (lines 559-576).
CopyStep(l) == IF l.desc THEN l.n - l.k - 1 ELSE l.k

\* The source range as the caller sees it when the copy starts (a ghost for
\* the memmove property): the object of each source slot, or the OOB
\* sentinel.
SourceSnapshot(st, sOff, n) ==
  [i \in 0 .. n - 1 |-> IF SlotIsOutOfBounds(st, sOff + i) THEN OOBElem
                        ELSE DecodedSlot(st, sOff + i)]

CopyBegin(th, dt, st, dOff, sOff, n) ==
  /\ Begin(th)
  /\ IF n = 0
       THEN /\ Finish(th, [op |-> "copy", ok |-> TRUE, result |-> <<>>, expected |-> <<>>])
            /\ UNCHANGED loc
       ELSE /\ pc' = [pc EXCEPT ![th] = "copyRead"]
            /\ loc' = [loc EXCEPT ![th] =
                 [t |-> dt, st |-> st, dOff |-> dOff, sOff |-> sOff, n |-> n, k |-> 0,
                  desc |-> CopyDescending(sOff, dOff), obj |-> NullRef,
                  snap |-> SourceSnapshot(st, sOff, n)]]
            /\ UNCHANGED ret
  /\ UNCHANGED <<slotVars, numElements, committed, quotaUsed, resizeOwner, segHolders>>

\* getTableElementNonNull on the source slot of iteration k.
CopyRead(th) ==
  LET l == loc[th]
      sIdx == l.sOff + CopyStep(l)
  IN /\ pc[th] = "copyRead"
     /\ IF SlotIsOutOfBounds(l.st, sIdx)
          THEN /\ Finish(th, [op |-> "copy", ok |-> FALSE])
               /\ UNCHANGED loc
          ELSE /\ pc' = [pc EXCEPT ![th] = "copyWrite"]
               /\ loc' = [loc EXCEPT ![th].obj = DecodedSlot(l.st, sIdx)]
               /\ UNCHANGED ret
     /\ UNCHANGED <<slotVars, TableRest, segHolders>>

\* setTableElementNonNull on the destination slot of iteration k.
CopyWrite(th) ==
  LET l == loc[th]
      dIdx == l.dOff + CopyStep(l)
      newElems == [elems EXCEPT ![l.t][dIdx] = objectToBiasedTableElementValue(l.obj)]
  IN /\ pc[th] = "copyWrite"
     /\ IF SlotIsOutOfBounds(l.t, dIdx)
          THEN /\ Finish(th, [op |-> "copy", ok |-> FALSE])
               /\ UNCHANGED <<slotVars, loc>>
          ELSE /\ WriteSlot(l.t, dIdx, l.obj)
               /\ IF l.k + 1 = l.n
                    THEN /\ Finish(th, [op |-> "copy", ok |-> TRUE, expected |-> l.snap,
                                        result |-> [i \in 0 .. l.n - 1 |->
                                          biasedTableElementValueToObject(newElems[l.t][l.dOff + i])]])
                         /\ UNCHANGED loc
                    ELSE /\ pc' = [pc EXCEPT ![th] = "copyRead"]
                         /\ loc' = [loc EXCEPT ![th].k = @ + 1]
                         /\ UNCHANGED ret
     /\ UNCHANGED <<TableRest, segHolders>>

-----------------------------------------------------------------------------
(* table.fill (Table.cpp 581-599).                                          *)

\* Null is replaced by the uninitialized sentinel (line 593).
FillBegin(th, t, off, v, n) ==
  /\ Begin(th)
  /\ IF n = 0
       THEN /\ Finish(th, [op |-> "fill", ok |-> TRUE])
            /\ UNCHANGED loc
       ELSE /\ pc' = [pc EXCEPT ![th] = "fill"]
            /\ loc' = [loc EXCEPT ![th] = [t |-> t, dOff |-> off, n |-> n, k |-> 0,
                                 obj |-> IF v = NullRef THEN UninitElem ELSE v]]
            /\ UNCHANGED ret
  /\ UNCHANGED <<slotVars, numElements, committed, quotaUsed, resizeOwner, segHolders>>

\* One checked write of the loop at lines 596-597.
FillStep(th) ==
  LET l == loc[th]
      dIdx == l.dOff + l.k
  IN /\ pc[th] = "fill"
     /\ IF SlotIsOutOfBounds(l.t, dIdx)
          THEN /\ Finish(th, [op |-> "fill", ok |-> FALSE])
               /\ UNCHANGED <<slotVars, loc>>
          ELSE /\ WriteSlot(l.t, dIdx, l.obj)
               /\ IF l.k + 1 = l.n
                    THEN Finish(th, [op |-> "fill", ok |-> TRUE]) /\ UNCHANGED loc
                    ELSE /\ loc' = [loc EXCEPT ![th].k = @ + 1]
                         /\ UNCHANGED <<pc, ret>>
     /\ UNCHANGED <<TableRest, segHolders>>

-----------------------------------------------------------------------------
(* table.init and elem.drop (Table.cpp 404-435, 487-539).                   *)

\* Mutant: table.init keeps a plain pointer to the vector instead of a
\* copy of the shared_ptr.
InitBeginBorrowed(th, t, s, dOff, sOff, n) ==
  /\ Begin(th)
  /\ IF ModuleInstance \notin segHolders[s]
       THEN /\ Finish(th, [op |-> "init", err |-> "invalidArgument", written |-> 0])
            /\ UNCHANGED loc
       ELSE /\ pc' = [pc EXCEPT ![th] = "init"]
            /\ loc' = [loc EXCEPT ![th] = [t |-> t, seg |-> s, dOff |-> dOff,
                                 sOff |-> sOff, n |-> n, k |-> 0, written |-> 0]]
            /\ UNCHANGED ret
  /\ UNCHANGED <<slotVars, numElements, committed, quotaUsed, resizeOwner, segHolders>>

\* Lines 498-510: under the module's elemSegmentsMutex, a dropped segment
\* raises invalidArgument; otherwise the shared_ptr is copied and the mutex
\* released before the write loop.
InitBegin(th, t, s, dOff, sOff, n) ==
  /\ Begin(th)
  /\ IF ModuleInstance \notin segHolders[s]
       THEN /\ Finish(th, [op |-> "init", err |-> "invalidArgument", written |-> 0])
            /\ UNCHANGED <<loc, segHolders>>
       ELSE /\ segHolders' = [segHolders EXCEPT ![s] = @ \cup {th}]
            /\ pc' = [pc EXCEPT ![th] = "init"]
            /\ loc' = [loc EXCEPT ![th] = [t |-> t, seg |-> s, dOff |-> dOff,
                                 sOff |-> sOff, n |-> n, k |-> 0, written |-> 0]]
            /\ UNCHANGED ret
  /\ UNCHANGED <<slotVars, numElements, committed, quotaUsed, resizeOwner>>

\* Leaving table.init by return or by exception destroys its shared_ptr.
Release(th, s) == segHolders' = [segHolders EXCEPT ![s] = @ \ {th}]

\* Mutant: the exception path for a source index past the segment does not
\* release the vector.
InitSourceOutOfBoundsLeak(th) ==
  LET l == loc[th] IN
  /\ pc[th] = "init"
  /\ l.k < l.n
  /\ l.sOff + l.k >= Len(SegElems[l.seg])
  /\ Finish(th, [op |-> "init", err |-> "outOfBoundsElemSegmentAccess", written |-> l.written])
  /\ UNCHANGED <<slotVars, TableRest, loc, segHolders>>

\* Lines 416-420: a source index past the segment (or one that wrapped)
\* raises outOfBoundsElemSegmentAccess; the writes of earlier iterations
\* stay.
InitSourceOutOfBounds(th) ==
  LET l == loc[th] IN
  /\ pc[th] = "init"
  /\ l.k < l.n
  /\ l.sOff + l.k >= Len(SegElems[l.seg])
  /\ Release(th, l.seg)
  /\ Finish(th, [op |-> "init", err |-> "outOfBoundsElemSegmentAccess", written |-> l.written])
  /\ UNCHANGED <<slotVars, TableRest, loc>>

\* Lines 422-433: decode the entry (ref.null, or a function of the module
\* instance) and store it with setTableElement, null as the uninitialized
\* sentinel; an out-of-bounds destination raises.
InitWrite(th) ==
  LET l == loc[th]
      dIdx == l.dOff + l.k
      e == SegElems[l.seg][l.sOff + l.k + 1]
  IN /\ pc[th] = "init"
     /\ l.k < l.n
     /\ l.sOff + l.k < Len(SegElems[l.seg])
     /\ IF SlotIsOutOfBounds(l.t, dIdx)
          THEN /\ Release(th, l.seg)
               /\ Finish(th, [op |-> "init", err |-> "outOfBoundsTableAccess",
                              written |-> l.written])
               /\ UNCHANGED <<slotVars, loc>>
          ELSE /\ WriteSlot(l.t, dIdx, IF e = NullRef THEN UninitElem ELSE e)
               /\ loc' = [loc EXCEPT ![th].k = @ + 1, ![th].written = @ + 1]
               /\ UNCHANGED <<pc, ret, segHolders>>
     /\ UNCHANGED TableRest

\* The loop has run numElems times: return, releasing the vector.
InitDone(th) ==
  LET l == loc[th] IN
  /\ pc[th] = "init"
  /\ l.k >= l.n
  /\ Release(th, l.seg)
  /\ Finish(th, [op |-> "init", err |-> "none", written |-> l.written])
  /\ UNCHANGED <<slotVars, TableRest, loc>>

\* Lines 522-539: under elemSegmentsMutex, dropping a dropped segment
\* raises invalidArgument; otherwise the module's shared_ptr is reset.
ElemDrop(th, s) ==
  /\ Begin(th)
  /\ IF ModuleInstance \notin segHolders[s]
       THEN /\ Finish(th, [op |-> "drop", err |-> "invalidArgument"])
            /\ UNCHANGED segHolders
       ELSE /\ segHolders' = [segHolders EXCEPT ![s] = @ \ {ModuleInstance}]
            /\ Finish(th, [op |-> "drop", err |-> "none"])
  /\ UNCHANGED <<slotVars, numElements, committed, quotaUsed, resizeOwner, loc>>

-----------------------------------------------------------------------------
(* The specification.                                                      *)

\* The module instance holds every passive segment when it is instantiated.
BulkInit ==
  /\ Init
  /\ segHolders = [s \in Segments |-> {ModuleInstance}]

BulkContinue(th) ==
  \/ CopyRead(th) \/ CopyWrite(th) \/ FillStep(th)
  \/ InitSourceOutOfBounds(th) \/ InitWrite(th) \/ InitDone(th)

BulkStart(th) ==
  \E t \in Tables, dOff \in Offsets :
    \/ \E st \in Tables, sOff \in Offsets, n \in CopyCounts : CopyBegin(th, t, st, dOff, sOff, n)
    \/ \E v \in SetValues, n \in FillCounts : FillBegin(th, t, dOff, v, n)
    \/ \E s \in Segments, sOff \in Offsets, n \in InitCounts : InitBegin(th, t, s, dOff, sOff, n)
    \/ \E s \in Segments : ElemDrop(th, s)

BulkNext ==
  \/ \E th \in Threads :
       \/ (Start(th) \/ Continue(th)) /\ UNCHANGED segHolders
       \/ BulkStart(th)
       \/ BulkContinue(th)
  \/ Terminated /\ UNCHANGED segHolders

BulkFairness ==
  \A th \in Threads : WF_bulkVars((Continue(th) /\ UNCHANGED segHolders) \/ BulkContinue(th))

BulkSpec == BulkInit /\ [][BulkNext]_bulkVars /\ BulkFairness

-----------------------------------------------------------------------------
(* Properties.                                                             *)

BulkTypeOK ==
  /\ elems \in [Tables -> [0 .. ReservedElems - 1 -> Word]]
  /\ segHolders \in [Segments -> SUBSET (Threads \cup {ModuleInstance})]
  /\ pc \in [Threads -> {"idle", "growLock", "growCommit", "growInit", "setCAS",
                         "copyRead", "copyWrite", "fill", "init"}]
  /\ opsDone \in [Threads -> 0 .. MaxOps]

\* A table.init that is still writing reads a segment vector that has not
\* been freed, however an elem.drop of the same segment interleaves with it.
InitReadsLiveSegment ==
  \A th \in Threads : pc[th] = "init" => segHolders[loc[th].seg] # {}

\* A dropped segment's vector is eventually freed: every table.init that
\* copied it lets it go, on return and on every exception.
DroppedSegmentFreed ==
  \A s \in Segments : (ModuleInstance \notin segHolders[s]) ~> (segHolders[s] = {})

\* table.copy moves like memmove: when it returns without an exception, the
\* destination range holds what the source range held when it started,
\* even when the two ranges overlap in one table.
CopyIsMemmove ==
  \A th \in Threads : (ret[th].op = "copy" /\ ret[th].ok) => ret[th].result = ret[th].expected

\* Spec section 8, scenario 5: a table.init whose source range exceeds the
\* segment raises outOfBoundsElemSegmentAccess and modifies no slot.
InitOutOfRangeWritesNothing ==
  \A th \in Threads :
    (ret[th].op = "init" /\ ret[th].err = "outOfBoundsElemSegmentAccess") => ret[th].written = 0

====
