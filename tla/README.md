# TLA+ models of the WAVM table runtime, literal parser, bit set and hash map

This directory holds TLA+ models of four parts of `src/`, plus the TLC
configurations that check them:

* the table subsystem in `src/Lib/Runtime/Table.cpp`, the runtime object
  behind wasm `call_indirect`, `table.*` and `elem.*`, from the creation,
  cloning and destruction of tables down to one slot's compare-exchange,
  with an abstract table specification that the step-level model
  implements;
* the WAST integer and float literal parsers in
  `src/Lib/WASTParse/ParseNumbers.cpp`;
* `DenseStaticIntSet` in `src/Include/WAVM/Inline/DenseStaticIntSet.h`;
* `HashMap` in `src/Include/WAVM/Inline/Impl/HashMapImpl.h`, over an
  abstract bucket array for the `HashTable` it delegates to.

The other sources are listed below with why they are not modelled.

## The system

`Table.cpp` puts four concerns into one object:

* **Reservation.** Each table reserves 2^32 slots of address space when it
  is created (`createTableImpl`) and commits pages lazily as it grows.
  A slot on an uncommitted page reads as zero, or faults. A fault is turned
  into an out-of-bounds exception.
* **Bias encoding.** A slot holds `object - OUT_OF_BOUNDS`
  (`objectToBiasedTableElementValue`), so a zero word decodes to the
  out-of-bounds sentinel. Null is stored as a second sentinel,
  `UNINITIALIZED`, and turned back into null at the API.
* **Concurrency.** Many guest threads may use one table at once:
  * grows are serialized by `resizingMutex`, publish the new count with a
    release store, and charge a `ResourceQuota` before taking the mutex;
  * sets are a compare-exchange loop that raises if the expected word
    decodes to the out-of-bounds sentinel;
  * gets are an acquire load with no lock at all.
* **Element segments.** `table.init` reads a passive segment through a
  copy of the module instance's `shared_ptr`, taken under
  `elemSegmentsMutex`. `elem.drop` resets the instance's pointer, and the
  vector is freed when the last holder lets go.

The interactions that matter:

* grow against get, set and call_indirect on the slots being added;
* set against set on one slot;
* grow against grow for the quota and the mutex;
* `table.init` against `elem.drop` for the segment vector;
* copy within one table over overlapping ranges.

## Components

| Part | Source | Module | Status |
|---|---|---|---|
| Sentinels and bias encoding | Table.cpp 34-68 | `Table` | modelled |
| growTableImpl, set, get, size, callIndirectFail, createTable's initial grow | Table.cpp 102-202, 303-402, 437-485, 601-634 | `Table` | modelled |
| table.copy, table.fill, table.init, initElemSegment, elem.drop | Table.cpp 404-435, 487-599 | `TableBulk` | modelled |
| createTableImpl, createTable, cloneTable, ~Table, isAddressOwnedByTable (the global registry) | Table.cpp 70-301 | `TableLifecycle` | modelled |
| What a table promises (a sequence that grows by uniform fills) | spec sections 3, 4.4 | `AbstractTable` | abstract specification, implemented by `Table` |
| WAST integer and float literal parsing | ParseNumbers.cpp 34-383 | `ParseNumbers` | partly: David Gay's `strtod` (gdtoa, not in this repository) and `parseV128`'s lane loops are not modelled |
| DenseStaticIntSet | DenseStaticIntSet.h | `DenseStaticIntSet`, `IntSet` | modelled, except `getHash` and `operator<` |
| HashMap | Impl/HashMapImpl.h | `HashMap`, `FiniteMap` | modelled, except `operator bool`, `operator==` and `analyzeSpaceUsage` |
| LLVM module emission | EmitModule.cpp | none | not modelled: IR generation |
| Fatal errors | Errors.h | none | not modelled: printing and exit |

## Modules

### `Table.tla`: one or more tables, used by several threads

**State.** The variables correspond to the code as follows:

| Variable | Code |
|---|---|
| `elems[t][i]` | the biased word of slot `i`, over the whole reservation; zero on uncommitted pages |
| `numElements[t]` | `table->numElements` |
| `committed[t]` | the set of committed page numbers |
| `quotaUsed` | the quota's `tableElems` |
| `resizeOwner[t]` | the holder of `resizingMutex` |
| `held[t][i]` | a ghost with no counterpart in the code: the bag of references written into slot `i` and not yet displaced |

Each thread has a `pc`, locals `loc`, the result of its last operation
`ret`, and a count of operations started, `opsDone`, bounded by `MaxOps`.
Words are taken modulo `2^UptrBits`, so the bias encoding and the
`Uptr` limit check wrap as they do in the code.

Every write of a slot updates `held` with `Displace`. A set removes the
previous element it returns and adds its own. An initializing store of a
grow adds the fill value, and a bulk write (copy, fill, init) replaces the
bag, because those writes return nothing.

**Actions.** Each action is one step of a thread:

* **Grow:**
  * `GrowBegin` covers delta 0 and the quota charge;
  * then, under the mutex, either `GrowReject` (past the limits, with a
    refund) or `GrowLock`;
  * then `GrowCommit`, or `GrowCommitFail` (the platform refuses, with a
    refund);
  * then one `GrowInit` per new slot;
  * and last `GrowPublish`.
* **Set:** `SetBegin` (null becomes the uninitialized sentinel, then the
  bounds check and the load), then repeated `SetCAS` turns of the
  compare-exchange loop.
* **One-step operations:** `Get`, `Size` and `CallIndirect`. The JIT's load
  and type check are followed by `callIndirectFail` on a mismatch.

`Init` is `createTable`: a table grown to its minimum, filled with a
reference or the uninitialized sentinel.

**Refinement.** `AbstractTable.tla` is what a table promises: a sequence
of elements (references or the uninitialized sentinel) per table, never
longer than `type.max`, changed only by `GrowBy` (append some copies of one
fill element) and `WriteElem` (replace one element). `Table` instantiates
it with `contents <- TableContents`. That mapping linearizes a grow at
its page commit, the step after which it can no longer fail:

* `AbstractSize(t)` is the pending grow's new count while one is in
  `growInit`, and `numElements[t]` otherwise;
* `AbstractElem(t, i)` is the pending grow's fill value for a slot it has
  not stored yet, and the decoded word otherwise.

So the initializing stores and the publish are stutters, and a completed
compare-exchange is one `WriteElem`. Mapping the size to `numElements`
alone fails. A set may land on a slot the grow has stored but not
published, which is the `get_beyond_size` finding seen from the set's side.

### `TableLifecycle.tla`: creating, cloning and destroying tables

**State.** Table objects are model values. Each one is `"unused"`,
`"alive"` or `"deleted"`, and a deleted object can be handed out again by
`new`. The variables correspond to the code as follows:

| Variable | Code |
|---|---|
| `region[t]` | `table->elements`: a reservation from `Regions`, or `NoRegion` (nullptr) |
| `allocated` | the reservations the platform has handed out |
| `registry` | the global `tables` vector, in order |
| `compartment` | the tables with a compartment id |
| `numElements`, `slots`, `quotaUsed`, `resizeOwner` | as in `Table`, without the bias encoding |

The threads have `pc`, `loc`, `ret` and `opsDone`, as in `Table`.

**Actions.**

* **Create:** `CreateBegin`, then `CreateImpl` (reserve, or fail with
  `NoRegion`), `CreateRegister`, `CreateGrow` and
  `CreateAddToCompartment`.
* **Clone:** `CloneBegin` takes the source's resizing mutex. It is
  followed by the same implementation steps, then `CloneGrow`, one
  `CloneCopy` per slot, `CloneUnlock` and `CloneInsert`.
* **Destroy:** `DestroyBegin`, `DestroyUnregister` (leave the compartment,
  erase from `tables`) and `DestroyFree` (free the pages and the quota).
  A failed create or clone joins this path at `DestroyUnregister`.
  `DestroyBegin`'s guard (no thread is using the table or holds its
  mutex) is not checked by `~Table`: it is the contract of its callers.
* **Guest steps:** `Set` and `GrowTable`. The inside of these is
  `Table`'s subject, so each is one step here.
* **Lookup:** `Resolve` answers `isAddressOwnedByTable` for a region.

The guest and the host only use `Reachable` tables: alive, in the
compartment, and not being destroyed. This is the callers' contract,
because a compartment destroys only tables nothing references.

### `TableBulk.tla`: the bulk instructions

`TableBulk` extends `Table` with `segHolders[s]`, the owners of segment
`s`'s vector (the module instance and every `table.init` that copied the
pointer).

* **table.copy:** `CopyBegin`, then alternating `CopyRead` and
  `CopyWrite`, with the direction of line 555.
* **table.fill:** `FillBegin`, then `FillStep` per slot.
* **table.init:** `InitBegin` (under the segments mutex: a dropped
  segment raises, otherwise the pointer is copied). Then one `InitWrite`
  per entry, until `InitDone`, or until `InitSourceOutOfBounds` raises.
* **elem.drop:** `ElemDrop`.

A checked write inside a bulk loop is taken as one atomic step. The reason
is in the module header: a compare-exchange on a slot that is in bounds
behaves as an atomic check-and-store.

### `ParseNumbers.tla`: integer and float literals

The parsers are pure functions, so they are RECURSIVE operators:

* `parseDecimalLoop` and `parseHexLoop` are the digit loops of
  `parseDecimalUnsignedInt` and `parseHexUnsignedInt`, with the overflow
  test `result > U64(maxValue - digit) / 10` in U64 arithmetic. They
  return the accumulated value, the "too large" flag and whether an
  accumulation step wrapped (the `wavmAssert` after it).
* `tryParseInt` is the sign, the `maxValue` of line 246 (`-U64(minSigned)`
  for a negative literal, 0 for an unsigned type), the loop, the negation
  and the cast to the parsed type.
* `parseNaN` is the default quiet significand, the payload loop, the
  zero-payload check and the store of line 141.
* `parseInfinity` is the sign, the largest exponent and a zero significand.
* `parseFloatScan` is the loop of `parseFloat`: it walks from the token's
  first character while `isNumericChar` holds, copies the characters
  before the first underscore (`FirstUnderscoreCopy`) and appends every
  later non-underscore one. `parseFloat` returns the string handed to
  `strtof`/`strtod` and how far `nextChar` moved; `strtod` itself is not
  modelled, so its result is not either.
* `tryParseFloat` dispatches on the token type: int and float tokens to
  `parseFloat`, `nan` to `parseNaN`, `inf` to `parseInfinity`, and any
  other token is refused ("expected float literal").

The state is one token (`lit`), the type it is parsed as (`kind`) and the
result (`outcome`). `Init` chooses the token and type, `ParseInt` or
`ParseFloat` (`parseF32`/`parseF64`) computes the result, and `Parsed`
stutters. A float token's text starts at its sign and ends with the
character after the token (`)` or a space). The reference,
`LiteralValue`, is the number the characters denote, folded with
`FoldLeft` over the characters with the underscores removed.

**Widths.** U64 is 9 bits, U32 7, I16 6 and I8 5. The F32 and F64
significands are 4 and 6 bits. Every narrower type sits below U64 as in the
code, so the wrap of U64 arithmetic and of the casts happens at the same
places. An ASSUME keeps every bound a loop is given at least 15, the largest
digit, as it is at the real widths. The tokens (`MCParseNumbers`) are every
sign with decimal strings of up to three digits, hex strings over
`{0,1,7,8,15}`, an underscore between two digits, and NaN payloads of up to
two hex digits. These reach each type's bounds from both sides. Float
tokens are every body of up to four characters over `0`, `p` and `_`,
under every sign and before either ending character; the scan treats
every numeric character other than `_` alike, so four places give every
arrangement of leading, trailing, doubled and separated underscores.

### `IntSet.tla` and `DenseStaticIntSet.tla`: the bit set

* **`IntSet`** is what the header comment promises: a set of integers below
  `maxIndexPlusOne`, changed by add, remove, complement, union,
  intersection and symmetric difference.
* **`DenseStaticIntSet`**:
  * State: `elements`, the word array, with words of `IndicesPerElement`
    bits.
  * The mutating operations are actions. The logical operators assign
    their result back, as in `s = s | t`, with a right operand built by
    `add`.
  * `addRange` is a loop (`AddRangeBegin`, `AddRangeStep` and
    `AddRangeDone`) whose counter has the width of `Index` (`IndexBits`).
  * The queries (`contains`, `isEmpty`, `getSmallestMember`,
    `getSmallestNonMember`, `operator==`) are operators on the words.
  * `Members(elements)` maps the words to `IntSet`'s variable. The property
    `ImplementsIntSet` is `IntSet`'s specification under that mapping.

### `HashMap.tla` and `FiniteMap.tla`: the hash map

* **`FiniteMap`** is what `HashMap` promises: a finite map from keys to
  values, with the result each call returns in `ret`.
* **`HashMap`:**
  * **State.** `buckets[b]` is a `HashTableBucket<Pair>`:
    `hashAndOccupancy` (zero when empty), key and value. `ret` holds
    the last call's result. `pc`, `it` and `visited` are a range-for
    loop in progress.
  * **HashTable.** `HashTable` is not in this tree, so its calls are
    modelled by what `HashMap` relies on:
    * `Lookup`, for `getBucketForRead` and `getBucketForModify`, finds the
      bucket holding `hash | isOccupiedMask` and the key;
    * `BucketForAdd` returns the bucket matching its arguments, or else
      any empty bucket;
    * `TableRemove` empties the bucket `Lookup` finds.

    Robin Hood displacement and rehashing are left out. They move pairs
    without changing any, and every layout they produce is reached
    anyway by adds into chosen empty buckets and removes.
  * **Actions.** Each member that changes the map is one action:
    `getOrAdd`, `add`, `addOrFail`, `set`, `remove`, `removeOrFail` and
    `clear`. `Query` covers `contains`, `operator[]`, `get`, `getPair`
    and `size`. Calls whose `wavmAssert` requires a present or absent key
    are made only when that holds.
  * **Iteration.** A range-for is `IterBegin` (`begin()`), then one
    `IterStep` per `it != end()` (giving the body `*it`, then `++it`),
    then `IterEnd`.
  * **Initial states.** `Init` is either constructor: an empty table, or
    the pairs of an initializer list with distinct keys.
  * **Hashes.** Hashes are 2-bit words, and `isOccupiedMask` is the top
    bit. `MCHashMap` gives the keys the hashes 0, 2 and 1:
    * one key hashes to zero;
    * one already carries the occupancy bit and collides with the first
      key once the bit is or-ed in;
    * one differs only in the low bit.
  * **Refinement.** `Contents` maps the occupied buckets to `FiniteMap`'s
    variable.

### MC modules

`MCTable` and `MCTableBulk` give the constants:

* addresses for two references and the sentinels, with the references on
  both sides of the out-of-bounds sentinel so that biasing wraps;
* signatures;
* the fill values the callers of `growTableImpl` can pass;
* the segment contents.

## Runs

| Run | cfg | Checks | Result |
|---|---|---|---|
| table_core | MCTable.cfg | `TypeOK`, `ValidSlotsNotOutOfBounds`, `CommittedCoversElements`, `QuotaConserved`, `SetOwnershipConserved`, `SizeWithinLimits`, `SizeMonotonic`, `OperationsComplete`, `ImplementsAbstractTable` | pass |
| get_beyond_size | MCTableGetRace.cfg | `GetBeyondSizeRaises` | violation |
| host_grow_null | MCTableHostNull.cfg | `SlotsNeverNull` | violation |
| segments | MCTableBulkSeg.cfg | `InitReadsLiveSegment`, `DroppedSegmentFreed`, `BulkTypeOK` | pass |
| copy_fill | MCTableCopy.cfg | `CopyIsMemmove` | pass |
| init_out_of_range | MCTableInitRange.cfg | `InitOutOfRangeWritesNothing` | violation |
| int_literals | MCParseNumbers.cfg | `IntLiteralMatchesValue`, `NaNPayloadPreserved`, `FloatLiteralParsed` | pass |
| digit_loop_wrap | MCParseWrap.cfg | `DigitLoopNeverWraps` | violation |
| dense_set | MCDenseStaticIntSet.cfg | `QueriesMatchMembers`, `ImplementsIntSet` | pass |
| table_lifecycle | MCTableLifecycle.cfg | `TypeOK`, `RegistryResolvesLiveTables`, `QuotaMatchesLiveTables`, `CloneCopiesSourceValues`, `ResizingMutexReleased` | pass |
| alloc_fail_free | MCTableAllocFail.cfg | `DestroyFreesOwnReservation` | violation |
| hash_map | MCHashMap.cfg | `TypeOK`, `IterationVisitsEachPairOnce`, `ImplementsFiniteMap`, `IterationTerminates` | pass |

What the passing runs show:

* **table_core.** Two threads race grows against sets, gets, size and
  call_indirect. The grows include quota refusals, limit rejections and
  commit failures, and a delta of 15 that wraps the 4-bit `Uptr`.
  Throughout:
  * every slot below the size is in bounds;
  * every slot below the size is on a committed page;
  * the quota equals the sum of the sizes plus the deltas of grows under
    way;
  * every reference stored in a slot is handed back by at most one set:
    the references written into a slot and not yet displaced are exactly
    the one the slot holds. A load followed by a plain store breaks this
    when two sets race on one slot: both return the same previous
    element, and one of the written elements is lost without being
    returned;
  * the four-clause subtraction form of the limit check keeps the size
    within the table's maximum and the implementation's, and the size
    never shrinks;
  * every started operation returns, including a compare-exchange loop
    that keeps losing to another set;
  * the tables implement `AbstractTable`, under the mapping that
    linearizes a grow at its page commit.
* **table_lifecycle.** Two threads create, clone and destroy tables, and
  set and grow them, while lookups run. Up to three table objects share
  two reservations, so a create can fail to reserve. Throughout:
  * `tables` holds each live table once, each owning an allocated
    reservation, and a lookup of that reservation finds it;
  * the quota equals the sum of the sizes of the live tables, across
    failed creates and clones;
  * a clone that returns has its source's size, and each of its slots
    holds a value the source slot had at some moment while the clone
    copied it. This is not necessarily one snapshot: the resizing mutex
    does not exclude sets. Spec line 203 asks to keep that behaviour;
  * every resizing mutex a clone takes is eventually released, on the
    paths where `createTableImpl` or the clone's grow fails and
    `cloneTable` returns `nullptr` from inside its `Lock<>` as well as
    after the copy. The run has no symmetry set, because it checks a
    liveness property.
* **segments.** `table.init` races `elem.drop` and never reads a freed
  vector. After a drop, the vector is freed once every `table.init` holding
  it has returned or thrown.
* **int_literals.** Every literal that `tryParseInt` accepts yields its
  value in the parsed type. "Too large" is reported exactly when the
  magnitude exceeds the bound for its sign, with the bound returned
  instead. A NaN literal without a payload gets the quiet bit and no
  error. A payload is reported as an error exactly when it is zero or too
  large, and an accepted payload is the significand. `NaNPayloadPreserved`
  says nothing of the significand of a rejected payload. For `nan:0x0`,
  line 139 sets it to 1, but line 141 stores the parsed zero, so the
  discarded value is an infinity, not a NaN; the literal is rejected
  anyway. Every float literal of up to four characters, with underscores
  anywhere (leading, trailing, doubled, after the sign), reaches `strtod`
  as its characters without underscores, and `nextChar` ends at the end
  of the token; `inf` is an infinity of the token's sign, and other
  tokens are refused.
* **hash_map.** Every sequence of calls implements `FiniteMap`, in every
  bucket layout, including:
  * a key that hashes to zero;
  * two keys that share a stored `hashAndOccupancy`;
  * a map built by the initializer-list constructor.

  A range-for gives its body every pair exactly once, and it ends.
* **dense_set.** With a universe that fills its words (8 indices in words
  of 4 bits) and a 4-bit `Index`, every sequence of three operations
  implements `IntSet`, and every query answers for the members. The
  queries convert their results to `Index` as the code does, but in this
  instance no conversion wraps, and no word has padding bits. Three latent
  defects lie outside this instance, and no run keeps them:
  * with 6 indices in words of 4 bits, `operator~` sets the padding bits
    of the last word, so `~{}` differs from the same set built with `add`;
  * when `maxIndexPlusOne` is 2^bits of `Index`
    (`DenseStaticIntSet<U8,256>`), `addRange(x, 255)` passes its assert,
    and then its counter wraps and the loop never ends;
  * in the same shape, `getSmallestMember` and `getSmallestNonMember`
    return `(Index)maxIndexPlusOne`, which is 0, for "none".

  No instantiation of either shape is in this source tree.
* **copy_fill.** A copy that returns leaves the destination equal to the
  source range as it stood when the copy began. This holds for overlapping
  ranges in both directions. The run has one thread, because a concurrent
  set would legitimately change the source.

What the violation runs show:

* **get_beyond_size.** The grow stores the new slots before it publishes
  the count. A get past the size, racing it, therefore returns a value.
  Spec section 8 says such a get raises OutOfBoundsTableAccess.
* **host_grow_null.** `Runtime::growTable` passes a null `initialElement`
  straight through. Null is then stored in the table, which
  `getTableElementNonNull` asserts never happens. `createTable` and
  `table.grow` both substitute the sentinel.
* **init_out_of_range.** `table.init` writes the entries that are in range
  before it raises on the first source index past the segment. Spec
  scenario 5 says it modifies no slot.
* **digit_loop_wrap.** A negative literal of an unsigned type gets
  `maxValue` 0 (line 246). `U64(maxValue - digit)` at line 102 then
  wraps, so the overflow test stops guarding the accumulation, and the
  `wavmAssert` at line 109 fails. At 64 bits this is
  `-18446744073709551616` as a U64; the model shows it with `-512` at 9
  bits.
* **alloc_fail_free.** When `allocateVirtualPages` fails,
  `createTableImpl` has already set `numReservedBytes` (line 86). It then
  deletes the table, and `~Table` calls `freeVirtualPages` on the null
  `elements` (line 272). In the model, the initial table and one create
  hold the two reservations, so the next create, by either of the two
  threads, gets nullptr and reaches `DestroyFree` with no reservation of
  its own.

## Bounds and why they are enough

* **Limits.** The table's maximum of 3 lies below the implementation
  maximum of 4, so the two halves of the limit check differ. A quota of 17
  lets the delta of 15 reach the limit check, and two more grows exhaust
  it.
* **Literals and words.** See `ParseNumbers` above. For the bit set,
  `MaxOps` is 3, enough for a complement between two other operations.
* **Threads.** Two threads are enough for every race between two
  operations.
* **Operations per thread.** Two operations per thread give a set or get
  after the other thread's grow.
* **Pages.** Pages of two elements, with a type range of 1..3, make a grow
  cross a page boundary and leave a partial last page.
* **Reservation.** A reservation of 4 leaves an index (`4`) past it.
* **Words.** A 4-bit Uptr makes the wrap-around of the limit check
  reachable with a delta of 15.
* **Quota.** A quota of 4 is exhausted by two grows.
* **Copy.** Offsets `{0,1,2}` with count 2 give overlapping copies both
  ways and one that runs off the end.
* **Lifecycle.** Three table objects and two reservations, with the
  initial table holding one, let one create succeed and a second fail
  to reserve. Since deleted objects are reused, a destroy followed by a
  create reuses both the object and the range. `MinElems` 2, `MaxElems` 3
  and a quota of 5 let a grow succeed, and let a clone's grow fail on the
  quota. Two operations per thread give a clone racing a set, and a
  destroy racing a lookup.
* **Hash map.** Three keys in four buckets are a full table plus the one
  empty bucket an add needs. All bucket layouts of up to three pairs are
  reached. Two values let `set` and `getOrAdd` tell an overwrite from a
  kept value. The three hashes cover zero, the occupancy bit and a
  collision.
* **Segments.** A segment of two entries with source offsets `{0,1}` gives
  one init that fits and one that runs past it.

## Fairness

Weak fairness is assumed only on the continuation steps of an operation a
thread has started (`Continue`, `BulkContinue`). A running thread keeps
executing its own loop. The mutex is held only by a grow, which always
finishes. Starting new operations is not fair: a thread may stop calling
into the table at any time. `HashMap` has weak fairness on the range-for's steps, because the
thread that began the loop runs it. `TableLifecycle` has weak fairness on
each thread's `Continue`: once a create, clone or destroy has started, none
of its later steps waits on another thread, because the only mutex it
takes is taken at its start. Deadlock checking is on
everywhere, and the terminated state stutters.

## Not modelled, and why

* **Memory ordering beyond sequential consistency.** The code uses
  acquire/release pairs that make the publication of the count and slot
  stores visible in order, and the model assumes that order.
* **Compartment id allocation and `tableBases`.** `TableLifecycle` keeps
  only whether a table has an id. Which id it gets, and the
  `tableBases` entry, do not matter to any property.
* **Use of `isAddressOwnedByTable`'s answer.** The signal handlers that
  use it are not in this tree. The model checks the answer at the moment
  of the lookup.
* **Guest exceptions beyond their kind.** Exception payloads and logging
  are left out.
* **HashTable's moves and references held across calls.** Displacement
  and rehashing are not in this tree. A `Value&` kept from `getOrAdd`
  across a later add may dangle, but no caller in this tree holds one.
* **EmitModule.** `emitModule` is straight-line code that adds LLVM
  globals and functions to an `llvm::Module`: one external global per
  type, table, memory, global and exception type, named by
  `getExternalName` (not in this tree), and one function per import and
  definition. Nothing of the runtime changes there. The values of the
  globals are bound by the linker and the runtime, which are not in this
  tree either. Its only logic is index arithmetic: definition `d` is
  function `imports + d`, and the biased ids have 1 subtracted. A model
  would restate that arithmetic next to itself, with nothing on the other
  side to check it against. Its only tie to the tables is the reference
  bias, which the `Table` model takes as given.
* **`parseV128`.** It reads a shape token, then calls the scalar entry
  points once per lane. Those entry points are modelled; the lane loop
  adds only fixed lane counts, and a lane that fails throws
  `RecoverParseException` before anything is returned.
* **`strtof`/`strtod`.** They are David Gay's gdtoa, which is not in this
  tree. `parseFloat` is modelled up to the string it hands them, so the
  "float literal is too large" test on their result is not modelled.
* **Errors.** `fatalf` formats a message and ends the process.

## Open questions

1. **`table.grow`'s I32 result** (line 452). A table of more than
   INT32_MAX elements fails the `wavmAssert` in a debug build. Without
   assertions it returns a negative I32, whose bits are the old size read
   as unsigned. Reaching that needs sizes past 2^31 beside a 32-bit
   result, so it would need a separate, wider instance of `Table`.
2. **Lifecycle composed with `Table`.** This would run `Table`'s
   step-level grow and set inside the lifecycle. It is out of TLC's reach
   at the current bounds. The two models share the grow's guards and the
   quota, and each checks its own side.
3. **`ParseNumbers`.** The extra "too large" report for `-10` as an
   unsigned type is the same wrap as in `digit_loop_wrap`, on a literal
   that `tryParseInt` rejects anyway, so it gets no property of its own.
