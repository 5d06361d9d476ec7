# Verification of rpnx-core

rpnx-core is a C++17 library: containers, a thread pool, serialization,
addresses and sockets.  This directory holds TLA+ models of its components,
configurations for TLC, and theorems with TLAPS proofs.  `src/` below is the
root of the repository; `PROJECT.json` ties every definition to source lines.

## Inventory

Headers are under `src/public/headers/all/rpnx/`, sources under
`src/private/sources/`.  "Hard" is what tests hardly reach.

| Component | State | Operations | Hard | Correct when |
|---|---|---|---|---|
| `experimental::priority_dispatcher` | queue of jobs, map of threads, ids, five counters, one mutex, one condition variable | submit, cancel_all, cancel_all_quick, finish_all, set_service_thread_count, constructor, destructor; service threads | four predicates on one condition variable, selective notification, joins under the mutex, id recycling, threads that fail to start | each job runs at most once and is cleaned up exactly once; waits end, and only when they may; no thread outlives the object |
| `experimental::processor` | queue, flag, counter, one thread | submit, finish_all, stop | selective notification, stop with items queued, the thread starts before the members exist | items are processed once and in order; waits end |
| `experimental::monoque` | size, blocks, block list | emplace_back, pop_back, operator[], reserve, resize, shrink_to_fit, copy, swap | index arithmetic, growth of the block list, exceptions, giving memory back | it is a sequence, elements never move, no memory is lost or used after it was given back |
| `legacy::monoque` | size, fixed table of blocks | the same and assign, clear, move | index arithmetic done in two ways, widths, constructors that throw half way | the same, and calls that build aside are all or nothing |
| `legacy::avl_tree` | nodes with parent, child, order links and sizes | insert, erase, join, split, rotations | link surgery, the order in which it is done, assertions before and after | the trees are maps; order, counts and links agree; the assertions hold |
| `derivator` | value pointer, table of its type | emplace, assign, copy, move, swap, visit | the empty state, ownership | the table fits the value; each value is destroyed once |
| `serial_traits` | none (codecs), the stream between two sides | serialize and deserialize of integers, uintany, bools, strings, tuples, pairs, vectors, maps; sizes | boundaries of the variable-length code, bit packing, signed bytes, two readers for one format | what is read is what was written, and the reader stops where the next message starts |
| `experimental/network.hpp` | descriptors | open, close, bind, listen, accept, connect, send, move, extract, adopt | numbers that the kernel gives out again, failures between system calls, a bind in another thread | each descriptor has one owner and is closed once; a send delivers |
| `experimental::channel` | queue of pointers | submit, receive | receiving compiles for no ordinary type | – |
| `source_iterator` | position, line, column | ++ | mixed line ends | lines are counted once |
| asynchronous service (Windows) | completion port, threads | bind, unbind, run | unfinished: no operation is ever started | – |
| `experimental::thread_pool`, `experimental::avl_tree`, `conveyor`, asynchronous service (epoll, kqueue) | – | stubs or unfinished | – | – |
| environment, `meta.hpp`, `apply.hpp`, `util.hpp`, parsing, result | none | helpers | – | – |

Components meet in few places: `priority_dispatcher` uses the scoped actions of
`scoped_action.hpp` for its counters; the monoques use `bitwise.hpp` for their
indices; jobs of the dispatcher and functions of the processor call back into
the object that runs them by submitting more; sockets of one process share the
kernel's table of descriptors.

## Modules

| Component | Model | What it promises, without the mechanism | Properties, mapping | Proofs | Instance |
|---|---|---|---|---|---|
| dispatcher | `PriorityDispatcher` | `DispatcherContract` | `DispatcherProperties` | `DispatcherProofs` | `MCPriorityDispatcher` |
| processor | `Processor` | – | in `Processor` | `ProcessorProofs` | `Processor` |
| experimental monoque | `Monoque` | `SequenceContract` | `MonoqueProperties` | `MonoqueProofs`, `PowersOfTwo` | `MCMonoque` |
| legacy monoque | `LegacyMonoque` | `LegacySequences`, on top of `SequenceContract` | `LegacyProperties` | `LegacyProofs`, `PowersOfTwo` | `MCLegacyMonoque` |
| AVL tree | `AvlTree` | `KeyedStores` | `AvlTreeProperties` | `AvlProofs` | `MCAvlTree` |
| serialization | `SerialTraits` | `MessageQueue` | `SerialProperties` | – | `MCSerialTraits` |
| derivator | `Derivator` | `Variants` | `DerivatorProperties` | `DerivatorProofs` | `MCDerivator` |
| sockets | `Sockets` | `SocketValues` | `SocketProperties` | `SocketProofs` | `MCSockets` |

Every `...Properties` module names its abstract specification `Contract`, an
INSTANCE of it with a mapping, and checks `Contract!Spec` as a property.

### Priority dispatcher

Variables named `m_...` are the members of `priority_dispatcher_impl`.  A step
is what a thread does from taking `m_mtx` to releasing it or waiting, so most
critical sections are one action.  The mutex is a variable of its own (`mtx`)
only because three sections block or fail while holding it: joining stopped
threads and starting new ones in `set_service_thread_count`, and the joins of
the destructor.  `parked` is the set of threads that wait on `m_cond` and have
not been notified; `notify_all` empties it, and `SpuriousWakeup` may take anyone
out of it.  A thread that leaves `parked` evaluates its predicate again.

| Code | Actions |
|---|---|
| `submit`, from a client and from inside a job | `Submit`, `JobSubmit` |
| `cancel_all` and the first half of the destructor | `CallCancelAll`, `CallDestroy`, `CancelAll` |
| `finish_all` | `CallFinishAll`, `FinishAll` |
| `cancel_all_quick` | `CancelAllQuick` |
| `set_service_thread_count`, `join_stopped_threads`, `start_thread`, `alloc_thread_id` | `CallSetServiceThreadCount`, `JoinStopped`, `SetTarget`, `StartThread`, `StartThrows`, `IdsExhausted`, `Started` |
| `~priority_dispatcher_impl` | `Abort`, `AbortResumes`, `FinalJoin` |
| `service_thread` | `ServicePark`, `ServiceStop`, `ServiceTake`, `ExecReturns`, `RunCleanup`, `Relock`, `ThreadExit` |

The joinable threads, the reusable ids and the queue are sets: the code takes the
last of a deque where the model takes any, and which of several jobs with the
same priority comes first is up to `std::priority_queue`.

Clients keep the rules of the header: nothing is submitted and no conflicting
call is made while a `cancel_all`, a `finish_all` or the destructor is pending
(`Call`, `MaySubmit`).  A `Call...` step stands for the call having begun, before
it has the mutex, since those rules are about the whole call.  `runs`,
`cleanups`, `outcome` and `submitted` are history.

`DispatcherContract` has only the status of each job and the pending calls.  A
job goes from new to pending to active to completed, or from pending to
cancelled; only a pending job of the highest priority is started; a waiting call
returns only when nothing is pending or active.

### Processor

One step per critical section as above; the mutex is never held across steps.
`EarlyStart` is the thread being scheduled before the constructor has
constructed the mutex, the flag and the queue.  What it reads then is
undefined; the model has the outcomes that end it (a stop request is read) or
block it for ever (the mutex looks taken).  `client` says which call is pending.

### Experimental monoque

`obj[m]` is the record of the members of monoque `m` and `heap` the blocks.  Block
addresses matter, so `swap` exchanges records and copying allocates.  Which free
block the allocator returns does not matter; the model takes a fixed one.  The
copy constructor is one step per element.  `EmplaceBackFails` and `Reserve` stop
at each place where an allocation or a constructor can throw.  `fault` records
that the program has failed an assertion, has run out of memory, or has used or
released a block list that was released before; nothing happens after that.

### Legacy monoque

`obj[m]` is size and table, `heap` the slots of each block.  A call is one step:
monoques are used by one thread at a time.  A call that appends is described by
`Appending`, the set of states it can leave: complete, or stopped where an
element or an allocation threw, with or without the block that was to hold the
element.  Construction, copy and `assign` build a new monoque and swap, so they
change everything or nothing; `resize` and `assign_count` do not, and stop half
way.  The indices are computed as the code does, with `1 << k` as an `int` of
`IntBits` bits, so the largest block that can be asked for is seen, and
`deallocated` computes the size as the destructor does.

### AVL tree

A node is named by its key; `h` is the heap of all nodes with the roots.  A call is
one step that computes the tree it leaves with the operators that carry the
names of the source (`rebalance`, `rebalance_local`, `swap_positions`,
`replace_child`, `rotate_up`).  Asserts are compiled in: `is_valid` before and after
a call is part of it, and so is `is_sound` inside of `remove_node` (where the checks do not
follow from one before).  A failed assertion, a null pointer dereferenced, or a loop
without end, ends the program; `h.failed` says in which call, for
`FailsOnlyWhereKnown`.  Keys belong to one tree each and `join` is called in key order,
which it relies on without testing it.  Trees that `join` has emptied into another
still point to its nodes and are not used again (`given`); a tree is in one join
only (`JoinsOnce`).

The loops are functions on the number of steps: `Follow` is the descent of
`find_host_node`, `first_node` and `last_node`, `Climb` a step of `rebalance` to the
parent, `Level` and `Raise` the two loops of `rotate_up`, the first of which is also
that of `join`.  A descent takes no more steps than there are nodes (`Size`); a loop
that rotates and is not over after twice as many (`Rounds`) is taken for endless and
recorded in `fault`.

### Serialization

A message is a type and a value; the codecs are operators from values to bytes
and back.  `buffer` is what lies between a writer and a reader that takes one
message after another, with a generator or an iterator: the source has both and
they are not the same code.  `read_int` has the code's widening of each byte, with
`int` arithmetic where it is not cast.  A byte has `ByteBits` bits, so the
variable-length code has its boundaries at small numbers.

### Derivator

`obj[d]` is the pointer and the table (the index of the alternative; `NoTable` for
the null table), `heap` the values.  A call is one step.  In assignment the new
value is there before the old one is destroyed, as in the source.  `seen` is what
the last visitor was called with.

### Sockets

`m_socket[o]` is the number in each object, `kernel` the socket behind each number.
The kernel gives the lowest free number, so a number that was closed is soon
another socket: what makes a second owner dangerous.  The classes are kept apart
where their code differs: the UDP socket's and acceptor's `open` close first; the
asynchronous UDP socket has no destructor and does not initialise its number
(`Raw`); the connection can be moved, assigned, extracted and adopted.  A send is
a step per call of the kernel with a `ref` that keeps the number (`sending`), and
`net_bind_async` runs in a thread that reads the number later (`binding`).  The
POSIX branches are modelled as written; `ip6_tcp_endpoint() const noexcept` keeps
the header from compiling as it is.

## Runs

| Run | Question | Bounds |
|---|---|---|
| `dispatcher_safety` | counters, wake-ups, ownership of jobs, destruction; does the pool implement its contract? | 2 clients, 3 jobs with two priorities, 1 thread at first, two resizes to 0 or 2; threads may fail to start |
| `dispatcher_ids` | recycling and exhaustion of thread ids | 5 ids, 5 resizes to 0, 2 or 3, one client, one job |
| `dispatcher_liveness` | do jobs, calls and shrinking get done? | 2 clients, 2 jobs, 2 threads at first, two resizes to 1 or 2, fair |
| `processor` | order, wake-ups, stop; do items and calls get done? | 2 clients, 3 items, early start, fair |
| `monoque` | ownership of blocks, addresses, shrinking; is it a sequence? | 2 monoques, 3 blocks, 5 elements of two kinds, every operation, exceptions |
| `legacy_monoque` | ownership, indices; is it a sequence whatever throws? | 2 monoques, 4 blocks, up to 8 elements, exceptions |
| `avl_tree` | are links, counts and order kept; which assertions fail? are the trees maps? | a tree with keys 1 to 7, joined with 8 and 9; split of the first |
| `serial_stream` | is the stream a queue, do frames align? | 3-bit bytes, 15 messages, 3 in flight, both readers |
| `derivator` | ownership, table and value; is it a variant? | 3 derivators, `void` and two alternatives, 2 values, 4 addresses |
| `sockets` | ownership of descriptors, delivery, listening; is each a value? | a UDP socket, an acceptor, 2 connections, an asynchronous socket, 3 numbers, 1 port, messages of two pieces |
| `monoque_empty_shrink` | is an emplaced element readable? (violated) | shrink_to_fit on an empty monoque |
| `serial_length` | is a vector read back? (violated) | a vector of 5, a length of two groups |

Why these bounds are enough:

* Dispatcher.  With two threads one can execute while another waits or leaves;
  with three jobs, two can execute and one be queued; with two clients one call
  can overlap another of the same kind or a resize.  With one thread at first and
  two resizes to 0 or 2, the pool grows (where a thread may fail to start), shrinks,
  and does one after the other.  In `dispatcher_liveness` it starts with two: the
  first resize can lower the target, which no other call but the destructor does,
  and the second has a stopped thread to join.  Of the ids 0 to 4
  (`IdMax` = 5 stands for `size_t`'s maximum) three are never used again and two
  are above the recycling threshold; five resizes go through all of them.
  `IdMax` is odd, as the maximum is.
* Processor.  Three items: one processed, one in hand, one queued.
* Experimental monoque.  The list has 2 places and grows to 4 (`WordBits`, the bits
  of `size_t`), for 8 and 64: the fifth element needs the third block and with
  it the longer list.  `MaxSize` < 2^(WordBits-1) - 1 keeps sizes in the range
  where the guard of `shrink_to_fit` against overflow is true, as any real memory
  does.  With three blocks one monoque can grow its list while the other has
  none, or they share; running out is an allocation that throws.
* Legacy monoque.  `IntBits` = 4 for 32: 8 elements are where `1 << k` reaches the
  sign bit, as 2^31 is in the code.  `FewElements`: one element in all is told
  from the others, and as many in all as one monoque can have.
* AVL tree.  Seven keys make trees of height 4, every rotation and every case of
  erase (the successor as a child and deeper); the trees of one key are joined
  to sides of heights that differ by up to three.  `FewUnbalanced`: after a split
  that left a tree out of balance, only trees of at most five nodes go on. `FewOtherValues`:
  a key is mapped to its second value in trees of at most five nodes.  `Rounds` is 18
  for heights of at most 6: no call that ends takes as many steps, and the only loop
  that does is the one of `join` that never ends.
* Serialization.  3-bit bytes have 2-bit groups: a vector of 5 has a length of two
  groups (so has one of 4, which happens to read back right, as both of its groups are
  0), and uintany messages go to four.  64-bit integers come with the top bit of byte 3
  clear and set, signed and unsigned.  With 3 messages in flight a message
  has one before and one behind it.  Mid-byte boundaries of bool runs are in the
  tuples (4 and 2 bools, more than fit into a 3-bit byte).
* Derivator.  Three: one copied into another while a third could share.  Four
  addresses are one more than the values held, as assignment allocates first.
* Sockets.  Three numbers: an accept that replaces a connection has three open.
  `Few`: two between calls, one of them without an object.  A message of two
  pieces can be cut, and `MaxWire` = 2 lets one be sent.

Symmetry: values and names of the experimental monoque, names of the legacy one
and of the derivators, addresses and connections are interchangeable; the
actions treat them alike and none of their runs has a liveness property.  The
processor's and the dispatcher's runs use none.

Deadlock is not checked where the program really may stop: a thread of the
processor blocked on an unconstructed mutex, a failed assertion or a null
pointer in a tree or a derivator.

Every property has a mutant: a definition next to the one it alters (it comes
first, so `FinishWakesEarly` precedes `FinishWakes`) that is a bug the code could
have, and with which TLC finds the property violated.

## Fairness

`PriorityDispatcher!FairSpec`: weak fairness of every service thread and of
every client that is inside a call.  It says that the operating system
schedules runnable threads, that jobs and cleanups return, and that a thread
that keeps asking for the mutex gets it.  The last is why the number of
resizes is bounded: with endlessly many calls `std::mutex` guarantees nothing.
Nothing is assumed of clients making calls, nor of spurious wake-ups.
`JobServed`, `CallsReturn` and `PoolShrinks` are checked with counts of at least
one: with none, `finish_all` waits until a thread is started, by design.

`Processor!FairSpec`: the same for the one thread and the pending calls.

## What is proved

With TLAPS, for every value of the constants that the modules' assumptions allow.

**Dispatcher** (`DispatcherProofs`): all finite sets of jobs
and clients, all priorities, any processor count, any counts and number of
resizes, threads that may fail to start, any odd `IdMax`.  The inductive invariant
`IInv` is the conjunction of

* `TypeOK`;
* `ThreadsOwned`: the `std::thread` objects, the joinable list and the ids agree
  with the threads; needed to show that a new id is unused;
* `CountersExact`: each counter is the number of threads in the states it counts;
  it makes `m_tc_running = 0` mean that nobody serves, and keeps the decrements
  from underflowing;
* `CallsExclude`: which calls can be pending together, and who has the mutex; it
  excludes a submission while a client waits for an empty queue;
* `NoLostWakeup`: nobody is parked whose predicate holds;
* `JobOwnership`: each job is in one phase of its life;
* `Closed`: once the destructor's cancel has returned, the queue stays empty and
  nobody executes; once it joins, nobody serves.

Each conjunct has a lemma with one step per action.  `Invariance` puts them
together; `TypeCorrect`, `CountersCorrect`, `NoWakeupIsLost`, `JobsOwned`,
`ThreadObjectsOwned` and `DestructionIsFinal` follow.  `ImplementsContract` maps
every step to a step of the contract or a stutter, using `JobOwnership` to know
what status a job has and `CallsExclude` to know which calls are pending.
`TerminatesAsDocumented` shows `TerminateOnlyWhenIdsHeld` for `StartsMayFail =
FALSE`, as it does not hold otherwise (see Findings).  It adds `IdsKept`: an id
that is used again and was ever allocated is a thread's or free; so when no id is
left, the upper half of them are threads'.

**Processor** (`ProcessorProofs`): any number of items and clients.  The invariant is
`TypeOK`, `InOrder`, `NoLostWakeup`, `StopIsFinal` and `Inside`: before the
constructor has ended nobody is in a call or parked, while one client destroys
the processor the others are idle, and the thread is joined when it is gone.  `ItemsInOrder`, `NoWakeupIsLost`, `StoppedForGood` follow, and
`FinishMeansProcessed`, the action property that `finish_all` returns only when
everything submitted has been processed: `InOrder` says that what is queued or
in hand is what is missing, and the wait's predicate that nothing is.

**Experimental monoque** (`MonoqueProofs`): any number of monoques, values and
blocks, any width of `size_t`, any length of the first block list below it.  The
inductive invariant is

* `Stored`: the members are in order and the list has one of the two lengths that
  are ever allocated (`Members`); the places of all lists share out the memory: each
  block has the slots of its place, one place and one list, unless a copy that
  threw has lost it (`Memory`).  `Sized` bounds the sizes, so that indices do not
  wrap;
* `Constructed`: what can be read below the size is a value and not raw memory;
* `Lifetimes`: a monoque that is not there owns nothing, so constructing one loses
  no block;
* `Copies`: one that is being copied is a prefix of its source, and nothing else
  happens meanwhile; without it the last step of a copy would make a sequence that
  nobody asked for.

That two elements never share a slot, that the capacity is the sum of the blocks
and that the block of an index below it is there, is arithmetic with powers of
two: `index1` and `index2` take an index apart into its highest bit and the rest.
The provers know no law of 2^n, so `PowersOfTwo` derives what is needed (2^(n+1) =
2 * 2^n, monotonicity, every number between two of them) from the number of
subsets of a set, with least elements in place of induction.  `Ownership`,
`NoRawElements`, `ShrinksTight` and `ElementsStay` follow, and `Refinement` maps each
operation to one of `SequenceContract` or to none.  Of the model it is assumed that
memory is finite, that `Free`, `Raw`, `Null` and `Absent` are not what they are told
apart from, and that no monoque is called like a lifetime.

**Legacy monoque** (`LegacyProofs`): any number of monoques, any values and blocks, any
width of `int` above two bits, any counts, with and without exceptions.  The
inductive invariant `Inv` says of each monoque (`Own`)

* `Member`: its size is at most 2^(IntBits - 1), the pointers in use are the first
  ones, and the last element has one;
* `Fitting`: each block has the slots that the destructor will name;
* `Single`: no two pointers name one block;
* `AllConstructed`: each index below the size leads to a value, by the arithmetic of
  the code;

and of all of them that they hold disjoint blocks and that no other block is
allocated.  `Place` is what the arithmetic comes to: an index below 2^(IntBits - 1) is
found in the block of its highest bit, in a slot that the block has, and
`sizeat_pv`, with which it was asked for, agrees with the destructor; `RoomLeft`
shows that the element after those is never stored, because its block would be
larger than any memory.  What appending and popping do is shown for one monoque `s.o` in a
memory `s.h` where the others hold the blocks `R`: they leave `R` alone, so the
other monoques keep their elements (`OthersKept`), also while a new one is built
aside.  `Appended` says that appending has appended a first part of the elements,
wherever it threw; it takes least elements in place of an induction over the
calls.  `Ownership`, `Contiguity` and `Refinement` follow: every block has one owner
and the size that is given back with it, the blocks in use are the first, and
every call does to the elements what `LegacySequences` says.  Of the constants it is
assumed that `Null`, `Raw` and `Absent` are not blocks, values, or monoques and
sequences.

**Derivator** (`DerivatorProofs`): any objects, values and memory, any number of
alternatives with or without `void` among them.  The invariant is
`TypeOK`, `TableFitsValue` and `OneOwner`: without the last, destroying one
derivator could take the value from under another and its table would fit
nothing.  `Implementation` shows that every behaviour is one of `Variants`, and
`LossesKnown` that no step but copy assignment leaves a value behind that nobody
owns, and that a null table comes from the copy of an empty derivator.

**AVL tree** (`AvlProofs`): any trees, keys and values, as far as the assumptions of
`AvlTree` go: memory is finite (`FiniteMemory`), a key is inserted into one tree only
(`KeysApart`), a tree is in one join at most (`JoinsOnce`) and `join` is called in key
order (`JoinsInOrder`).  The inductive invariant `GroveStands` says that, until a call
fails, there are sets `K[t]` of keys such that

* `Trunks`: each usable tree is `Whole`: a binary tree of the keys `K[t]` in their
  order with links up and down that agree (`Tree`), threaded in that order
  (`Threads`), and each size is one more than those of the children (`Counted`);
* `Asunder` and `Owned`: the `K[t]` are disjoint, are all the nodes there are, and each
  has only keys that were inserted into its tree or into one that was joined to it
  (`From`), so that a key is never inserted while another tree has it;
* `Contents`: values are those of their keys, and a node that does not exist is a new one.

`Tree` names the keys `S[n]` below each node, so that nothing is said by recursion: the
subtrees are nested or apart, and a child heads the keys of its parent's subtree on
its side.  `SpinTree` shows that a rotation makes a tree of the same keys and
`SpinCounts` that it keeps the sizes right, whether or not a rotation was called for:
heights and balance play no part, so the invariant holds also after a `split` has left
a tree out of balance.  `HostOfHeld` and `HostOfAbsent` show where the descent for a
key ends, by sets of keys that get smaller in place of an induction over the height.
Then come the calls: a new leaf (`InsertNode`), taking a node off with the exchange of
`swap_positions` (`UnhangErases`), the third root over two trees (`JoinKeeps`), and the
rotations of `rotate_up` (`RotateUpRoots`).  The sizes are wrong for a while on the path
to the root, which `rebalance` makes right from below (`RebalanceSettlesTo`).
`Invariance` puts them together; `NodesAreHeld`, `NodesAreThreaded` and `HostsAreRooted`
follow, and `MapsAreKept` maps every call to one of `KeyedStores` or to none.  A call
that fails changes no node, and nothing happens after it.

**Sockets** (`SocketProofs`): any objects, numbers, ports and messages.  The invariant
is `TypeOK` and `OneOwner`, which is inductive: a number comes from the kernel
only while it is free, so nobody holds it; a move leaves the source without it;
what is extracted is nobody's until it is adopted.  For `SendsDeliver` it takes
`SendsUnderWay` as well: a send that has begun uses the number that its connection
still has, and what it has sent is the end of what went over that socket; closing,
moving and extracting during a send are excluded by the rules for callers, and
another socket's number is another one by `OneOwner`.  `SendsDeliver` is about messages
that are not empty: an empty one is sent by no call of the kernel and so returns
even without a connection.  `AcceptorsListen` and `LossesKnown` go through the steps
of the classes, and `Implementation` maps them to `SocketValues`.

Only model-checked:

* all of liveness and `ENABLED`, which the provers do not treat;
* that the assertions of the tree hold but where they are known to fail
  (`FailsOnlyWhereKnown`): `is_valid` and the real heights are recursive over the tree, and
  what they compute for every tree takes an induction whose hypothesis is an
  operator, which no installed prover can instantiate;
* serialization, for the same reason: its codecs are recursive operators over data.

## Findings

As runs that are violated:

* `monoque_empty_shrink`: `shrink_to_fit` on an empty monoque frees the block list
  and keeps pointing at it.
* `serial_length`: the generator that reads a uintany puts the groups in the
  opposite order, so a length of two groups or more is read as another.

Told by the model and kept in its properties or actions:

* Dispatcher: an id is lost when the constructor of `std::thread` throws, so
  `std::terminate` in `alloc_thread_id` can be reached with fewer threads than the
  comment there says (`priority_dispatcher.cpp:87`; `dispatcher_ids` with
  `StartsMayFail = TRUE` violates `TerminateOnlyWhenIdsHeld`).
* Experimental monoque: the two loops of `resize` are the wrong way round
  (`Resize`); a copy constructor that throws loses its blocks (`abandoned`).
* Legacy monoque: `shink_to_fit` frees allocator memory with `delete[]` (:506); the
  shift of an `int` limits it to 2^31 elements.
* AVL tree (`FailsOnlyWhereKnown`): erasing the only key dereferences null (:664);
  erasing a root whose right child is its successor exchanges the root twice
  (:457, :465) and fails an assertion (erase 2 of 2, 1, 3; at once, in
  `is_sound` at :695, when the successor has a child of its own, as in erase 5 of 5, 3,
  6, 2, 4, 7, 1); `join` of trees whose
  heights differ by three or more loops for ever (:866-869); `split` leaves the
  tree out of balance, so the next insert fails its assertion (:840), and leaves
  the other tree empty.
* Derivator (`LosesOnlyWhereKnown`): copy assignment leaks the old value; the copy of
  an empty derivator has a null table, which `index` dereferences (:280).
* Serialization (`IsQueue`, by `LosesUpperHalf`): a 64-bit integer whose byte 3 has its
  top bit set is read with all ones above that byte, as `*it++ << 24` is an `int`
  (the generator of `int64_t`, :461, and both iterators, :618 and :648); only the
  generator of `uint64_t` casts.  That contradicts the round trip of test4.cpp:97 as
  `serial_length` does; 4294967295 read through an iterator arrives as 2^64 - 1.
  Bytes read as signed `char` extend their sign into the value (:304;
  `SignedChars = TRUE` shows it); reading a string through an iterator calls
  `serialize` (:2020).
* Sockets: a refused `connect` looks like an established one (:884); `listen` ignores
  what `bind` returns (:770), hence "unless another socket has it" in
  `ListensWhereAsked`; the asynchronous socket leaks its descriptor and, before
  `open`, binds whatever number its memory held (`LosesOnlyWhereKnown`).

## Not modelled

* Dispatcher: a constructor that fails while it starts threads; cleanups that call
  the dispatcher with its mutex held, and jobs that wait for their own
  dispatcher, which deadlock at once and are the caller's mistake.
* Processor: `stop` called by two threads at a time.
* Experimental monoque: the move constructor, which does not compile, and iterator
  arithmetic (`operator-=` adds, :458).
* AVL tree: iteration and printing, which change nothing; a join with a tree that
  came out of a join, so that the keys a tree can have are those of three trees at most.
* Derivator: `visit` of a constant one does not compile; exceptions of the values.
* Serialization: the iterator codec of maps and pairs of fixed size in a map do not
  compile; reading a vector through an iterator returns nothing; type tags have
  no codec; writing a uintany of ten groups shifts by the width of the word.
* Sockets: datagrams and what is received (`net_receive` throws after it has taken
  the datagram), addresses and endpoints, copies of the asynchronous socket,
  the Windows branches, declarations without a definition.
* `channel`: `receive` builds its `T` from the pointer in the queue
  (`channel.hpp:48`), which compiles for no ordinary type.
* `thread_pool`, `conveyor`, the experimental tree and the asynchronous services are
  stubs or do not compile: nothing in them has behaviour yet.
* `source_iterator`, `bit_reverse`, environment, parsing and type-level helpers: pure
  functions or counters that nothing else uses.

What would come next: the heights of the tree, with which `FailsOnlyWhereKnown` could
be approached call by call once the recursive checks are stated of the keys below, as
`Tree` does it; `FramesAligned`, codec by codec; and datagrams with the buffers they
are received into.
