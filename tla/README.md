# A TLA+ verification of the OpenBumbleBee runtime

OpenBumbleBee is a fork of SPU, a device for secure multi-party computation.  A
compiler lowers a tensor program to the PPHLO dialect; every party interprets
the same PPHLO on secret-shared values; and each operation ends in kernels of a
multi-party protocol that exchange messages with the peers.  BumbleBee's own
protocol is Cheetah: two ranks, homomorphic multiplication for products and
oblivious transfer (OT) for everything that is not linear.

The modules here ask three questions of it.

* **Do the parties stay together?**  They never exchange a word about *what* they
  are doing.  A message is only bytes on a link; that it is read by the step it
  was meant for rests on both sides taking the same decisions in the same order,
  with their own threads, caches and buffers, and without comparing any of them.
  The modules of the runtime check this and prove it.
* **Do the protocols compute what the program says?**  A secret number is an
  arithmetic share of the whole ring or a boolean share of some width, as the
  last kernel left it, and the next one must take it as it is.  The modules of
  the protocols run programs of calls on real shares over a small ring, under
  six protocols, and compare every result with the plain one.
* **Is what a handle names really there?**  The Python driver places values on
  the nodes and collects what nobody names any more.  One module checks this
  with runs, answers and collections that fail.

Paths below are relative to `src/libspu/`, except that the Python layer is
`src/spu/utils/distributed_impl.py`.

## 1. Inventory

### Components, their state and what is hard

**Inter-op parallel executor** (`device/executor.cc`).  *State*: a symbol scope
(values by SSA name, under a shared mutex), a queue of tasks, worker threads, an
event (mutex and condition variable).  *Operations*: the main thread forks one
`SPUContext` per operation and queues a task, starts the workers, joins them,
looks the results up; a worker pops, waits until the task is ready, runs the
kernel, notifies.  *Hard*: results are added under one mutex and awaited under
another; side effects have no data dependency; every party has a schedule of
its own, yet the kernels of one operation must meet.  *Correct when*: no lookup
fails, effects keep their order, an operation talks to the same operation at the
peers, no wake-up is lost, and the block ends.

**SPUContext** (`core/context.cc`).  *State*: the link, the protocol object with
its states, the least number of cores of all ranks.  *Operations*: the
constructor, which runs an AllGather on the link, and `fork`, which spawns a
link and forks all states.  *Hard*: forks are ordered by the main thread only.
`Object::fork` forks every state, and the states of Cheetah and of SPDZ2k do not
implement `fork`, so inter-op parallelism is for the other protocols.

**Cheetah multiplication** (`mpc/cheetah/arith/cheetah_mul.cc`, the kernels in
`mpc/cheetah/arithmetic.cc`).  *State*: SEAL contexts, one per CRT prime, added
when a larger ring comes up; keys; modulus-switch helpers per ring; two links.
*Operations*: `LazyInitKeys`, `MulOLE`, `MulShare`.  *Hard*: a product is cut in
halves that two threads compute in opposite directions, sharing the contexts
without a lock; `SquareA` leaves the `std::async` policy open; sends block on a
throttle window; key exchange is two blocking calls at each rank.

**Beaver cache** (`mpc/cheetah/state.cc`).  *State*: ring, length and three
arrays.  *Operation*: `TakeCachedBeaver`, which refills by an OLE with the peer.
*Hard*: the ranks decide separately whether to refill, how much, and what to
drop; triples must correspond, and must not be used twice.

**OT correlation buffer** (`mpc/cheetah/ot/yacl/yacl_ote_adapter.cc`).  *State*:
a buffer of correlations, the position and the limit in it.  *Operations*:
`OneTimeSetup`, `rcot` with two ways to extend (`Bootstrap` into the buffer,
`BootstrapInplace` into the caller's array), and the OT calls around it.
*Hard*: the last correlations of an extension are the seeds of the next one;
positions are not checked; both ends must run dry at the same moment.

**OT byte streams** (`mpc/cheetah/ot/yacl/ferret.cc`).  *State*: a send and a
receive buffer.  *Operations*: the Send/Recv pairs, all of which get
correlations, flip choices and stream a payload.  *Hard*: buffer borders,
batches that span messages, and three kinds of messages on one link.

**OT dispatch** (`mpc/cheetah/tiled_dispatch.cc`, `CheetahOTState` in
`mpc/cheetah/state.h`, the constructor in `ot/basic_ot_prot.cc`).  *State*: up
to 48 lazily made OT instances, each with a link of its own.  *Operations*:
unary, binary and batched dispatch of a function over slices.  *Hard*: instances
are made by an interactive constructor, slices run on threads or are deferred,
the ranks may have different numbers of cores and inputs of different lengths.

**Protocol interface** (`mpc/api.cc`, `mpc/ab_api.cc`, `mpc/common/pv2k.cc`,
`mpc/utils/ring_ops.cc`).  *State*: none of its own; a value is its visibility
(public, private with an owner, secret) and its storage (arithmetic, or boolean
with a number of valid bits).  *Operations*: every function dispatches on the
visibility of its operands, on the kernels the protocol registers and on the
storage, converting where it must; circuits over boolean shares add, compare and
take carries.  *Hard*: which kernel runs depends on what the calls before it
left; widths that are odd at some level of a circuit; results that are wider or
narrower than what they stand for.

**Communicator and PrgState** (`mpc/common/`).  *State*: at each rank a public,
a private and a pair of shared random streams, each a seed and a counter.
*Operations*: the collective exchanges; draws from the streams, of which a rank
may want one of a pair, both, or neither; `fork`.  *Hard*: ranks agree on common
random numbers by position only; a rank with no use for one must count it.

**ABY3** (`mpc/aby3/`), three ranks with replicated shares.  *Hard*: every part
is held twice and updated at both places; conversions and multiplications with a
bit go through a three-party oblivious transfer whose roles read different
streams.

**Semi2k** (`mpc/semi2k/`), any number of ranks with additive shares, and its
Beaver providers: one rank deals (`beaver_tfp.cc`) or a server does
(`beaver_ttp.cc`).  *Hard*: the dealer replays every rank's stream and adjusts
one rank's share, so all must draw alike; widths after shifts.

**Cheetah, elementwise** (`mpc/cheetah/arithmetic.cc`, `boolean.cc`,
`conversion.cc`, `nonlinear/`, `ot/basic_ot_prot.cc`): comparison over a tree of
digits, equality, truncation, and conversions, all from OTs.  *Hard*: digits and
widths that are not full; the truncation that may be off by one, and by no more.

**SecureNN** (`mpc/securenn/`), two ranks and a third that deals.  *Hard*:
arithmetic modulo `2^k`, modulo `2^k - 1` in words of `k` bits, and modulo a
prime, within one comparison; threads inside kernels.

**SPDZ2k** (`mpc/spdz2k/`), here two ranks.  *State*: each rank's part of a MAC
key, and the dealer's stream.  A share is a number in a ring of twice the width
together with its MAC, its product with the key; a boolean share is one such pair
for every bit.  *Hard*: the MAC follows the number through every kernel by an
arithmetic of its own (a public operand enters the number at rank 0 and the MAC
everywhere); inputs come without a MAC; shares of no bits.

**Reference protocol** (`mpc/ref2k/`) computes in plain.  It is what the calls
mean.

**HAL** (`kernel/hal/ring.cc`, `prot_wrapper.cc`, and above them).  *State*:
none.  *Operations*: the ring functions on values of any visibility, each by
calls of the protocol interface, with derived ones (`_mux`, `_clamp`, `_sign`,
`_popcount`, `_prefix_or`, `_equal`) built from others.

**HAL, tables** (`kernel/hal/permute.cc`, `kernel/hlo/shuffle.cc`).  *State*:
none.  *Operations*: sorting by one or several keys, top-k and shuffling of
columns; by a radix sort where the protocol has kernels for secret permutations
(aby3 and semi2k), by a sorting network or a quick select with opened
comparisons where not, and in plain where keys are known.  *Hard*: a permutation
and its inverse look alike, and every kernel applies one of them; columns of
several visibilities and owners; keys that tie.

**Python distribution layer** (`distributed_impl.py`).  *State*: at the driver
the device objects the user holds, a count of handles for each reference and the
dead references; at each node the objects by reference.  *Operations*: calls of
PYU and SPU functions, which move their arguments between devices by calling
functions in turn; finalisers; a collection every 50 dead references; `get`.
*Hard*: handles of temporaries end in the middle of calls; runs fail at some of
the nodes; an answer may be lost although the run happened; so may a collection.

**Not modelled**: matrix products and convolution of all protocols, the
rest of HAL above the ring functions (fixed point) and of HLO, the
compiler and its passes, core data structures, the EMP back end, and what is
above the runtime.  PROJECT.json gives a reason for each; section 8 says what
would come next.

### How the components interact

The driver sends a compiled program and the references of its arguments to every
node of an SPU device; each runs it in a runtime of its own, and the runtimes of
the nodes are the ranks.  A PPHLO program runs through `runRegion`; with
inter-op parallelism each operation of a block gets a forked context and thereby
a link and states of its own, PRG state included.  An operation ends in calls of
`hal`, these in functions of `api.cc`, and these in kernels of the protocol,
which exchange messages by the `Communicator` or draw common numbers from
`PrgState` instead.

Kernels of Cheetah take their `CheetahMulState` and `CheetahOTState` from
the context.  A product of up to two ciphertexts' length takes Beaver triples,
which come from `MulOLE`; a longer one calls `MulShare` twice.  A comparison,
truncation or conversion goes through the dispatcher to a slice function, which
calls the basic OT protocols of its instance, these the Send/Recv operations of
`YaclFerretOt`, and these the correlation buffer.  OT extensions, flips and
payloads go over the link of the instance, ciphertexts over the main link and
its duplicate.  yacl's links deliver the messages of a direction in order; tags
are for logging, and `Recv` does not compare them.

## 2. Modules

| module | models | composes or uses |
|---|---|---|
| `DataflowBlock` | abstract: a block evaluated as a dataflow graph by all parties | |
| `BlockParallelRunner` | `OpExecTask`, `BlockParallelRunner`, `SymbolScope`, `SPUContext::fork` | refines `DataflowBlock` |
| `CheetahMul` | `CheetahMul::Impl` and the kernels that drive it | |
| `BeaverCache` | `CheetahMulState` | takes `MulOLE` as one meeting of the ranks |
| `OTBuffer` | one `YaclFerretOTeAdapter` | |
| `OTPair` | sender and receiver adapters on a link | two instances of `OTBuffer` |
| `FerretIO` | `BufferedIO` and the Send/Recv operations | takes extension as a message each way |
| `OTDispatch` | dispatcher and OT instances | takes an OT protocol as a message each way |
| `Ring2k` | `ring_ops.cc`, bit interleaving, masks: numbers of `K` bits | |
| `Values` | visibility and storage of a value | `Ring2k` |
| `Parties` | `Communicator`, `PrgState`, the tree order of `vreduce` | `Values` |
| `Api` | `api.cc`, `ab_api.cc`, `pv2k.cc`; a protocol's kernels are parameters | `Parties` |
| `Circuits` | the adders and carry circuits of `ab_api.cc`; and, xor and shift are parameters | |
| `HalRing` | `hal/ring.cc`, `prot_wrapper.cc`, type casts | `Api` |
| `PermUtils` | `mpc/utils/permute.cc` and the permutation kernels of `pv2k.cc` | `Parties` |
| `HalPermute` | `hal/permute.cc`, `hlo/shuffle.cc`: tables of columns | `HalRing`, `PermUtils` |
| `Aby3` | the kernels of aby3, its OT and its secret permutations | `PermUtils`, instantiates `HalRing`, `HalPermute`, `Circuits` |
| `Additive` | the linear kernels that semi2k, cheetah and securenn have alike | `Parties` |
| `Semi2k` | its other kernels and secret permutations, with both Beaver providers | `Additive`, `PermUtils`, `HalRing`, `HalPermute`, `Circuits` |
| `Cheetah` | OT protocols, comparison, equality, truncation, the kernels over them | `Additive`, `HalRing`, `HalPermute`, `Circuits` |
| `SecureNN` | its kernels, with the comparison modulo a prime | the same |
| `Spdz2k` | its kernels, with MACs, the dealer and checked openings | `Parties`, `HalRing`, `HalPermute`, `Circuits` |
| `Configurations` | the six protocols side by side, each with its number of ranks | instantiates the protocols |
| `Protocols` | programs of `hal` calls on numbers and on tables, and what they mean in plain | takes a protocol as a constant operator |
| `PrivateCompare` | `Msb`'s private compare of securenn, statement by statement, over threads | |
| `Distributed` | driver and nodes of the Python layer | |
| `*Proofs` | theorems about the module they are named after | |
| `MC*` | the instances TLC checks | |

How the state corresponds to the code:

* `BlockParallelRunner`.  `pc[p][t]` follows worker `t` through `run_task` and
  `OpExecTask::run`.  `cv.wait` is four actions: lock, evaluate `ready()`, sleep
  and release in one step, wake (notified or spurious).  `mutex` is the event's;
  the scope's shared mutex makes each access atomic and is not a variable.
  The queue is FIFO, so `popped` and `enqueued` describe it.  `chan` holds the
  number of the fork whose link a context talks on.  A kernel is two steps, its
  first message and its result, between which it needs its peers' messages.
* `CheetahMul`.  `kpc` is the calling thread, `tpc` the two tasks of a kernel.
  A message says what it is about: kernel, half, position, CRT context.  The
  number of contexts is computed as in `TotalCRTBitLen`.  The batch of one
  blocking `Send` and several `SendAsync` is one step, enabled when the window
  allows the `Send`.
* `BeaverCache`.  A triple is the positions of the OLE batch it was cut from;
  two shares form a triple when the positions match crosswise.  `requests` is
  the common program, extended by whichever rank gets there first.  `left` is a
  history variable: what the cache still held after each request.
* `OTBuffer`.  Correlation `<<g, p>>` is position `p` of extension `g`.  `rcot`
  is one action per stretch between extensions; an extension is a start (seeds
  are copied out) and an end (the peer has played its part, the array is
  overwritten).  `spent` is a history variable.
* `OTPair` adds the messages: one each way per extension, and the flips of
  `recv_cot`, for which `send_cot` waits and `send_rcot` does not.
* `FerretIO`.  The bytes of an operation are numbered, and an operation is given
  by the places where its batches end (`ends`); `send_data` and `recv_data`
  recurse, and each level is one action.  An object of the code is
  sender or receiver for good; `wbuf[r]` and `rbuf[r]` are the buffers of the
  two objects of rank `r`, which share the link of their instance.
* `OTDispatch`.  `pc` and `w` are the calling thread and its loop index, `task`
  the futures; deferred ones start when the caller reaches their `get()`.
  `inst[r][v]` is the link of instance `v`: links pair up by the number of
  `Spawn`s before them.
* Protocols.  A kernel is an operator from the streams of all ranks and its
  operands to a record `[st, v]`: the streams afterwards and the share of every
  rank.  A kernel's messages carry tags of their own and are received in the
  kernel that sends them, so that an exchange is a function of what the ranks
  hold.  `Protocols` has the variables `prot`, `streams`, `acc`, `arg`, `calls`
  and `expect`, the set of numbers the plain program may have; an action is one
  call of `hal`.  For programs on tables `columns` are the columns, sequences of
  values, and `meant` the tables of numbers the plain program may have: sorting
  and shuffling leave open how rows that tie are ordered, or all rows.  A call on
  an array is one call per element, in order.  `st.refused` says that a kernel has thrown: the program ends.
  `st.atEdge` says that securenn has met one of the few numbers it does not
  provide for (section 6), from which on results are not compared.
* `PrivateCompare`.  `at[rank][e]` is the statement and the bit at which the
  thread of element `e` is; `w` and `w_total`, which the lambda captures by
  reference, exist once at each rank, what its body declares once per element.
* `Distributed`.  `globals[node]` are the objects a node stores, `handles` what
  the user holds, `stack` the calls under way (placing an argument may call
  `reconstruct` or `make_shares`), `drops` the finalisers still to run, `objrefs`
  and `dead` the driver's own books.  `undelivered` are results whose answer
  never came, a history variable.

## 3. Model-checking runs

| run | what it asks | distinct states |
|---|---|---|
| `block_safety` | do the parties evaluate the block as a dataflow graph, in every interleaving? | 202,730 |
| `block_live` | do both return? | 43,390 |
| `cheetah_mul` | do threads read their own messages; do the kernels end? | 4,091 |
| `beaver_cache` | are triples matching, fresh, bounded? | 103,903 |
| `ot_buffer` | is every correlation consumed once, within bounds? | 25,972 |
| `ot_pair` | do the two ends stay together? | 38,712 |
| `ferret_io` | do bytes arrive in order, and nothing else? | 414,285 |
| `ot_dispatch` | does every slice meet its counterpart; is the output whole? | 3,993 |
| `protocols` | do programs on shares compute what they mean, and are tables sorted and shuffled whole, whatever mix of operands they run on? | 13,404 |
| `private_compare` | do the threads of a comparison keep to their own elements? *No: finding 1* | 33,785 |
| `distributed` | do the driver's books match what nodes store and handles name, with failures? | 727,485 |
| `distributed_gc` | are a call's arguments there when it runs? *No, with no failure at all: finding 2* | 8,052 |

What each property says of the code stands above it in its module.  In short:

* executor: `NoLookupFailure`, `SideEffectOrder`, `ChannelPairing`,
  `NoLostWakeup`, `Termination`, and the refinements `RefinesDataflow` and
  `RefinesFairDataflow` (the same steps, and every operation completes);
* multiplication: `ReceivedAsExpected` (the head of a link is what its reader
  waits for), `ContextsReady` (shared contexts are complete before two threads
  use them), `Termination`;
* triples: `TriplesMatch`, `TriplesFresh`, `OlesAgree`, `CacheBounded`;
* OT buffer: `BufferInBounds`, `OTsFresh` at one end, `OTsAligned`,
  `MessagesExpected`, `Termination` for the pair;
* streams: `MessagesExpected`, `BytesInOrder`, `StreamsDrained`, `Termination`;
* dispatch: `InstancesReady`, `SlicesPaired`, `OutputComplete`, `Termination`;
* protocols: `Reconstructs` (what the ranks hold stands for a result the plain
  program has), `CopiesAgree` (replicated parts and public numbers, and in
  spdz2k every number with its MAC),
  `StreamsAligned` (ranks are at the same place of every stream they share, over
  all call orders and forks), `WidthCovers` (a boolean share stands for no more
  bits than it says it has);
* private compare: `Compares`, as the API's tests say of whole arrays;
* distribution: `CountsHandles`, `Fetchable` (what `get` asks for is there while
  the user holds the handle), `SpuArgumentsStored`, `NothingLeaks`, and
  `ArgumentsStored`, the one that fails.

Each of them is violated by a plausible slip in the code it is about, kept in
the module as a definition marked *Mutant*: `notify_all` without the event
mutex, a free that frees, one link for both halves, a cache kept across rings,
seeds not saved after an in-place extension, an empty flush that sends, a buffer
that must be more than full, instances counted by each rank for itself, an odd
level of the carry circuit left unpadded, replicated parts swapped at one rank,
an OT receiver that draws no mask and does not count it, a shift that does not
widen its result, a transfer that is not counted, a handle finalised twice,
arguments dropped before the nodes run, a dead list that is cleared although a
collection has failed.

### Bounds, and why they are enough

* `BlockParallelRunner`: 2 parties, 2 workers, 6 operations (4 for liveness), one
  spurious wake-up per party.  With two workers one can sleep, check or sit
  between both while the other adds a result, and every pair of operations can
  overlap.  The block has a captured value, an operation without operands, a
  free with a later use of its operand, and two effects no operand orders.  The
  liveness block has two interactive operations, which keep both workers of a
  party waiting for the peer at once.  The threads of a pool are interchangeable,
  and `block_safety` uses that symmetry; `block_live` does not.
* `CheetahMul`: 2 slots per ciphertext, batches of 2, a window of 2.  The
  program switches from 32 to 64 to 32 to 128 bits, so contexts are created,
  extended, reused and extended again; arrays fill one, several and one and a
  half ciphertexts; streams are longer than batch and window.
* `BeaverCache`: an OLE makes 2 triples, requests take 1 to 3 (one or two OLEs'
  worth), 5 requests over 2 rings: enough to refill on a rest, change the ring
  with a rest in the cache, and change back.
* `OTBuffer`: extensions of 5 with a reserve of 2.  Sizes 1 to 4 fit in what one
  extension leaves or not (4 is the worst case), 5, 7 and 9 extend in place once
  or more and then need the buffer.  `MaxSpent` bounds the history; `OTPair`
  bounds the number of calls instead, since there the history is compared.
* `FerretIO`: buffers of 3 bytes; batches of 3 (exactly full), 2 and 2 (over the
  border), and 1, 2 and 7 (full after two, then over several buffers and a rest);
  three operations, so that roles change and change back with leftovers around.
* `OTDispatch`: 3 and 4 cores, slices of 3 elements; calls of two, three, three
  batched and one slices: instances are made in two calls and reused in two.

* `protocols`: numbers of 4 bits (`K`), of which bit interleaving and the
  circuits see three levels, with fixed seeds and a table for the random
  function; the results are checked on shares with masks that are not trivial,
  not on all masks.  Three families of programs.  One call on every pair of
  eight accumulators and five operands (arithmetic, boolean, public, private of
  either rank; zero, positive, negative).  Two calls, each of them any call, on
  an arithmetic and on a boolean start, so that every call meets what every other
  one leaves: a narrow or a wide boolean share, a private number, a share that
  only aby3 makes.  One call on a table of three rows (two on one column for
  aby3): a key that ties, secret, public or private, alone and before a secret
  column, and keys of several owners; any number of the columns as keys, both
  orders, every range of top-k.  Three rows are the least on which a permutation
  can differ from its inverse, and on which a sorting network merges an odd rest.
  Protocols that share code do not repeat it: ttp, which is tfp but for who deals,
  has five accumulators and no pairs of calls, securenn one start, and neither has a
  single public or private key.  spdz2k, whose kernels draw and open the most, has six
  accumulators, four operands, one start and two tables, whose numbers are distinct
  and not zero since it refuses an opened zero (section 6); its key is 11.  Fixed point
  numbers have one fraction bit, an OT of aby3 and a digit of cheetah's comparison
  two and one bits, the prime of securenn is 7.  In tables `std::sort` and
  `std::nth_element` are an insertion sort, `valid_bits` is -1 as `hlo` passes it
  by default, and a random permutation is picked from all by a number drawn where
  the code seeds its own.
* `private_compare`: two elements of 2 bits with a thread each, every
  interleaving of statements.
* `distributed`: a PYU on a node of the SPU, a PYU apart, an SPU of two nodes; a
  collection at the third dead reference instead of the fiftieth, so that it
  falls into every place of a call; 7 objects, 2 handles of the user, calls of
  up to 2 arguments, one failure anywhere (at a subset of the nodes).
  `distributed_gc` has calls of one argument and no failures.

Deadlock is checked in all runs but `ot_buffer`, where a single endpoint may
wait for ever for its next request, and `protocols` and the two `distributed`
runs, where the user may stop.  The other modules end in a `Done` step.

### Fairness

Every liveness property assumes weak fairness of each thread (or of each rank
where it has one thread), and nothing else: the operating system runs a thread
that can run.  No order of mutex grants, no order between threads or ranks and
no bound on delays is assumed; spurious wake-ups are never relied on, and a
deferred `std::async` runs only when its `get()` is called.  Links deliver what
was sent: yacl retries on its own and otherwise throws, which ends the process.

The protocols, the private compare and the driver have no liveness property: a
kernel is one step of all ranks there, threads run straight on, and the driver
waits for one answer at a time, so that what would have to happen eventually is
what the runs of the runtime's modules check.

### Findings

1. `mpc/securenn/arithmetic.cc:698` declares the accumulators `w` and `w_total`
   of the private compare outside the loop that `pforeach` spreads over threads,
   and captures them by reference (again at 1126).  With more than 50,000
   elements, from where on `pforeach` uses several threads, two elements add
   into each other's sums.  `private_compare` shows an element that is
   compared wrongly.  `Msb_opt` declares both inside.
2. `distributed_impl.py:501` replaces the arguments of a PYU's call by their
   references and thereby drops the only handle of what `SPU2PYU` has just
   reconstructed.  When that is the fiftieth dead reference, the collection
   deletes the object on every node before line 505 runs the function that takes
   it.  `distributed_gc` shows it without any failure.  An SPU's call keeps the
   handles until it returns, which `SpuArgumentsStored` confirms and
   `SpuArgumentsThere` proves.

## 4. Proofs

TLAPS checks eight modules, for every value of the constants that satisfies the
named assumptions.  Every invariant that a passing run checks is a theorem, but
for those of `Protocols`.

Five of the modules share an argument.  A message does not say what it is, so that
it is read by the right step is a matter of order.  The proofs fix, from the
program alone, which messages a rank will ever send on a link and in which order;
show that the place a rank is at determines which of them it has sent and which of
its peer's it has taken; and keep as the invariant that the link holds exactly the
sent and not taken ones, in their order.  The first message a reader has not taken
is then the head of its queue, however far the ranks are apart.

**`BlockParallelRunnerProofs`**, for every block, number of parties and workers.
`BlockAssumption` is the shape of a PPHLO block: operands come before uses, only
operations with operands have regions, a free has no side-effect attribute.
`ThreadAssumption` gives a party at least one worker.  The properties are not
inductive: that a kernel finds its operands needs that they were in the scope
when it stopped waiting and that nothing leaves the scope; that no wake-up is
lost needs who holds the mutex.  `IndInv` adds

* `MainInv`, `TaskInv`, `MutexInv`: who is where.  Workers exist only once all
  tasks are queued, a task is held once, the mutex is held exactly in `ready()`;
* `ScopeInv`, `KernelInv`, `CompletedInv`: the scope is what completed, and a
  task past its wait has its dependencies in it;
* `LinkInv`: the n-th fork belongs to the n-th operation at every party;
* `WakeupInv`: a worker that found its task unready and has not slept yet still
  holds the mutex, so whoever adds the missing result notifies after it sleeps.

It is proved in two layers, control first (`ControlInv`), then data relative to
it.  From it follow `TypeCorrect`, `LookupsSucceed`, `LinksPaired`,
`EffectsOrdered`, `WakeupsDelivered`.  `RunnerImplementsDataflow` maps an
operation's completion to its `FinishKernel` step; every other step stutters,
and a joint operation finds its dependencies complete at every party since a
party that sent its first message had them in its scope.

**`OTBufferProofs`**, for every `N`, `PreN`, `Reserve` with `Reserve <= PreN <= N`
and `2 * Reserve <= N`, which yacl's parameters satisfy, and requests of any
length.  `StaysInBounds` is nearly inductive.  `ConsumedOnce` is not: it needs
that every correlation in the buffer from `used` on, in its seeds, and in the
caller's array is unconsumed, which `DataInv`, `RestInv` and `SeedInv` say for
each phase of `rcot` (the seeds are in the buffer, or in the caller's array, or
already spent by the extension under way), and that a new extension's
correlations are new (`GenInv`).

**`OTDispatchProofs`**, for every number of cores, every program and every number
of instances and least slice size with `MaxParallel - 1 <= MinWork` (the code
has 48 and 2048).  The invariant is one of each rank by itself: `InstInv` (the
instances made so far are the links spawned so far), `PhaseInv` (what the
calling thread has done with its slices), `OutsInv` (a finished slice's output).
It gives `EveryInstanceReady`, and with arithmetic on the rounded-up division
`EveryElementOnce`: no slice is empty and none is missing.  The assumption is
needed there, and it is why 2048 and 48 cannot be changed freely.
`EverySlicePaired` relates the ranks: on the link of an instance go its setup
messages and then one message for every call with that many slices, which is the
same list at both ends because the number of slices is a function of the call and
of the least number of cores; the link holds the part between what its sender has
said (`SaidTo`) and its reader has heard (`HeardTo`).  `PairInv` says so on top of
the invariant of each rank.

**`OTPairProofs`**, for every program of OTs and any sizes at all, with no assumption.
A rank is deterministic but for waiting, so there is one run of the two
ends' buffers: `OTPair` is proved to have both ranks on it, each at a point of its
own, and the messages of a direction to be those between the sender's point and the
reader's.  Two ends at the same call have then spent the same correlations for it
(`SameOTs`), and a message is read by the step it was sent for
(`MessagesAreExpected`).

**`FerretIOProofs`**, for every buffer size and every program of operations, with
batches that end anywhere.  The messages of an operation are fixed by its cuts (an
extension each way, the flips, the full buffers, and a rest if there is one) and
ordered by operation and place.  `MessagesAreExpected` follows as above;
`BytesArriveInOrder` and `StreamsAreDrained` need also what the two buffers hold:
the bytes between the last full buffer and the last batch at the sender, and between
the last batch and the last message at the receiver.

**`BeaverCacheProofs`**, for every even size of an OLE batch, any rings and every
program of requests shorter than two batches, from where on `MulAA` multiplies
directly.  The ranks' caches cannot be compared while one rank is ahead, so the
invariant compares histories: what a rank has after a request is a function of what
it had before and of the request, hence the same at both ranks, request by request,
with the roles in an OLE exchanged (`SharesMatch`, `PostsAgree`).  `MasksUsedOnce`
needs that what is left is younger than everything taken.  `CacheStaysBounded` is
arithmetic on the number of OLEs a request asks for.

**`CheetahMulProofs`**, for every program of kernels, every packing and batch size.
A kernel has at most one task on a link (`OneTaskPerLink`, which is what the
duplicated link is for), and in a task a rank sends in one phase only, ciphertexts
or answers, so that a message of a link is known by its kernel and number
(`PostsOrdered`); the public key comes before all others.  It gives
`MessagesAreExpected`.  `ContextsAreReady` is the part `KeysAt` of the invariant.
`ProgramAssumption` says what kernels there are, and that a product is multiplied
directly only when it fills two ciphertexts, so that neither half is empty.

**`DistributedProofs`**, for any nodes, PYUs, threshold, arguments per call and
number of failures, and an SPU of any size that is not itself a PYU.
`NoCopyLeaks` says that a node stores only what the driver accounts for.  That is
not inductive: a run stores copies of its arguments and its results, so the
proof must know what is on the stack.  `StackInv` says it: every placed argument
has one reference for each node of the call's device, a nested call is a
transfer kernel on a PYU whose outer call still has the argument to place, and a
call that is about to fetch meta data has the shares, or the results, it fetches
it for (`CallsWellFormed`).  A copy is kept only of what the node or the origin
of the reference had (`ResolvedKept`), hence of something accounted for; results
are counted, awaited or noted as undelivered; a last decrement moves a reference
to the dead, who are forgotten only after every node has dropped them
(`DecObjrefKeeps`).

`HandlesCounted` says that the driver's counts are right, and on it rest
`HandlesFetchable` and `SpuArgumentsThere`: what has a handle has a count, and
what has a count is stored at its origin.  The number of handles of a reference is
a sum: over the user's objects, the finalisers still to run, and all that the calls
on the stack hold and have lent.  `CountsHandles` is not inductive for two reasons.
The counts stay right only if a step moves as many handles as it counts, which
depends on where on the stack they are; and a decrement must not collect what is
about to be counted.  `CountingInv` adds

* `CountInv`, the equation for every reference, the uncounted included, and
  `RefsInv`, that the counts are positive;
* `StoredInv`: what is counted is not dead and is stored at its origin;
  `IssuedInv`: no reference is younger than the last one made, so that results are
  new and neither counted nor dead;
* `HandlesInv`: the references of a user's object are distinct and each has its
  node for origin, so that releasing it drops each once;
* `NestingInv`: at most one transfer kernel is under way, which holds nothing
  itself, and handles are lent to a `reconstruct` or until the shares' meta data has
  come, so that a raise or a return drops exactly what is held;
* `ArgumentsInv`: what is still to be placed has a handle, and so has, in an SPU's
  call, what has been placed, which the same step for a PYU's call would break
  (the collection that `distributed_gc` shows);
* `AwaitedInv`: results that the SPU's nodes have stored and the driver has not
  counted yet are new, so that no collection touches them.

TLC checked `CountingInv` on the instance of `distributed` before it was proved.
The steps fall into three kinds.  Most leave the user's handles alone and replace
the innermost call (`TopEquation`, `Quiet`, `Grown`): only the equation of the
handles is left.  Those that end a call or return from a transfer kernel have all
the stack in view (`RaiseCounts`, `UserGiven`, `NestedGiven`).  A release and a
decrement are by themselves.  The equation of every step is linear arithmetic once
the sums are taken apart (`Recounted`).

Taking them apart needs that `FlattenSeq` appends and that occurrences add up,
which is induction over the length of a sequence.  The library's induction
theorem takes an operator as a parameter, which none of the provers can
instantiate; `NatInduct` states it of a set and is proved from the library's
pigeonhole principle: if a set has 0 and successors but misses `m`, the map that
moves its members one up takes `0..m` one to one into `1..m`.  `FlattenIs` and
`FlatAgrees` then say what the recursive function inside `FlattenSeq` is.

A few leaves of these proofs ask for more time than the default (`SMTT(30)`).

Only model-checked: all liveness and `RefinesFairDataflow` (the prover has no
fairness or `ENABLED`), and all of `Protocols`.  Its invariants are about
what circuits, sums over ranks and trees of comparisons compute modulo `2^K`: folds
over functions and `2^n` itself, whose library definitions take operators as
parameters, of some hundred kernels under five protocols.  Each would need an
induction and a theory of bits of its own.  `PrivateCompare` has only a property
that fails.

## 5. Abstractions common to the modules

In the modules of the runtime values, shares, ciphertexts, hashes and masks do
not appear; what appears is which of them is combined with which.  A kernel, OT
protocol or extension that another module models in detail is one message each
way.  In the modules of the protocols it is the other way round: numbers are
real, and an exchange is what it computes.  A value is one number: kernels
work element by element, except the ones left out.  Tables are sequences of
values; a call on a column is a call on each of its elements in order, so an
exchange that the code batches is several, and draws from a stream come element
by element.  An OT is what
it promises, since its correlations and streams are the runtime's concern.
`Spdz2k` works its arrays of bits off bit by bit, and leaves the random factor of
a MAC check out: a MAC that does not fit is found always instead of almost
always.

Crashes are not modelled below the Python layer: nothing in the runtime is
persisted, and a party that dies ends the computation of all.  Messages are not
lost or reordered within a link, which is what yacl's link promises and the code
relies on throughout.  `Distributed` has runs that raise, at some of the SPU's
nodes or at a PYU, answers lost after a run, and collections that fail at some
nodes; a node that restarts has lost its objects, and the code has no answer to
that.

## 6. What is left out, and what was noticed

* `OpExecTask::run` skips its wait for an operation without operands even when
  it has extra dependencies.  The model does the same; `SideEffectOrder` is
  stated for operations with operands.
* A kernel that throws inside a worker thread ends the process by
  `std::terminate`; `run_task` has no handler.  Only lookups can fail here.
* `prev_plain_modulus` in `LazyExpandSEALContexts` is 32 bits wide while moduli
  have 45; the comparison after it can never find an equal pair.
* `consumed_ot_num_` counts `N` per in-place extension although `N - Reserve`
  reach the caller.  It is only logged, and not modelled.
* `DispatchBinaryFuncWithBatchedInput` has no caller and is not modelled; the
  unary batched dispatch has no check for empty input, and `get(nworker - 1)`
  would throw.  `Call` has at least one element.
* `YaclSsOTeAdapter::OneTimeSetup` does not set `is_setup_`; it is called once.

* `mpc/factory.cc` registers `REF2K` and `CHEETAH` only; aby3, semi2k, securenn
  and spdz2k are in the tree with their own tests, and are modelled as these
  create them.
* securenn does not provide for the numbers at the edge of its arithmetic modulo
  `2^k - 1`: `r = 0`, an `eta` that overflows together with `beta`, and in `Msb`
  an `r` of `2^k - 1`.  At 64 bits they are negligible; at 4 bits they are
  everywhere, and `atEdge` marks them.  `Msb_opt`, `B2A` and `MatMulAA` have
  no caller in a default build (`OPT_SECURENN_MSB`, `conversion.cc:185`).
* `RandA` of securenn gives rank 2 a share that products and comparisons do not
  read; `RandSecret` is the last call of its programs.
* Cheetah refuses an `and` with a boolean share of no bits, which a
  sealed public zero is (`AndTriple`); `TruncA` of cheetah with a known negative
  sign refuses a shift by one; `CompareProtocol` leaves the last digit unmasked
  when the radix does not divide the width.
* In spdz2k `makeBShare` divides by the number of bits (`value.cc:46`), which is
  that of the largest public number the share is made from: sealing a public
  zero, an `and` with it, or a comparison that opens a masked zero ends the
  program (`refused`).  `A2P` and `TruncA` read the MAC of their operand
  (`arithmetic.cc:142`) where other kernels make one for an operand that has none:
  an input that is revealed or truncated before anything else fails its check.
  `B2A` computes the carry of two bits and drops it.  Two boolean shares have no
  common type, whatever their widths (`CommonTypeB`).
* `_trunc` by 0 means the number of fraction bits.  `eqz` of aby3 has 8 valid
  bits and that of semi2k as many as the ring.  `ARShiftB` of semi2k and cheetah
  does not ask for a full width, aby3's does; none of semi2k, cheetah,
  securenn and spdz2k has `b2v`.  `EqualVP` of `pv2k.cc` insists on equal types, which a
  private and a public number never have.  `ring_bitrev_impl` and aby3's
  `BitrevB` would shift by the full width for `end == width`; the model stays
  below.
* `_bit_decompose` without `valid_bits` takes as many bits of a boolean key as it
  has (permute.cc:531-541), and `_gen_bv_vector` takes the highest of them for a sign
  (568-579): a radix sort by a secret key of one bit puts the ones before the
  zeros when it is asked to ascend.  Tables have arithmetic keys.
* `hlo::Shuffle` draws a permutation as long as the whole input inside the function
  that it applies to each row (shuffle.cc:50-53), so only arrays of one dimension
  get a permutation of their own length.
* `topk_1d` of a private input passes its private permutation to `_perm_ss`
  (permute.cc:321-323), where `_2s` is asked of the other callers; with kernels for
  secret permutations, which want shares, the call throws (`refused`).
* `_find_mergeable_keys` (permute.cc:700-728) forgets an owner once a secret key
  has come, so keys of bob, of alice and a secret one make one group, against the
  comment above it (688-690), and `_merge_keys` throws.
* The dealer of `Dot` draws without advancing its counter; matrix products are
  not modelled.
* In the Python layer `save` and `load` are left out (a default file name is
  evaluated once, at import, line 1229), and so is a cyclic collector that runs
  finalisers between the snapshot of the dead list and its clearing (1141-1150).

## 7. Reading order

`DataflowBlock` and `BlockParallelRunner` first, then `OTBuffer` and `OTPair`,
`FerretIO`, `OTDispatch`, and `CheetahMul` with `BeaverCache`.  For the protocols
start at `Protocols`, which says what a program means, then `Api` and `HalRing`
from the bottom up, and one protocol: `Aby3` or `Semi2k`; for tables `PermUtils`
and `HalPermute`.  `PrivateCompare` and
`Distributed` stand alone.  A proof
module reads from its invariant (at the top, or at the end of the module it
extends) to its theorems at the bottom; the lemmas in between are one per action
and part of the invariant.

## 8. Plan

In order of importance:

1. The sequential executor with nested scopes and the `Deallocator` pass
   (`dialect/pphlo/transforms/insert_deallocation.cc`): a free comes after the
   last use, a captured value outlives its region; checked on all small blocks,
   and an abstract specification shared with `DataflowBlock`.
2. What a single kernel computes, for the protocols' kernels that are no folds
   (a truncation, a conversion of one bit), as lemmas about the ring.
3. The other provider of spdz2k (`beaver_tinyot.cc`, over oblivious transfers),
   with its commitments.
4. The cache of semi2k that recycles masked operands (`beaver_cache.cc`), secret
   indices (`hlo/indexing.cc`, `aby3/oram.cc`), and the tiling of matrix products
   in cheetah.
