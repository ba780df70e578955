# A verification of sph-sc-lib

sph-sc-lib is a collection of small C libraries (written in sc, an
s-expression notation for C, and kept in compiled form under
`src/src/c-precompiled/sph/`; the paths below are relative to that directory).
This project models them in TLA+, checks the models with TLC and proves
theorems about them with TLAPS. The compiled C is what the models are
translated from; the sc sources under `src/src/sc/sph/` have the same logic.

## The system: components, state, operations

| component | state | operations | users |
|---|---|---|---|
| `queue.h` | `size`, `first`, `last`, the `next` field inside each user's struct | init, enq, deq | thread-pool |
| `thread-pool.c` | a task queue, mutex, condition variable, `size`, `threads[128]`, `accepting`, `shutdown`; per worker a program counter and its task | new, enqueue, resize, finish, destroy, the worker loop, `sph_thread_finish` | futures, programs |
| `futures.c` | one global pool and its `initialized` flag; per future `finished`, `f`, `task.data` | init, new, touch, deinit, eval (runs in a worker) | programs |
| `hashtable.h`, `set.h` | flag/key/value arrays with linear probing; a set whose null value is noted outside of the slots | new, get, set/add, remove, clear, free | ikv, programs |
| `spline-path.c` | array of segments, a cursor (`current_segment_index`, `previous_start`), and those of nested paths | set, get, end, free, generators | programs |
| `array.h`, `memory.c`, `memreg.h` | pointer, used, size; registers of pointers with handlers | add, remove, resize, destroy | programs |
| `list.h` | `next`/`previous` links | append, reverse, unlink, validate | programs |
| `quicksort.h`, `random.c` | arrays, a 256 bit generator state | sort, shuffle, bounded numbers | programs |
| `ikv.c` | a parse tree of hashtables | read, write, free (marked experimental; its test is disabled) | programs |
| `string.h`, `filesystem.h`, `src/src/c/other.c` | none of their own; the file system | join, clone, dirname, create directories, option parsing | programs |
| `float.*`, `status.h`, `test.h`, `types.h`, `guile.h`, `sph.h`, `foreign/` | none | arithmetic, macros | everything |

How they interact: a future is a thread-pool task; a thread-pool task embeds a
queue node; workers, producers and the control logic share the pool under one
mutex and one condition variable, and call task functions back outside of it.
Everything else is sequential code called by one thread at a time, except that
copies of a spline path share the cursors of the paths nested in it, and that
`ensure_directory_structure` shares the file system with other processes. The
register of `memory.c` is an array of `array.h`; what `memreg.h` registers,
`memory.c` and `string.h` allocate.

### What is hard, and what makes each part correct

- **queue**: nodes are reused with stale links. Correct if the chain from
  `first` is exactly the inserted nodes in order and `size` counts them.
- **thread-pool**: signals and broadcasts are sent outside of the mutex; workers
  come and go while calls resize; pthread_create and malloc fail in the middle
  of a call; `size` counts handles, not running threads. Correct if no wakeup
  is lost, nobody sleeps through a shutdown, every task object is in one place,
  accepted tasks run once and in order, calls return, and the mutex is
  destroyed after its last user.
- **futures**: the object belongs to a worker, then to its user, told by one
  atomic flag; objects are used again; functions make futures themselves while
  the pool shuts down. Correct if touch returns the result of this use, gives
  the object back, and both touch and deinit end.
- **tables**: collisions and back-shifting over a circle of slots; a full table.
  Correct if a table is a dictionary whatever was removed before.
- **spline paths**: a cursor that persists between calls; curves whose samples
  leave gaps. Correct if what is sampled does not depend on what was sampled
  before, and if every position of a range is written.
- **arrays and registers of memory**: additions check nothing, allocations fail
  in between, counters are stale after a destroy. Correct if the room that was
  promised is there, no element is lost, and each address is freed once.
- **lists**: links in two directions, heads that own nodes. Correct if a list
  has the program's nodes in the program's order, and each node one owner.
- **directories**: the test and the creation are two system calls, and errno is
  read before the second one. Correct if the result tells whether the path is
  there.
- **algorithms**: a pivot that moves, loops without a bound, a rejection
  threshold, sizes that are rounded or counted before they are filled. Correct
  if they compute what their names say, inside of their memory.

`PROJECT.json` lists the hazards one by one, each at its line, with the
properties that would catch it.

## The modules

| module | models | role |
|---|---|---|
| `Queue`, `Fifo` | `queue.h` | the linked queue, and the FIFO it implements |
| `ThreadPool`, `TaskService` | `thread-pool.c` | the pool, and what it promises to its clients |
| `Futures` | `futures.c` | futures on top of the task service |
| `HashTable`, `SetTable`, `Dictionary` | `hashtable.h`, `set.h` | tables and sets, and the dictionary they implement |
| `SplinePath`, `Bezier` | `spline-path.c` | sampling with cursors; how a curve fills its range |
| `Array` | `array.h` | arrays with what the program was promised and counts on |
| `Memory` | `memory.c`, `memreg.h` | both registers of addresses with handlers |
| `List` | `list.h` | both kinds of lists |
| `Filesystem` | `filesystem.h` | `ensure_directory_structure`, by several processes |
| `CommandLine` | `src/src/c/other.c` | reading a list of paths; the option parser |
| `TableSize` | `hashtable.h`, `set.h` | sizes, new with its failures, free, the bitmap of a set |
| `Quicksort`, `Random` | `quicksort.h`, `random.c` | pure algorithms against what they should compute |
| `Strings` | `string.h` | a program that makes a string from the last one |
| `MC*` | | small instances for TLC; `MCContainers` has those of tables, sets and queues, `MCFilesystem` that of `Filesystem`, `MCSplinePath` that of `SplinePath`, and `MCLibrary` these two with those of `Bezier` and of all rows from `Array` on |
| `*Proofs` | | theorems: `DataProofs` about arrays, registers of memory, lists and quicksort, `NumberProofs` about bounded numbers, curves, the sizes of tables and strings, `SystemProofs` about directories and the command line, and one for each of the other components |

The layers are joined by abstract specifications. `ThreadPool` holds the queue
as the sequence that `Queue` implements (`FifoSpec`). What the pool promises is
`TaskService`, which `ThreadPool` implements (`ServiceSpec`) for clients that
keep to its header: a task object is not enqueued again before its function
returned. `Futures` takes and returns tasks as that service does, and
`ServiceSpec` of `Futures` says when it is such a client: up to the first time
that an object is used again in the short while between the store of `finished`
and the return of `sph_future_eval`. So the two layers compose for the programs
that do not use an object again that early. Others leave the header's contract,
which `futures_reuse` shows; of them the pool model says nothing, and what is
shown of them is what `Futures` itself says (`ResultOfThisUse`,
`OwnedAfterTouch`, `DeinitWaits`, and that touch and deinit end), with a pool
that does not look at a task after its function stored `finished`, as
thread-pool.c:52-53 does not.

### Queue

`next` is the heap of links, arbitrary at first; `Scribble` is an owner that
overwrites a node outside of the queue; `InitAgain` is `sph_queue_init` on a queue
in use, as the pool's discard does. `order` is a history variable, the nodes
inside. The counter is modulo `SizeMod` (2^32 in the code), of which there
must be more than nodes.

### ThreadPool

One step per critical section; the signal of enqueue and the broadcasts are
steps of their own, because the code sends them after it released the mutex.

| code | model |
|---|---|
| fields of `sph_thread_pool_t` | `queue`, `accepting`, `shutdown`, `size`, `threads`, `sync` |
| a worker | `wpc`: `lock` (about to acquire the mutex), `wait`, `run`, `exited`, `joined`; `wtask` its local variable |
| a caller between unlock and signal | membership in `signals` |
| the thread in resize, finish, new, destroy | `cpc` (the phase), `call` (its arguments), `idx` (the loop variable i), `ret` |
| `sph_thread_pool_enqueue` | `Enqueue`, `Signal` |
| the worker loop | `Take`, `Exit`, `Wait`, `TaskReturns`, `ThreadFinish` (a pill), `SpuriousWakeup` |
| new | `NewBegin`, `Create` / `CreateFails` per thread, `NewReturns` |
| resize and finish | `CallBegin`, then the phases `grow`, `shutdown`, `discard`, `pills`, `settle` in the order of the code, with `GrowFails` and `MallocFails` |
| destroy | `DestroyBegin`, `Destroy`, `DestroySync` |

The size of a pool is uninitialised memory before new writes it. That new is
asked for at most `ThreadLimit` threads is assumed of its callers: it compares
its argument with nothing (thread-pool.c:70), unlike resize. Joining a
handle that is no thread, or was joined before, is undefined in C; the model
goes to the absorbing phase `undefined` and does not say what follows. Callers
keep to the header: control calls are serialised, nobody is inside enqueue when
a call with size zero begins, task objects are not enqueued again before their
function returned. Enqueue during growth or shrinking is unrestricted, and a
task may enqueue others at any time.

### Futures

One step per access to a shared field: the function call (`Take` to
`FunctionReturns`), the store of the result (`Store`), the releasing store of
`finished` (`Finish`), the return. `data` holds which use of the object an
argument or result belongs to and how often the function was applied, so that
an old result, an argument and a doubly computed result are told apart.
`Nested` says which function makes a future of its own and touches it; the
inner object lives in the function's frame. The pool is one step per queue
operation. `DeinitEarly` lets deinit begin while functions still make futures.

`sph_future_eval` stores `finished` before it returns, so touch may give the
object back, and the program use it again, while the task function is about to
return. The pool's header permits reuse only after the return
(thread-pool.h:17-18, 55). `Executing` are the objects whose function has not
returned, the store of `finished` or not; the history variable `early` says
whether an object was used again in that while. `ServiceSpec` holds of every
step as long as `early` is false; `ReuseSpec`, the same without that condition,
is violated. Nothing goes wrong with this pool, because the worker does not look
at the task again: `OwnedAfterTouch` is about the readings and writings that
are left (`Evaluating`), and covers early reuse too.

### HashTable and SetTable

get and set are one step each: the loops stop at the first slot on the way from
the home slot that is empty or holds the key. remove is a step per round of its
two loops. The hash function is an arbitrary map from keys to slots, fixed in
the first state (`TableSize` has how large a table is). `Write` is a user who writes through the address that get or
set returned. A set is the same table, without a use for the values and with
`nullable`; `set.h` differs from `hashtable.h` in the layout of the flags only.

### SplinePath

A path is prepared as `spline_path_set` does and sampled with ranges. `got` is
the last range with, for every x of it, the segment (and nested segment) whose
value was written, or `Untouched`. A nested path has its own cursor behind the
data pointer of its segment, which all copies of the outer path share, so
`nested` belongs to the segments and `cursor` to the copies. x coordinates are
whole numbers and nesting has one level. Each generator is taken to fill the
range it is given; for curves that is what `Bezier` looks at: a step is a round
of the loop of `beziern_generate`, with the x of its sample; `samples` and
`fills` are the positions written with samples and between them, `reads` those
that are read back. x is the exact value of the curve, rounded, as a fraction
of whole numbers. `BezierAssumption` asks for a resolution of two or more (the
code has 2, spline-path.c:11): with 1 a quadratic curve may skip positions. Points lie between the
first and the last one, and x coordinates are whole.

### Array, Memory, List

`Array` has the block with its content, of which every cell is `Junk` until it
is written, unless it was zeroed. Each allocation may fail. `room` is what the
program may still add: as much as a successful new, resize or ensure was asked
for. `items` is what the program counts on. Stack arrays and arrays that are
handed over begin with `Take`. Sizes near the largest number of a machine word
are not modelled: nothing checks an overflow there. The constants
`ResizeToZero` and `SwapAny` say which programs are meant (see below).

`Memory` has both registers under one interface: `register` says which one it
is. The entries of the growing one are at first what was on the stack, since
`sph_memory_init` sets the data pointer only; destroy keeps the counter. The
owner of an address tells who is to free it; a handler that is called for an
address that is not the register's sets `misuse`.

`List` has `next` and `previous` as arbitrary maps between nodes. Singly linked
lists own their nodes (`heads`, `allocated`); the doubly linked one has `order`,
the program's nodes in its order, while `Begin` starts over with whatever links
there are, so that `Validate` meets all of them. `AppendAnywhere` and
`UnlinkTwice` say which programs are meant.

### Filesystem

Each process is in a call with its recursion: `depth` is how many names of the
path the innermost call has. access and mkdir are steps, and so other processes
come between them. Any part of the tree may be there at first. `maker` and
`missed` are history variables: who made a directory, and what a process has
not found. `ExactUnlessOvertaken` is about calls that no other process overtook;
`ExistsIsOne` is the sentence of filesystem.h:19 for all calls, which is violated
(`files_race`). Paths are absolute: `<<>>` is the root.

### CommandLine, TableSize, Quicksort, Random, Strings

All of these are state machines. reads of read_paths return any part of the
input and may fail. The option parser has a step per round of its loop, bounded
random numbers have one per draw, where the generator may give any word, and
quicksort one per round of its outer loop; `calls` is the stack of what the
recursion has yet to sort.

`TableSize` is the life of one table or set: new with any request a word can
hold, or new with a failing allocation, then free. Numbers have the bits of
`Bits`, and what the shifts of `calculate_size` do is a recursive function on
sets of bits. The bitmap of a set is computed byte by byte. `TableSizeAssumption`
says that the shifts are 1, 2, 4 and so on up to half a word, which is what the
six lines and the extra one of 64 bit words are.

`Strings` is a program that joins, appends, clones, adds a slash to and prints
the string it has, in any order and again and again; each malloc may fail. `text`
is the history of what the string is to be, `slashDue` whether one was to be
added. A block is a sequence of bytes, `Unset` until they are written, that
grows where a write would be outside: writing too far and counting too much
both show in it. The length that `ensure_trailing_slash` keeps in 32 bits is
modulo `LengthMod`; those of size_t are numbers, since strings that fill the
memory are not modelled, but for the count of no strings, which underflows.
`slashDue` is what string.h:6 says, also of the empty string. Two constants let
in the calls for which the code does something else: `SlashAny` the empty string
and those of 2^32 - 2 characters or more, `JoinNone` the joining of no strings
with a delimiter of at most one character (with a longer one the size underflows
to what malloc never gives, so that the result is the documented zero).
What is printed is the number that the string has the digits of. `MaxOthers` and
`MaxLength` bound the strings that are joined and the texts.

## The runs

| run | instance | what it shows |
|---|---|---|
| `pool_every_use` | 3 threads, limit 2, 2 tasks, 2 pills, 2 producers, any 3 calls with any arguments, any failure | one place per task, no lost wakeup, nobody sleeps through a shutdown, the task service |
| `pool_plans` | 3 threads, limit 3, 1 task, programs of 2 calls that grow and finish, or that resize without waiting | calls return, accepted tasks run, the mutex outlives its users, nothing is left at the end, the number of workers |
| `finish_later` | 1 thread | violation: finish(no_wait), later finish(wait), as thread-pool.h:50 allows, destroys the mutex under a worker |
| `shrink_retry` | 3 threads, malloc may fail | violation: a repeated shrink ends workers that were to stay and tasks are left over |
| `futures` | 2 objects with 2 uses each and a nested one, 2 workers, 2 deinits | results, ownership, touch and deinit end; up to the first early reuse, the contract of the pool |
| `futures_reuse` | 2 objects with 2 uses each, 2 workers | violation: an object that touch gave back is enqueued again before its task function returned, unlike thread-pool.h:18 and 55 |
| `futures_deinit_early` | 1 object with a nested one | violation: a future made after deinit began is never evaluated; touch and deinit hang |
| `containers` | 5 keys, 4 slots, every hash function; 3 queue nodes with any links, counter modulo 8 | get finds every entry, removal ends, tables and sets are dictionaries; shape of the queue, and implementation of the FIFO |
| `remove_full` | 3 keys, 2 slots | violation: remove on a full table does not return |
| `spline_again` | every path of up to 3 segments with ends up to 2, nested ones, ranges up to 3 | violation: the same range sampled twice is not filled the second time |
| `files_race` | 2 processes, the paths and trees of `library` | violation: a process that another one overtook returns 0 for a path that exists, unlike filesystem.h:19 |
| `library` | see below | promised room, elements, zeroed memory; handlers called once; lists and validate; directories; paths from standard input; the algorithms; nothing of a range is skipped if ranges of a spline path follow one another |

`library` is one run for the parts that do not interact: `kind` says which part
the state is one of, and the variables of the others stay as they are. Its
sizes: arrays up to 6 elements of 2 values; 3 addresses and registers of up to
2 entries at first; 3 nodes, 2 heads; 3 processes with the paths a, a/b, a/b/c,
a/d and every tree below them; inputs of up to 6 characters with a first block
of 2; sorting of any part of arrays of up to 6 numbers of 3 values; random numbers from words of 64 values for every bound; every size
of a table that an 8 bit word can ask for, with size factor 3 and every
failure; texts of up to 5 characters made from empty strings, slashes and
digits of up to 2 characters, up to 3 of them joined, with each as the
delimiter, and lengths modulo 7 where 32 bits are kept; up to 5 arguments of 4 kinds; every
quadratic and cubic curve with whole x coordinates up to 7, and every range of
it, at a resolution of 2; every path of up to 3 segments with ends up to 4,
nested ones, 2 copies, and ranges up to 5.

Why the bounds are enough. The pool needs two workers for a signal to reach the
wrong one, a third thread to grow after that, two tasks for an order, two
producers for signals in flight at once, and three calls for a failure, its
retry and a finish; sizes reach one above the limit. Futures need two workers
for a nested touch, and a second use to see stale fields. Tables need every
pattern of collisions of more keys than slots: five keys, four slots. A path
needs a segment before, at and behind the cursor: three. An array of 6 can be
made, filled, cut, and grown by ensure, which wants more than twice the size; a text of 5 characters is made in several calls; a
list of 3 nodes has a first, an inner and a last one; three processes can be in
the same, a lower and a sibling directory. `MaxCalls`,
`MaxRounds`, `MaxDeinits`, `MaxSize`, `MaxLength` and `rounds` are the only bounds of counters
and lengths; each guard that bounds one names it.

`Symmetry` permutes threads, tasks and pills, or keys, where no property of the
run is a liveness property; `library` has none because the group of all its
sets is too large to be of use. The view of `MCContainers` hides the old content of
empty slots: no definition reads a key or value of a slot whose flag is off.
`CHECK_DEADLOCK FALSE` stands where a program may stop calling, or where a call
bound is reached. It also stands in `pool_every_use` because a call may
really hang there: a waiting shrink joins a fixed handle although another
worker may have taken the pill. `pool_plans` therefore has no waiting shrinks.
Types are an invariant of the run of the pool only: of `Queue`, `Futures`,
`Array`, `Memory` and `Filesystem` they are proved, as part of what is
inductive.

### Fairness

`ThreadPool!Fairness`: each worker that can go on does; task functions return
(strong fairness, because a function that enqueues goes back and forth between
its enqueue and its signal); a caller that released the mutex signals; a call in
progress goes on. This is the scheduler, plus critical sections that are a few
instructions long, so that nobody is kept out of the mutex for ever. Nothing
makes clients enqueue or call. `Futures!Fairness` is the same for its workers
and users. A future is only touched to the end if there is a worker left for
the nested one: the run has one more worker than functions that block. A worker
in a touch that sleeps between polls is modelled by not moving until it sees
`finished`. `HashTable!FairSpec`: a remove in progress goes on.

### What was found

The violations in the table are real executions of the code, each in one run with the
sentence of the documentation or code that it contradicts, and each listed
under `findings`. More were met and are only described; where a constant lets
them in, TLC shows them:

- a shrink without waiting, then finish(wait), destroys the mutex under a
  worker like `finish_later`: another worker than those that resize forgets may
  have taken the pill (thread-pool.c:157);
- discarding what is queued also discards pills that an earlier shrink has sent
  (thread-pool.c:135);
- a growing resize whose `pthread_create` fails writes the number of threads
  to `size` and overwrites it with the requested one (thread-pool.c:114, 126), so the
  next waiting finish joins uninitialised handles (`NoUndefinedJoin` with
  `CreateMayFail`);
- a growing resize after finish(no_wait) starts its threads before it resets
  `shutdown` (thread-pool.c:111-121, 125). A new worker that comes first sees the
  shutdown and an empty queue and leaves: the pool then has a size and accepts
  tasks that nobody takes (`AcceptedRuns` with these two calls);
- after a failed new, the finish(no_wait) that thread-pool.h:44 asks for never
  destroys the mutex and the condition;
- `remove_swap` fills the gap from behind the last element (array.h:69):
  `ItemsKept` with `SwapAny`;
- resize to zero reports an error and keeps a pointer that realloc has freed
  (array.h:38): `ItemsKept` with `ResizeToZero`;
- append to another node than the last loses what followed it (list.h:50):
  `OwnedOnce` with `AppendAnywhere`; unlinking a node twice breaks the list:
  `Mirrored` with `UnlinkTwice`; validate reports every list of a single node
  (list.h:89);
- the idiom of readme.md:229, which assigns the result of add_front to the
  list, loses the list where the allocation fails;
- for a relative path of one name, dirname returns a constant, which
  `ensure_directory_structure` then frees, unlike "always returns a new string"
  (filesystem.h:13); the model has absolute paths only;
- joining no strings with a delimiter of at most one character gives a block of
  at most one byte and reads `strings[0]`, unlike "zero if strings-len is zero"
  (string.h:51, 59): `Strung` with `JoinNone`;
- `ensure_trailing_slash` adds no slash to the empty string, unlike "a new string
  with a trailing slash added" (string.h:6), and keeps the length in 32 bits, so
  that the block for 2^32 - 2 characters or more is too small (string.h:9, 14):
  `Strung` with `SlashAny`;
- a request whose rounded size a word does not hold wraps, to a table of size 0
  or, where the multiplication wraps, of too few slots (hashtable.h:26, 38),
  unlike "the next power of two greater than or equal to" the factor times the
  request (src/readme.md:416): `SizeFits` makes no claim for these;
- an address returned by get is that of another entry once a remove moved
  entries (hashtable.h:83);
- a cubic curve that is sampled from the middle of its segment may leave the
  first position unwritten, for example x coordinates 0, 6, 6, 6 in the range
  from 2 to 3, and steep long ones in short ranges read behind the end of the
  output; `Filled` is about the other cases. Interpolated y values of a gap are
  overwritten where the parameter steps do not advance x (spline-path.c:314);
- `read_paths` uses a variable it does not declare (other.c:51), and drops what
  follows the last delimiter: `Pieces` has only what a delimiter ends.

The same cursor as in `spline_again` makes copies of a path disagree when the
path has a nested one (`Discipline = "each"`), although spline-path.h:23 tells threads to work
on copies.

## The theorems

All are proved for every value of the constants, under the named assumption of
the module (sets are finite, names are distinct, sizes are in range).

| theorem | argument |
|---|---|
| `QueueCorrect`, `QueueIsFifo` | `QueueTypeOK /\ Linked` is inductive: a node outside of the queue is not on the chain, so a link of `last` can be overwritten; a list without repetitions is not longer than the set of nodes, so the counter does not wrap. The FIFO follows step by step. |
| `PoolTyped` | inductive by itself; the loop index stays within the array because a call's size was compared with the limit, and that of new is within it by assumption. |
| `TasksInOnePlace` | inductive with the types: a task enters the queue only when free, and moves to one worker. |
| `WakeupsNotLost` | inductive with the types, by counting: each push adds a signal, each signal sent adds a worker on its way or finds nobody asleep, a worker that takes a task removes one of each, and a worker only goes to sleep on an empty queue. |
| `NobodySleepsThroughShutdown` | inductive with the types: `Wait` needs `~shutdown`, and the broadcast comes between the request and everything else. |
| `PoolImplementsService` | from the types and `OnePlace`, step by step. |
| `ThreadsJoinedOnce` | `JoinInv`, for programs that get their threads, with waiting or without, and with failures of malloc. The handles in use, those stored by the loop in progress or those up to `size`, are of different threads, and a thread is joined exactly if it has one of the slots that the call in progress went through. A growing call that fails leaves slots empty below `size`, so that the hypothesis is needed. |
| `WorkersCounted` | `Balanced`, with `JoinInv` and `OnePlace`: workers that have not ended are as many as will remain plus the pills that are queued or swallowed. How many will remain depends on the phase: the loop index while threads are started, the old size less the pills sent while they are sent, the requested size while the call settles; a worker that ends takes exactly one pill with it. It is for programs in which no call fails and a finish waits. They are `Waiting` if every call waits, and otherwise `Counting`, where no resize discards the queue. The hypotheses are needed: after a failed malloc or thread creation the field is wrong, a discard drops pills of an earlier call, and a pool that grows after finish(no_wait) has workers that nobody counts. |
| `WaitingOutlivesUsers`, `WaitingDrains` | `WaitInv`, with the two above, for programs that are `Waiting` and grow and shrink to any size before they finish. Every worker that was not joined has a handle in use: a shrinking call forgets handles only when it joined their threads. Then the workers left are at most as many as the handles left, so that by `Balanced` no pill is under way when the call returns, and none when a finish begins; who still has to signal is a worker in a task, which is joined later, or a producer, of which there is none once finish began; and after the shutdown request a task in the queue has a worker left, because a worker leaves only an empty queue. `WaitingDrains` needs `0 \notin NewSizes`: a pool of no workers accepts tasks that nobody takes. |
| `CallerDestroysLast`, `CallerDestroysDrained` | the other way to end a pool: no call waits, and the program calls destroy when the workers have left, as thread-pool.h:58 requires. The first, `OwnDestroy`, is for any calls and failures: destroy decides in one critical section and destroys after it; between the two nobody can begin to use a pool that is shut down and has no thread, because producers keep to the contract (thread-pool.h:51, 62) and only the same caller makes threads. The second, with `StaffLeft`, is for programs whose calls are finishes: a queue that is not empty has a worker that has not ended, since no worker gets a pill and none leaves before the queue is empty. It is false where such a program grows a pool that it finished ("What was found"). |
| `TouchGivesResult`, `TouchGivesOwnership`, `DeinitWaitsForAll` | `IInv` of `FuturesProofs`. The properties are not inductive: they need where an object is (queued, with one worker, with its user), what its fields hold there, that workers end only when nothing is or will be queued, and that an inner object has an outer function in progress. |
| `FuturesUseService` | from `IInv`, step by step, with its part `ReturningOK`: before the first early reuse the object of a worker that has still to return is not queued, not about to be, and no other worker's. |
| `EveryEntryFound`, `RemoveGoesRoundOnce`, `SetFinds` | `TableInv` of `TableProofs`, with distances on the circle of slots. No key is stored twice, and every slot between the home of an entry and the entry is full. While entries are moved back, the hole is such a slot for nobody: entries it passed over have their home behind it, and everything from the hole to the index is full. While remove searches, the slots it visited are full, are as many as the rounds it counted, and do not have the key. get chooses the least number of steps, which is there because the order of the numbers is well founded. |
| `TableIsDictionary`, `SetIsDictionary` | `DictInv`: also, full slots have values. A key's value in the dictionary is that of the one entry with the key, so a step that moves entries with their values is a stutter; the step that finds the key deletes it. Refusals are right because the keys stored are as many as the slots that are full, by a bijection. |
| `ArrayTyped`, `AdditionsStayInside` | `RoomInv`: the types, `used + room <= size` while there is a block, and no room without one. Growth by ensure gives what was asked for because twice the size is added to it; a cut cuts the room. |
| `ZeroedMemoryClean` | with `RoomInv`, if `SwapAny` is FALSE: what growth adds is blank, and additions store values. |
| `NoElementLost` | with `RoomInv`, if `SwapAny` and `ResizeToZero` are FALSE: the additions stay inside, so that each is really stored. |
| `RegisteredHandledOnce` | `MemoryInv`: the property with the types, and that the fixed register always has its block. An address that is added is the program's, so it is not in the register yet. |
| `OneCanBeReliedOn` | `FilesInv`: the tree contains what is above each of its directories; a call that is about to make one knows that the one above is there, and that errno is still that of its access, so that the short circuit on EEXIST is never taken. |
| `ExactWithoutRace` | `RaceInv`: what a call makes lies above what it makes next, and what it missed and finds at mkdir has a maker since, so that a call that nobody overtook meets no directory at mkdir; its result is then that of the last mkdir or access. |
| `ForwardIsComplete` | `ForwardInv` of `SplineProofs`, for `Discipline = "all"`. The segments of a path follow one another without gaps, so that the first one that reaches past a position covers it. Segments before the cursor of a copy end before the last range of that copy does; those before the cursor of a nested path end before the last ranges of all copies, for the copies share it: from then on a range that begins where they ended has all its segments ahead. That the segments of `Prepared` start where the previous one ends is read off its recursion one step at a time; `ShapesAssumption` says the same of paths that are nested. |
| `NodesOwnedOnce` | `SlistInv`, if `AppendAnywhere` is FALSE: there is a sequence of nodes for each head that the links follow to the end, no node is in two of them or twice in one, and the allocated nodes are those. A path along the links that long is all that can be reached, since a list without repetitions is not longer than the set of nodes. |
| `ListMirrored` | `DlistInv`, if `UnlinkTwice` is FALSE: the property with the types, and that no node is in `order` twice. Each of reverse, unlink of the first, an inner and the last node is compared with what it does to `order`. |
| `ValidateIsExact` | For lists of at least two nodes (list.h:89 reports every shorter one). `ReportInv`: what the last report said is exact for the links as they are. If no place is wrong, the nodes reached have distinct predecessors, so that the list ends and no node comes twice; the converse is by the positions. It holds for programs that unlink twice, too. |
| `PathsAreComplete` | the loop over the input, round by round: what was stored up to a position are the pieces up to there, in order, and `start` is behind the last delimiter. |
| `OptionsAreParsed` | `OptionsInv`: the index is never at a value, and what was found before it is what the property asks for. Whether an argument is a value depends on how many options with a value stand directly before it, which one more of them turns around. |
| `BoundedIsUniform` | the draws that are taken and give v are those whose product with the bound lies between v words plus the threshold and v + 1 words; since the threshold is the rest of a word divided by the bound, these are as many for each v. |
| `QuicksortSorts` | `QuicksortInv`: the parts that are still to be sorted follow one another, and two elements are in order unless both are in one such part. In the part in progress nothing before `l` is larger and nothing behind `r` smaller than the pivot element, which the index still points to; the loops stop because that is true of the pivot in the first round and of the last swap in the others. A swap is a bijection of places. |
| `CurvesAreFilled` | For quadratic curves, and cubic ones sampled from the start of their segment. `CurveInv`: what is written is inside of the range, the parameter is on the curve and `reached` is the x of the round before. If the range begins where the segment does, every position up to `reached` is written: a sample that is further on fills what lies between, one that is further back leaves it. The last parameter gives the last x, so that the loop ends behind the range. On a quadratic curve two samples differ by one position at most, because x changes by less than one between them, and a sample is never ahead of its parameter, which makes the first sample fall on or before the start: every position gets a sample and nothing is filled. |
| `TablesAreReady` | For requests whose rounded size a word holds; of larger ones only the blocks are shown. `TableSizeInvariant` has the blocks; the size is arithmetic. A number has a highest bit; shifted by 1, 2, 4 and so on up to half a word, it reaches all bits below, since what is filled doubles each time. All bits up to one and 1 are the power of two above, which a word can hold unless the highest bit was the last one. The mask is that power less 1, so that it has the bits of every slot. |
| `StringsAreExact` | If `SlashAny` and `JoinNone` are FALSE: the property with the type of `text`. A block is what was written so far and an unset rest as long as what is yet to come: joining fills it string by string, and the count of the first loop is the length of the result plus the terminator. Digits are written from behind: dividing the number of a decimal string by ten drops its last digit, so both loops of the printing make as many rounds as there are digits. |

The hypotheses `SwapAny`, `ResizeToZero`, `AppendAnywhere`, `UnlinkTwice`,
`SlashAny` and `JoinNone` are about the calling program, not the library: with them TLC shows what is
listed above.

Recursion in these three is by recursive functions, and what such a function
gives is proved from its domain: the set of the numbers for which it holds
contains 0 and with each number the next (`UpFromZero`), and a function that
follows the recursion exists (`RecursionExists`). Both rest on the least number
of a set, since the library's theorems on induction take operators.

Only model-checked: everything about liveness (`AcceptedRuns`, `CallReturns`,
`ShrinkTakesEffect`, `TouchEnds`, `DeinitEnds`), since reasoning about fairness is
out of the prover's reach; `NoUseAfterDestroy`
for programs that mix calls that wait with calls that do not or whose waiting calls fail, and `Drained`
for those and for programs that shrink or grow without waiting. Every other invariant
that a passing run checks is stated by a theorem.

## Plan

In this order, the most important first; the first eight are done.

1. `Queue` with `Fifo`; proofs.
2. `ThreadPool` with `TaskService`; proofs of the properties of every use.
3. `Futures`; proofs of its safety.
4. `HashTable`, `SetTable` with `Dictionary`; proofs; `TableSize`.
5. `SplinePath` with proofs; `Bezier`.
6. `Array`, `Memory`, `List` with proofs.
7. `Filesystem`, `CommandLine` with proofs.
8. `Random`, `Quicksort`, `Bezier`, `TableSize`, `Strings` with proofs.
9. Spline paths once more: ownership of nested paths (`segments_get`, `free`),
   segments that are prepared twice, and the y values that fill a gap.
10. Theorems: what of `Drained` holds for programs that shrink without waiting
    and finish later.

## Not modelled

- `ikv.c`: text parsing, marked experimental by its authors and left out of
  their tests; its storage is `HashTable`. (Its line 153 writes a terminator
  before the start of an empty buffer.)
- The arithmetic of generators, floating point sums, the random generators and
  murmur3: no control, and 64 bit or floating point data.
- The functions of `string.h` and `list.h` that only print, macros, type names
  and test helpers.
- A failing `sph_future_init`: the pool is then in use by nobody but the
  threads that new has created, and the program has no call that waits for
  them.
- `segments_get` and the freeing of nested spline paths (see the plan).
- Weak memory: `finished` is written with release and read with acquire, under
  which the interleavings of the model are all there are; every other shared
  field is used under the mutex, except for the reads of `a->size` in resize,
  which only the control logic writes.
