# A TLA+ model of deconz-lib

deconz-lib is the library under the deCONZ Zigbee gateway: data types of the
Zigbee layers (APS, ZCL, ZDP, nodes, Green Power), and a small C runtime for
actors, timers, files, strings, sockets and downloads. This directory holds
TLA+ modules for the parts that keep state or carry frames, TLC configurations
that check them on small instances, and theorems that TLAPS proves for every
instance.

Check a run with `tlc -config <file>.cfg <module>`, a proof with
`tlapm <module>.tla`. `PROJECT.json` lists the runs, the mutants that show that
each property can fail, the source lines behind every definition, the findings,
the hazards and the theorems.

## 1. Inventory

### Components, their state and operations

| Component | State | Operations | Interacts with | Correct when |
|---|---|---|---|---|
| Timers, `u_timer.c` | active list ordered by trigger time, free list, clock | start, stop (messages from any thread), tick, init, destroy | actor framework (messages), main loop (tick), every actor with a timeout | timers fire in order, not early, as often as asked; no block is linked twice; nothing overdue starves |
| Downloader, `n_downloader.c` | queue, done list, one socket, state of the service | `N_Download` (any thread), worker loop, `N_DownloadStep`, init, shutdown | TLS and TCP sockets, threads, callbacks of the callers | order of acceptance, exactly one report, success means a complete answer, shutdown returns |
| Buffer pool, `buffer_pool.c` | frames with page and flags, clock cursor, page count | init, load, mark dirty, alloc, truncate, flush, destroy | files | the cache is invisible; a flush saves all; a load ends |
| Atom table, `atom_table.c` | hash table with open addressing | init, add, find, destroy | strings, actor names | what was added is found, in the same slot for ever |
| Strings, `ustring.cpp`, `nanbox.c` | one boxed word, a heap block | constructors, assignments, `c_str`, `size`, `==` | atom table | strings are values; one owner per block |
| Green Power, `green_power*.cpp` | ring of the last frames | direct frame, proxy notification | coordinator, proxies, plugins (signal) | the first copy of every frame is forwarded, repeats are not |
| ZCL, `zcl.cpp`, `mem_pool.h` | data base of types, clusters and devices read from XML; pool of attribute objects | load, query, construct, copy, move, assign, set, write, read | APS, plugins, files | entries as the files have them; attributes are values; reading undoes writing, a cut frame is no value |
| TLS sockets, `n_ssl*.c`, `n_tcp_*.c`, `n_proxy.cpp` | descriptor, OpenSSL objects and memory BIOs, flags, key and certificate files | init, connect through a proxy or not, accept, handshake, read, write, close | OpenSSL, the system; downloader | octets arrive in order and once; nothing leaks; nobody waits for what is there |
| Binding table, `binding_table.cpp` | list of bindings with time stamps | add, remove, confirm, read, clear old ones | read-out of a node's table, APS | no duplicate; what was confirmed survives the clean-up, what is gone does not |
| Source routes, `node.cpp` | routes with hops, state and counters | add, update, remove, count errors and successes, update a hop | controller, GUI | a route is known once; it sleeps exactly while failures outweigh |
| Endpoints and descriptors, `node.cpp`, `zdp_descriptors.cpp` | sorted lists, what is still to be fetched | set endpoints, set descriptor, take from a response | controller, ZCL | no duplicates; data that was learned survives a new descriptor |
| APS, `aps.cpp`, `mem_pool.h` | request objects in a pool, ASDU buffers | construct, copy, set, write, read | controller, ZCL | reading undoes writing, also into used objects and for cut frames |
| Touchlink | records | read, write | APS | reading undoes writing |
| Files, `file_*.c` | descriptor or FILE | open, seek, read, write, truncate | buffer pool | as the system's files |
| Streams, `u_sstream*.c`, `u_bstream.c` | cursor and status | put and get | everywhere | never past the end, errors stick |
| Arena and memory, `u_arena.c`, `u_memory.c` | bump pointer | alloc, free | everywhere | aligned, disjoint |
| Virtual file system, `am_vfs.c`, `doc/actor_model_vfs.md` | none | build and parse messages | actors | - |
| Crypto, random, library loading, Qt glue, device enumerator | none of interest | - | - | - |

### How they interact

The main loop of the application calls `U_TimerTick` and `N_DownloadStep`.
Actors send messages through the actor framework, which lives in another
repository; `u_timer.c` is an actor of it. The downloader has a thread of its
own, a mutex around its two lists, and calls its users back on the main thread;
its socket is a TLS socket over a non-blocking TCP socket. The buffer pool calls
the file functions and belongs to one thread, as do the atom table and the
strings. The Zigbee classes are called from one Qt thread and answer by signals:
frames come in as APS indications, hold ZCL frames or ZDP responses, and change
a node's bindings, routes and descriptors.

### What is hard

- *Threads*: the downloader checks its state before it takes the mutex; entries
  wander between caller, worker, main thread and heap; the shutdown joins a
  worker that may be doing anything, and keeps half-done work for a restart.
- *Order*: messages to the timer actor are handled later than sent, also after a
  restart; ticks come late and irregularly; Green Power copies arrive interleaved;
  a node's bindings change while they are read out.
- *Failure*: any network or file operation and any allocation may fail; replies
  and frames arrive in pieces and break off; a failed call in the middle of a
  handshake has four things to give back.
- *Two layers that both hold data*: octets wait in the socket, in OpenSSL's BIOs
  and in the SSL object; `N_SslCanRead` must know of all three.
- *Long sequences*: intrusive lists, flags of page frames, boxed words, probe
  paths, recycled private objects and the reader's reused `cur...` objects are
  harmless for a call and go wrong after many.
- *Bounds*: counters that wrap or saturate (download handles, Green Power
  records, errors of a route), full tables and pools, rings that forget, widths of
  24, 40, 48 and 56 bits for which C++ has no type.

`PROJECT.json` names each of these at its line, under `hazards`.

## 2. Modules

| Module | What it is |
|---|---|
| `TimerService` | abstract: the requests on their way, a clock and a set of pending timers |
| `UTimer` | `u_timer.c`; implements `TimerService` |
| `DownloadService` | abstract: a queue and a set of results |
| `NDownloader` | `n_downloader.c`; implements `DownloadService` |
| `PageStore` | abstract: pages that hold what was written last, and a file that lags |
| `BufferPool` | `buffer_pool.c` and the file operations it uses; implements `PageStore` |
| `AtomTable` | `atom_table.c` |
| `StringValues` | abstract: strings are values |
| `UString` | `ustring.cpp` over `AtomTable` (EXTENDS it, its actions use the table's); implements `StringValues` |
| `FrameWindow` | abstract: a window over the last new frames |
| `GreenPower` | decoder and filter of Green Power frames; implements `FrameWindow` |
| `Octets` | numbers as octets, and Qt's `QDataStream` (external) as the library uses it |
| `ZclAttribute` | `ZclAttribute`: setting, writing, reading, type by type |
| `ZclFrame` | `ZclFrame` and `ZclCommand`: headers, parameters |
| `ZclDataBase` | the XML reader of `ZclDataBase` and the queries |
| `MemPool` | `mem_pool.h` |
| `ObjectValues` | abstract: objects of a class are values |
| `Zcl` | the three above with attribute objects that take their insides from `MemPool`; implements `ObjectValues` |
| `ByteStream` | abstract: two ends, octets once and in order |
| `TcpSocket` | `n_tcp_unix.c`, and the system's TCP (external) |
| `TlsEngine` | OpenSSL's SSL object between two memory BIOs (external) |
| `TlsSocket` | `n_ssl.c`, `n_ssl_openssl.c`, the tunnel through a proxy; both ends of a connection over `TcpSocket` and `TlsEngine`; implements `ByteStream` |
| `Address`, `ApsFrames` | `aps.cpp`: addresses, requests, confirms, indications |
| `ZdpDescriptors` | `zdp_descriptors.cpp`: node, power and simple descriptors |
| `Bindings` | `binding_table.cpp` with a node whose table is read out |
| `Routes` | source routes of `node.cpp` |
| `Descriptors` | endpoints and simple descriptors of `node.cpp` |
| `Frames` | primitives and descriptors on their way through a stream |
| `Node` | the last four together |
| `UTimerProofs`, `NDownloaderProofs`, `BufferPoolProofs`, `UStringProofs` (with the atom table), `GreenPowerProofs`, `ZclProofs`, `TlsSocketProofs`, `NodeProofs` | the proofs about the component of that name |
| `MC...` | the small instances for TLC |

### UTimer

`active` and `free` are the two linked lists, as sequences of memory blocks,
`tmr` is the content of each block and `mailbox` the actor's message queue.
`U_TimerStart` and `U_TimerStop` append a message, which is the request the abstract
service sees. `U_Timers_MessageCallback`
dispatches one: a start takes a block from the free list or the heap, fills it
and inserts it in front of the first timer that is not earlier; a stop moves the
first timer with the key to the free list. `U_TimerTick(diff)` advances the clock
if diff is positive and expires the head if it is due. `U_TimerDestroy` empties
both lists, `U_TimerInit` resets the clock; messages outlive both. Blocks of the
heap are interchangeable, so the model always takes the same free one.

Three fields of a block are history for the property `AllOnSchedule`: what the
start asked for, when, and how often the timer expired since.

### NDownloader

One action is what a thread does with the mutex held, or one step of the worker
for the head of the queue (`ndl_connect`, `ndl_ssl_handshake`,
`ndl_send_request`, `ndl_read_response`, `Retire`). What happens without the
mutex is a step of its own: the check at the beginning of `N_Download` and the
callback in `N_DownloadStep`. Each network call has all its outcomes as
disjuncts. A reply is the length of its header, its Content-Length, what is sent
and the HTTP status; a read takes any number of units. The model follows the
release build, where `U_ASSERT` is empty. Thread, mutex and socket functions are
other files' and appear by their effect.

### BufferPool

`slot` and `frame` are the two arrays, `cursor` the clock hand, `file` the octets of
the file and `length` the number of its complete pages. `BP_LoadPage` jumps back to
`again` after it has written a dirty page, so it is an action for the lookup and one
for each sweep. Every file operation may fail, and a read or a write may stop after
any number of octets: `Overwritten` is what it leaves. What a write that was cut
short has put into the file is seen after the pool was closed, not before: the
abstract `PageStore` allows the first octets of the new content with the rest of the
old, and nothing else. Such a page also lies behind the last complete one, where
`BP_AllocPage` takes it for its new page. `held` is the pointer the client got last.

`fwrite` of a page goes past stdio's buffer, which is not larger, so the model keeps
nothing back in it; that `fclose` or `fflush` fails is not modelled.

### AtomTable and UString

A slot of the table holds a string or is empty; the hash is a constant, any
function. A string object holds a word: null, an owned block, an atom's index,
or a plain number, which two operations leave there (see Findings). `malloc` may
fail at every allocation.

### GreenPower

A frame is the set of fields that decide how it is decoded. Each frame has a
number of copies that arrive in any order by either entry point. `forwarded` and
`age` are history: how often a frame was forwarded, and how many new frames have
come since it was new.

### ZCL

`ZclDataBase` reads documents as the sequence of elements Qt's XML reader
returns; a broken-off document ends early. The reader keeps a stack of sections
and reuses one object each for the cluster, the command and the set it is in, and
so does the model: a step is an element. Text is abstracted: a name is a member
of a small set, a number in XML is its value or bad, lower case is a constant
function. `ZclAttribute` has the value as the octets of the 64 bit union, beside
it the bit map and text it also keeps, and operators named as the member functions
for setting, writing and reading each family of types; uninitialised octets are the
constant `Junk`. When everything is loaded, `Zcl` lets objects of one data type be
constructed, copied, moved, assigned, set and destroyed. An object is a pointer to
a private item, which comes from `MemPool` or the heap and keeps its content when
it goes back.

### TlsSocket

A socket is its descriptor, the three flags and the SSL object; the connection
is what is on its way to each end. A step is one call, or one round of the loop
in `N_SslHandshake` and `N_SslWrite`, because the other end runs meanwhile. The
client's caller behaves like the downloader; the server's accepts one connection.
In `TlsEngine` a message is a header cell with its length and that many cells
more, so that TCP can cut it at every place; a handshake is a hello, a flight
larger than the buffer, a finish and a ticket, and each may be refused.

These calls may fail or find nothing: making, connecting, binding, reading and
writing a socket, `SSL_CTX_new` of the server, `SSL_new`, `SSL_do_handshake`,
`SSL_write`, `SSL_shutdown`, making a certificate, and writing and loading its two
files, of which one may be missing or half written. The connection may break at any
time. Not modelled: failures of `SSL_CTX_new` of a client and of the memory BIOs
(`BIO_new`, `BIO_write`), which allocate and which the code guards with
`U_ASSERT` or not at all; and the moment between `listen` and the loading of the
files, when a server that will fail still takes connections.

`live` counts the descriptors, SSL objects and server contexts that exist. Each call
adds what `socket`, `accept`, `SSL_new` and `SSL_CTX_new` gave it and subtracts what
it closed and freed (`Freed`, `Left`, `N_TcpWrite`), one by one: a second close of the same
descriptor counts too. It is kept apart from the sockets' fields, so that a lost or
repeated release shows. `taken`, `given` and `told` are history.

### Node

`Bindings`, `Routes`, `Descriptors` and `Frames` are instances in `Node`. The
parts share no state, so a behaviour chooses one of them at its start and leaves
the others alone: the state spaces add up instead of multiplying.

- `Bindings`: the node's own table (`device`) changes by bind and unbind commands
  of this host and by other hosts. A read-out notes its start, reports the
  entries one by one - each entry goes through the stream, whole or cut - and ends
  with `clearOldBindings`. The clock ticks at any time. `since` is history: what
  was confirmed since the read-out began.
- `Routes`: a route is built from hops that the constructor takes as they are and
  hops that `addHop` checks; routes are copied, changed (a success, a failure, a new
  address of a hop, saved) and put back, as the callers do with this value class.
  `given` is history: the number of hops that the constructor got, which may repeat
  and be more than `MaxHops`.
- `Descriptors`: endpoints and simple descriptors are set in any order and any
  number of times, and reset; in between a caller writes what it learned about a
  cluster through the pointer it got. `learned` is history: the clusters with
  such data.
- `Frames`: objects are written to a stream, cut or not, and read into new or used
  objects. An indication is copied; the object may receive other frames, and the
  copy is forwarded. Its asdu is a view of a buffer: the copy's own, as long as
  copying sets it so. `kept` is history: what had been sent to the object.

## 3. Runs

| Run | Instance | Shows |
|---|---|---|
| `utimer` | 3 blocks, 2 keys, 3 requests (repeating, one-shot, infinite with period 0), ticks of -1, 0, 1, 2, clock up to 2, 2 lives | types; no block linked twice; no timer ahead of or behind its schedule; refinement; no starvation |
| `ndownloader` | 1 client, 2 entries, https/http/unknown scheme, a reply that fits and one that is a 404, 2 lives | types; no entry and no socket lost or shared; success means complete; refinement; the queue moves; all is reported; shutdown returns |
| `ndownloader_silent` | the same | finding |
| `bufferpool` | 2 frames, 3 pages of 2 octets, one content that clients write | one frame per page; refinement; a flush saves a page or leaves it dirty; loads end; a failed load has made room |
| `ustring` | 3 objects, 2 blocks, 3 slots, 3 strings of which two collide in the last slot | atoms found and stable; blocks owned once; equality; refinement |
| `ustring_empty` | the same | finding |
| `greenpower` | 6 frames with 2 copies, ring of 2, counter range 4 | first copy forwarded; repeats only after the ring went round; refinement |
| `zcl` | 4 lists of files, 20 and more data types, pool of 1, 3 items, 2 objects, 1 frame | section stack and entries of the loader; reading undoes writing for attributes, commands and reportable changes; attributes are values |
| `zcl_int24`, `zcl_sets` | the same | findings |
| `tls` | 1 connection, 3 octets one way and 1 the other, chunks of 2, TCP of 4 cells, buffers of 2 and 4, reads of 1 and 2, proxy with 3 answers or none, 2 starts of the server | what was made and not given back is what the sockets know of, after every failure; a cleared socket is clear; a server has a key that fits; octets in order and once with a true end; nobody waits for what is there |
| `nodes` | 3 bindings, 2 cleared at once, clock of 3; 2 routes of 2 orders, counters up to 3; 2 endpoints with clusters 1 to 3; frames in every address mode, 2 per object | tables without duplicates, routes that sleep as counted; learned data kept; reading undoes writing, copies stay; the read-out is exact |

The bounds, and why they are enough:

- *Timers.* Three blocks are the least with which a block can be taken from the
  free list while two more are active, so insertion at the front, in the middle
  and at the end, and removal in the middle, occur. A clock of 2 with a jump of 2
  has late ticks that skip a period. One message may be under way: messages are
  handled in order, and more of them add interleavings with ticks only. Two lives
  let a message meet the next one. `ExpiryCap` bounds a history count.
- *Downloader.* Two entries are needed for order, and for a head with something
  behind it. The larger reply takes up to three reads. `MaxHandle` stands for
  `INT_MAX`; with 1 the counter wraps after every handle. Two lives let a
  download that was interrupted go on.
- *Buffer pool.* One page more than frames forces eviction; a second frame makes
  the clock's order matter. Pages start as zero, so one written content tells updates
  from losses, and two octets tell a page written in part from both.
- *Strings.* Three objects: two that share and one to assign from. Three slots
  are filled completely, with a collision whose probe goes past the end and is
  placed at the beginning.
- *Green Power.* More distinct frames than records, so that the ring forgets; a
  counter that wraps after two rounds.
- *ZCL.* The general file has clusters with and without a manufacturer, sets,
  commands with and without parameters, and elements without a required XML
  attribute; the update renames and repeats entries in another spelling; one
  document ends in the middle of an element; each order of loading is taken. Each
  family of data types appears with a width that has a C++ integer and one that
  has none, with values at the borders of the width. Two objects and a pool of one
  suffice for an item that comes back from the pool, one that comes from the heap
  and one that is deleted; both objects are used with one of the lists of files.
  Items are symmetric. `MaxText` stands for the 120 octets that a text may have;
  one that is longer by an octet is tried.
- *TLS.* A write of three octets takes two chunks; a sealed chunk has three cells
  and TCP holds four, so a chunk is cut; the flight is larger than the
  handshake's buffer, so that it needs a second round; the read of one octet leaves
  one in the SSL object.
- *Nodes.* Three bindings, two of one kind that differ in the cluster and one to
  a group, with a limit of two for the clean-up, reach the limit and stay below it.
  A path has a node twice and more nodes than a route may have, all given to the
  constructor or all added. The clock lets a confirmation fall on the start of the read-out, before and after it. Counters go
  up to saturation, past every threshold: a route fails, sleeps, wakes, recovers and
  is saved. Frames take each address mode and each of
  the three versions of an indication, cut at each octet.

Deadlock is not checked where the system may stop: the downloader when it is shut
down for good, Green Power when all copies have arrived, the TLS connection when
both ends have closed, and the frames of `nodes` when the last has been read.

### Fairness

- `UTimer`: weak fairness of `Tick`. The main loop calls `U_TimerTick` for ever;
  nothing is assumed about the time that passes between calls, since the starving
  timers are those whose time has come.
- `NDownloader`: weak fairness of each loop: the worker's iteration, its exit, the
  return of the join, the main loop's `N_DownloadStep` and the return of a
  callback. The worker's iteration includes answers of the network; since there
  are no timeouts in the code, progress rests on servers that answer or close at
  last.
- `BufferPool`: weak fairness of a sweep whose file operations succeed, a call
  that has begun being carried on.
- `TlsSocket`: weak fairness of accept, of a handshake and a write that have begun,
  of polling for data (`Read`, the downloader's loop), and of closing what has
  ended or failed, which the downloader does. Nobody needs to write, or to close
  before the end.
- The other modules have safety properties only; none of their operations waits.

### Findings

Each is a run in which TLC finds the violation of what a comment, header or
assertion says.

1. `ndownloader_silent` (`n_downloader.c:273`): a server that closes without an
   answer reaches `U_ASSERT(entry->bufpos != 0)` with 0; the release build
   reports success with no data.
2. `ustring_empty` (`ustring.cpp:160`, `:173`): a moved-from string, or one
   assigned from an empty one, holds a number instead of null, and `c_str`, "always
   safe", traps in GCC builds.
3. `zcl_int24` (`zcl.cpp:553`): signed integers of 24, 40, 48 and 56 bits are
   streamed as one `int` for each octet, so a `Zcl24BitInt` takes twelve octets,
   against "Writes the attribute in the specifications format".
4. `zcl_sets` (`zcl.cpp:4232`): `inCluster` and `outCluster` drop the attributes of
   other manufacturers from the list but leave the sets' indexes, which then point
   elsewhere, against "a list of indexes into ZclCluster::attributes() list".

More was met while modelling and has no run of its own. The models behave as the
code does in each of these, unless said otherwise.

- *Downloader*: the end of a header in the last four octets received is not seen,
  so a 404 without a body is a size mismatch and not `N_DownloadErrorNotFound`
  (`n_downloader.c:234`); `U_ASSERT(entry->state = ...)` at `:138` is an assignment.
- *Atoms*: `NUL` in slot 0 is not found by probing and can be stored a second time
  (`atom_table.c:121`), against "the atom will only be added once".
- *Green Power*: frames without a counter look alike, so the second press of a
  button is dropped as a copy of the first (`green_power_controller.cpp:46`); the
  exception for commissioning notifications compares the wrong command number
  (`:131`); a direct copy that the proxy test ignores is recorded, so the proxied
  one is dropped (`:97`).
- *ZCL*: profiles keep the copy of a domain they were loaded with; an end element
  outside its place pops an empty stack (`DocumentsAssumption` keeps to documents
  without one); the reportable change of the
  odd widths beyond 24 bits shifts an `int` by 32 and more; texts of 121 to 255 octets
  are written and not read; `BACNetOId` is written and not read; `readCommand`
  ignores the manufacturer code; setting with the wrong signedness zeroes the number
  and keeps the value for display.
- *TLS*: `N_SslRead` without a previous `N_SslCanRead` may return 0, which is the
  end; a key file without its certificate, or of another, is taken for existing
  for ever; after a failed write `N_SslCanRead` returns 0 for ever; the context of
  each client connection is never freed (`n_ssl_openssl.c:378`), and neither are the
  two BIOs when `SSL_new` gives nothing (`:390`, `:551`); `live` counts neither.
- *Nodes*: "If a source route with the same order or uuid exists, it will be replaced"
  (`node.h:203`, `:211`), but only the uuids' hashes are compared (`node.cpp:272`), so a
  node keeps two routes of one order, and the run `nodes` has such states;
  `addSourceRoute` ignores a route that differs only in its order and
  returns 2, which the header does not name; `updateSourceRoute` takes a route
  without hops; the constructor of a route takes hops without limit, and with more than
  nine `isOperational` would read behind `m_hopLqi` when all nine have a quality
  (`node.cpp:406`); `updateHopAddress` changes the first of equal hops only; `setSimpleDescriptor` takes descriptors with equal counts for the
  same; entries confirmed in the millisecond in which a read-out starts survive it.
- *APS and ZDP*: request version 2 is written with flags that the reader does not
  expect; `setAsdu` is ignored by copies and by `writeToStream`, which use the own
  buffer (`aps.cpp:762`, `:1168`); an indication with more octets than its buffer has
  refers to what lies behind it (the model's sizes stay within the buffer);
  reading a simple descriptor into a used object appends its clusters; the readers
  of requests and indications do not say that a frame was cut.

## 4. Proofs

| Theorem | For every | Argument |
|---|---|---|
| `UTimerProofs!TypeCorrect`, `OrderHolds`, `NoBlockLinkedTwice`, `ScheduleHolds` | set of keys, blocks, requests and tick differences, and all bounds | invariant `TimerInv` |
| `UTimerProofs!TimersAsPromised` | the same | refinement of `TimerService` |
| `NDownloaderProofs!TypeCorrect`, `EntriesAndSocketKept`, `SuccessIsComplete` | set of threads, entries, requests and replies | invariant `DlInv` |
| `NDownloaderProofs!DownloadsInOrder` | the same | refinement of `DownloadService` |
| `BufferPoolProofs!TypeCorrect`, `OneFrameForEachPage`, `FlushIsComplete` | number of frames, pages and octets of a page, and what clients write | invariant `PoolInv` |
| `BufferPoolProofs!CacheIsInvisible` | the same | refinement of `PageStore` |
| `UStringProofs!AddedStaysFound`, `IndicesAreStable` | set of strings, hash function, table size | the type and `AddedIsFound` are inductive together |
| `UStringProofs!StringsKeepTable`, `AtomsBesideStrings` | the same and all objects and blocks | every step of `UString` is a step of the table or leaves it, so `AtomsStay` holds of both together |
| `UStringProofs!TypeCorrect`, `BlocksHaveOneOwner`, `EqualityIsOfContent` | set of objects, blocks and strings, hash function, table size | invariant `StringInv` |
| `UStringProofs!StringsBehaveAsValues` | the same | refinement of `StringValues` |
| `GreenPowerProofs!TypeCorrect`, `RingIsWindow`, `OnlyOldRepeats`, `NoFrameIsLost` | set of frames, ring length, counter range | refinement; invariants `AgeIsPlace` and `UnseenIsUnknown` |
| `ZclProofs!TypeCorrect` | set of objects, items, documents, types and values, pool size | invariant `IInv` |
| `ZclProofs!AttributesAreValuesAlways` | the same | refinement of `ObjectValues` |
| `ZclProofs!AttributesReadBackAlways` | the same, and junk in the reader's buffer | lemma `RoundTrip` for each family of types; invariant `RInv` beside `IInv` |
| `ZclProofs!SectionIsPlaceAlways` | set of lists of documents | invariant `InPlace` beside `IInv` |
| `TlsSocketProofs!NothingIsLeftBehind`, `ServerHasItsKey` | buffer sizes, chunk, read lengths, number of connections and starts | invariant `TlsInv` |
| `TlsSocketProofs!OctetsArriveInOrder` | the same, and every way TCP cuts what is sent | refinement of `ByteStream`; invariant `StreamInv` |
| `NodeProofs!NodeTypeCorrect`, `DataSurvives`, `ReadOutExact` | set of bindings, addresses, paths, endpoints and lists of clusters, and all limits | invariant `IInv`, one part for each of the three lists |
| `NodeProofs!ReportRead` | binding that the constructors make | the octets of its entry, place by place |

*Timers.* None of the properties is inductive alone. The order is kept when
a block's content changes only if that block is not in the list, which is
`BlocksLinkedOnce`; that in turn needs the free list to be disjoint from the
active one; the schedule of a re-armed timer needs the head to be due and the
type of its fields. `TimerInv` is their conjunction with `EmptyWhenUnplugged`,
that both lists are empty while the actor is stopped. There is one lemma per
action, over lemmas on the list operations (what insertion and
removal do to length, order and membership) and one arithmetic lemma: an expiry
moves the earliest allowed trigger time by one period. In the refinement the
abstract set of pending timers is that of the blocks in the list. By the order the head
is an earliest timer, so a tick that expires it is an expiry of the abstract
service and a tick that does not finds nothing due. A dispatched message is the
service of the oldest request: a start arms a timer with its parameters, and the
first block of the list with the key of a stop is a pending timer of that key, or
there is none. Destroy and init are the abstract shutdown and restart.

*Downloader.* `DlInv` is `TypeOK`, `NothingLostOrShared`, that handles stay below
the maximum, and that every allocated entry is `Sound`: received octets and
status fit the state it is in. An allocated entry is in
exactly one of the queue, the done list and the callback that reports it, and each
step moves one entry from one of them to the next; success is complete because an entry becomes done only when
what was received is the header and the announced length. The refinement adds
that the main thread takes an entry off the done list before it reports it.

*Buffer pool.* A load that finds no frame sweeps, perhaps many times, and in
between the pool must still be one the lookup would have found nothing in.
`PoolInv` is `TypeOK`, `LoadedOnce` (no page has two frames), `DirtyIsLoaded`,
`HeldIsLoaded` (the client's pointer shows the page it asked for),
`AwaitedIsMissing` (the page a load waits for has no frame) and `ClosedIsIdle`. The
refinement maps a page to its frame if it has one and to the file otherwise; an
eviction keeps both equal because the frame was clean or has just been written. A
page that was written in part stays dirty, so what the file has of it is not visible.

*Atom table.* The lemma behind both theorems is `FoundStays`: an atom put in a
free slot takes no other string off its path of probes, since a path that leads
to its string does not cross a free slot. `AddedIsFound` leaves out slot 0, which
`AT_Init` fills without probing.

*Strings.* `StringInv` is `TypeOK` with `BlocksKept` (a block is allocated exactly
when one object's word refers to it, and then to one only) and `AtomsAreFound` (an
atom's index refers to an occupied slot in which probing finds it). Equal atoms
are equal indices only because of the table's theorem, which the proofs cite.
In the refinement an operation changes the value of its own object and of
the one it moves from; that it changes no other is ownership.

*Green Power.* The refinement is arithmetic: if the counter's range is a multiple
of the ring's length, one record moves each place of the window to the next one,
and the place written is the oldest; the lemmas on remainders come first. For
`OnlyOldRepeats` the strengthening says where in the window a frame lies: at the
place its age says. For `NoFrameIsLost` it says that before the first copy of
a frame has come, nothing in the ring looks like it.

*ZCL.* `IInv` has five parts. `HeapIs` says that every item has one owner, an
object or a slot of the pool, or does not exist, and that what exists is a whole
attribute of the chosen type (`GoodAttr`): without the ownership a new value
could appear in a second object, and without the wholeness of the fields the
constructor could leave one of them to the item's former owner. `LoaderOK` says that the loader
stands at a token and that the data types have lengths, on which writing and
reading rest; `TypeIs` and `NoneYet` that there are objects only of a type that
is tried out, and none before it is chosen; `WireIs` that octets are under way, so that what
is read is octets again. For the number and the bitmap to keep 64 bits, there is
one lemma for each operation that sets a value (`SetUnsigned`, `SetSigned`,
`SetBit`, `SetVariant`) and one for reading (`ReadGood`), each with a case for each
family of types, also for frames that end early and for junk on the stack. In the
refinement an object shows the attribute in its item, or that it is none or was
moved away.

That an attribute is read back as it was written is a fact about two functions first,
without any state. The lemma `RoundTrip` says of a good attribute whose type both
sides treat alike: if it is written, then the octets are read as its value, by any
attribute of the type and with any junk in the buffer, and no shorter beginning of them
is read at all. There is one lemma for each family (`MachineBack` for numbers that
have a machine type, `RawBack` for bitmaps and odd widths, `BoolBack`, `OctetsBack`,
`TextBack`, `KeyBack`), over what the family writes and reads. Two things are needed
that are no part of the type. Enumerations, identifiers of attributes, times and the
like are written without a check of their size, so the number must fit the type
already when it is set: `Neat`, which is a part of `GoodAttr` and is kept by every way to set a
value. And bitmaps and odd widths have the length a file gives them; the code refuses
a length of none and of more than 64, and reads none of more than 8, but one
that is too short would silently cut the number, so `WidthsAssumption` says that the
files give a type of this kind no length below its width. `FrameBack` puts the header of
`ZclFrame` before the octets. `RInv` then carries it through the steps: what is under way is what
some good attribute wrote, whole or cut (`WireTold`), and nothing is under way
before the types are loaded and one is chosen (`Quiet`), so that writer and reader use the
same lengths. `fromUtf8` and `Trimmed` work on octets of any length; the lemma
`Backwards` says that a function that recurs from the end of a sequence to its
beginning exists, as a statement about sets, where induction over an operator
is not to be had.

`SectionIsPlace` compares the stack of `load()` with the document as a tree: the
elements that are open at a token (`Outline`), and the sections that the content of
each element is in (`SectionsIn`), which do not know of pushing, popping and skipping.
`InPlace` adds that each element around the reader that has a section of its own has
begun it; without it an end could pop what no start pushed. The facts
about the tree come first: what was open when an element began is the beginning of what is open
inside it (`OpenNests`), so that it is open again when the element is closed
(`ClosedAgain`), whether it was read or skipped by `CloseOf`. The two recursive
functions exist by the lemma `Forwards`. Then there is one lemma for what the place is
inside, behind and after an element, and one for each group of start and end
elements. `DocumentsAssumption` is what the proof asks of the documents. Tags match: the
XML reader sees to that. And an element that has a section stands where `load()` looks
for it, unless it is inside an incomplete one: `load()` pops at every end
tag of such a name, also where it passed over the start, so that an `<attribute>`
directly in a `<cluster>` would take the cluster's section away. The elements may lack
any of their XML attributes, may be inside unknown ones, and a file may end anywhere.

*TLS.* `Accounted` compares `live` with the flags of the sockets. It is inductive
with `SocketsClear`, `KeysMatch`, the shapes of sockets, callers, counts and connection, and
`WaitsUnowned`: while a connection waits to be accepted, the server's end has no
socket, so that accepting does not overwrite one. `Leaves` says of one call that what it
closed and freed is what its socket lost; one lemma per call says that
every outcome of it does so, over lemmas on what the functions of
`n_tcp_unix.c` do to descriptor and connection. `KeysMatch` holds because a
context takes a key only if it fits its certificate, and the certificate is loaded first;
after the key, a certificate that does not fit would take the key's place.

*The byte stream.* What was handed over and not yet given is spread over four places: the
octets OpenSSL has opened, the cells in the reader's BIO, the cells on their way
and those in the writer's BIO. `StreamInv` adds three parts to `TlsInv`. `Arrives`
says of each end with a descriptor that its opened octets follow the given ones, and
that the cells of the three other places, one after the other (`Flow`), are whole
messages in the order of the protocol, each with the octets that are due at its
place (`Runs`). At the end of `Flow` all that the peer said is accounted for;
only when the connection broke, or the peer left before it said anything, may the
last message be cut (`Kind`). It is stated with a count for each place in `Flow`
rather than by recursion, so that cutting, joining and moving cells needs no
induction. `Blank` says that nothing is handed over or given before the handshake
is done, and `Ahead` what may come to the server before it has answered: without
it the flight could follow octets. `Orderly` ties the caller's progress in
`N_SslWrite` to the octets taken, and says that no end
has anything left to send but the server a rest of its flight, so that the outcome
of a write is known when it returns. There is one lemma per way in which cells move (sent, fetched, opened,
given, lost) and one per call; a read of 0 is right because an end that finds the
farewell has, by `Runs`, opened everything before it.

*Nodes.* Routes, descriptors and bindings share no state, so `IInv` is the
conjunction of their invariants, and a step of one leaves the others alone.
`RoutesInv` is what the run checks with the types: each counter function keeps a
route good by a case distinction on its thresholds. It says nothing of the hops a
constructor was given, only of those that came after them. `DescriptorsInv` is stronger
than `DataKept`, which it would not keep alone: when a descriptor comes back with a
cluster that it had lost, that cluster must not be known any more, so everything known has
to be of a cluster that is there. That the sorting at the end of
`setSimpleDescriptor` yields ascending endpoints needs the permutation that does so:
the lemma `SortedAgain` gives it. `BindingsInv` says besides `TypeOK` that
times are in order: no entry is confirmed later than now, an entry of `since`
not before the read-out began, and while a read-out goes on an entry
confirmed after its begin is in `since`. From this the clean-up, which
sees only times, cannot remove what was confirmed and keeps nothing else. What the device reports goes
through `readFromStream`; `ReportRead` says that it gives the binding that was sent or
refuses it, so that `since` and the table speak of the same one. Where the model
iterates (the clusters of a response, the hops of a path, the reading of fields, the removal
of old entries) it does so by a recursive function over a bounded interval;
the lemma `Iteration` at the head of the module gives its values without induction
over an operator, as a statement about sets.

The assumptions are those of the modules, checked by TLC in every run: sets of the
right type, values that a caller can pass to `setValue` (`ValuesAssumption`), documents in which
a length is a number or is none (`FilesAssumption`) and holds the numbers of its type
(`WidthsAssumption`) and elements stand in their places (`DocumentsAssumption`, see above
for both), bindings that a constructor can make, positive sizes, that the values which stand for "none" are no strings,
a write buffer larger than a chunk, and for Green Power that the counter's range
is a multiple of the ring's length, which holds for 2^32 and 8.

*Only model-checked*: `EntriesComplete`, which compares what was loaded with all the
documents, says which of several elements of a kind is the last one, and repeats the
round trip over the loaded commands; `ReadBack` of `Node`, a statement about each of the sample frames. Liveness under
fairness is out of the prover's reach and stays with TLC. There are no RECURSIVE operators.

## 5. What is not modelled, and what is left

Not modelled for good: text for display, cryptography, library loading, device
enumeration and Qt glue, which keep no state that others rely on; Touchlink, records
and an interface; and the Windows variants of files, threads and sockets, which
repeat the others. Names in XML and URLs are members of small sets. Single fields
with a getter and a setter are left out everywhere. The actor framework and
OpenSSL are not in the repository and are modelled where they meet it. Undefined
behaviour that simply ends the program (the null pointer of a stopped timer actor,
a lock on a destroyed mutex) is named in the hazards. `PROJECT.json` says for each
component that is modelled in part what is left out.

Of ZCL attributes three details are left out, on which no property depends: the list
branch of `readFromStream`, since nothing calls `setListSize` and the size stays 0;
floats set from numbers that are not floats; and that `QString::fromUtf8` refuses code
points written too long.

Worth doing next:

1. `u_bstream.c` (an error sticks, no access past the end) and the arena
   `u_arena.c` (aligned and disjoint blocks).
2. `NDownloader` over `TlsSocket`, in place of its free choice of the network's
   outcomes.
3. Proofs of `CommandsReadBack`, parameter by parameter from `RoundTrip`, and of
   `ReadBack` of `Node` for every frame with fields of the right width.
