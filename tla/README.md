# A verification project for nfdump

nfdump is a set of programs that collect, store, read and analyse network
flows. `nfcapd` and `nfpcapd` collect them into *flow files*, one per time
slot; `nfdump`, `nfanon`, `nfprofile`, `nfreplay` and others read such files;
`nfexpire` deletes old ones. This directory holds TLA+ modules that model the
parts of the programs in which threads, files and failures interact, TLC
configurations that check them, and TLAPS proofs about them.

All paths below are relative to `src/src/` unless they start with `src/`.

## How to run it

    tlc -workers 2 -config queue_threads.cfg MCBoundedQueue     # any run
    tlapm BoundedQueueProofs.tla                                # any proof module

`PROJECT.json` lists, for every definition that models code, the lines it
models; for every run, the properties it checks; for every property, a mutant
(a definition changed as a plausible bug would change the code) under which
TLC finds the property violated. The mutants stand in the modules right before
the definitions they vary.

## 1. Inventory

| component | source | state | operations | modelled |
|---|---|---|---|---|
| bounded queue | `libnffile/queue.c` | ring, indices, counters, `closed`, producer count, one mutex, **one** condition variable | push, pop, open, close, sync, producers, stat | `BoundedQueue` |
| flow files | `libnffile/nffile.c` | header, blocks and appendix on disk; handle with process queue, writer or reader threads, stat record | open, append, write block, flush, close, rename/append, read | `FlowFile` (writing and rotating), `ReadPipeline` (reading the files of a list) |
| control barrier and its users | `libnffile/barrier.c`, `nfanon/nfanon.c`, `nfsen/nfprofile.c` | `workersWaiting`, two condition variables, the shared block pointer | wait, controller wait, release; process_data, worker | `ControlBarrier` |
| nfdump read pipeline | `nfdump/nfdump.c` | two queues, `abortProcessing`, prepare thread, filter threads, main | read, filter, process, stop early | `ReadPipeline` |
| collector main loop | `nfcapd/nfcapd.c`, `collector/collector.c` | `t_start`, `done`, `rename_trigger`, list of flow sources | receive, rotate, add source, shut down | `Collector` with `Exporters` |
| privilege-separated children | `collector/privsep.c`, `launch.c`, `repeater.c` | pipe, message list, `done` of the reader and of the launcher | framing, push/get message, launch, shut down | `Privsep` (the launcher), `Expire` (`do_expire`) |
| bookkeeping and expiration | `collector/bookkeeper.c`, `nfstatfile.c`, `expire.c`, `nfexpire/` | shared memory segment with semaphore, stat file, directory | update, scan, expire by size and age | `Expire` |
| metric export | `collector/metric.c` | list of counters, thread, socket | update, send and clear | no: see section 6 |
| packet capture | `nfpcapd/*` | packet buffers and their queues, flow tree, node list, free list | capture, cache, expire, flush, dump | `PacketCapture` |
| v9 / IPFIX decoding | `netflow/netflow_v9.c`, `ipfix.c` | exporters, template tables, samplers | template add, replace, withdraw (one or all), lookup; sequence check; samplers | `Exporters` (the tables) |
| v5 / v7 / v1 decoding | `netflow/netflow_v5_v7.c`, `netflow_v1.c` | exporters, sequence counters | sequence check, conversion | no: its sequence check is that of v9 |
| statistics, sorting | `nfdump/nflowcache.c`, `nfstat.c`, `blocksort.c` | hash tables, heaps | aggregate, sort | no: one thread, large data |
| filter engine, output, record format, lookups, replay tools | `libnfdump/*`, `output/*`, `libnffile/nfxV3.c`, `nfreplay/*`, ... | none between records | parse, evaluate, print, copy | no: sequential data conversion |
| vendored code | lzo, lz4, zstd glue, toml, sgregex | | | no |

**How they interact.** Every flow file that is open has a *bounded queue*
between its owner and its threads: when writing, the owner pushes blocks and
writer threads pop them; when reading, a reader thread pushes and the owner
pops. File names reach readers through another queue (`flist.c`), and in
nfdump two more connect the reader, the filter threads and main; nfpcapd uses
them for packet and flow buffers. The *control barrier* synchronises nfanon
and nfprofile: the controller hands one block at a time to all workers. The
collector rotates flow files (`RotateFlowFiles`): flush, close, `RenameAppend`
into the archive, then the books in shared memory, then a message to the
launcher child, which runs commands and expires old files.

**What is hard.** One condition variable for two kinds of waiters; a queue that
is closed from either side and reopened; waiting without the mutex
(`queue_sync`); writer threads that die of a failed write while the owner waits
for them; a file that is modified in place when a slot is appended to, with
crashes in between; a barrier whose wait has no loop; a pointer to a local
variable shared by threads; early returns that leave threads waiting; signals
that arrive at the wrong moment; tables that must say in the file what the
collector held in memory; counters shared between processes that may be killed;
pools of buffers and nodes that run dry. `PROJECT.json` lists these under
"hazards", each at its line, with the properties that cover it or the reason
why none does.

**What makes each component correct.**

- Queue: a FIFO channel of bounded length that loses and duplicates nothing,
  wakes whoever can go on, and lets every thread return once it is closed.
- Flow files: a reader gets whole blocks that were collected, each once; no
  block leaves the archive, and a reader that is not refused gets all that were
  ever read from it; a rotated file is in the archive as a whole;
  the stat record fits the blocks; a rotation comes to its end.
- Barrier: workers and controller never own the block at the same time; each
  worker does its share of each block once; blocks leave in the order they came.
- Read pipeline: every block that is read is processed, or processing was
  stopped; all threads end, also when it is stopped at the limit.
- Collector: each received flow lands in the file of a slot; slots are closed in
  order; a new source does not disturb the others; on shutdown all is flushed.
- Privsep children: messages are handed over whole and in order; each child
  ends when its parent does.
- Books and expiration: the counters agree with the directory when nobody is at
  work; expiring deletes oldest first and only as much as the limits require.
- Packet capture: each buffer and each node has one owner; none is lost.

## 2. Plan

Ordered by how much of the system rests on it. Every module is written with
constants and named assumptions, one action per operation and invariants as
conjunctions of named parts, and declares no recursive operator, so that it can
be proved about.

| | module | state |
|---|---|---|
| 1 | `BoundedQueue` with its abstract specification `Channel` | checked and proved |
| 2 | `FlowFile` with `FlowArchive`, over a channel | checked and proved |
| 3 | `ControlBarrier` | checked and proved |
| 4 | `ReadPipeline`, over two channels | checked and proved |
| 5 | `Privsep` | the launcher checked and proved |
| 6 | `Exporters` and `Collector`, which extends it | checked and proved |
| 7 | `Expire`: books, stat file, directory | checked and proved |
| 8 | `PacketCapture`: nfpcapd | checked and proved |

What is left, in order: the repeater, whose messages are longer than `PIPE_BUF` and may be cut by the writer as well; the thread of `metric.c`;
`ModifyCompressFile`; the sequence check of v5 and v7 and the conversion of
samplers from v5 headers, as more handlers of `Exporters`.

Nine runs check what holds, one per module and two for the queue; three
check what a comment or a manual says and the code does not do. The runs stay
small (minutes on two cores): two or three threads of each kind, two or three
items per thread, two or three slots of time.

## 3. The modules

### BoundedQueue, Channel, MCBoundedQueue

`BoundedQueue` is `queue_t` field by field (`ring` = `element[]`, `nextFree`,
`nextAvail`, `numElements`, `maxUsed` = `stat.maxUsed`, `closed`, `producers`,
`cWait` = `c_wait`, `pWait` = `p_wait`) with the mutex and the set of threads
blocked on `cond`. A step is what a thread does between acquiring and giving up
the mutex. `pthread_cond_wait` is split: blocking belongs to the step before,
coming back (`Wake`) is a step, because it changes a counter that
`queue_sync` reads with no lock. `queue_sync` is three steps, `SyncSpin`,
`SyncLoad` of one counter and of the other.

The module also has the way the queue is driven: producers push up to `Quota`
items and close (`ProducerClose`), consumers pop until they see
`QUEUE_CLOSED`, a consumer of `Terminators` gives up the way
`SignalTerminate` (nffile.c:1498-1516) does, closing and broadcasting until the
reader is gone and then emptying the queue, and the owner reopens the queue for
the next file.

`Channel` is what the queue promises: send, receive, close, open on one
sequence. The refinement maps the `numElements` slots from `nextAvail` on to
that sequence.

| run | instance | shows |
|---|---|---|
| `queue_threads` | 2 producers, 3 consumers, ring of 2, spurious wakeups | the inductive invariant `IInv`, that a producer is blocked only on a full queue, that no wakeup is lost, that `queue_sync` means what it says |
| `queue_files` | 1 producer, 2 consumers, 1 may give up, 2 rounds | implements `Channel`, every thread returns, `queue_sync` returns, nothing is left behind |

*Bounds.* A ring of 2 is full, empty and wrapped with two items; two producers
can be blocked at once while three consumers outnumber them, so a signal has
both kinds to choose from; `Quota` 4 wraps the ring twice. Reopening happens
with one producer only in the code (`QueueAssumption`: `queue_open` does not
restore the producer count), which is why the second run has one.
The symmetric run checks invariants only. A thread that finishes a round rests
in "done"; `Finished` is the explicit end, so deadlock is checked.

*Fairness.* Threads run (weak fairness on what a thread does while it holds the
mutex). A thread that keeps asking for the mutex gets it some time: the mutex is
taken and given up by others in between, so this is strong fairness; the same holds
for closing and for the loop of `queue_sync`, which sleeps and retries. Nothing
forces a thread to push, to give up, to start `queue_sync` or to call
`queue_stat`, and no wakeup is spurious on demand.

*Why one condition variable is enough.* `queue_push` wakes one thread with
`pthread_cond_signal` and might wake a producer. The invariant says this
cannot happen: `ProducerBlockedOnlyWhenFull` — a producer is blocked only while
the queue is full, and a pop broadcasts as long as `p_wait` counts a producer, so
that producers are woken as soon as there is room.

### FlowFile, FlowArchive, MCFlowFile

A file on disk is a header (`NumBlocks`, `offAppendix`, `appendixBlocks`) and a
sequence of cells, data blocks or the appendix; offsets count cells. `file`
holds the current file and the archive file it is moved into. `handle` is the
`nffile_t` open for writing: file position, header in memory, stat record;
`worker` its writer threads; `chan`/`closed` its process queue, taken as the
channel of the section before. `main` is where the owner is:

    idle -> push -> sync -> join -> appendix -> header -> rename
                                          -> book                      (no archive yet)
                                          -> source -> push -> ... -> header -> unlink -> book

`OpenNewFile`, `PushBlock` (WriteBlock), `StartFlush`, `QueueSync`,
`JoinWriters` (FlushFile), `WriteAppendix`, `WriteHeader` (CloseUpdateFile) are
the first pass; `Rename` or `AppendFile`, `OpenSource`, then the same
operations on the archive, and `Unlink` are `RenameAppend`; `UpdateBooks`
follows in `RotateFlowFiles`. The writer threads run `nfwriter` and `nfwrite`;
the lock `wlock` makes a block and its count one step. `Readable`,
`ReadCells`, `ReadStat` are what `OpenFileStatic`, `nfreader` and
`ReadAppendix` make of a file at any moment, also half-way through an append.

Failures: each `write` of a data block, of the appendix and of the header may
fail (`Failing`, `MaxFaults`), with what the code then does, which for the
appendix and the header is mostly nothing; the process may die in any state
(`Crash`), which drops the handle and the queue and leaves the archive as it is.

`FlowArchive` promises that the blocks of a closed file enter the archive
together, once, and stay.

| run | instance | shows |
|---|---|---|
| `file_faults` | 3 files of up to 2 blocks, compressed or not, any 2 failures, 1 crash | `IInv`: types, the stat record is that of the blocks, nothing is lost; the flush is complete; readers get collected blocks only; the archive loses no block and is refused for two reasons only; implements `FlowArchive`; rotations end |
| `file_one_core` | one core, uncompressed | *violated* `PendingBlocksOnDisk`, finding 1 |

`IInv` and the refinement speak of the time before the first failure where they
have to: a block whose write failed is counted and not there, and an append whose
header could not be written is invisible. `ReadersGetCollectedBlocks` and
`ArchiveOnlyGrows` are stated for the time after a failure and the crash too.

*A refused archive.* `AppendFile` cuts the appendix off with `ftruncate`
(`nffile.c:1010`) and leaves the header as it is, so `offAppendix` is the size
of the file until the first block, or the new appendix, is written behind the cut.
`OpenFileStatic` (870-876) refuses such a file, and so does the next `AppendFile`.
A process that dies in that window leaves it so *for good*: no reader gets the
old blocks any more, and later rotations into that name fail. An appendix whose
write failed does the same where no block was written after the cut, and also
to the *current* file: that one cannot be opened as a source then, and
`RenameAppend` gives up (1055-1056) with the archive already cut.
`ArchiveOnlyGrows` therefore does not say that readers always get what they once
got. It says that an archive that is not refused gives all that was ever read from
it; that a refused one has all these blocks still, and ends exactly where its
appendix was; and that it is refused only while it is appended to, after a death of
the process or after an appendix was not written.

*Bounds.* Three files: the first is renamed, the second appended to a renamed
file, the third to an appended one. Two blocks per file let two writers race,
and a queue of one makes the owner wait. Two writers of a compressed
file race; in the uncompressed case an append has one, so that a failing write
leaves none. Two failures and a crash are enough
for "a header that could not be rewritten, then another append". The number of
cells stays far below `Modulus` (2^32 in the code, 16 in the runs; an assumption
says so), so the arithmetic of the header is that of 32 bits but does not wrap.

*Fairness.* The owner and each writer run (weak fairness); flows need not arrive,
calls need not fail, the process need not die. `RotationEnds` names the one exception:
`WritersGone`, all writers ended after failed writes while the owner waits for
the queue. The action `Stuck` keeps that state from being taken for a deadlock
of the model; it is one of the program.

### ControlBarrier, MCControlBarrier

`workersWaiting` and `asleep` (the controller in its condition wait) are the
barrier; `blocked` are the workers in `pthread_cond_wait`. `BarrierWait`,
`BarrierLeave`, `ControllerWait` and `ReleaseWorkers` are the functions of
`barrier.c`; the steps of `ctl` and `wpc` are `process_data` and `worker`,
including the block read ahead while the workers are busy, blocks of other
types that are passed through, several files, the end of the input, and the
return of nfanon when an output file cannot be opened. `dataBlock` is the local
variable of `process_data` that the workers read through a pointer, twice per
round (`WorkerCheck`, `WorkerLoad`); `Gone` stands for its memory after the
return: any value may be read. A worker that has loaded such a value crashes; what
then becomes of the process is not modelled.

| run | instance | shows |
|---|---|---|
| `barrier` | 3 workers, 3 blocks in 2 files, 1 spurious wakeup | the inductive invariant `IInv`, each share done once, blocks in order, the pointer stable while it is used, the workers end |
| `barrier_failure` | 2 workers, 1 block, output file not opened | *violated* `WorkersJoined`, finding 2 |

*Bounds.* Three blocks: one current, one read ahead, one to come; three workers
tell "all" from "all but one" and "one". Deadlock is not checked in these runs:
after a failed open, a crashed worker or a spurious wakeup the program does
hang. `WorkersEndIfSignalled` and `WorkersJoined` say when it must not.

*Fairness.* Weak, for the controller and each worker. No lock is contended in the model,
each critical section being one step.

*Spurious wakeups.* `barrier.c:127` waits without a loop, so that the properties about
workers are stated up to the first spurious wakeup; the order of blocks
(`InOrder`) does not depend on the workers at all and holds in any case.

### Privsep, MCPrivsep

The launcher child of nfcapd with its two threads, and nfcapd as far as it
deals with the child. `pipe` is the byte stream between them. A message is a
header of `HeaderSize` cells and, for a launch message, `BodySize` more; a cell
knows which message it belongs to and where in it it stands, which the code
knows from the header's length. `buffer` is what `pipeReader` keeps at the
begin of its buffer for the next `read` (`bufferOffset` is its length), `rest`
what lies between `p` and `eod`. `Read`, `KeepRest`, `TakeMessage` and
`PushMessage` are the body of its loop, the last one with `pushMessage` and its
wakeup; `GetMessageWaits`, `GetMessageDone` and `GetMessage` are `getMessage`,
and `RunCommand`, `ExpandFails` and `JoinReader` what `launcher` and
`StartupLauncher` do with the result. The two variables `done` of `privsep.c`
and `launch.c` are `readerDone` and `launcherDone`. On nfcapd's side
`SendLauncherMessage` is a rotation's `TriggerLauncher`, and `SendExit` and
`WaitChild` are `signalPrivsepChild`.

What may happen: the reads cut the stream anywhere, a command cannot be
expanded, a wakeup is spurious, commands end (SIGCHLD) and interrupt the reader
or not, somebody sends the child a SIGTERM or a SIGINT, nfcapd dies.

| run | instance | shows |
|---|---|---|
| `privsep` | 3 launch messages, all of the above | the inductive invariant `IInv`; messages are cut where they begin; commands in order; each command is run; the child ends |
| `privsep_exit` | 2 launch messages, none of the above | *violated* `CommandForEveryInterval`, finding 3 |

*Bounds.* A launch message has three cells and the exit message two; the buffer of four
cells and the pipe of six cut the stream at every place, within headers and within
bodies, and keep parts of every length. Three launch messages let two of them be on
the list while the third is read. One signal of each kind is enough: the
handlers only set variables that are never reset.

*Fairness.* Weak, for the reader, for the launcher and for nfcapd's `waitpid`. Nobody has
to rotate, to end nfcapd or to send a signal, and a command need not end.

*Why an interrupted read does no harm.* `pipeReader` forgets what it kept when
`read` fails (`privsep.c:224`). `FramingKept` says it has nothing then: nfcapd
writes a message with one `writev` of at most `PIPE_BUF` bytes (which the model
assumes: it takes two paths that are nearly `MAXPATHLEN` long to exceed it), so that a part
of a message in the buffer means that its rest is in the pipe, and a `read`
that finds bytes is not interrupted. The same is not true of the repeater, whose
messages hold a packet each.

*What the liveness properties leave out.* `ChildEnds` and `CommandsRun` hold up
to a signal to the child. After a SIGTERM both `done` are set and the reader
ends, but a launcher that waits in `getMessage` is not woken; if nfcapd ends
in good order at the same time (a SIGTERM to the whole process group), its exit
message is read by nobody and `waitpid` waits for ever. The end of the pipe is
the same case: the reader sets `done` (`privsep.c:227`) and the launcher goes on
waiting, so that the child of a collector that died stays.

### ReadPipeline, MCReadPipeline

nfdump's threads between the input files and `process_data`. `prepare`, `filter`
and `main` say where `prepareThread`, each `filterThread` and main are; the two
queues are two instances of `Channel`, so that what `BoundedQueue` is proved to
implement is all that is used of them. A handle (`dataHandle_t`) is a block and the
number of records in front of it. A step of a filter thread is a whole block,
from the pop to the push; a step of main is one record, because
`abortProcessing` is set between records while the others run. `AddExporterInfo`
and `AddSamplerRecord` are in, as they decide what `-w` writes; aggregation,
sorting and printing are not.

Blocks may be of another type, dropped as corrupt (`Dropped`), end with a legacy record,
claim more records than they hold, or end the file by being unreadable; a file
of the list may not open, and neither may the output file.

`Read` and `Content` say without threads what there is to find: the blocks
that nfdump comes to, and their records with their numbers. `EachMatchOnce` compares the output
with them. `OutputNamesExporters` has two parts: that a number in the output file names one
exporter holds always; that no sampler record is lost, and that each is behind the record of its
exporter, is said of a single filter thread and of an input that describes its
samplers (`Described`: the record of the exporter comes first, and the list has room
for all exporter records; a full list refuses an exporter, and its samplers with it). All five lists of
`MCReadPipeline` are such inputs, among them one that fills the list.

| run | instance | shows |
|---|---|---|
| `read_pipeline` | five lists of files (merged from two collectors, damaged, broken off, first file missing, empty), 1 or 2 filter threads, queues of 2, `-c` 0 or 2 | `IInv`: each block in one hand, queues closed by the last; each match processed once, `-c` met exactly; numbers in the output file name one exporter; nfdump ends |

*Bounds.* Up to six blocks pass through two queues of two;
two filter threads deliver out of order; a limit of two is reached within a
block and at its end. *Fairness.* Weak, for each thread:
what keeps a thread waiting is a queue, and no step takes away what enables it.

*What the properties leave out.* With several filter threads `-c` gives some
matching flows, not the first ones, and a sampler record may come before that of
its exporter and be dropped: both are stated for one thread. A failing output file ends
main with the threads still at work (`nfdump.c:541-544`); the process exits.

### Exporters, Collector, MCCollector

`Exporters` is what `netflow_v9.c` and `ipfix.c` keep of a router: the list of
templates with its one-entry cache (`currentTemplate`), samplers, sequence
counters, and what is written to the file when one of them appears or changes.
The two protocols share the module: `Version` tells where they differ. `Decode`
takes a packet set by set. A packet is a header and sets; the layout of a
template stands for its list of fields.

An IPFIX exporter that withdraws all templates (`WithdrawAllTemplates`) has its list freed, but
neither the list nor the cache is reset (`removeAllTemplates`, `ipfix.c:687-710`). What is
read from freed memory is undefined. `dangling` says that such a list is in use; from then
on `Found` may be any template with the id or none, for any exporter, and
`Perish` lets nfcapd die or search a list without an end (`main` is `"dead"`): `relinkSequencerList`
walks the freed list at once (`ipfix.c:959`).

`Collector` extends it with `run` of `nfcapd.c`: receive, test of the slot,
`RotateFlowFiles` for all sources, the next slot, dispatch, dynamic
sources. Time passes in seconds at any point (`Tick`), the alarm is due at its
second, SIGTERM comes anywhere. `Deliver` says what a signal does where it meets the
loop: only `recvfrom` is interrupted. A file is the sequence of its records,
because `FlowFile` shows what becomes of the blocks; `archive` holds those of past
slots.

| run | instance | shows |
|---|---|---|
| `collector` | 2 routers, 7 streams of v9 and IPFIX packets, slots of 1 s over 3 s, 1 failing call | `IInv`: types, counters that fit the file, ids that are unique; every flow in one file; every file readable by itself; templates mean what was announced last, up to the first withdrawal of all; signals are served |

*Bounds.* Slots of one second over three make late rotations, rotations without
packets and two slots behind each other; a socket of one packet loses packets, so
that sequences have gaps; ids up to 2 run out with three exporters; sequence
numbers modulo 4 wrap. *Fairness.* Only that nfcapd runs on: time, packets and signals
need not come. Deadlock is not checked, since the instance is over when
time and packets are used up.

*What the properties leave out.* A signal that comes between the test of `done`
and `recvfrom` is noted in `missed`: nfcapd then sleeps until a packet comes
(`nfcapd.c:311-337`). `CountersMatch` and the statistics of a file are stated for sources
that were configured: `AddDynamicSource` resets the exporter count of the head of
the list (`collector.c:265`). `SamplingDescribed` is stated for v9: for IPFIX
`ipfix.c:548` writes the record it is about to change. Flows of a file that a
failing call or the end by freed templates has cost are in `lost`; otherwise nothing is.
`TemplatesAsAnnounced` is stated as long as no list of freed templates is in use; the other
properties hold with such a list too, whatever it says.

### Expire, MCExpire

One directory with its three kinds of processes: the collector that moves and
books files, starts, ends and may be killed; the launcher's `do_expire`; and
`nfexpire` with `-l`, `-r`, `-e` and `-u`. `dir` maps slots to file sizes, `stat` is
`.nfstat` with its lock, `booked` the shared segment with its semaphore `sem`,
`orphan` the segment a process is still attached to after it was removed. A section under
the semaphore is one step; every look at the directory, every unlink and the
truncation and the writing of `.nfstat` are steps of their own. `rec` is the
`dirstat_t` of each process, `job` its locals.

| run | instance | shows |
|---|---|---|
| `expire` | 3 slots, 3 starts, runs or deaths in any mix, both with `-e` and without | `IInv`: types, the lock is held from reading to writing, the record fits while files are unlinked; a record that is believed counts the files; every run comes to its end |

*Bounds.* Three slots let the books change three times during a rescan, which
is what its loop allows, and leave files behind after an expiration by size.
Three events are any mix of a restart, an `nfexpire` and a death. *Fairness.* Each
process that runs goes on; a file lock and the semaphore are given up in
bounded time by whoever holds them. Nobody has to start, rotate or die. Deadlock is not
checked: everybody may be done.

*What the properties leave out.* `exact` follows a record and becomes false at
the events after which the code does miscount, so that `StatAccounts` says that there are no
others: a file that is moved before a scan and booked behind it; books cleared
after the last comparison of the sequence; books that reach back behind the
record's last file, which `UpdateDirStat` compares with its first
(`expire.c:746`); a death between a change and its record; the second writing of
`nfexpire -u`. `RunsEnd` exempts a process that died inside the semaphore, which
has no `SEM_UNDO`.

### PacketCapture, MCPacketCapture

The four threads of nfpcapd. The packet thread (`pcap_packet_thread` and
`linux_packet_thread`, told apart by `mode`) takes packets, puts them into the
buffer and through `ProcessPacket`, and closes slots; the flush thread writes
buffers into pcap files (`OpenDumpFile`, `WriteBuffer`, `CloseDumpFile`); the
flow thread stores the nodes of the list into flow files; main waits for a
signal, ends the threads in turn and empties the cache. `bufferQueue` and
`flushQueue` are channels that hold the whole pool, so that a push never waits. `FlowTree`
maps keys to flows and to collections of fragments, `NodeList` is the list to the flow
thread, which holds signal nodes as well, and `Allocated` counts nodes in use.
Packets are numbers, so that each can be followed into a buffer, a pcap file, a
flow and a flow file.

| run | instance | shows |
|---|---|---|
| `capture` | from a file, live, from a ring, with and without a dump, fragments and tunnels, 2 slots, 2 buffers of 1 packet, 4 nodes, 1 failing call, SIGTERM at any time | `IInv`: types, buffers and nodes accounted for; each packet in one place of the dump and in the file of its slot; each packet in one flow; nfpcapd ends |

*Bounds.* Two buffers of one packet make every packet swap buffers and either
thread wait for the other; four nodes are taken by a flow, fragments, a signal and a packet at
hand; the streams have up to four packets, so that a slot may be empty, and a flow end and
begin again. Packets are stamped with any second from one before the start to two slots
behind it, in any order, and timeouts come at any of these times: a packet may be older than the one before
it, than the slot at hand, and than the timeout that began it. Three packets, where timeouts come in
between, are enough to begin a slot, store into it and come late. *Fairness.* The threads run and a file is read to its end; on a wire nothing
need come. Deadlock is not checked: a starved pool does stop nfpcapd.

*Packets out of time.* Nothing in `packet_pcap.c` or `packet_linux.c` looks whether time stamps rise:
a file may be in no order, and a packet stamped before a boundary may be delivered after `gettimeofday`
has begun the next slot. A packet older than the slot at hand begins no slot, so it is filed in the one at hand.
`dueIn` notes this for each packet (`SlotFor`): its own slot, or the one at hand if that begins
later. `PacketsDumped` and `PacketsCounted` speak of this slot: the pcap file of a slot may well hold packets stamped
earlier than it, but only such that came while it was at hand.

*What the properties leave out.* History variables name the cases in which the
code does lose track. `unmarked`: the flush thread clears the time stamp of a
buffer after it gave the buffer back (`pcapdump.c:274`), which takes off the
mark of a later slot, whose packets then go into the next file. `dropped`: an empty
buffer with a time stamp is never returned (`pcapdump.c:249-265`). `leaked`: a
signal node, and the outer header's node of a fragment in a tunnel, are never
freed. `missed`: SIGUSR2 outside of `poll`, on an idle link
(`packet_linux.c:299`). `CaptureEnds` therefore has three ways out besides the end:
the pool has run dry (`Starved`), the nodes are used up by the thread that
waits for them (`NodesOut`), or the signal was missed. Each of them can be reached.

## 4. What is proved

| theorem | says, for all values of the constants |
|---|---|
| `BoundedQueueProofs`: `InductiveInvariant` | `IInv` holds always |
| `TypeCorrect`, `SharedConditionSafe`, `WakeupsNotLost`, `NobodyLeftBlocked`, `ClosedByLast`, `DrainedBeforeLeaving`, `SyncReleases` | the invariants of the same runs |
| `QueueImplementsChannel` | the queue implements `Channel` |
| `FlowFileProofs`: `RotationInvariant` | `IInv` holds always, on machines on which `FlushFile` joins all writers (`EnoughWorkers`, as in the next two rows) |
| `FlushComplete`, `ReadersGetData`, `ArchiveKeepsBlocks` | the flush is complete, readers get collected blocks, the archive loses no block and is refused for no other reason than those named, whatever calls fail and whenever the process dies (readers: as long as every header could be rewritten) |
| `RotationsArchive` | up to the first fault, rotations implement `FlowArchive` |
| `ControlBarrierProofs`: `BarrierInvariant` | `IInv` holds always |
| `ControllerGoesOnAlone`, `SharesDoneOnce`, `BlocksInOrder`, `PointerStable` | the controller goes on only when all workers wait; the properties of the run |
| `PrivsepProofs`: `Invariant` | `IInv` holds always |
| `Framing`, `Wakeups`, `InOrder` | messages are taken where they begin, a launcher waits for an empty list only, commands in the order of the rotations |
| `ReadPipelineProofs`: `PipelineInvariant` | `IInv` holds always |
| `ProcessedOnce` | main is given no flow twice and none once the limit of `-c` is met |
| `FlowsOnce` | every matching flow of the input is processed, once, unless the limit ends the run; one filter thread keeps the order of the input |
| `OutputDescribed` | a number in the output file names one exporter; one filter thread loses no sampler record |
| `CollectorProofs`: `CollectorInductive`, `CollectorConsistent` | `IInv` holds always, and so does the stronger `Inductive` |
| `CollectorTemplates` | an id means what the router last announced for it, up to the first withdrawal of all templates |
| `CollectorStoresFlows` | every decoded flow is in exactly one file, of a slot that had begun, unless a failing call or the death of nfcapd dropped it |
| `CollectorFilesSelfContained` | every file can be read by itself: exporters and sampling stand before the flows, the statistics count them |
| `PacketCaptureProofs`: `CaptureInductive`, `CaptureAccounts` | `IInv` holds always, and so does the stronger `Inductive` |
| `CaptureCounts` | every packet is counted by one flow or by none, and no file of a slot has packets of a later one |
| `CaptureDumping`, `CaptureDumps` | every packet but duplicates is in one place of the dump, unless a call failed for it; a pcap file has the packets due in its slot, in the order they came, and others only of slots whose mark was erased |
| `ExpireProofs`: `ExpireInductive`, `ExpireConsistent` | `IInv` holds always, and so does the stronger `Base /\ Kept` |
| `StatAccountsKept` | a `.nfstat` that is believed counts the files the books do not have, in number and size, but for the events that are known to make it miscount |

Assumptions: only `QueueAssumption`, `FlowFileAssumption`, `BarrierAssumption`,
`PrivsepAssumption`, `PipelineAssumption`, `BlockAssumption`, `CollectorAssumption`,
`ExportersAssumption`, `CaptureAssumption` and `ExpireAssumption`, which state what the code makes
sure of (a length that is a power of two, a producer count equal to the number of producers, as many
workers as the barrier was created for, a pipe and a buffer that hold a message, ids of samplers
that are not 0, values that stand for "none" and differ from all others);
for `FlowFile` also that fewer blocks are collected than the 32 bits of `NumBlocks` count,
and for `Expire` that there are fewer slots than the 64 bits of `numfiles` count.

*The queue.* `NoLostWakeup` is not inductive alone. A signal reaches a consumer only if
no producer is blocked, which needs `ProducerBlockedOnlyWhenFull`; that a woken
consumer will take an element needs mutual exclusion (`MutexHeld`) and the
exact counters (`WaitCounted`: `queue_push` signals only if `c_wait` is not 0);
that nobody is left blocked on a closed queue needs the count of open producers
(`ProducersCounted`). `RingConsistent` says which slots hold items, from which
the refinement follows: a push appends to, and a pop takes the head of, the
sequence of the slots. The proof has one lemma per conjunct, with one case per
action that can disturb it.

*The flow files.* All theorems assume `EnoughWorkers`: more than one writer slot, or
no uncompressed files. That leaves out finding 1 and nothing else. Five invariants
build on one another. `Base`: types, and which threads and blocks there can be in
which phase; while a file is open its offset is the end of the file. `Counts`: the
number in the header and all blocks on their way stay below what the sessions
so far can have collected, hence `NumBlocks` never wraps, and a header in memory is
`Whole` or, after a failed appendix, `Torn`. `Headings`: as long as every header
could be rewritten, a file that can be read has as many blocks in its header
as there are data blocks in front of the appendix. `Transit` and `Stored`: no block is in two
places among queue, writers and files; those of a session are numbered behind those
of all sessions before, so that what is appended is not there already. `Kept`: the
header in memory never counts less than the one on disk, so that an archive that can
be read gives all it ever gave. `Refused` is about the others: they end where the
appendix was, which is so only while `Open` or once `Harmed`, that is after a crash or
a failed appendix; both give `ArchiveOnlyGrows`. Up to the first fault `Sound`
says more: closed files are `Complete`, blocks and statistics are `Tallied`, and all that
was pushed is in a file or on its way (`Gathered`). With `Carried`, which says that what
an append adds are the blocks of the closed file, each step of the rotation is one of
`FlowArchive`: closing the file is its `Collect`, the rename or the rewritten
header of the archive its `Archive`, and all others stutter.

*The barrier.* `IInv` is `ControlInv`, which no worker step can disturb and which gives
the order of blocks, and, as long as no wakeup was spurious, `WorkerInv`:
`workersWaiting` is the number of blocked workers (`WaitersCounted`), a worker
is busy only between release and return (`Phases`), what it has loaded is the
current block (`Loaded`), and its share of the current block is done once when
it is back (`Shares`). The proof has one lemma per action.

*The launcher child.* `IInv` speaks of `Stream`, what the reader holds followed
by what is in the pipe. `Whole`: each byte of it belongs to a message all of
which is in it, so that what the reader keeps is a part of a message whose rest
is in the pipe; and the messages in the launcher's hand, on the list and in the
stream are numbered consecutively (`InSequence`) as long as the child takes messages.
Of all the steps only three change the stream (`SendSteps`, `PushSteps`,
`OtherSteps`): two append a message (`WholeAppend`) and one takes the first
away (`WholeDrop`), at whose end the next one begins (`FirstMessage`). These lemmas
about sequences do the work; the lemmas for the conjuncts follow the three cases.

*The read pipeline.* `IInv` says where a handle is and when a queue may be closed; it
needs `Places` besides (prepareThread reads a file of the list, main has a handle
while it processes one, threads that were not started do nothing). That no two
threads hold the same handle rests on the numbers of records in front of the blocks: handles
are pushed in increasing order of `first`, so no handle that is popped equals
one that was popped before. The lemmas follow what a step does to the handles:
push, pop, hand on, or nothing. `ProcessedOnce` adds that the ranges of record numbers
of two handles do not overlap (`Disjoint`), that what main was given lies in
the ranges of handles that arrived and, in the current one, in front of `index` (`Numbered`),
and that `abortProcessing` is set exactly when the limit is met (`StopsAtLimit`).

`FlowsOnce` compares with the whole input. `Source` ties the handles to it: those pushed are the
blocks of the places passed, and `recordCnt` is the sum of their records,
so that `first` is what `First` says. That needs sums over sets of places in any order
(`TotalRemove`, `TotalMonotone`), proved by a least counterexample as for
the bookkeeping below; from them follows that the blocks of two places have numbers in the order of the places
(`FirstIs`). `Seen` is then the set of the records main has come past; a
step to the next record adds exactly one (`SeenNext`), all others leave it alone
(`SeenStays`), and at the end it is `Content` (`SeenAll`, from `OneOwner` and `Closing`). With a single
thread, `InOrder` says that a block is delivered behind all those in front of it that are not
dropped, so `Seen` is what has smaller numbers than the next record (`SeenInFront`), which gives
the order. For `OutputDescribed`, `Listed` says that the numbers in `exporter_list` are those of its used slots,
each once: that is why the number of a free slot can be given to the newcomer; `Named`
says that the slot of a number is that of the exporter described last under it, and
counts the used slots against the exporter records seen, so that there is room for the next.

`BlockAssumption` (no block counts zero records) is what `nfread` makes sure
of: it takes such a block for the end of the file.

*The collector.* `Inductive` is `IInv` with what it needs: the types of the
records (`FileTypes`), what the loop has in its hands (`Places`: the exporter of the
packet is in the list of its source), the order of slot and packet (`Clock`), counters
and files without flows after a rotation (`Fresh`, from which `CountersMatch` starts
again), and records that name only ids that were given (`RecordsNamed`: a new id
has no record anywhere, so that its count is 0). `TemplateLists` says that a list has
no id twice, that the cached template is one of the list and that the list holds
what was announced; the first two are why removing the *first* template of an id is enough,
and why a cache emptied on removal never answers for a template that is gone. It holds up to
the first freed list; `AllWithdrawn` shows that a withdrawal of all templates by an exporter without any keeps it,
since its cache is then empty too.

What the files hold rests on a classification of the steps (`Steps`): most change no file
(`Still`, `GoesOn`), a step of decoding appends one record (`Records`: `Flow`,
`Sampler` or `Newcomer`), a failing open or a death drops the files (`Stops`), and `Rotation` moves them.
`InOnePlace` numbers the places a flow can be in, the open file and the archived
ones of every source; each step moves the flows of a place to a place of their own or
drops them into `lost` (`PlacesMoved`). `InTime` orders the slots. For files that can be read
alone, `Described` says that the open file names every exporter of its source and,
for NetFlow v9, gives the samplers as the exporter has them (`SamplersWritten`): it holds for the
start of a file because `StdRecords` writes all of them (`StdSamplers`) and is kept by
each sampler change, where `ipfix.c` would break it. A flow is then read with the interval it was scaled with
(`FlowReads`), later records do not change what is read (`ReadsOn`), and a new
exporter with a new id changes nothing for flows that are there. That `FlushExporterStats` counts
right for each exporter in a closed file (`ClosedStats`) is `CountersMatch` at the rotation.

*The packet capture.* `Inductive` is `NodesAccounted` with six parts. `Threads` and `Times`: where the
packet thread can be with a packet at hand, and that this packet is the last one that came, due in
the slot `t_start` once the slots before are closed; nothing is said of `now`, which may fall. `Pool`: the two queues, the two hands and
`dropped` split the buffers, without repeats in a queue, and the packet thread holds a
buffer but before the first and between two; that a buffer to take is empty follows from
who may fill it. `Storage`: the types of tree and list, and what the flow thread holds in which
phase. `Counted`: every packet that came is in exactly one node of the tree or the list,
in the hand of the flow thread, in its file, in an archived file, lost, or
uncounted, or is the one at hand. `Ordered`: a signal for the end of a slot stands on the
list behind every flow of that slot, and the flows in front of it are of no later slot
(`Behind`), which is why no file gets packets of a later slot when the flow thread meets the
signal. The exception is the last signal of `linux_packet_thread`, whose slot is a length.

Steps are treated by what they do to the cache, a record of tree, list, counter and uncounted
packets. `Takes` says that a packet is added to it; `Sifted`, that nodes were moved from the tree
to the list or freed, but no packet left; the lemmas `TakesSifted`, `InsertFacts`, `WithoutNode`,
`SignalFacts` say that these keep `CacheOK`, `Apart` and the sum of nodes, for
any cache. Each handler of `ProcessPacket` is then a change that takes the packet, and `Cached`, which
sifts. The lists are followed by `Extends` and `Prolongs`: what is appended are flows, or one signal
that closes the slot.

`PacketsDumped` needs `Dumping`, a statement about the order of packets. The packets stand in line
(`Line`): those in pcap files, in the dump file, in the flush thread's buffer, in the
buffers of the queue one after the other, in the packet thread's buffer, and the one at hand;
each is smaller than all in the places behind, so that no packet can be in two places
and files stay ascending. `Gathered`: none is lost and there, and none is missing. `Slots` is about the marks,
the time stamps of the buffers in the line: they rise (`MarksRise`), and the slot of
a packet, the one it is due in, is the current one, or its mark is behind the packet, or the flush thread erased it (`unmarked`);
the slots rise along the line although time stamps do not, since `t_start` only rises;
no mark behind a packet is of an earlier slot (`FrontSlots`, `QueueSlots`). When the
flush thread meets a mark, all that is in the dump file is then of that slot or of earlier ones
whose marks are gone (`FileSlots`). As with the cache, the steps are moves of the line (`LinePushes` and
its like: stored, pushed, popped, written, closed), which are proved for any sets and applied per action.
The erased marks are why the property cannot be stronger: `ClearTimeStamp` may hit
a buffer that is in use again.

*The bookkeeping.* `Base` says who can be where: types, `LockHeld`, the stages of the
processes (`Stages`, `Sessions`), and what time does to directory and books (`Sizes`, `Walks`): no
file or entry is of a later slot, a slot is booked once by a collector, and
when a booked file is gone all older ones are, because `ExpireDir` removes the oldest
first. `Kept` is about the records. A record is `Good` if it will be believed and nothing has made
it miscount; files are `Awaited` if the books have them or the collector has
moved and not yet booked them. `Accounts` says of a good record that it counts some file
that is there (`Filled`) and, if it ends before the files that are awaited
(`Fresh`), exactly the others, and those removed and not yet taken off
(`Balanced`). This is not
inductive for `.nfstat` alone. It is stated for the record on disk as long as who has the lock
has neither taken in books nor removed files (`StatKept`), for the record an expirer
works on from then on (`RecKept`), and for that of a collector that ends
(`FinalKept`). A rescan is another matter: the books still have the files it has seen. `Scan` says
that the record counts those up to its last one and that later ones are
awaited with the sizes they have; `Covered`, that as long as the sequence has not changed the books
hold nothing later. Only then does clearing the books make the record balanced again, which
is what the comparison of the sequence is for.
`OrphanKept` and `ClosedFor` are about segments that are removed while somebody is attached: what is
left in them is counted already.

Sizes are sums over a directory. `SumFunction` folds over a set in an order that is
not known, and induction over sets cannot be cited here; that a sum does not
depend on the order, and loses a term when a file goes (`SumsAgree`, `SumRemove`), is therefore
proved by a least counterexample (`SmallestSubset`, from the well-foundedness of strict inclusion
of finite sets), as are the facts about `Min` and `Max` (`LeastNumber`). What `TakenClaims`, `ScanBalance`,
`UnlinkBalance` and `AddBalance` say of any record, directory and books is then
applied once per action, one lemma for each.

*Only model-checked.* Liveness (`EveryThreadReturns`, `SyncReturns`,
`RotationEnds`, `WorkersEndIfSignalled`, `CommandsRun`, `ChildEnds`,
`PipelineEnds`, `SignalsServed`, `RunsEnd`, `CaptureEnds`): fairness and ENABLED are
out of the prover's reach. All other properties the passing runs check are
stated by a theorem.

## 5. Findings

1. *Blocks in flight when a file is finalised* (`file_one_core`).
   `OpenNewFile` starts two writers for an uncompressed file
   (`nffile.c:970-971`); `FlushFile` joins the threads in slots below
   `NumWorkers` (1098). With one core `NumWorkers` is 1, and the second writer
   may still hold a block when the appendix and the header are written.
2. *Workers that nobody releases* (`barrier_failure`). When the output file
   cannot be opened `process_data` of nfanon returns (`nfanon.c:290-296`) with
   all workers in the barrier, and main waits for them for ever.
3. *The last interval has no command* (`privsep_exit`). nfcapd sends the launch
   message of the last interval and then the exit message. The reader sets `done`
   for the latter, and from then on `getMessage` returns -1 whatever is on
   the list (`privsep.c:118`): the command, which `src/man/nfcapd.1:282-284`
   promises at the end of every interval, is not run, unless the launcher is
   quicker than the reader.

Not runs of their own, but visible in the models:

- *Barrier.* The wait without a loop (`barrier.c:127`); the pointer into a frame that
  has returned (`nfanon.c:333-335`, `nfprofile.c:319-321`).
- *Flow files.* The owner that waits for writers which have all ended
  (`WritersGone`); the header of a file that could not be rewritten, after which an
  append is invisible and the source is unlinked all the same
  (`nffile.c:1071-1074`; no property covers it, and `ArchiveOnlyGrows` holds
  because those blocks never became readable in the archive); an archive that is
  refused for good after a death between `ftruncate` and the next write
  (`nffile.c:1010`, 870-876), or after an appendix that was not written;
  `RenameAppend`, which returns 0 when the source
  cannot be opened (`nffile.c:1056`), so that `RotateFlowFiles` books a file that
  stayed behind.
- *Collector.* "withdraw all
  templates" (`ipfix.c:953-955`) frees the list but resets neither
  `exporter->template` nor `currentTemplate`, as `removeTemplate` does for a single one. The
  freed list is walked at once by `relinkSequencerList` and by every later lookup:
  a template that is withdrawn may decode the next data set, and without its
  premise `~dangling` the run `collector` finds `TemplatesAsAnnounced` violated. A lost alarm or SIGTERM is made good by the next packet only; after
  late slots `alarm` may get 0 or a negative number; when `OpenNewFile` fails in a
  rotation nfcapd returns and drops the open blocks of the other sources.
- *Expiration.* `nfexpire -T` is not looked at while files are removed by
  size (`expire.c:431`), although `src/man/nfexpire.1` says it ends a run;
  a collector restarted within a slot whose record has more than one file counts
  the appended file twice, because `UpdateDirStat` compares with the record's
  first file (`expire.c:746`, comment 742-744); a death inside the semaphore
  blocks everybody until the collector is started again.
- *nfpcapd.* On an idle link with `-p` each slot costs a buffer; when the pool of
  eight is gone neither SIGTERM nor SIGINT ends nfpcapd, which
  `src/man/nfpcapd.1:92` says they do. The last flow file of
  `linux_packet_thread` is named after the length of a slot, since `t_win` is
  never set to `t_start`.
- *nfdump.* A file of the list that does not open ends the list.

## 6. What is not modelled

Within the modelled parts: short writes, `ModifyCompressFile`, `ChangeIdent`,
and changes of the ident in `FlowFile`; a failing `malloc`; the contents of
blocks, compression and encryption; statistics other than the number of blocks
and the counters of exporters; what nfanon and nfprofile do to a record; that
nfprofile does not free a block of another type. In `ReadPipeline`: aggregation, sorting and
output, time windows, `AddExporterStat`, and the running `sumSize` within a block, which a legacy
record resets (`nfdump.c:440-443`): only its value at the end of the block is modelled, not that a
record behind such a one may overrun the block without being recognised as bad. In `Privsep`: the repeater, the contents of a
launch message and its expansion, and the reaping of commands. In
`Collector`: the launcher and repeater (option `-x` and `-R`), NBAR, ifname and
VRF records, v5, v7 and sFlow packets, what fields a template has, and damage by freed templates
other than a wrong template and the end of nfcapd (another record overwritten, say).
In `Expire`: directory levels, a recycled segment whose `sequence` starts again at 0 and comes to the
value nfexpire kept (`bookkeeper.c:163`, 171, 224; `changed` says that any booking is noticed), the profile and channel walk of `nfexpire -p`, and failing
system calls other than those named. In `PacketCapture`: sending flows to a
host (`-H`), BPF filters and `packet_bpf.c`, and the partial failures of
`appendPcap`, which is one step.

Components that are left out, and why:

- *Metric export*: one thread that copies counters under a mutex and sends them;
  next in the plan.
- *v5, v7, v1 decoding*: stateless but for the sequence check, which has the form
  of that in `Exporters`.
- *sFlow, record format and sequencer, filter engine, output modes, lookups*:
  sequential conversions of data with no state between records; a model
  would repeat the code.
- *nfdump statistics and sorting*: hash tables and heaps of one thread over large
  data, out of TLC's reach in sizes at which anything happens.
- *Replay and file tools, profiler files, network set-up, daemon and configuration*:
  start-up code and I/O without further states.
- *Vendored code*: lzo, lz4, zstd, toml, sgregex are third-party.
