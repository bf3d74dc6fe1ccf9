# A TLA+ model of sysprof

Sysprof records what a system or a program does, from several processes at
once, into one capture file, and shows it.  The code that is hard to get right
is where actors share something: a ring buffer in shared memory, a socket that
several processes inherit, a file descriptor with one offset, a buffer between
a stream and its frames, a fiber that awaits while others write.  That is what
is modelled first.  What works on data that no longer changes is modelled where
an algorithm of its own does the work: the window of the reader, the joining of
captures, the symbol cache, the callgraph and the leak detector.

Paths below are relative to `src/` of the repository unless they begin with it.

- [Inventory](#inventory)
- [Modules](#modules) and how they correspond to the code
- [Runs](#runs): what TLC checks, on which instances, and what it shows
- [Fairness](#fairness)
- [Proofs](#proofs)
- [Disagreements](#disagreements) between code and comments, and what else was met
- [Not modelled](#not-modelled)
- [Plan](#plan)

Running: `tlc -config Recording.cfg MCRecording.tla` for a run of the table
below, `tlapm RingBuffer_proofs.tla` for proofs.  The community modules
(SequencesExt and what it uses) and the library of TLAPS have to be on the path.

## Inventory

The parts of the system, and what makes each of them correct.

### Inside the profiled program

| Part | State | Operations | Talks to | What must hold |
|---|---|---|---|---|
| Ring buffer, `libsysprof-capture/mapped-ring-buffer.c` | head, tail and a body mapped twice in a row, shared by two processes; `has_failed` of the writer | allocate with a reserve, advance, drain, is_empty | the collector writes, a GSource reads | frames whole, in order, once; a word not yet released is never overwritten; there is always room for the final frame; allocation never blocks for good |
| Collector, `libsysprof-capture/sysprof-collector.c` | a pthread key per thread (NULL, `COLLECTOR_INVALID`, a collector), the lock and the disabled flag of the process, the control socket | get, the event calls, the destructor of the key | ring; control socket; itself, under the memory hooks | one writer per ring; no call waits for ever; a thread asks once; a thread that ends closes its ring |
| Preloads, `preload/*.c` | hooks of malloc, free, ... | one event per call | collector | no endless recursion; an event for an address is ordered with the allocation it is about |

### Inside the profiler, while it records

| Part | State | Operations | Talks to | What must hold |
|---|---|---|---|---|
| Recording, `libsysprof/sysprof-recording.c`, `sysprof-instrument.c` | a fiber, a channel of commands, a cancellable, times, the writer | start, wait, stop, augment, finish | instruments, spawned process, sysprofd | ends when it has a reason and not otherwise; everything is on disk then; the times are those of the recording |
| Linux instrument, `sysprof-linux-instrument.c` | calls to sysprofd, a timer | follow a process, its answer, watch its maps | sysprofd, recording's writer | nothing is written behind the end |
| Symbols bundle, `sysprof-symbols-bundle.c` | none | augment | loads the file being written | it sees what was recorded |
| Control socket instrument, `sysprof-controlfd-instrument.c` | a fiber, the rings' GSources and their ids, a temporary capture | answer a request, dispatch a ring, stop | collectors of all profiled processes | ids and sources agree; a stop loses nothing that is in a ring; it responds to cancellation |
| Ring source, `mapped-ring-buffer-source.c` | a timer | poll, dispatch, finalize | ring | every event is handed over in the end |
| User sampler and live unwinder, `sysprof-user-sampler.c`, `sysprof-muxer-source.c`, `src/sysprof-live-unwinder` | a pipe, a buffer of fixed size, the frames in it | read, cut frames, stop | recording's writer | frames whole and in order wherever reads split them; none left behind |
| Sampler, `sysprof-sampler.c`, `sysprof-perf-event-stream.c` | rings of the kernel | enable, dispatch, disable | recording's writer | records across the end of a ring; none from before the start |
| Proxied, counter and message instruments | what they read | read until cancelled | D-Bus, /proc, /sys | they end when cancelled |
| Capture writer, `libsysprof-capture/sysprof-capture-writer.c` | a buffer, a table of names of addresses, the chain of index frames, a file | add, add_jitmap, flush, splice, save_as, cat | the file | nothing lost or doubled; names resolve; the chain of index frames leads through the file after any failed write |

### After the recording

| Part | State | Operations | Talks to | What must hold |
|---|---|---|---|---|
| Document, `sysprof-document.c`, `sysprof-document-loader.c` | what the frames say | load, along the file or by its index in parts | capture file | both ways find the same frames |
| Capture reader and cursor, `sysprof-capture-reader.c`, `sysprof-capture-cursor.c` | a window of the file, a position, the end time | peek, read, skip, reset, questions about embedded files, a filter | capture file | frames come in the order of the file whatever was called before; the end time is that of the last frame; an answer is that of a walk |
| Capture cat, `sysprof-capture-writer-cat.c` | tables of translated names, counters and events | copy the frames of another capture | writer, reader | what frames refer to is what they referred to |
| Symbol cache, `sysprof-symbol-cache.c` | a red-black tree with the greatest address of each subtree | take, look up | symbolizers | a look-up finds a symbol that spans the address; the tree is balanced |
| Callgraph, `sysprof-callgraph.c`, `sysprof-descendants-model.c`, `sysprof-weighted-callgraph-view.c` | a tree of symbols, a summary per symbol | add a traceable, list the traceables of a node, descendants | document, views | weights are what the document has; time of the kernel and of user space are told apart |
| Leak detector, `sysprof-leak-detector.c` | a tree of allocations | walk the memory events | document | leaks are what was not freed |
| Symbolizers, layouts, loader | data that does not change | look-ups | document | |
| sysprofd, agent, command line tools, window | - | serve, start, show | all of the above | only what the recording sees of them is modelled |

What is hard in this code, in the order of how much can go wrong: the memory of
the ring (an interleaving of single words), the control socket (several
processes, threads, destructors and a recursion through `malloc`), the file
while writes fail, a stream cut by reads of any size, and the end of a
recording, when everybody writes until they notice; then the ring of the kernel
across its end, and a reader whose file grows or comes from another machine.  `PROJECT.json` lists these
hazards at their lines, with the properties that speak about them.

## Modules

| Module | Models | State | One action per |
|---|---|---|---|
| `FrameStream` | what a ring promises: a bounded stream of frames, closed by a final one | sent, got, load | publication, delivery |
| `RingBuffer` | `mapped-ring-buffer.c` with one writer and one reader | head, tail, the words of the body, the local variables of both sides | load or store of a shared word or of a position |
| `RingBuffer_proofs` | theorems about it | | |
| `Collector` | `sysprof-collector.c` of all threads of all profiled processes, and `sysprof-controlfd-instrument.c` | keys, locks, the socket, rings as queues, sources and their ids | stretch between two calls that may block or recurse |
| `Collector_proofs` | theorems about it | | |
| `MuxerSource` | `sysprof-muxer-source.c` reading a stream | the stream, what is in the buffer, the part of the header to skip | dispatch with a read of n bytes |
| `UserSampler` | `sysprof-user-sampler.c` with the live unwinder at the other end of a pipe; extends `MuxerSource` | phase of the sampler, the unwinder, event fd, ends of the pipe | write of n bytes, dispatch, step of the fiber |
| `MuxerSource_proofs` | theorems about both, and about `Callgraph`, which the stacks end up in | | |
| `PerfStream` | `sysprof-perf-event-stream.c`: a ring per CPU that the kernel fills | words of the rings, positions, the flush that runs | record put or dropped by the kernel, record flushed |
| `Sampler` | `sysprof-sampler.c`: opening, starting and stopping the streams; extends `PerfStream` | phase, attempt, futures, what was kept | answer, callback, step of the fiber |
| `Sampler_proofs` | theorems about both | | |
| `CaptureFile` | the file as frames, index frames and their chain; how `sysprof-document.c` loads it | none: operators | |
| `CaptureFile_proofs` | theorems about loading a file | | |
| `CaptureWriter` | `sysprof-capture-writer.c` | the writer, the file with its header, what was added | call of the writer, with every outcome of every `write()` in it |
| `CaptureWriter_proofs` | theorems about it; extends `CaptureFile_proofs` | | |
| `CaptureReader` | `sysprof-capture-reader.c` | the file, the window, the position, the end time | call of the reader, growth of the file |
| `CaptureCursor` | `sysprof-capture-cursor.c`, `sysprof-capture-condition.c`, and what is asked of a reader about embedded files; extends `CaptureReader` | the list of embedded files, the last answer | question, run of a cursor |
| `CaptureCat` | `sysprof-capture-writer-cat.c`; extends `CaptureCursor` | the tables, the writer's names and ids | turn of one of its two loops |
| `CaptureReader_proofs` | theorems about the three; extends `CaptureFile_proofs` | | |
| `Recording` | `sysprof-recording.c`, `sysprof-instrument.c`, and who writes to the capture beside them | where the fiber awaits, each instrument, the buffer of the writer by who filled it, the header | stretch between two awaits, callback |
| `Recording_proofs` | theorems about it and about `SymbolCache` | | |
| `SymbolCache` | `sysprof-symbol-cache.c` with the red-black tree of `tree.h` | the tree | symbol taken |
| `Callgraph` | `sysprof-callgraph.c` with the symbols of a traceable from `sysprof-document.c`, `sysprof-descendants-model.c`, the weights of `sysprof-weighted-callgraph-view.c` | the tree, the summaries | traceable added |
| `LeakDetector` | `sysprof-leak-detector.c` | the records of a document, the loop | turn of the loop |
| `MCCollector`, `MCCaptureWriter`, `MCCapture`, `MCRecording`, `MCAnalysis` | instances for TLC | | |

How they fit together: `RingBuffer` implements `FrameStream`, and `Collector`
uses a ring as the queue of frames that `FrameStream` promises, with the place
of the final frame kept free (`Slots` counts event frames only).  The temporary
capture of `Collector` reaches the recording's writer by
`sysprof_capture_writer_cat()` (`sysprof-controlfd-instrument.c:270`), which is
`CaptureCat`; the frames `MuxerSource` cuts out and the samples `Sampler` keeps
reach it by `Add` of `CaptureWriter`.  Its `Splice` is a call of the library that
other programs may make.  `Recording` keeps of the writer only who
wrote what is in its buffer, because between two flushes that is all that the
end of a recording depends on.  `CaptureWriter` extends `CaptureFile`: every file
the writer can leave is loaded in both ways.  `CaptureReader` reads such files
cell by cell.  `CaptureCursor` calls it in loops to answer questions, and `CaptureCat`
calls it for both of its walks and relies on what `CaptureWriter` promises of names (`NamesResolve`) for the writer it fills.
`PerfStream` is a ring like `RingBuffer`, but its writer never waits: it drops, and
its positions count on instead of being reduced.  `Callgraph` begins where
`SymbolCache` ends: the symbol of an address is a function there.

Variants.  Operators that begin with the comment "Variant" are not part of a
specification.  Each is a mutation of the definition that follows it, the way a
plausible bug would have it (a dropped wait, a late flush, a lost reserve), and
some property must fail when it takes that definition's place.

### RingBuffer

Lengths are in words of 8 bytes, which every length of the code is a multiple
of.  The body is written and read word by word, so a reader that is in the
middle of a frame sees every state of a writer that fills another.  `Wrap` is
the double mapping: a frame may run over the end of the body, and a position is
taken modulo the size when it is stored.  `Fits` is the test of
`mapped_ring_buffer_allocate_with_reserve()`.  A frame is allocated with its
worst-case length and published with the one it came out with (`length` and
`len`).  `BeginFinal` is the destructor's final frame, `Refuse` the callback
that meets it and stops the source, `Finalize` the removal of the source with
its last drain, `Die` the death of the program at any moment, and
`AllocateFail` the way out of the loop that makes `has_failed` stick.  The
memory model is that of the acquire and release operations the code uses: a
store of a position is seen after the stores of the words before it.

### Collector

A thread calls the collector in its own code or, if its process has
`libsysprof-memory` preloaded (`Hooked`), from every allocation the collector
makes itself.  `tls` is the pthread key.  `Enter` sets it to
`COLLECTOR_INVALID`, which is all that ends the recursion; `Lock`, `Send`,
`Receive`, `Map` follow `request_writer()` under `control_fd_lock`; `Destroy` is
the destructor, which frees memory and so may make the thread a collector again
for the next of `Rounds` rounds; `Kill` ends a process without any destructor.
Whether a process has `SYSPROF_CONTROL_FD` is chosen at the start (`profiled`).
On the other side `Handle` answers a request, `Dispatch` drains a ring and gives
up its source at a final frame, `RemoveSource` drains it a last time, and `Save`
hands the temporary capture on.  `due` and `unanswered` are history variables.

### MuxerSource

Positions count from the start of the stream, so that the `memmove()` of the
rest to the head of the buffer needs no action: the buffer is the part of the
stream between `begin` and `end`.  What the code takes for a frame header at a
place that is none has length 0 here; `FramesIntact` says that it never looks
there.  All frames have aligned lengths, which the writer at the other end
sees to and `_sysprof_capture_writer_add_raw()` asserts.

### UserSampler

The stream of `MuxerSource` comes through a pipe of `PipeSize` bytes from a
process that sysprofd may or may not start, that may be killed in the middle of
a frame, and that does not look at its event fd while it waits in `write()`.
`Prepare` is the answer of sysprofd, `Stop` and `DestroyMuxer` are the two lines
at the end of the recording's fiber (the event fd, then the muxer with the
reading end), `UnwinderPipe` is SIGPIPE, and `Abandon` is what happens to a
sampler that was prepared when another instrument was not.

### PerfStream and Sampler

`KernelPut` and `KernelDrop` are the kernel as `perf_event_open(2)` describes it:
a record goes in as a whole, with a LOST record in front if some were dropped
before, or it is counted.  `FlushBegin`, `FlushRecord` and `FlushEnd` are
`sysprof_perf_event_stream_flush()`, which the kernel interrupts between any two
records; `RecordAt` puts the words of a record together around the end.  A place
without a header reads as size 0, the corruption the code gives up at.  `Sampler`
adds the four ways to open the streams (hardware or software events, each with
and without mmap2), `Enable` while the recording is still being prepared, the
callback with its comparison of times in two units, and the end.  The ioctl that
enables or disables a stream may fail, which the fibers pass over
(`sysprof-sampler.c:497`, `:563`): `Enable` starts any part of the streams, and a
stream that `Disable` could not stop stays active and is not flushed, until `Clear`
(`sysprof-recording.c:369`) lets go of it.  When another instrument fails to prepare,
the fiber of the recording returns (`sysprof-recording.c:141`, `Abandon`) and clears
nothing: the streams hold the recording through the data of their callback
(`sysprof-sampler.c:64`) and the recording holds its instruments, so they go on.

### CaptureFile and CaptureWriter

A file is a sequence of cells.  A frame is some cells long, its first cell is
where it begins, and the header of the file is cell 0.  `Align` cells are an
aligned unit (8 bytes in the code) and `HeadLen` cells a frame header; with an `Align`
of 2, half a unit stands for every part of one.  `Write` is a `write()` loop:
everything, or a part and an error, which leaves what comes behind it at places
that need not be aligned.  A document does not follow the chain to an index
frame at such a place (`Chain`, `sysprof-document.c:1362`).  Calls are written as functions from a
state to the set of states they can leave (`Then` is "and if that succeeded"),
because a call like `add` runs through three flushes that may fail.  `FlushJitmap`
writes the table of names around the buffer, in front of frames that were added
before it.  `Interval` is `FRAME_INDEX_INTERVAL`.  `SaveAs` writes over a file
that may be there already (`Saved`).

`Splice` flushes both writers, walks the other file, writes an index frame and
copies the file as it is.  The walk refuses a file (`EBADMSG`) only at a frame whose
header is there and whose rest is not; where less than a header is left, or a type that it does
not know, it ends and the file is copied with all that is behind
(`Passes`, `sysprof-capture-writer.c:1415`, `sysprof-capture-reader.c:466`).  In the
middle of a frame it reads whatever is there, so that either may happen.  What is copied
keeps its own index frames, which nothing links
to, and its own names for addresses, which may be names of other addresses here.
A file with memory samples is not copied but joined, as in `CaptureCat`.

`Walk` gives, for every offset, what a walk from there finds and whether it comes
out at the end.  `Load` is `sysprof_document_scan_frames()`: in parts if the chain
of index frames cuts the file into at least two and each part comes out at its
end, else from the start; `Serial` is the walk from the start alone.  `Kept` leaves
out the frames that are the writer's own.

### CaptureReader, CaptureCursor and CaptureCat

The file is a sequence of cells as in `CaptureWriter`.  `EnsureSpaceFor` moves
what is left to the front and fills the window; each read function is
translated by the way it makes sure of its frame (`ReadBasic`, `ReadStruct`,
`ReadMark`, `ReadJitmap`, `ReadMemorySample`, `ReadCounters`), which is where they
differ.  A file of the other byte order has its headers swapped in the buffer:
a cell knows whether it was, and a length read the wrong way round is another
number (`Exchange`).  `Grow` appends part of a frame while the reader is in use,
which a reader of `sysprof_recording_create_reader()` may meet, as the writer
writes on.
`DiscoverEndTime` is the first walk of a new reader, a function of the number of its turns:
each but the last takes at least a cell, so the number of cells and one are enough.

`CaptureCursor` has the loops of the callers, one operator for a turn of each
(`FindFile`, `ListFiles`, `ReadFileFd`, `Foreach`), which `Loop` repeats as a function of
their number in the same way.  A condition is matched by a function over `Terms`, the
conditions with those they are made of.  The
questions about embedded files (`Ask`, `List`; in `src/` only a test asks the last two)
reset the reader before and after, as their
caller does; a cursor works on a copy (`Cursor`).  The list of embedded files is made by the
first `List` and kept in the reader (`listed`), so that later ones do not see what the file has
grown by; it remembers the paths there were (`there`).  Its loop does not look at
whether a skip worked (`sysprof-capture-reader.c:1555`): at a frame that is cut it goes round
until the rest is written, so that `List` is a step only where the loop ends.  A copy of a reader
shares the list and both free it (`sysprof-capture-reader.c:1384`, `:124`), so there is no
`Cursor` of a reader that has one.

`CaptureCat` is two walks over a reader that somebody used before: names, then
frames.  A name that the writer does not know gets the next of its addresses
(`AddName`), of which it has given `seq`; `MaxSeq` bounds them, and a jitmap that would
need more is not read.  `Meaning` is the reference: what the identifiers in a frame
stand for in the capture it is from (`NameOf`, `CounterOf`, `EventOf`).
`CatAssumption` says which captures and writers there are: captures as sources write
them, where a counter is defined once and before it is set (the sources of `src/` all
request their counters and define them before the first value), an address has one
name, and an address in a sample that has no name in its capture is not one that a writer
gives out (`Mark` to `Mark + MaxSeq`), but of a program or of the kernel.

### SymbolCache, Callgraph and LeakDetector

`SymbolCache` translates `RB_INSERT`, `RB_INSERT_COLOR` and the rotations with the
augmentation that keeps the greatest address of a subtree, and the look-up that
descends by it.  A loop of the code is a turn, a function from where the loop is at to
where it is next, and `Looped`, which takes as many turns as there are addresses: a
loop that has ended stays where it is, and each turn before goes to a node that
spans more of the addresses than the last, or fewer.  `Callgraph` adds one traceable per step: its symbols with the
changes of context (`Symbolize`), what is left out or added around them (`Ignored`,
`Account`), the way down the tree (`AddTrace`), the weights of its nodes (`Weigh`) and
of the summaries (`Summarize`).  Stacks deeper than `MaxDepth` are left out
(1024 in `sysprof-callgraph.c:380`), a listing ends after `MaxResults` (1000,
`sysprof-callgraph.c:1059`), and the descendants look at the innermost `DescentDepth`
addresses of a stack only (128, `sysprof-descendants-model.c:184`), where their symbol may
not be (`Innermost`).  Its loops are recursive functions of their turns
(`SymbolizeTurn`, `AddTurn`), and `Way` is the nodes from the root down to a node.
`GraphAssumption` says what an address of a stack may be, and that what is found for it is no
mark, that a process has no functions of the kernel, nor the kernel those of a process.
`ListTraceables` and `Descendants` are what a view asks
for afterwards.  `LeakDetector` is the walk with its shared frame object, and the
tree of allocations as a function from addresses to positions.

### Recording

`pc` says where the fiber awaits.  The instruments are known by what their
future is about.  One of them is a symbols bundle, which loads the file before
it adds to it, and one serves the control socket and reads on while the spawned
process or a child holds the other end (`held`).  The buffer of the writer is
the set of those whose frames are in it; writing a frame may flush it
(`Write`).  The streams of a sampler run from the end of its own preparation on and as long as
they could not be disabled (`Streaming`), so that processes are followed, and calls
to sysprofd owed, before the recording starts.  `Answer` is `process_started_cb()`, for which nobody waits; `Watch`
is the timer that reads the maps of the spawned process and looks at the end
time first; `Open` is the recording's window that duplicates the descriptor and
rewinds it; `Finalize` is the last reference to the writer.

libdex is not part of the repository.  Its combinators are modelled from what
they are documented to do: `dex_future_first()` completes with its first future,
whichever way that went; `dex_future_all()` waits for all; `dex_future_any()`
completes with the first future that resolves, and with a rejection only when
all are rejected.  A cancelled cancellable is a rejected future.

## Runs

| Run | Module and configuration | Instance | Checks |
|---|---|---|---|
| `ring` | `RingBuffer`, `RingBuffer.cfg` | body of 7 words, frames of 2 and 3, final frame of 2, 4 events, 2 rounds of allocation | `FifoIntact` `FinalFrameFits` `StopLosesNothing` `Refinement` `EventuallyDelivered` `AllocateReturns` |
| `collector` | `MCCollector`, `Collector.cfg` | two threads of one process without hooks, one thread of a process with them, two rings of two slots, two events per thread | `OneWriter` `RingIntact` `IdsAreSources` `StopKeepsAll` `AsksOnce` `LeavesNoRing` |
| `collector_liveness` | `MCCollector`, `CollectorLive.cfg` | two threads of one process with hooks, two rings of one slot, two events per thread | `GetReturns` `ClosedRingReleased` |
| `user_sampler` | `UserSampler`, `UserSampler.cfg` | buffer of 12 bytes, file header of 4, frame headers of 3, frames of 4, 8 and 12, 3 frames, a pipe of 6 | `FramesIntact` `RoomToRead` `UnwinderEnds` `WritesGoOn` |
| `writer` | `MCCaptureWriter`, `CaptureWriter.cfg` | units of 2 cells, buffer of 6 cells, frames of 2 and 4 (6 is too long), an index frame every 2, a table of 1 name, 2 names, four captures to splice (one with an index frame and names of its own; one cut within a frame header, one behind a frame header, one with a frame of a type that is not known), saves to a new file and over one of 8 cells, 2 frames, one failed write | `LoadAgrees` `ChainUnbroken` `NothingLost` `NamesResolve` `SavedIsCapture` |
| `recording` | `MCRecording`, `Recording.cfg` | a bundle, a control socket, another instrument, a spawned process, one call to sysprofd beside that for the spawned process, one round of the timer | `RecordedOnDisk` `OpenedIntact` `StopsForAReason` `StopEnds` |
| `capture` | `MCCapture`, `Capture.cfg` | a window of 6 cells, frames of 1 to 3, 5 calls between resets, captures of 3 to 8 frames in both byte orders, a second one to join, two states of the writer, 4 addresses for names; the list of files is asked for before and after the file has grown | `WalkInOrder` `AnswersAsWalk` `SameMeaning` |
| `capture_index` | `MCCapture`, `CaptureIndex.cfg` | one of these captures | `IndexesWalked` is violated |
| `perf` | `Sampler`, `Sampler.cfg` | two CPUs, rings of 4 words, samples of 2, lost records of 1, 4 events, a clock of 2 | `RecordsIntact` `NothingLeftBehind` `LostCounted` `PrepareEnds` `RingsDrained` |
| `sampler_start` | `Sampler`, `SamplerStart.cfg` | the same | `NoSampleBeforeStart` is violated |
| `analysis` | `MCAnalysis`, `Analysis.cfg` | 12 intervals of symbols in every order; callgraphs of up to 3 of 10 stacks, under 4 sets of flags, stacks of 6 at most, descendants in 5, listings of 2 | `LookupRight` `Balanced` `TreeRight` `ContextsTold` `ListsRight` |
| `leaks` | `LeakDetector`, `LeakDetector.cfg` | two addresses, 4 records | `LeaksAreUnfreed` is violated |

What each shows is in the comments of its properties, which stand at the end of
the modules.  `IInv` and `TypeOK` of the modules with proofs are theorems, and
are not checked by the runs.

Why these bounds are enough to see what matters:

- `ring`.  A body of 7 is no multiple of the frames, so that frames end before,
  at and behind its end; 4 events of up to 3 words go round it more than once
  and fill it up to the reserve; with 2 rounds an allocation can be refused,
  retried and given up.  The theorems hold for every body, length and number.
- `collector`.  Two threads of one process contend for the lock, a third in
  another process shares the socket with them; there is one ring fewer than
  threads, so that a request can find none.  Two events of a thread can be in its ring
  at once, in which the order of a drain shows.  In `collector_liveness` a ring has one
  slot and the second event may be dropped.  `Rounds` is 1 (glibc runs 4): a thread that becomes a
  collector again in its last round shows what more rounds would repeat.
  Liveness is checked on two threads with hooks and one lock, where every wait
  of the code can occur.
- `user_sampler`.  A frame can be as long as the buffer, the pipe holds less
  than the longest, and reads and writes split the stream between any two
  bytes, so that the unwinder may be in the middle of a frame, of the header or
  of a full pipe when the recording stops.
- `writer`.  The buffer holds one long frame and a short one, so that a frame
  does not fit, fits, and fits exactly; two frames and names together reach the index
  interval and go beyond it; one failed write can hit any call at any cell, in the
  middle of a frame header and of an aligned unit too.  The file saved over is longer than some
  captures and shorter than others.
- `recording`.  One call and one round of the timer are enough to be late; the
  clock has two values, which tell start from stop.  It stops where the system
  does: when the recording is over and all references are gone.
- `capture`.  The window holds two of the longest frames, as that of the code
  does, and the files are longer than it, so that frames straddle its end at
  every offset.  Five calls reach the end of the short files, and a growing file
  can end in any cell when they are made.  The two captures to join use the same
  numbers for other names, counters and events, and the writer has some of its
  own in one of its states; the table of names holds one entry, so that it is
  written in between.
- `perf`.  A ring of 4 words holds one sample, as the kernel never fills it
  entirely, so that every further event is dropped, and a lost record shifts the
  next sample across the end.  Two CPUs can open, start and stop, or fail to, separately.
- `analysis`.  The symbols, of which eight get nodes, come in any order and take the red-black tree through every
  case of its insertion at the root and below.  The stacks have recursion,
  kernel and user parts, an address without a symbol, and processes of each sort
  that is treated in a way of its own.  One is too deep to be shown, one deeper than the
  descendants look, and with three traces a listing of two is cut.

`CHECK_DEADLOCK FALSE` stands where the modelled part really ends: the recording
or the sampler is over, the document is loaded and has been looked at, or the
captures are joined.  `Collector` and `RingBuffer` say so with a `Terminated`
step, and `CaptureWriter` can always be called.  Rings are symmetric in
`collector`, which checks safety only.  `MCAnalysis` chooses at the start whether
a behaviour is about the cache or a callgraph, as they share no state.

## Fairness

- `RingBuffer`: the main loop polls the source every few milliseconds and a
  drain goes on; a thread that is in the allocation loop goes round it.  Nothing
  makes a program record, end, or be stopped.
- `Collector`: a thread in `sysprof_collector_get()` goes on while nothing blocks
  it; the main loop serves the socket and the sources; once the loop of the
  fiber has ended, its clean-up runs.  That a recording is stopped, that a
  thread ends and that a process is killed is not assumed.
- `Recording`: the main loop runs the fiber; instruments prepare, respond to the
  cancellation and augment.  The one of the control socket responds only once
  nobody holds the other end, which is not assumed to happen, and neither are
  the answers of sysprofd, the end of the spawned process or the STOP.
- `UserSampler`: both main loops dispatch what is ready, and the fiber of a
  stopped recording runs on.  The unwinder is not assumed to have anything to
  write, nor anybody to stop the recording.
- `Sampler`: calls to open a stream are answered, and the main loop dispatches
  and flushes.  The kernel is not assumed to record anything.

Each is weak fairness of a step that stays enabled until it is taken, which is
what a main loop and a scheduler give.

## Proofs

`RingBuffer_proofs` proves for every size of the body, every set of lengths, every
number of rounds and of events (`RingAssumption`: the assertions at the entry of
`mapped_ring_buffer_allocate_with_reserve()`):

| Theorem | Says |
|---|---|
| `TypeCorrect` | `TypeOK`: the positions stay inside the body |
| `Invariance` | `IInv`, the inductive invariant |
| `FifoCorrect` | `FifoIntact`: the callback receives the published frames, whole and in order |
| `FinalFrameCorrect` | `FinalFrameFits`: the final frame never has to wait |
| `StopCorrect` | `StopLosesNothing`: the drain of the finalization passes over every published frame |
| `UnreadStableCorrect` | `UnreadStable`: no step changes an unread word |
| `RefinementCorrect` | `Refinement`: `RingBuffer` implements `FrameStream` |

`FifoIntact` alone is not inductive: that the next frame comes out whole depends
on what is in the body now.  `IInv` looks at the ring as the sequence of its
unread words in order (`Unread`), which hides where it wraps, and says five
things: how much space is claimed (`SpaceInv`: the words in use and the one being
allocated with its reserve stay below the body, so head and tail never meet on a
full ring); that the words of the frame being filled are in place behind tail
(`WriterInv`); that published frames are numbered (`SentInv`); that the unread
words are the frames that were not delivered, one behind the other, each whole
(`FramesInv`); and that a drain, which works on a tail it loaded before, ends at
the end of a frame (`ReaderInv`).  The argument per action is: positions move by
`DistForward` and `DistConsume`, `WrapInjective` keeps the writer's words apart
from the unread ones, and `FramesInv` is carried over by the three ways the
sequence of unread words changes: not at all, by a frame behind, by a frame less
in front.

`Recording_proofs` proves for all instruments and all bounds:

| Theorem | Says |
|---|---|
| `Invariance` | `IInv`: what each phase of the fiber finds the instruments at |
| `TypeCorrect` | `TypeOK`, with the order of the times |
| `OnDiskCorrect` | `RecordedOnDisk` |
| `OpenedCorrect` | `OpenedIntact` |
| `StopsCorrect` | `StopsForAReason` |

`RecordedOnDisk` speaks of the last phase; the invariant adds why nobody but an
answer of sysprofd can write then: in each phase of the fiber an instrument is in
one of a few states (`Prepare`, `Running`, `Stopping`, `Ended`), the timer looks
at an end time that was set with the first of them that stops, and a recording
that failed to prepare has no begin time.

It also proves of the caches whose symbols a recording is augmented with, for all
symbols and any greatest address (`IntervalAssumption`):

| Theorem | Says |
|---|---|
| `CacheFindsRight` | `LookupRight` |
| `CacheStaysBalanced` | `Balanced` |

The inductive invariant is `CacheIInv`.  It says that there is a range of addresses for each
node, from which the shape of the tree follows (`Shape`): the range of a node is within
that of the node above, on its side of it, two ranges are one in the other or apart, and
each node is on the way that its address has from the root; that the greatest address of a
node is that of the nodes in its range (`MaxAll`); and that each
node has a number of black nodes below it that is the same on both sides (`Colored`),
with no red node below a red one (`RedsApart`).  Ranges make a tree of links a thing that
needs no induction: what is below a node is what its range has.  A rotation gives
the two nodes it turns new ranges and keeps all others (`RotateRight`), a node that is hung from
where the search ended gets the range that was left there (`HungRight`).  While `RB_INSERT_COLOR`
runs, one node may be red below a red one, and the next turn has it at a node of a wider
range or ends the loop (`ColorStep`).  That the loops end within `Top` turns
(`LoopHasTurns`, `ColorRight`, `DownRight`, `RaiseRight`, `LookupFinds`, `BlacksAre`) rests on
the same: ranges get wider on the way up and narrower on the way down.

`Collector_proofs` proves for any number of threads, processes, rings, slots, events
and destructor rounds, and any hooks:

| Theorem | Says |
|---|---|
| `Invariance` | `IInv` |
| `TypeCorrect` | `TypeOK` |
| `WritersCorrect` | `OneWriter`: a ring has one thread that writes to it |
| `RingsCorrect` | `RingIntact`: what is in it is that thread's, in order |
| `LockCorrect` | `LockHeld`: a thread at the socket has the lock of its process |
| `AsksCorrect` | `AsksOnce` |
| `LeavingCorrect` | `LeavesNoRing` |
| `IdsCorrect` | `IdsAreSources` |
| `StopCorrect` | `StopKeepsAll` |

The invariant follows a ring from where it is made to where it is closed
(`Ownership`, `RingInv`): empty in the socket and in the hands of the thread that
received it, open with the events of one thread while it is that thread's
collector, closed and drained once its source is gone.  The last is why a stop
loses nothing: `StopInv` says of each ring that what is due is captured, or
still to come out of a ring whose id is kept, and a ring without an id has
nothing to come.  `Asking` gives a thread one request ahead while its key is NULL
or it is on its way to the socket; the destructor grants the next one by
counting a round.  What a drain does is seen through three functions of the
rings (`Pending`, `All`, `Shut`): a drain changes only the first, an event appends
to the first two, the final frame changes only the last.

`CollectorAssumption` asks for nothing but types, `Rounds` of at least 1 and
names of rings and threads that are not those of the special values.

`MuxerSource_proofs` proves for every size of the buffer and the pipe, every set of
frame lengths that fit the buffer and any number of frames:

| Theorem | Says |
|---|---|
| `MuxerInvariance`, `UserInvariance` | `Inv`, for the muxer alone and with the unwinder |
| `TypeCorrect` | `TypeOK`: the buffer holds a part of the stream that fits it |
| `FramesCorrect` | `FramesIntact` |
| `RoomCorrect` | `RoomToRead` |

`FramesIntact` says where the muxer stands, but not that there is a header: `Inv`
adds that frames lie one behind the other (`Contiguous`), so that behind a frame
that was taken the next one begins, and that `begin` and what is left to skip
point to it also when it is not written yet (`Standing`).  `RoomToRead` is part of
the induction: a full buffer would begin with a whole frame, which a dispatch
takes.  Each step of `UserSampler` is one of the muxer or leaves it alone.

About `Callgraph` the module proves, for any stacks, symbols, processes and flags and any number of traceables:

| Theorem | Says |
|---|---|
| `CallgraphRight` | `TreeRight`: nodes and summaries weigh what is shown of the document |
| `CallgraphTold` | `ContextsTold`: the time of the kernel and that of the process are told apart |
| `CallgraphLists` | `ListsRight`: no trace through a function is missing where it is listed, but for the limit, and what is below a function is and weighs what its outermost calls came to, as far as stacks are looked at |

The invariant (`GraphIInv`) compares the tree with `ShownPaths`, the paths from the root
that are shown of the traceables so far: no two children of a node have the same symbol
(`Apart`), each node but the root is on such a path and weighs those it is on, and each
path ends at a node (`NodesRight`); a summary is a function of these paths
(`SummariesRight`).  That no two nodes have the same path is not part of it, but follows
(`WaysApart`), and so does that a node is on the way to another just if its path begins that
of the other (`OnTheWay`).  A trace is added in turns that go one symbol further
or, where the symbol is hidden, stay (`Along`); what it adds to the nodes (`Traced`) is
what its path adds to the sums (`MoreThrough`).  A symbol of a path has just one place behind which
it does not come again (`OneUnseen`), which is why `Summarize` weighs it once.
For `CallgraphTold` the loop over the addresses keeps that the next mark outwards names what a
function was in, or that there is none yet and the loop is still in it
(`ToldSoFar`).  The mark that is appended for the kernel settles the latter; the
path hides no marks, and what is told at a node depends only on
the path to it (`OnlyTheFirst`).

`CallgraphLists` needs no more of the invariant.  The functions on the way to a node that
goes down are on the stack of each trace through it, in order and apart: what is shown of a
stack is the stack without some marks and with what is appended (`AccountCalls`, `PathLeads`),
so the greedy search of `HasPrefix`, which is behind each symbol no later than any
other choice, finds them (`PrefixIsFound`).  The tree of the descendants is built over the
traceables of the summary: each adds one path from the root to those it has
added before (`AddBelowRight`), or none if the function is the innermost
(`NothingBelow`), so that each node weighs the parts it begins (`DescendantsRight`).

That the loops exist as functions is by induction on their turns (`LoopExists`).

`Sampler_proofs` proves for any number of CPUs, every size of the rings and records,
and any number of events:

| Theorem | Says |
|---|---|
| `Invariance` | `IInv` |
| `TypeCorrect` | `TypeOK` |
| `RecordsCorrect` | `RecordsIntact`: records come out whole, once and in order |
| `StopCorrect` | `NothingLeftBehind`: a stopped sampler has been through all records of the streams it could disable |
| `CountCorrect` | `Counted`: for each CPU, what its lost records have said and what was dropped |
| `LostCorrect` | `LostCounted`: no more is counted than was dropped, and if all streams were stopped, all of it but for what the kernel has not told |

The invariant gives every record of the log a position (`Chain`), says that those
from `data_tail` on are in the ring at their positions modulo its size (`Holds`), and
that a flush, which works with a head and a tail it loaded before, stands where
a record begins.  A record the kernel adds ends less than a turn behind
`data_tail`, so that it takes no place of one that is still to be read
(`PlaceInjective`).  `Phases` says which streams may be active while the
sampler is at what, and which it has yet to come to (`todo`), and `Keeps` which of the samples delivered are in the
capture.

`LostCounted` compares one counter with a sum over CPUs.  `Counted` gives each CPU a
running total of what its lost records say (`Tally`), which ends with what was
dropped there and put into a record, and adds up over the CPUs, each at the record its callback has come
to (`Told`), to the counter; a CPU without a stream is `Silent`.  A lost record that
is flushed raises one total and the counter by the same number.
`MapThenSumSet` of the community modules adds up in an order nobody knows (`Pick`); `SumMore`
shows that the sum goes along all the same, by induction on the size of the
subsets of the CPUs (`AllSubsets`).

`CaptureFile_proofs` proves for every sequence of cells, whatever is in them, and every
place in the header of the file:

| Theorem | Says |
|---|---|
| `LoadIsSerial` | `Load` finds what `Serial` finds |

The functions of `CaptureFile` are recursive, and the induction theorems of the
library take operators that the provers cannot instantiate.  What they say can be had
from sets: the set of offsets where a claim does not hold has a least element
(`LeastElement`), and the claim holds below it.  In this way it is shown that the
functions exist (`WalkExists`, `ChainExists`), that a walk that comes out at a place and one that begins there make
the walk over both, and that the parts that the chain cuts the file into are next
to each other and leave nothing out but index frames.  So each part that is
walked to its end is a piece of the walk from the start, and if one is not, the
code does not use them.

`CaptureWriter_proofs` proves for buffers, tables and intervals of any size, any
frames, any file to splice or to save over, and any number of failed writes:

| Theorem | Says |
|---|---|
| `Invariance` | `IInv` |
| `TypeCorrect` | `TypeOK` |
| `BufferCorrect` | `BufferBounded` (of `NothingLost`): frames never run over the end of the buffer |
| `AddressesCorrect` | `AddressesDiffer` (of `NamesResolve`): no two names share an address |
| `NamesCorrect` | every address given out has its name in the table or in a frame of the file |
| `ChainCorrect` | from the place in the header on, index frames lead backwards to none |
| `IntervalCorrect` | there are never more frames since the last index frame than the interval |
| `FileGrowsCorrect` | no call changes what is in the file already, behind its header |
| `LoadCorrect` | `LoadAgrees` |
| `ContentsCorrect` | `Held`: as long as no write failed, what is in the file, the buffer and the table |
| `ContentsKept` | `NothingLost` |
| `NamesKept` | `NamesResolve` |
| `ChainKeptWhole` | `ChainUnbroken` |
| `SavedCorrect` | `SavedIsCapture`, whatever is saved over |

Calls of the writer are sets of outcomes, so the proof has one lemma per
function of the code: from a state that is `Good`, each outcome is `Good` and its
file begins with the one before (`Grown`).  The chain of index frames is a set of
linked places (`Linked`): an index frame that is written links to the place the
writer knows, and that place only moves when it was written as a whole.

What the file says is a second invariant beside it.  `Held` speaks of a writer
whose writes have all succeeded and that was given no cut file: its file is walked to the
end in aligned steps (`Sound`), so that index frames are at aligned places (`Straight`), the
frames of file and buffer are those added (`Text`), their names and those of the
table are those given out (`Known`), and frames are counted between one index frame and
the next (`Near`, `Spaced`).  Each function of the code carries this over
from the state it is called in to each of its outcomes (`Carries`), which
composes as the functions do.  `Linked` is turned into the function `Chain` by the
same induction as in `CaptureFile_proofs` (`ChainHeld`).  For `SavedCorrect` a walk over the
saved file passes the end of the capture, where the walk over the capture alone comes out.

`CaptureReader_proofs` proves for every size of the window and base of the numbers, any
captures of frames that the writer could have made and the window holds
(`ReaderAssumption`), in both byte orders and also while the file grows:

| Theorem | Says |
|---|---|
| `Invariance` | `IInv` |
| `TypeCorrect` | `TypeOK`: the window is a part of the file no larger than the buffer, the position is in it, but where a read of a foreign file failed |
| `WalkCorrect` | `WalkInOrder`: frames come in the order of the file, each once, and a walk that ends has had all |
| `AskedInvariance` | `RInv`: `IInv` with questions and cursors between the calls, the list of files is of those there were when it was made, and the last answer is right |
| `AskedWalkCorrect` | `WalkInOrder` then |
| `JoinInvariance` | `CInv` |
| `JoinCorrect` | `SameMeaning`: the frames of a joined capture refer to the names, counters and events they referred to, in the same order |
| `JoinedWalkCorrect` | `WalkInOrder` and `AnswersAsWalk` while captures are joined, too |
| `AnswersCorrect` | `AnswersAsWalk`: what is asked of embedded files, and what a cursor gives for any conditions, is what the frames of the file say, or for the list of files said when it was made |

`WalkInOrder` compares the frames that were got with the file as it is now, and does
not say where the reader is.  The invariant does: the cells of the file split
into those of the frames got and those to come (`Split`, `Ahead`), and the
reader stands between the two, with a window that shows what the file has there, but
for headers it has swapped (`Stands`).  To make room keeps this (`EnsureStands`).
Then each read function has an `Outcome`: it takes the frame that is due, or it
stays and there is an excuse (`Excuse`: the frame is not whole in the file yet, it
is one of those that end a walk of a foreign file, or an index frame cut by the
window).  What is whole in the file is known from the walk of `CaptureFile`
(`SplitAt`, `WholeGoesOn`, `WholeStops`), which the file's growth continues.  Where a
counter led astray, and after a read of a foreign file that failed, only the types are kept:
the header stays swapped in the window, and the reader is only used again when it was reset.  That
`DiscoverEndTime` exists as a function is by induction on its turns
(`TurnsExist`).

An answer is the result of a loop in a single step, so its proof is an induction over turns
(`InLoop`, `LoopRight`).  Between two turns the reader stands behind some frames of the file
(`Between`), at least as many as turns, and what was found are those of
them that were looked for (`Partly`).  A read or a skip goes one frame forward, or the frames
passed are all that are whole in the file (`Moves`); only a cursor, which reads timestamps, may also be stuck at an index
frame (`AtIndex`).  As every frame has a cell, the loop has ended
when there were more turns than cells, but for that of the list at a cut frame: there every further
turn leaves the reader where it is (`SkipStays`, `ListingStays`), and no answer is claimed.
`CursorAssumption` says that chunks have a path of `Paths` and that `Terms` has the parts of its conditions.  `AnswersAsWalk` promises nothing
of files of the other byte order, nor of a file that is read back with chunks of another in front of it.

`SameMeaning` compares lists at the end of a join, `CInv` says how they come about
(`Joining`).  Both walks stand between the frames read and those to come, as above (`Between`).  In
the first, the table of addresses has the names of the jitmaps read so far, each at an
address of the writer that has this name (`Naming`).  In the second, what was added for the frames
read so far means what they mean in their capture (`Adding`), for three reasons.  The tables
lead from the counters and events met so far to different ones of the writer, all of
them newer than those it had when the join began (`CtrRight`, and for events
alike).  What was in the file before refers to nothing newer (`AllWithin`), so that
definitions and names that are added change no meaning there (`MeansOn`).  And an address
in the range of names is in the table, as the first walk is over.  A counter that is set is
in its table because `CatAssumption` has the definition in front.
`JoinCorrect` is for any number of captures one after the other, any writer to begin with and any window.

The induction found a case the runs had not met: `WalkInOrder` was first stated
without `Astray`, which is false for a foreign file with a counter of a length that
read the wrong way round still fits the file.

Only model-checked:

- What needs fairness (`EventuallyDelivered`, `AllocateReturns`, `GetReturns`,
  `ClosedRingReleased`, `UnwinderEnds`, `WritesGoOn`, `StopEnds`, `PrepareEnds`,
  `RingsDrained`), which is out of the prover's reach.
- `LeakDetector`, whose run shows a disagreement.

## Disagreements

Three runs end in a counterexample to what a comment of the code says.

- `capture_index`.  "Frame indexes are encoded as extended timestamp frames so that
  older readers can continue to walk the capture."
  (`sysprof-capture-types.h:324`).  `sysprof_capture_reader_read_basic()`
  (`sysprof-capture-reader.c:514`) makes sure that the window has 24 bytes, an index
  frame has 32: one whose header ends the window cannot be read, and
  cursors and `cat` end there.
- `sampler_start`.  "Start all of the samplers immediately as we will drop events
  that are incoming before our start time." (`sysprof-sampler.c:489`).  The time of
  an event is in nanoseconds, `start_time` in microseconds
  (`sysprof-sampler.c:303`): no event is dropped once the recording has started.
- `leaks`.  "we will update the internal data in the alloc object to point at each
  subsequence record" (`sysprof-leak-detector.c:97`).  It points at the record
  before (`sysprof-leak-detector.c:119`): the first is looked at twice, the last
  never.

More were met.  The first three are definitions of `Recording`, the fourth is
one of `MuxerSource`; no configuration names them, and each fails when it is added
to the one of its module as an INVARIANT or PROPERTY.  The others are in the model,
and the properties of the module say what holds in spite of them.

- `StopIfCancelled`.  "Ask instruments to start recording and stop if cancelled."
  (`sysprof-recording.c:143`).  The control socket instrument awaits
  `dex_future_any()` of its read and its cancellable
  (`sysprof-controlfd-instrument.c:221`; all others use `dex_future_first()`).  The
  cancellation is a rejection, which `any` passes over while the read is
  pending.  A recording told to stop therefore waits for the spawned process,
  and for every child that inherited the socket.
- `TimeRangeIsRunningTime`.  "Update start/end times to be the "running time""
  (`sysprof-recording.c:360`).  The flush three lines below writes the current
  time over the end time.
- `BundleSeesRecorded`.  "Let instruments augment the capture."
  (`sysprof-recording.c:354`).  The symbols bundle loads the file while the last
  frames are still in the buffer of the writer (`sysprof-symbols-bundle.c:88`).
- `NoFrameLeftBehind`.  A dispatch takes one frame; when the stream ends, complete
  frames may be left in the buffer, which `sysprof_muxer_source_finalize()`
  frees (`sysprof-muxer-source.c:63`, `sysprof-user-sampler.c:523`).
- Saving over a longer file.  "Saves the captured data as the file"
  (`sysprof-capture-writer.c:1293`).  The file is opened without being truncated
  (`sysprof-capture-writer.c:1318`), and what was longer stays behind the capture, frames
  included.  `SavedIsCapture` claims the whole of the capture at the beginning, and nothing else
  only if the old file was not longer.  `sysprof_capture_reader_save_as()` does truncate.
- Splicing a cut file.  "`errno` is set on error, to any of the errors returned by `open()`,
  `sendfile()`, or `EBADMSG` if the file is corrupt."
  (`sysprof-capture-writer.c:1379`).  A file whose last frame is cut within its header, or
  that has a frame of an unknown type, ends the loop that looks at it as a whole one does
  (`sysprof-capture-writer.c:1415`); it is copied, and frames added later cannot be reached
  by a walk.
- The chain after a failed write.  A write that ends at an odd number of bytes
  (`sysprof-capture-writer.c:229`) leaves all index frames behind it where the document does
  not look for them (`sysprof-document.c:1362`): it finds the chain broken and walks the
  file instead, which finds the same frames (`LoadAgrees`).

Conditions without which a property would not hold, and which are in it for that
reason:

- `OpenedIntact` speaks of a recording that is opened when sysprofd owes no answer
  and the buffer is empty.  An answer that comes later is added to the buffer
  and written by the last unref of the writer, at the offset that the window
  has set to 0: over the header.
- `GetReturns` excepts a ring the profiler could not make: no reply is sent for it
  (`sysprof-controlfd-instrument.c:236`), and the thread that asked waits until the
  socket is closed, with the lock of its process.
- `LeavesNoRing` speaks of programs without the memory hooks: with them, the
  `free()` in the last destructor round makes the thread a collector that nobody
  destroys.
- `NothingLost`, half of `NamesResolve` and the frames in `SavedIsCapture` speak of files
  without a failed write, and without a spliced file that does not end with a frame.
  After a failed write, a part of the buffer is in the file twice, and behind it, as behind a
  cut file that was copied, frames are lost to a walk.  That a document never finds the chain
  broken (`ChainUnbroken`) has the same condition, as index frames behind such a place need not be
  aligned; that each leads to the one before, and `LoadAgrees`, hold nevertheless.
- `WalkInOrder` excepts what `capture_index` shows, and files of the other byte
  order at counters and jitmaps, where a walk ends: the headers of the former are
  not swapped, the entries of the latter are counted before their number is.
  Where the length of such a counter, not swapped, happens to fit the file, the walk
  is led astray instead (`Astray`; `sysprof-capture-reader.c:1081`, `:1129`).
  It lets nobody go on in such a file after a read that failed, as that leaves the
  header swapped in the window.
- `AnswersAsWalk` compares the list of embedded files with those there were when
  it was made, and says nothing while its loop goes round at a cut frame.
  It reads an embedded file back if no chunk of another is in front:
  `sysprof_capture_reader_read_file_fd()` passes over the frame behind such a chunk.
- `SameMeaning` speaks of captures that define a counter before they set it, and
  of addresses with names: a value in front of its definition keeps the id of
  its capture, which may be another counter in the joined one.  It excepts (`Led`) files of
  the other byte order with counters whose length, which is not swapped, reads as another
  one that is not too short: the walks of such a file are led astray as above.  In the run there are
  none of these, so that files of the other byte order are joined there too, or panic.
- `UnwinderEnds` begins when the recording stops.  If another instrument cannot be
  prepared, nobody writes to the event fd, and an unwinder without
  samples idles for ever.
- `NothingLeftBehind` and the second half of `LostCounted` speak of streams that
  are not active any more: one that could not be disabled goes on, and what is in its
  ring when the recording is cleared is lost.  `RingsDrained` excepts that end.
- `ContextsTold` promises a mark outwards of a function of the kernel only: looking up symbols takes
  every other context for that of the process, so a function found there may be in
  any of them.  It and the list of traceables in `ListsRight` speak of callgraphs that
  go down, the latter of a superset: traceables are matched by a subsequence of
  their stack, and a listing of a bottom-up callgraph finds nothing below depth 1.

Other things met on the way, which no property is about:

- `mapped_ring_buffer_allocate()`: "a mark will be added or incremented notifying the
  peer of how many records they have lost" (`mapped-ring-buffer.c:452`); there is no
  such mark, a record without room is lost unnoticed.  Frame lengths of the collector are 16 bits wide and not
  checked; its request counter wraps.
- Preload: `free()` frees before it records (`sysprof-memory-collector.c:196`), so that
  another thread's allocation of the same address can be recorded in front of it.
- The test for a failed `memfd_create` is for 0
  (`sysprof-controlfd-instrument.c:207`); D-Bus messages are not counted by
  `sysprof_capture_writer_stat()`; `add_file` of an empty file adds no chunk.
- `sysprof_capture_reader_copy()` shares the list of files with its original;
  `new_from_fd()` closes the descriptor twice on a failure;
  `discover_end_time()` does not look at the frame behind a mark.
- `list_files()` never ends on a capture that is cut in a frame and grows no more
  (`sysprof-capture-reader.c:1555`), which a program that died leaves; only a test calls it.
- `cat`: the time range is that of the last capture
  (`sysprof-capture-writer-cat.c:677`), and not in the model; the addresses of allocations
  are not translated; but for memory samples, the results of `add` are ignored.
- Callgraph: `sort_by_size_asc()` compares an item with itself; the memory views
  count a recursion repeatedly; descendants keep a leading mark that has a
  summary; the worker may race with changes of its model, as a comment says
  (`sysprof-callgraph.c:555`).
- Symbol cache: of two symbols that begin at one address the second is dropped,
  also if it is longer.
- Leak detector: of its tree only the root and its children are freed at the end.

## Not modelled

- `fork()` of a profiled process: the child shares the ring of the thread that
  forked (`sysprof-collector.c:436`), and possibly a held lock.  The process of a
  thread is fixed here.
- The kinds of events and their fields, formatting, logging, units of time (but
  where the sampler compares two).
- The environment of the control socket and of the preloads: who spawns what is
  an initial state.
- The order of an allocation and its event between threads of the preload.
- The final times and the pace of polling of a perf stream; its records about
  processes and maps are copied as they are.  The unwinder's own perf source
  (`sysprof-live-unwinder/main.c`) is the same algorithm.  That a process may start
  between the listing of processes and the first event is known to the code
  (`sysprof-sampler.c:489`).
- Conditions of a cursor on pids and counters, which look at a field as the others
  do; `sysprof_capture_reader_save_as()` and statistics.
- Callgraph: the order of children, categories, and the weights of memory and
  energy views; symbols are equal if they have the same name and kind, as the
  document makes them unique.
- Document loader, symbolizers, address layouts, mount namespaces, the document's
  models, the proxied instruments and the D-Bus services behind sysprofd, the
  profiler's lists, the agent, the command line tools and the user interface:
  look-ups in data that does not change, sequences of calls with one result, or
  I/O around the library.  They are most of the lines of the repository, with
  `contrib/`, which is third-party code (bit sets, an ELF parser, a demangler).

## Plan

What would come next, in this order:

1. `MemoryEvents`: the preload's order of `free()` and its event between threads,
   and what the leak detector, once it walks the records it should, makes of it.
2. `fork()` in `Collector`: a second writer for a ring, and a lock that nobody gives
   back.
3. Conditions on pids and counters, and the time range of `cat`.
