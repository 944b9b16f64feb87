# TLA+ models of the G6 arena controller firmware

The firmware runs on a Teensy 4.1.  It drives the panels of a G6 LED arena
over SPI, plays patterns from an SD card, takes commands over USB-CDC or TCP,
and keeps a telemetry ring in OCRAM that survives resets.  This project models
its core, model-checks it with TLC and proves most of its safety with TLAPS.

Source paths below are relative to the repository (`src/` is the firmware,
`scripts/` and `tests/` hold the host side of the protocols).

## Inventory

| Component | State it keeps | Operations | Talks to |
|---|---|---|---|
| Telemetry ring (`Telemetry.cpp`) | byte ring and header in OCRAM, `ring_ok_`, `enabled_`, marker bookkeeping | `begin`, `service`, `configure`, `cmd`/`frame`/`state`, `ack`, `peek` | every handler records into it; the host drains it |
| Drain protocol (`handleGetTelemetryBlock`, `scripts/telemetry_drain.py`, `tests/transport.py`) | host: `ack_seq`, records on disk, `SeqTracker` | request with ack, reply, timeout, re-ask | the ring |
| Refresh timer (`SpiManager` arm/disarm, `Health::wrapPitVector`) | `armed_hz_`, `refreshFlag`, PIT channel, NVIC, vectors | arm, disarm, `refreshISR`, trampoline | raises the tick that the display consumes |
| Display (`CommandProcessor`) | `state_`, `frame_buf_` and what it holds, block size, rates, trial deadline, FRAME bookkeeping | commands 0x00-0xFF that change the display, `serviceDisplay` | timer, card, SPI, telemetry |
| Pattern library (`SdManager`) | sorted names, open file, manifest, temp file | scan, open, read, rename, delete, purge | display, transfers |
| Transfers and archive (`CommandProcessor`) | `dl_*`, `ul_*`, `ar_*` | upload, download, ZIP archive, one chunk per loop | library, transports |
| Transports (`SerialManager`, `NetworkManager`, `main.cpp`) | receive accumulators, the one pending response | poll, dispatch, flush | the command processor |
| Health (`Health.cpp`) | breadcrumb and ISR record in OCRAM, counters, watchdog | mark/clear, kick, suspend/resume, first-stage IRQ, harvest at boot | everything |
| ISP (`IspController.cpp`) | session nonce, SPI clock to restore | `programPanel`, `verifyPanel` | SPI, card, the panel's bootloader |
| Glyphs, constants, CRC, pin maps | - | pure | - |

What is hard in this code:

* **Reset at any instruction.**  The ring lives in write-back cached memory.
  A reset loses what was not flushed and may tear a line that was.
* **The heap grows into the ring**, which is placed at a fixed address.
* **Interrupts between two stores** of a library routine (`IntervalTimer::end`)
  that is not safe against them.
* **Replies lost or late** on a link without request numbers.
* **Cached facts** that many handlers must keep true: the frame in the buffer,
  the rate of the timer, the block size of the buffer, the open pattern.
* **Deadlines** that belong to a trial which something else has replaced.
* **A step of several failing**: the card, the timer, the manifest, half of a
  watchdog programming.
* **Two sources of commands** that share one card, one index and one set of
  transfers, each of which spans many turns of `loop()`.
* **A byte stream without frame marks**: after a refused or broken upload, what
  is buffered decides whether file bytes are read as commands.
* **A panel that misses commands**, answers late or resets half way through
  being programmed.

What makes each part correct:

* ring: bytes of live records are never overwritten; after a reset the ring is
  what was published; the heap's memory is never written; a block is a prefix
  and an ack frees what it names;
* drain: nothing is lost that is not counted, nothing is stored twice;
* timer: no interrupt storm, no tick after a disarm, `armed_hz_` is the truth;
* display: what the fast path relies on is true, the panels are dark in
  ALL_OFF, trials and glyphs end, loaded frames are shown;
* library and transfers: the index, the card and the indices latched by
  transfers agree, and the manifests where the card lets them be rewritten; no
  upload walks away from its file; a source always gets served again;
* transports: one answer per command, no byte of a file parsed as a command,
  nothing spliced into a raw stream;
* health: the watchdog is kicked whenever it runs, cuts nothing short, ends
  every hang, and what the records say after a reset is true;
* ISP: a panel is never left with anything but a whole image, the answer is
  true, the bus clock is restored.

## Modules

| Module | Models |
|---|---|
| `TelemetryLog` | what the ring promises: a log of sequence numbers with eviction, acks, resets |
| `TelemetryRing` | `Telemetry.cpp` and the 0xA9 handler, byte by byte and flush by flush |
| `MCTelemetryRing` | its TLC instance |
| `TelemetryRingProofs` | theorems about `TelemetryRing` |
| `TelemetryDrain` | controller (as `TelemetryLog`), link and host drain loop |
| `TelemetryDrainProofs` | theorems about `TelemetryDrain` |
| `FrameClock` | what the refresh timer promises: a rate and a tick |
| `RefreshTimer` | `armRefreshTimer`, `disarmRefreshTimer`, the PIT, the NVIC, the vectors |
| `RefreshTimerProofs` | theorems about `RefreshTimer` |
| `ArenaDisplay` | the display state machine of `CommandProcessor` |
| `MCArenaDisplay` | its TLC instances |
| `ArenaDisplayProofs` | theorems about `ArenaDisplay` |
| `PatternLibrary` | `SdManager.cpp`: operators on the state of the library |
| `FileTransfers` | the commands and transfers that change the card, of two sources |
| `FileTransfersProofs` | theorems about `FileTransfers` |
| `PatternHandle` | the file the display holds open while the index changes |
| `SdArchive` | the phases of the ZIP stream of 0x8A |
| `Transport` | `SerialManager.cpp` or `NetworkManager.cpp`, `loop()`, `processCommand` and a host |
| `MCTransport` | its TLC instance |
| `TransportProofs` | theorems about `Transport` |
| `IspController` | `IspController.cpp`, its three commands, and a panel |
| `IspControllerProofs` | theorems about `IspController` |
| `Health` | watchdog, breadcrumb and ISR record of `Health.cpp` |
| `HealthProofs` | theorems about `Health` |

How they compose: `TelemetryRing` implements `TelemetryLog` (`ImplementsLog`),
and `TelemetryDrain` is built on `TelemetryLog`; `RefreshTimer` implements
`FrameClock` (`ImplementsClock`), and `ArenaDisplay` uses the timer only as
that clock (`UsesClock`); `FileTransfers` and `PatternHandle` are built on
`PatternLibrary`, and `Transport` on `SdArchive`.

### TelemetryRing

`hdr` is the header as the CPU sees it, `nv` the header in OCRAM as of the last
flush, `data` the bytes.  `pc` and `op` are the place and the locals of the
one operation under way: each loop turn of `makeRoom`, `repairChain`, `ack` and
`peek` is a step, and so is each flush of `appendRaw`, because a `Reset` may
strike between them.  A reset in the middle of a record's write leaves any
subset of its bytes (`Partial`); when the header line is dirty the cache may
have written it back before the checksum was in, and the header is then void
(`HeaderAtRisk`, `BadHeader`).  `brk` is the distance of the heap: clear of the
guard band, inside it, or past the start of the ring.

A record is its length, type, sequence number and payload cells; the four bytes
of a sequence number are one cell and the time stamp is left out.  An overrun
marker's payload is its count.  `SeqMod` stands for 2^32.  The one second that
separates two eviction episodes is a nondeterministic choice (`NewEpisode` or
`SameEpisode`).

`TelemetryLog` has a variable `risk`: what a reset may do at this moment.  The
refinement computes it from the ring's program counter (`Risk`), so that the
abstract log says exactly when the history can be lost.

### TelemetryDrain

The ring is a `TelemetryLog` of bounded capacity.  Requests and replies are
queues.  `Timeout` either loses what is under way or leaves it to arrive late
(`LateReplies`); `TakeReply` returns the first reply in the buffer, whichever
request it answers, because `command()` discards nothing before it sends.
`PowerCycle` empties the ring and starts its numbers at 1 again; each record on
the host's disk is a pair of incarnation and number.  The command's error
statuses and decode errors end a burst without storing anything and look like a
timeout to the rest.

### RefreshTimer

The main context executes arm and disarm one store at a time (`pc`), with the
PIT expiring and the interrupt taken between any two of them.  What
`IntervalTimer::begin`/`end` and `pit_isr` do is external: it is modelled from
the order of stores that the comment above `disarmRefreshTimer` quotes.
`was_enabled` is the mask state that disarm saves and restores; `saved` is the
vector the trampoline calls.

### ArenaDisplay

The state the C++ functions share is one record `d`; every C++ function is an
operator from such a record to the next, so that a handler is the composition
of the functions it calls, in their order.  Handlers and `serviceDisplay` run
to completion in `loop()`; only `RefreshTick` comes from an interrupt.

Abstractions: a frame is where it came from (kind, pattern, index), the block
size it was written with and the display mode and duty its blocks carry; a
patch at the wrong block size garbles them (`Garbled`).  Time is reduced to
whether the trial's deadline has passed (`due`), whether the glyph has been
held long enough (`held`) and how many frames to advance (`steps`).  The
environment `e` says whether a card read, an arm, or the DAC succeeds.  `panel`,
`seen`, `gen` and `timed` are history variables for the properties; `gen`
counts the writes of the buffer modulo 3, because no step makes more than two.

### PatternLibrary, FileTransfers, PatternHandle

A library state is one record: the files on the card, the index `names_[]`, the
open file and the two manifests, each current, stale or bad.  Each method of
`SdManager` is an operator from such a record to the next; whether the card
fails at a remove, a rename, a format or a manifest write is an argument.
`writeManifest` does not look at what its four `SD.remove()` return, so a
manifest has three fates (`Fates`): written as it should be; appended to an old
one that the card refused to remove, which counts as success; or failed, whether
or not the card then has an old or a half-written one.  "Bad" is a manifest that
is not there, or that one of the last two fates left.

Names are numbers in `strcmp` order; a scan yields the patterns on the card as an
increasing sequence, or any `MaxCount` of them when there are more.

`FileTransfers` runs the commands of both sources on it.  `dl`, `ul` and `ar`
are the fields `dl_*`, `ul_*` and `ar_*`; each transfer moves one chunk per
step, so the other source's commands come between any two chunks.  A source that
owns a transfer is not served.  A file is "partial" while an upload writes it
and "closed" otherwise.  The removals of an upload ignore their results as well:
the old file may stay when the open fails or be appended to (`SetPatternFile`),
and a partial file that cannot be removed stays as one like any other
(`DropPartial`, `LeftBehind`), just as one that a reset has cut short.  A
refused command only sends an error and is no action.  `Boot` may come at any
time; a crash inside a handler has the outcome of the fault at that place
followed by `Boot`.  A format that fails leaves the card as it was.

`PatternHandle` has what `FileTransfers` has no need of: the file that `file_`
refers to, by identity.  An upload is one step there.

### Transport and SdArchive

One source and its host.  The stream to the controller is tokens: a command's
head and its argument, a bulk write's header and its chunks; the stream to the
host is responses and raw parts.  `rx` is the receive buffer, `ready` the parsed
command that is not yet consumed, `resp` the one pending response.  `pc` is the
place in `loop()`: disconnects and receive, dispatch, transfers, flush.  The
host sends, stops, reads or not and (over TCP) disconnects and comes back as it
likes; `Deadline` is the controller giving up.  `debt` and `gaveUp` are history:
commands without an answer, and that the controller has given up on the host, or
drained too much.  The two are then out of step by the code's own choice, and
`FramesStayAligned` and `RawStreamClean` end there.

An archive is its phase, the entry it is at and the lengths promised and sent,
in parts.  Files may go or become unreadable while it is sent.

`serviceDisconnects` and the receive call are one step, as nothing runs between
them.  The payload of a bulk write, the reads of `recvRaw` and the waits of
`sendRaw` are one chunk at a time.

### IspController

`op` and `phase` are the place in `programPanel`/`verifyPanel`: which command is
next, and whether it is being sent, polled for, or followed by a wait for the
panel to come alive.  `saved` is the clock to restore, `asked` the clock the
host wants.  The panel is not in this repository.  It is modelled from how the
code uses it, and permissively: it checks the session nonce and commits
whatever it holds.  A reply is good or bad; a damaged reply that passes its
CRC-8 is not modelled.  "Flashed" means committed and answering again.

### Health

Each record has the copy in the cache (`c`) and the copy in memory (`mem`),
which is what a reset leaves.  `rtwdogProgram` may take effect, in part or not
at all, and is then read back.  `stack` is the wrapped interrupts in progress,
`ops` the marked calls; `was` remembers both at the reset.  Time is whether the
main loop kicks within the timeout in force; a hang may begin in `setup()`, in
a command, in a long operation or in an interrupt.  Windows
(`watchdogSuspend`/`watchdogResume`) do not nest and the switch is not used
inside one, as no caller does either.  A reset inside `mark()` itself, the
width of the refresh key, the kick statistics and the LPSPI vectors are left
out.

## Runs

Passing runs check deadlock as well: none of these systems may stop.  Where a
property has named parts (`RingSound`, `RecordsTrue` and the like), the module
states each part with its own comment; most join the type invariant of the
module to the invariants of one theme.

| Run | Shows |
|---|---|
| `ring` | with a reset between any two steps: no live byte is overwritten (`LiveBytesUntouched`), the chain that `makeRoom` walks is never broken (`RingSound`), memory the heap has taken is not written (`RingLeftToHeap`), a reply is the longest prefix that fits and no acked record stays (`RepliesExact`), and all of it is a `TelemetryLog` (`ImplementsLog`, which also says that an ack frees nothing more) |
| `drain` | with replies lost and late and a power cycle at any time: each record is on disk, in the ring or counted, but for those that an ack of the former incarnation may cover (`NothingSilentlyLost`); an ack frees what is stored, and one that is held from before the power cycle frees nothing until the new ring has counted past it (`FreesOnlyStored`) |
| `drain_power` | with replies lost and a power cycle: each record at most once and in order, no gap beyond the dropped counter (`HostLogExact`), every record that is not evicted is stored in the end (`EventuallyStored`) |
| `timer` | `NoStorm`, `NoTickAfterDisarm`, `armed_hz_` and the vectors are what arm and the trampoline take them for (`TimerSound`), refinement of `FrameClock` (`ImplementsClock`); calls return, ticks arrive (`TimerLive`) |
| `display_takeover` | all display modes taking over from one another: the frame in the buffer and the rate of the timer are what the code believes (`CachedFactsTrue`), `SupersededExact`, `UsesClock` |
| `display_trial` | trials under failing card and timer: ALL_OFF is dark (`DisplaySound`), trials and glyphs end (`DisplaysEnd`), `LoadedFrameShown` |
| `display_skip` | the same-index fast path of SET_FRAME_POSITION (`SkipIsSound`), with analog output, duty, display mode and SD diagnostics changing in between |
| `library` | with a card that fails to write or refuses to remove, disconnects, deadlines and resets: an index latched by a transfer names the file it has open (`TransfersKeepTheirFile`), the file of a download and the pattern files of an archive do not change under them (`ReadersUndisturbed`), index and card part only in the ways the code accepts, also across a reset (`IndexStable`), manifests that the card let be rewritten agree and no upload ends without its file being finished or its removal tried (`CardSound`), every transfer ends (`SourceServedAgain`) |
| `transport` | with a host that pipelines, stalls, aborts and reconnects: no file byte is read as a command (`FramesStayAligned`), one answer per command and none overwritten before its first try (`AnswersExact`), `RawStreamClean`, `ArchivePromise`, every command is consumed (`CommandConsumed`) |
| `isp` | with lost commands and replies, damaged files and resets of both sides: `NeverBricked`, `ReportIsTrue`, the clock restored (`IspSound`), `CommandEnds` |
| `health` | with partial programmings, hangs anywhere and nested interrupts: the watchdog is kicked when it runs and as it is wanted (`WatchdogSound`), `NoFalseReset`, `HangEndsInReset`, and what survives a reset is true (`RecordsTrue`) |
| `library_handle` | violation: see Divergences |

### Bounds

* `ring`: 13 bytes with records of 4 and 6 make three records fill the ring, so
  every later append wraps, pads and evicts, and every relation of record length
  to tail occurs (exact fit, pad of one byte, pad longer than a record).  Six
  sequence numbers take the cursors round the ring about twice.  One reset
  per behaviour: it may strike at every step of every operation;
  a second one (a reset during the repair after a reset) is covered only by the
  theorems below, which have no such bound.  `Budget` is 9, so two
  records may or may not fit into a reply.
* `drain`: three records of capacity, blocks of two, two messages under way:
  evictions happen between request and reply, between reply and ack, and while
  a late reply is in the buffer.  In `drain` five sequence numbers and one power
  cycle let the new ring count past an ack of the former one while the host
  still asks with it.
* `timer`: two rates, so that re-arming at the same rate, at another rate and
  from a stop are different cases.  Nothing else is bounded.
* display: one two-frame GS2 pattern and one single-frame GS16 pattern make
  every pattern change a change of block size; index 2 is always out of range.
  `SupersededMax` stands for 255.  Each run takes the commands its question is
  about (`Commands`), because the full product is out of reach.
* `library`: three names, two of them patterns, and an index of two entries: a
  rename finds the index full, a scan finds more files than it can list or a
  name it ignores, and a delete shifts the index of a transfer.  Two chunks
  make an upload fail before, between and after its writes.  Of the two sources
  only the network's can disconnect, as in the code.
* `library_handle`: three files are enough for a rename or a delete to put a
  second name at the number that is open.
* `transport`: a receive buffer, a pipe and a payload of two tokens each: a
  command may be cut anywhere, and the rest of a payload, the whole of a short
  one and the next command all occur in the buffer when an upload fails.  The
  archive has one file of one chunk and an empty one.
* `isp`: two pages and two images, so that a staging area may be partial, whole
  or mixed; two clocks besides the two of ISP.
* `health`: two marked calls, so that one can be mistaken for the other.
  Nothing else is bounded.

### Fairness

* `RefreshTimer`: the channel expires again, a handler ends, and the main
  context gets on whenever it may infinitely often (strong fairness: each tick
  interrupts it for a while).  The liveness properties assume that eventually
  the channel does not expire while its own handler runs (`Paced`): the period
  is at least 15 us, the handler takes a few stores.
* `ArenaDisplay`: `loop()` runs for ever, a running timer ticks, a trial's
  deadline and the glyph's hold time pass.  The properties that rest on the
  last two exclude a host that restarts trials (or raises errors) for ever.
* `TelemetryDrain`: the host polls for ever and gives up on a reply at some
  time; not every request and not every reply is lost (strong fairness of
  `ServeBlock` and `Receive`).
* `FileTransfers`: `loop()` services a download and an archive, and an upload's
  deadline passes.  Nothing is assumed of the host or of the card.
* `Transport`: `loop()` goes on (weak), and a deadline is met once in so many
  turns of it (strong, since a deadline can only be met at one place of the
  loop).  Nothing is assumed of the host.
* `IspController`: the controller gets on, and its two deadlines pass.  Nothing
  is assumed of the panel.
* `Health`: a watchdog that runs and is not kicked expires.

## Divergences

Found while modelling and kept as a run whose counterexample shows it:

* `library_handle`: `openPattern` takes a handle with the same number for the
  same pattern (`SdManager.cpp:281`), although rename and delete renumber and an
  upload replaces a file; `SdManager.h:101-103` says that the pattern with the
  given ID is open afterwards.

Met in the same way and not kept as runs (the models show them, the
properties above are stated so as not to depend on them):

Telemetry:

* making room by freeing only a PAD does not flush the header, although the
  README says the header is flushed before old bytes are overwritten; a reset
  there loses the ring's whole history.
* an ack from before a power cycle frees records nobody has stored once the new
  ring has counted past it.  `README.md:751-753` says that "a stale ack can never
  free unseen records"; the guard (`Telemetry.cpp:397`) sees only that a number has
  not been generated yet.  `FreesOnlyStored` states exactly what holds: only such
  an ack frees what is not stored, only up to its own number, and only when
  `next_seq` is beyond it.  `NothingSilentlyLost` leaves those records out.
* after a timeout the late reply answers the re-ask, so that the re-served block
  is stored twice and reported as a gap.
* `append` sets `dropped_reported_` after the marker was written, so that what
  the marker evicted is in no marker's count (`Telemetry.cpp:194` says it is
  "counted toward the next marker").
* `ack` compares sequence numbers without regard to the wrap at 2^32.  The wrap
  lies beyond the bound of the run `ring`, so that no property covers it there
  (see TelemetryRingProofs for what happens at it).
* the gap a host sees may be smaller than `dropped` (README: "gap == records
  evicted"): records it had stored but not yet acked are counted as well.

Display:

* STOP, ALL_OFF and ALL_ON do not clear `trial_end_ms_`; the deadline of an ended
  trial blanks what runs later.  No property covers this: `DisplaysEnd` asks that
  trials end, not that nothing else does.
* SET_FRAME_POSITION after a glyph, ALL_ON or stream loads and sends the frame at
  the other block size.  No property covers this: `CachedFactsTrue` is about the
  frame that is held, not about the stride it is sent at.
* a trial deadline that comes out as exactly 0 is no deadline; in the models
  such a trial is one without a deadline.
* the first refresh of ALL_ON, a glyph or a stream may write a FRAME record, and
  a frame that comes back after them may write none (README: FRAME records are
  "SD-playback frames only"; "every displayed frame change").
* SET_PANEL_DISPLAY_MODE patches a glyph in the buffer (`CommandProcessor.h:61`
  exempts glyphs).
* after the open pattern is deleted GET_FRAME_POSITION still reports its index
  (`CommandProcessor.cpp:303`: "0/0 when no pattern is open").

Library and transfers:

* a delete whose manifest write fails has shifted the index, but its caller skips
  the shift of `dl_idx_` and `ul_idx_` (`CommandProcessor.cpp:530-544`); the busy
  check then protects another file.
* the results of `SD.remove()` are not looked at (`CommandProcessor.cpp:1959`,
  1987, 2031, 2576; `SdManager.cpp:508`, 519, 523, 549).  When the card refuses, the
  partial file of a failed upload stays, listed as a pattern, although abortUpload
  "always deletes the partial file" (`CommandProcessor.cpp:2022-2028`); the next
  upload is put at the end of the file it should replace and reported as done,
  although the old one is removed "so we get a clean write"
  (`CommandProcessor.cpp:2575`); and a manifest stays as it was, or is written at
  its end.  `CardSound` says what the code does ensure: each removal is tried, and
  manifests that the card lets go agree.
* a delete is not refused while the other source's archive is sent
  (`CommandProcessor.cpp:514-549` checks downloads and uploads only), and it
  removes and rewrites `MANIFEST.bin` and `MANIFEST.txt` (`SdManager.cpp:179`,
  504-554), which are the archive's first entries
  (`CommandProcessor.cpp:2831-2845`) and which it may have open.  The comment
  that tells uploads from deletes (`CommandProcessor.cpp:2537-2543`) says that a
  delete "only frees clusters a reader degrades gracefully without".
  `ReadersUndisturbed` names this step as the only one that touches the
  manifests or the index meanwhile.
* a failed upload leaves a listed name without a file, which cannot be deleted
  before the next boot; a rename to that name lists it twice.
* a rename that finds the index full answers status 0 with index 0 and leaves the
  file unlisted.
* a rename to a name without `.pat` is listed until the next boot
  (`SdManager.cpp:68`: "stable across reboots").

Transports:

* `handleSetFirmwareFile` does not count the chunk whose write failed, so
  `drainBulkData` waits for more than is to come (`CommandProcessor.cpp:2661-2682`,
  against the comment at 2681) and swallows what follows.
* the serial `sendRaw` goes on after 5 s with the response header still queued.
* a serial response is overwritten when the flush before it found no room
  (`SerialManager.cpp:164`: "Harmless"); `AnswersExact` takes a response for given
  once a flush has tried to send it, and does not cover this.  In TCP `flushResponses` ignores what
  `client_.write()` returns, and a dead client's response goes to the next.
* `NetworkManager::sendRaw` spins for 2 s without a kick of the watchdog, whose
  timeout is 2 s.
* `main.cpp:178,187` has the TCP service and flush commented out, although the
  README promises both transports.  `Transport` models the network source as
  its own code would run.

Health and ISP:

* the light ISR hooks do not flush, so `isr_last` in memory need not name the
  interrupt that hung; only the watchdog's own capture does.
* `watchdogBegin` (`Health.cpp:502`: "begin() was skipped or failed: try again")
  does not retry after a failed enable, because `wd_armed_` is then true.
* `verifyPanel` does not check the size in the footer.

## Proofs

Every theorem holds for all values of the constants that the named assumptions
of its module allow.  These are the code's own limits (a ring that holds two of
the longest records, rates that are not zero, a pattern's frame count that fits
into its `uint16_t`); where a theorem needs more, its statement says so.

### TelemetryRingProofs

For every ring size, set of record lengths, budget and number of resets:

* `TypeCorrect`: `Spec => []TypeOK`;
* `LiveBytesSafe`: an append writes no byte of a record that the header in
  force calls live;
* `HeapSafe`: once the heap is in the ring's region the ring's memory stays as
  it is;
* `RingIsSound`: the chain of records is unbroken wherever `makeRoom`, `ack` and
  `peek` walk it;
* `RingImplementsLog`: `Spec => ImplementsLog`, each step of the ring is one of
  `TelemetryLog` or a stutter;
* `BlocksExact`: each reply carries the longest run of records that fits;
* `RepliesAreExact`: and leaves no record its ack covers (`RepliesExact`), in
  every run of which each step is `Orderly`.

The inductive invariant of the first three is `IInv`: `RecordInv` (the record
being written has one of the legal lengths and its length byte is its length),
`RoomInv` (between `makeRoom` and the write, the free bytes of `hdr` cover
`need`, so tail pad and record end before `read_off`), `DropInv` (the counters a
marker settles) and `HeapInv` (no step past the heap guard runs with the heap
inside the ring).  `RoomInv` is what makes `LiveBytesUntouched` inductive: the
fact that there is room is established in one step and used two steps later.

`RingIsSound` adds `ChainInv`.  Instead of a walk, whose result for every ring
would need an induction, it speaks of a set: there is a set of offsets that
holds `read_off` and `write_off`, and each member but `write_off` begins a whole
record that leads to another member and has none inside (`Chain`).  A walk then
stays in the set one step at a time, eviction and ack drop its first member, and
an append adds one.  `Chained` demands this only while `ring_ok` is true,
because a reset leaves anything; `Repairing` says that the part `repairChain` has
walked is such a set, which is why the ring may be used when it is done;
`Written` carries what an append has put behind `write_off` to the step that
publishes it.

The last three theorems are about what the records on the chain are.  `Records`,
the walk, is a recursive function of the bytes left to walk, so that it can be
shown to exist and to be unique by a least counterexample (`WalkExists`,
`WalkUnique`), and a walk over two parts of a chain joins what the parts yield
(`RecsConcat`).  `LogInv` then says what each loop has established: `hdr` and
`nv` differ in nothing but what an append has evicted (`Mirror`), the records
evicted are those from `nv.read_off` to `hdr.read_off`, as many as the counter
says (`Evicting`), the ack loop has passed only acknowledged records and
`op.ack` lies below `next_seq` (`Acking`), `got` is what the walk yields up to
`op.off` (`Peeking`), and a reply has the longest part that fits (`Replying`).
With these, an eviction and its flush are `Evict`, the loop of `ack` is one
`Ack`, a `Publish` is `Emit`, and everything else is a stutter or a reset of the
log.  The first record that an ack leaves is always a later one (`Acked`,
`OldestIsLater`); that no record behind it is covered either needs the sequence
numbers to increase.  They do until the 32-bit counter wraps, and unless a reset
strikes an append that has moved `read_off` past a PAD without a flush
(`Exposed`): the flushed header then spans bytes that the append has begun to
overwrite, and the chain `repairChain` builds of them may hold anything.
`Orderly` excludes exactly these two.  Neither is excluded in `ring`, where the
first lies beyond the bound on the counter; with `SeqMod` lowered to the bound,
TLC finds a record below the ack left behind after the wrap.

### TelemetryDrainProofs

For every capacity, size of a block and number of messages under way, and
through any number of power cycles:

* `NothingIsLost`: each record of the present incarnation is on the host's disk,
  in the ring, or counted by `dropped`, whatever the link loses or delays, unless
  a number that the host stored from an earlier incarnation covers it;
* `OnlyStoredIsFreed`: an ack frees only stored records, but for an ack of an
  earlier incarnation that the present one has counted past;
* `HostLogIsExact`: when no reply comes late, the host's log has each record once
  and in order, and its gaps are covered by `dropped` before the first power cycle.

The restrictions are the ones under Divergences: an ack from before a power
cycle may free records nobody has stored, and a late reply is stored twice.  All
three rest on `Numbered` (the ring holds the numbers from `Base` on without a
hole).  `Safe` is the invariant of the first two.  What the host has stored of
this incarnation has no hole from the ring's first record on (`Gapless`); each
ack, with the host or under way, is a stored number of this or an earlier
incarnation (`Known`); each reply from which the host will take its next ack
joins what is stored without a hole (`Carries`), those of an earlier incarnation
having been lost with the power; and the records that are gone, neither stored
nor `Excused` by an old ack, are no more than `dropped`.  For the host's log,
`Paired` says that what is under way belongs to the last request, `Behind` that
the block begins behind all that is stored of this incarnation, and `Covered`
that the gap still to be seen fits into `dropped` as well.  `GapsAre` shows what
`SeqTracker`'s recursive count is for a block without holes, by a least
counterexample.

### RefreshTimerProofs

All safety properties of the timer and its refinement of `FrameClock`, for every
set of rates.  `IInv` there describes what each store of the main context has
established whatever interrupts were taken (`StageInv`, `VectorInv`,
`HandlerInv`); the key facts are that no handler is active while the PIT is
masked, and that the flag is up only while the channel counts or while `end()` is
about to clear it.

### ArenaDisplayProofs

All safety properties of the display (`DisplayIsSound`, `CachedFactsHold`,
`ShortcutIsSound`, `DisplayUsesClock`, `SupersededIsExact`), for every set of
patterns, rates and commands and with or without failures: the runs take the
commands a few at a time, the theorems take them all together.

The handlers are compositions of operators on the record `d`, so one lemma per
operator says what it does to the invariant, on any record of its type, and a
handler's lemma composes them.  `IInv` is `d \in Display` (the types) with
`Library` (open file, frame count and index belong to the current pattern),
`Held` (`frame_buf_is_frame_` is true exactly while the buffer holds an SD frame,
which is then the current one, with the mode and duty in force if it was patched
at its own stride, presented exactly if the panels got it), `Quiet` (off is dark,
without a timer or tick; nothing is held behind a glyph) and `Rated` (the timer
runs at the current rate).  `Held` is what the same-index shortcut relies on and
needs `Library`, since the frame held is compared by pattern and index.  The two
action properties need no invariant of their own but what each operator does to
the tick (`TickKept`) and to the books of superseded frames.

### FileTransfersProofs

All safety properties of the library (`CardIsSound`, `TransfersKeep`,
`ReadersAreUndisturbed`, `IndexIsStable`), for every number of sources, names,
chunks and entries of the index.  `IInv` has the types, `Turns` (a transfer that
is not active has no owner, and a writer and an archive exclude each other), the
agreement of the manifests that are not bad, `NoPartialLeft`, and `DownloadHeld`
and `UploadHeld`: each transfer's index names its file, the file is there and
has the state the transfer needs, and an upload does not write the file that a
download reads.  The last part makes the others inductive.  Each of the two
holds as long as its own transfer was not skewed by a delete whose manifest
failed (see Divergences).  The lemmas about the index say what `removeAt` and
`insertSorted` make of a sorted list, and that an increasing sequence is
determined by its elements (`SameIncreasing`, by a least counterexample), so
that a scan after a reset finds the index that was there.

### TransportProofs

`AnswersAreExact`, `FramesAreAligned`, `RawStreamIsClean`, `ArchivesKeepPromise`
and `OffsetsAreTrue` (each local header of an archive and its directory begin
where the directory says), for every payload length, buffer size and card.
`ControlInv` relates `pc`, the transfers, the pending response and the commands
not yet answered: an upload keeps its command unconsumed until it has answered
it.  `InStep` is about the whole stream that is still to be read, in the buffer,
in the pipe or not yet sent: it is the payload the controller waits for (`Owed`)
and then frames.  It is stated position by position (`Whole`: the frame that
begins here is complete and is followed by another), so that cutting the front
off or moving tokens from pipe to buffer needs no induction.  `ArchiveInv` has
the place of an archive among its entries, the balance of what is sent, to send
and promised, and that a part is written only in a phase that sends one: that
keeps `remaining` from passing zero between `serviceArchive`'s decision and
`sendRaw`.  The entries and their offsets are loops of `handleGetSdArchive`,
modelled as recursive functions; `LoopExists` and `LoopKeeps` give their values'
types.

### HealthProofs

All safety properties of `Health`, for every set of marked calls, with invariants
that share no state.  `WdInv` adds to the two invariants it proves which timeout
is in force in `setup()` and in a long operation; `NoFalseReset` then says that
the board is not reset while it is.  `IsrInv` says that the record is of the
interrupt stack, and that a capture exists only between the first stage and the
reset.  `CrumbInv` says that memory does not lag behind the cache, and that marked
calls nest only in commands: that is why a crumb may be believed after a reset.
`WindowInv` says that only a command or a firmware upload at the bottom of the
marked calls may hold a window, so that the count of windows is 0 or 1
(`HealthTypeOK`).

### IspControllerProofs

All safety properties of `IspController`, for every number of pages, set of
images and set of clocks.  Besides types, `ClockInv` says where the clock to be
restored is; `TalkInv` that within a session the panel works on the controller's
last command or on none; `StagedInv` that what was verified stays as it was until
it is committed; `ReplyInv` what the controller may conclude from a reply.
`TalkInv` is what rules out that an old reply is taken for a new one, and
`StagedInv` carries the verification from ISP_VERIFY_STAGED across resets and
timeouts to ISP_COMMIT.

### Only model-checked

Liveness (fairness and ENABLED are out of the prover's reach): `EventuallyStored`,
`TimerLive`, `DisplaysEnd`, `LoadedFrameShown`, `SourceServedAgain`,
`CommandConsumed`, `CommandEnds`, `HangEndsInReset`.  Every invariant, action
property and refinement that a passing run checks is stated by a theorem; of
`RepliesExact` the second half only for runs that are `Orderly` (see
TelemetryRingProofs).
`PatternHandle` has nothing to prove: its run shows a divergence.

## Not modelled

* panel SPI timing, DMA, chip selects, glyph rendering, pin maps, CRC, version
  strings: I/O, layout or tables without control;
* DIO roles and the frame-scan gate: outputs that follow the display state;
* sockets, DHCP, mDNS and USB themselves, ZIP encoding and CRC-32, the origins,
  identity and geometry read from the card: I/O and data.  `rescan()` is never
  called;
* commands that only report (firmware info, health, counters): a plain command
  of `Transport`;
* the contents of health counters.

## Plan

Done: 1. `TelemetryLog`, `TelemetryRing`; 2. `TelemetryDrain`; 3. `FrameClock`,
`RefreshTimer`; 4. `ArenaDisplay`; 5. the proofs about ring and timer; 6.
`PatternLibrary`, `PatternHandle`; 7. `FileTransfers`, `SdArchive`; 8.
`Transport`; 9. `Health`, `IspController` and the proofs about them; 10. the
proofs about `ArenaDisplay`, `FileTransfers`, `Transport` and `TelemetryDrain`,
the types of `Health` and the chain of the ring; 11. what the ring's blocks
contain, its refinement of the log, and the archive.  Nothing of it is left.
