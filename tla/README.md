# TLA+ models of the Photonic 1394 camera driver

Photonic is a Windows kernel driver (a stream-class minidriver) for an
IEEE 1394 camera; the repository also holds an emulated camera that runs on a
Linux host, to test the driver against.  This directory holds models of the
driver's concurrent core, of its register-level dealings with the camera and of
the emulated camera, the TLC runs that check them and TLAPS proofs of some of
their invariants.  Paths below are relative to `src/photonic/` unless they say
otherwise.

## The system

| Part | State it keeps | Operations | What makes it correct |
| --- | --- | --- | --- |
| Capture engine (`capture/`) | pool of frame descriptors on a free and a pending list, pump election, in-flight IRP count, `Draining`, isochronous channel, bandwidth and handle, listen and camera enable, control work item | create, destroy, start, stop, pump, attach and detach completions, frame callback, quiesce, release, work item | each read is completed once and never while the bus maps its pages; buffers are detached only from a stopped context; the handle outlives its IRPs; no readiness is lost; teardowns end |
| DirectShow pin (`stream/read.c`, `control.c`, `lifecycle.c`) | parked reads, stream state, data-path gate | data SRB, cancel, flush, run, pause, stop, open, close | no read is parked on a stopped pin; every cancelled read completes; nothing reaches a freed engine |
| IRB submission (`p1394.c`) | the sync block of each request, the remove lock | submit, time out, cancel, abandon, complete | memory is freed once, by whoever is last; calls return; nothing runs after the unload |
| Register transactions (`p1394.c`) | cached bus generation, `BusResetPending` | async transfer, generation query, bus-reset callback | a stale generation is flagged or refreshed, not reported |
| Dispatch (`dispatch.c`, `driver.c`) | `Removed`, registrations | bring-up, surprise removal, uninitialize | withdrawals precede the wait, the wait precedes the unload |
| IOCTL front-end (`ioctl/`) | device registry, capture slot, ring of mapped frames, events | prepare, start, map, get info, trigger, unmap, stop, release | pages stay locked while the engine uses them and are charged exactly; each frame is accounted for by one party; a fed ring keeps being pumped; a slot leaves nothing behind |
| DCAM registers (`dcam.c`) | the camera's registers, the mode table, a session's mode and packet | bring-up, selections, configuration of a stream, ISO_EN, ONE_SHOT | host and camera stream the same packets; the packet the driver picks is one the camera takes and the bus carries; the selection is an enumerated mode; a rate set is the rate used |
| Formats (`stream/formats.c`, `intersect.c`) | the pin's data ranges | build, intersect, mode lookup at the open | an offered format opens in a mode that covers it |
| Properties (`properties.c`) | tables | property requests, each one register transaction | - |
| Fake camera (`src/fake-fw-dev`) | registers, transmit context, frame ring, trigger | register handlers, completion interrupts, trigger thread, one run loop | a queued frame is not overwritten; the loop serves both descriptors; a disarm holds |

The parts meet as follows.  The class driver calls the pin; the pin parks reads
and calls `PhotonicCapturePump`; the pump takes reads back through the acquire
callback and sends attach IRPs to the bus driver; completions and frame
callbacks run at DISPATCH_LEVEL and give reads back through the deliver
callback.  Everything slow - start, stop, close, removal, the work item - runs
at PASSIVE_LEVEL with `InterfaceMutex` held and sends its requests through
`PhotonicSubmitIrb`.  `PhotonicCaptureRequestWork` carries work from
DISPATCH_LEVEL to the mutex holder.  The hard behaviours are in these
crossings: completions against quiesces, frames against attach completions,
cancels against everything, failed detaches, requests abandoned at a timeout,
removal in the middle of anything.

Below that, the driver and the camera agree on a stream only through registers:
the driver computes a packet size from what it reads, the camera computes the
same frame from what was written, and a write whose answer is lost may have
taken effect.  The camera answers those writes in the same loop that refills its
frame ring, so a restart can come between the readiness of an interrupt and its
handling.

## Modules

| Module | Models |
| --- | --- |
| `CaptureState` | constants, variables, initial state and shared operators of the engine and its pin |
| `CapturePump` | `capture/pump.c`: the elected pump, attach and detach completions, frame callback; the bus driver that runs them |
| `StreamReads` | `stream/read.c`: data SRBs, cancels, flushes |
| `CaptureControl` | what holds `InterfaceMutex`: `capture/capture.c`, `teardown.c`, `resource.c`, `work.c`, and the pin's state changes, open, close and surprise removal |
| `CaptureEngine` | composes these; fairness, invariants, action and liveness properties |
| `BufferHandoff` | the abstract specification: what the callbacks promise about one buffer |
| `MCCaptureEngine` | symmetry for the runs |
| `CaptureEngineProofs`, `CaptureReadProofs`, `CaptureDrainProofs` | theorems about the engine and its pin: types, the pool, the reads, the drain and the hand-off; each extends the one before |
| `IrbSubmit`, `MCIrbSubmit`, `IrbSubmitProofs` | `PhotonicSubmitIrbEx` and `PhotonicIrbComplete`, the work item's use of the remove lock, `SRB_UNINITIALIZE_DEVICE` |
| `BusGeneration`, `MCBusGeneration`, `BusGenerationProofs` | `PhotonicAsyncTransfer` and the bus generation |
| `IoctlRing`, `MCIoctlRing`, `IoctlRingProofs` | `ioctl/frames.c` and `trigger.c`: the capture slot, the mapped ring, events and triggers, over the engine reduced to its contract; theorems about all its invariants |
| `PacketGeometry` | tables and arithmetic of packets and rates, the driver's (`dcam.c`) and the camera's (`fake-fw-dev/video.c`, `format7.c`) |
| `ChunkGeometry` | how a frame becomes a chain of chunks (`capture/pool.c`, `pump.c`) |
| `CameraRegisters` | the camera's video, Format_7 and isochronous registers (`fake-fw-dev/dcam.c`, `format7.c`, `iso.c`) as operators on one record |
| `FormatNegotiation` | data ranges, their intersection with a proposal, the mode lookup of the open |
| `DcamRoutines` | the routines of `dcam.c`, each as the set of its outcomes |
| `DcamSession`, `MCDcamSession`, `DcamProofs` | the composition: driver and camera from plug to unplug; theorems about all its invariants and about the two geometries |
| `FakeCamera`, `MCFakeCamera`, `FakeCameraProofs` | the run loop, transmit context and trigger thread of `src/fake-fw-dev` |

### How state and actions correspond to the code

**Engine and pin.**  One action is one hold of `Lock` or `PendingLock`, or one
call made between two holds.  A thread's place in the code is a value of a
program counter: `lap[t]` for a thread inside a pump run it won (any completion,
data thread or the mutex holder, hence `Thread`), `cpu[c]` for completion
routines, `rd[r]` for data threads, `cn` for the cancel thread, and `ctl` with
`op` for the one holder of `InterfaceMutex` - `op` says what it came to do, which
is where the shared steps (quiesce, release, drain) return to.
`irp[d]`, `dma[d]`, `fill[d]` and `busListening` are the bus driver: the request
it holds on the descriptor's shared IRP, the buffer it maps, whether it filled it
and with which status, and whether the context really runs (as opposed to
`listening`, the driver's flag).  `held` is the set of the three resource flags;
`stranded` remembers resources whose handle was overwritten or lost.
The drain wait's event, `DrainDone`, has no variable: the quiesce re-reads the
count at every timeout, so the event only makes it earlier.

**IRB submission.**  A request is a waiter, a completion routine and the block
they share.  `waiter[r]` and `routine[r]` are their places, `state`, `event` and
`status` the block's fields, `block` and `attached` whether its memory is
allocated, `holders` the acquisitions of `IrbRemoveLock`.  The last instruction
of a completion routine after its final use of a shared object is not a step: a
thread preempted between that use and its return instruction is outside the
model, as it is outside what the code can guard.

**Bus generation.**  `busGen` is the bus's generation, `gen` the cached one,
`pending` the flag, `answer` and `stamp` each thread's copies.  `unrefreshed`,
`alone` and `overlapped` are history and steer nothing.

**IOCTL ring.**  One action is one hold of `FrameLock`, `EventLock` or the
engine's `Lock`, or one call between two holds.  `fs[i]` and `mdl[i]` are the
state and the locked pages of ring slot i, `mapped`, `next` and `current` the
slot's three indices, `countdown[e]` an event's registration, `pins` the calls
of `MmProbeAndLockPages` less those of `MmUnlockPages` - the charge a process
rundown would find.  The engine keeps only what `CaptureEngine` shows of it:
`bus[i]` is what the bus driver and the descriptor do with ring frame i (a frame
that finishes before its attach completes is `filled` at once), `line` the order
of attachment, `runner`, `again` and `lap` the election, `draining` the teardown.
The listen is not a step: `iso` says the camera is enabled or will be at the
first attach, which `EnableOnlyListening` and `StartFinished` are about.  `ctl` is
the place of the thread that holds `InterfaceMutex` and `by` the request it
serves, so that stop and release, which eight requests share, return to the
right place; `client` and `want` are that request's arguments.  `armed` is the
camera's ONE_SHOT.  `stalled` is history: a failed attach with no pump since.

**Camera and driver.**  `DcamSession` takes one action per handler, because every
handler that touches the camera's configuration holds `InterfaceMutex`, and the
camera answers one request at a time.  What makes it more than a sequential
program is failure: a routine of `dcam.c` is an operator that returns the set of
its outcomes - it may stop at any of its register writes, and a write reported
failed may or may not have reached the camera.  `cam` is the camera's register
record, which outlives the driver: `PowerCycle` resets it, an unplug of the host
does not.  `s` is the session: who owns it, the mode and geometry it was claimed
with, and what the start computed.  `sure`, `asked`, `nak` and the session's
`clean` and `rate` are history and steer nothing.  A start fails after the
configuration when the host refuses it (the chunk chain among other reasons).
The lookups of the current mode may fail or miss the coding, hence return a set;
`PhotonicDcamGetFrameRate` likewise.  Standard modes are data: `Std` is the set
of `<<format, mode>>` slots the camera advertises.  Frame intervals are in
microseconds with a cycle of 125, where the code counts 100 ns, so that products
stay within TLC's integers.

**Emulated camera.**  The process is one loop over `poll`, one control request and
one interrupt per round (`fwdev.c`), the trigger thread (`trigger.c`) and the
kernel.  `cam` is the transmit part of `dcam_camera_t`, `ctx` the kernel's side
of the file descriptor: the queued packets by frame, the completions not yet
reported, and whether it runs or died.  `snap` is what `poll` returned; it is used
after the request of the same round may have closed and reopened the descriptor
under the same number, which is what the stale-readiness check is for.  A mode is
its number of packets per frame, a frame an image number.  `clean` and `short` are
history: no failed start queued into this context, and the kernel took no part
frame.

## What the runs check

All runs of the engine use `Spec` and `MaxWorkers = 1`; d, b, c, r are the
numbers of descriptors, reads, completion contexts and data threads.

| Run | Bounds and what may happen | Checks |
| --- | --- | --- |
| `EngineSession` | 2d 2b 2c 1r, no retries; starts, stops, pauses | types, one pumper, the lists partition the pool, a ready read beside a free descriptor has a pump coming |
| `EngineTeardown` | 1d 2b; starts, stops, cancels, failed frames, attaches, detaches | stop before detach, no failed frame reported good, a drained engine is idle with an exact in-flight count, the engine implements `BufferHandoff` |
| `EngineClose` | 1d 2b, one without MDL; flush, close, reopen, removal; failed allocations, listens, enables, detaches and frees | no mapped read is returned, nothing reaches a freed engine, the handle outlives its requests, no read is left parked on a stopped pin, each read is in one place until completed once, the camera is enabled only over an active listen |
| `EngineProgress` | 1d 2b, one short; starts, stops, closes, failed detaches, two retries | at rest a spent try has a listen or an enable still to make, and a run on its way unless the budget is out; the mutex is given back; a running session's listen and deferred enable are made (liveness) |
| `EngineCancel` | 1d 1b; starts, cancels, failed detaches | a cancelled read completes (liveness) |
| `IrbRequests` | 2 requests, 2 work item runs, 2 attempts | no use after free, no leak, quiet after the unload; a submission returns and the teardown ends (liveness) |
| `GenerationRefresh` | 3 threads, 2 resets | stale generations are flagged; a lone transfer is not rejected |
| `IoctlRing` | 2 clients, 2 ring frames, 2 descriptors, 1 event, 1 completion context; every request that can fail fails | no page is unlocked under the bus, a slot's pages are charged exactly and a released one leaves nothing, each frame has one holder, delivery matches the camera's mode, a ring that can be fed has a pump coming |
| `DcamSession` | one standard slot, two scalable modes, a table of 3 modes (one too few); every register write may fail, lost answers; plug, unplug, power cycle; two kernels, three DMA limits | host and camera agree on channel, speed, packet and frame; the camera never refuses a chosen packet; packets fit bus, frame and chunk chain; the selection is enumerated; a rate set by index is used; what is read back is what streams; an offered format opens in a mode that covers its size, rate and coding |
| `FakeCamera` | streamable and unstreamable modes, a ring of 2 frames of 2 packets, one descriptor number, all five kernel faults, 2 pulses | queued frames keep their image and follow one another; a one-shot sends one frame; requests are answered and a dry ring is refilled (liveness); one stray pulse at most |

Deadlock is checked in the engine runs, where a camera, a client or a stop is
always possible, except in `EngineClose` and `EngineProgress`: an engine that was
closed with no reopen allowed, or leaked, stops there.  The devices of
`IrbSubmit`, `IoctlRing` and `DcamSession` end uninitialized and the emulated
camera waits for a host, so their runs do not check deadlock either.

Two runs look for a violation and find it: the code departs there from what
its own comments say.

| Run | The code | The comment |
| --- | --- | --- |
| `AttachFailureStalls` | a failed attach recycles its descriptor without a pump (`capture/pump.c:257`), so a read parked meanwhile waits for an unrelated event | `capture.h:418`: the engine pumps on every recycled descriptor |
| `ReleaseDisarms` | SW_TRIGGER arms a slot in any state, but a settled stop returns before the disarm (`capture/capture.c:347`) and the disarm asks for `OneShot` (`capture/teardown.c:303`): a slot armed before its start, or in continuous mode, is released with the camera armed | `ioctl/frames.c:353`: the stop also cancels an armed one-shot acquisition; `ioctl/ioctl.c:397`: cleanup cancels an armed one-shot |

Four more configurations state what a comment says and end in a violation too.
They are not among the listed runs; `tlc -config X.cfg` on the MC module shows
the trace.

| Configuration | The code | The comment |
| --- | --- | --- |
| `CountNotLast` (`MCCaptureEngine`) | `PhotonicCapturePumpIrpDone` reads the engine after the decrement that lets a close free it (`capture/pump.c:42`) | `capture/pump.c:36`: the last access to the engine |
| `ShortReadsStall` (`MCCaptureEngine`) | a lap counts the reads it rejects for their length (`capture/pump.c:436`): as many short reads as descriptors, parked ahead of a good one, spend the lap and leave it parked beside free descriptors | `capture/pump.c:529`: no readiness is lost |
| `StartStrands` (`MCCaptureEngine`) | a start whose retried release fails again for a resource allocates over its handle (`capture/capture.c:167`) | `capture/capture.c:157`: retried before the handles are overwritten |
| `NegotiatedAligned` (`MCDcamSession`) | `PhotonicStreamFindNegotiatedMode` takes any mode whose window and rate cover the format, so a size aligned to the unit of the mode it was offered for can open in another mode with another unit | `stream/intersect.c:258`: aligned to the granularity; `dcam.c:541`: the negotiated, unit-aligned geometry |

`ReadyIsPumped` is checked with and without failures: it holds as long as no
attach fails and no read is too short (proved, `ReadyIsPumpedAlways`), the
violation run adds the failure, and `ShortReadsStall` a short read.  The modes the
driver negotiates give no short read; a client that sends one defeats only itself.  `StopBeforeDetach` rests in the same
way on the stop of the context reaching the bus driver: the code ignores the
status of that request (`capture/resource.c:171`), and with `"isochStop"` among the
`Faults` of `EngineTeardown` the property fails.

`MutexReleased` is checked without cancels, and has to be: a client that keeps
submitting and cancelling reads can keep the elected runner, which may be the
holder of the mutex, in the re-run loop of `PhotonicCapturePump`, and can keep
`PumpActive` set at every look of a quiesce that waits for the pump to go idle.

Liveness is stated as *again and again over*: `[]<>(nobody holds the mutex)`
says no holder keeps it for ever, since a wait that never ends would make it
false from some point on.  It is what `~>` from every state would say, with a
smaller tableau.

In the model of the generation two overlapping transfers can surface a transient
rejection that `p1394.c:784` means to hide: an older answer, stored between
another thread's refresh and its retry, makes the retry stale (`p1394.c:434`,
`:794`).  `AloneSucceeds` and `StaleIsFlagged` say what holds without the overlap;
every caller handles the status.

Four things the ring's model shows that no property forbids, because the
code accepts them: the final release unlocks quarantined pages and leaks the slot
(`ioctl/frames.c:360-368`, the exception in `LockedWhileInUse`); a trigger whose
pump loses the election may arm before its buffer is attached (`TriggerUnheard`);
an event registered between a delivery and its countdown fires for the frame
before; a failed disarm leaves the camera armed.

The emulated camera has a few of the kind, which its properties name as
exceptions.  A start that fails at the kernel leaves its frames queued in the
context, and the next start queues behind them (`fake-fw-dev/iso.c:349`, `:280`;
`clean`).  A pulse whose mode check precedes a disarm is counted after it
(`fake-fw-dev/trigger.c:84`; hence *at most one*).  The error readiness of a
context closed and reopened in the same round stops the new one, because only
the number of the descriptor is compared (`fake-fw-dev/fwdev.c:727`, `:736`).
INITIALIZE resets the video registers and leaves the transmit context running, so
a session that starts over a running context is not *clean* in `DcamSession`.

### Why the bounds are enough

The pool has four descriptors in the code.  Two are needed for one to complete
while the other attaches or detaches; one, with two reads competing for it, is
the case where a descriptor is scarce.  Two reads show order and competition,
two completion contexts two routines at once - a third would run the same code
against the same lock.  `Ops` and `Faults` name the client operations and the
failures an instance exercises; each run has those its question depends on, so
that the fault interactions are explored rather than every fault everywhere.
`RetryMax` is 8 in the code and 0 or 2 here: two is the least with a state between
a whole budget and a spent one.  Tries are spent in `EngineProgress` by a frame published after the work item run
looked whether to listen.  Listens and enables that fail meet a budget of 0 in
`EngineClose` and one of 2, with reopens, a removal and two runs of the work item,
under `EngineRetries.cfg`, which is not among the listed runs and passes; the proof of
`BudgetPerStallAlways` excludes no fault.
The ring has 256 slots in the code.  Two are enough for one to be in flight
while the other is acquired, requeued, delivered or quarantined, and maps of one
and of two frames give the remap over leftovers.  One completion context runs
beside the holder of the mutex, and both beside the bus driver; more contexts
are the engine runs' subject.  A frame that fails at the bus takes the path of a
cancelled one, so it is not injected there.
In `DcamSession` the table holds three modes where the camera offers six - one
standard slot and five codings of two scalable modes - so that the probe overruns
it in the middle of a mode.  One size off the unit grid and one interval on each side of every rate make
the intersection clamp and align; channel 16 is one the ISO_EN register cannot
name.  The DMA limits are a failed query, one page, and eleven: in order the
fallback that takes a small frame whole, a limit that asks for too many chunks,
and one that splits a frame into as many as are allowed.  The emulated camera's ring has one frame in flight and one behind it,
frames of two packets with an interrupt on each, so that an interrupt may come in
the middle of a frame or of a restart; the frame counter wraps after three, one
more than the ring holds.
`MaxWorkers` bounds the work item runs waiting for the mutex at once.  Reads are
renewed for ever (`out` is a set, not a counter), so sessions repeat without a
bound.  Symmetry is used over descriptors, contexts, threads and the reads of
one kind, in runs of invariants and action properties only.

### Fairness

Weak fairness stands for the kernel's scheduling: a thread that can run goes on,
a lock is handed on.  `BusAnswers` is strongly fair: the bus driver completes
every attach and detach it holds, and the strength is needed only because the
few completion contexts of an instance are shared.  `WorkBegin` is strongly fair
because `KeWaitForSingleObject` serves a mutex in order.  Nothing makes a client
act, a camera send a frame, or an injected failure happen or stop happening; a
liveness run whose property a permanent failure would defeat does not inject it.
In `IrbSubmit` the bus driver is not fair at all: `SubmitReturns` holds against
one that never answers, and `UninitializeReturns` names its answer as a
hypothesis, as `dispatch.c:413` does.  `Deregister` is strongly fair there
because the requests of other threads may occupy all of `Req`, which the code
does not bound.
In `FakeCamera` the loop's thread is weakly fair, and so is the transmission: the
bus has a cycle for every packet of a running context.  Neither the host nor the
trigger line is.  `DcamSession` checks safety only and states no fairness.

## What is proved

TLAPS checks these for every value of the constants that meets the `ASSUME` of
the module - any number of descriptors, reads, threads and requests.

*`TypeCorrect`* (`CaptureEngineProofs`): the type invariant of the engine and its
pin is inductive.  The proof goes action by action over the eleven parts of
`TypeOK`, with `TypeFrame` for the parts an action leaves alone.  Two conjuncts
look like more than types and are what makes it inductive: a thread has a claimed
descriptor exactly in the laps that use one, and a data thread a read exactly
before it parks it.

*`OnePumperAlways`, `ListsPartitionAlways`, `IrpFollowsStateAlways`*
(`CaptureEngineProofs`): none of the three is inductive alone.  A detach completion
may put a descriptor on the free list only because its state is `Detaching`,
which follows from its IRP; it keeps the partition only because no lap claims
it; and a claim is exclusive only because one thread pumps.  `PoolInv` is their
conjunction with `TypeOK`, and each group of actions is shown to keep it.

*The theorems of `CaptureReadProofs`* first establish where the holder of the
mutex can be (`FlowInv`, `HandleInv`): what does not hold the mutex changes none of
it, so that only the actions of `CaptureControl` need a look.
`NoReadParkedAlways` adds `ParkInv`, that a stopped pin with a parked read has a
drain at some later step of the transition that stopped it.
`SingleCompleterAlways` replaces the five cardinalities of `SingleCompleter` by
`OneHolder` (a read that is out has one holder, any other none), which an action
either leaves alone or changes for one read: it comes, changes hands or is given
back, a lemma each.  What makes it inductive: the line has no duplicates, a thread
or descriptor carries a read exactly where `HandsInv` says, and an engine that is
gone has an empty line (`GateInv`).  Neither excludes a fault.
`ReadyIsPumpedAlways` follows a lap: while nobody else asks for the pump, the
descriptors it has tried and those left on `FreeList` are together no more than
the pool, so the lap ends over an empty list or an empty line, not at its bound.
`BudgetPerStallAlways` rests on `BudgetInv`: a start has the whole budget wherever
it stands, and tries from a stall that is over are left only in the run that ended
it or in a teardown on its way to close the context, so that none is left when the
mutex is given back.

*The theorems of `CaptureDrainProofs`* start from `InFlightExactAlways`: each action
moves at most one descriptor into or out of the set of requests at the bus driver,
and one completion into or out of the engine, and the count with them.  A drain
that saw zero has therefore seen both sets empty (`Quiet`), and nothing but the
holder of the mutex can fill them again, provided the context is silent
(`Silent`).  `MapInv` says what a descriptor's state implies for its mapping, its
fill status and its outcome, `MapsOwn` that what is mapped through a descriptor
is the read it carries; with `OneHolder` that read has no other holder, which is
`NoMappedBufferReturned`.  `GoneInv` takes the last steps of a close: gate down,
drained, nobody left to pump.  `ImplementsHandoff` is the refinement of
`BufferHandoff` by the mapping of `CaptureEngine`: an engine-owned read is one a lap,
a descriptor or a completion holds, and every step is matched by one of the
hand-off or a stutter.  All but `InFlightExactAlways` assume that the stop of the
isochronous context reaches the bus driver (`"isochStop" \notin Faults`); the code
does not look at its status (`capture/resource.c:171`), and TLC refutes
`StopBeforeDetach` without the assumption.

*The theorems of `IrbSubmitProofs`* rest on `IrbInv`: `Stands` relates the places
of the waiter and of the completion routine through `state` and `event` (who
abandoned, who completed, who has still to signal) and says what each pair
implies for the block, the attached memory and the lock; `Works` does so for the
work item, `Withdraws` for the deregistration, `Tears` for the teardown.
The types of its variables are left to the proof (`IrbTypeCorrect`); no run lists them.

*The theorems of `IoctlRingProofs`* rest on `RingIInv`, for any clients, events,
ring length, descriptors, completion contexts and faults.  `PlacesInv` says where a
request may stand and what the engine is doing meanwhile: outside the places that
drain or release, there is no ring or the engine is not draining.  `LineInv`:
the attach order lists each buffer at the bus once.  `HoldersInv`: a frame is in
flight exactly while one party - bus, completion or lap of the pump - holds it.  `RingInv`: what is held or delivered lies in the mapped
ring, under locked pages.  `ChargeInv`: a client is charged the pages it has
locked, the lock loop has locked a prefix, and a slot that is gone left nothing.
`PumpInv`: a descriptor a lap claimed stays busy unless somebody is stirred to pump
again, so that a lap that ends unasked leaves nothing to attach.  None is
inductive alone: that no page is unlocked under the bus needs the drain of
`PlacesInv`, which counts the holders of `HoldersInv`, whose step for a completion
needs the order of `LineInv`.

*The theorems of `BusGenerationProofs`* rest on `GenInv`, which follows one
lone transfer from its query to its retry.

*`ChainIsWhole` and `ChosenPacketFits`* (`DcamProofs`) are about the
arithmetic alone: for every frame, packet and DMA limit an accepted chain covers
the frame in whole packets, and for every frame, unit and payload a chosen packet
is one the camera takes.  TLC sees the frames and limits of one instance.

*The theorems about the session* (`DcamProofs`) all rest on `IInv`.  `Entries` says
what the mode table can hold: a standard slot with the bits the camera counts, or a
scalable mode with a unit grid, a default size on whole quadlets and ordered
intervals; `StandardEntries` and `PassTables` show that the two passes of the
enumeration list nothing else.  `Registers` says what the camera's own resets leave
in its scalable modes and in its context: a running context's packets make a frame.
Over them, `Placed` relates a selection that went through to the table, `Asked` the
rate a client set to the register and to every entry the selection may mean,
`Fitted` a claimed session to its entry (size, image, interval; a negotiated one
has an entry, of its coding), and `Running` a
running session to the camera: `Configured` (selection, window, coding, packet),
`Carried` (the packet fits the bus and divides the image), `Nominal` (it is that of
the rate) and `Latched` (the context latched what the registers say).  None is
inductive alone: a packet the camera never refuses needs the unit of the entry,
which the negotiation has to keep (`OpenFits`), and the latched packet is the
session's only because nothing configures a camera under a running session.  The
lemmas show for each routine of `DcamRoutines` what it keeps whatever write it ends
at - `Apart` for those that touch no stream, `Framed` for a write of a scalable
mode, `Settled` for a configuration, `Still` for what only enables - and for each
action that it keeps the seven parts.  `PacketNeverRefused` is a conjunct of
the invariant, and `NegotiatedHeld` reads `Fitted` on its entry; `PacketsFit` adds `ChainIsWhole`, and
`SelectionUsable`, `RateAsSet` and `ReadBackAgrees` look the entries up again.
TLC checked `IInv` on the instance of the run before it was proved.  The
assumption on the constants that carries an argument is that a faster rate has a
shorter interval, as in `g_DcamRateInterval` (`dcam.c:156`): an interval
then names one rate.
The two passes, the scalable entries and the ranges are lists a loop appends to:
each is `Joined` from the parts of its turns, and `JoinedMembers` is the one
induction the proofs need, done by hand on the least turn that would be an exception.
`TypeCorrect` adds to `IInv` that the table never outgrows its bound (`TableLength`).

*`FramesWholeAlways`* (`FakeCameraProofs`) rests on `Whole`, a predicate of any
camera and context, so that what a handler computes is followed through
`IsoStop`, `IsoStart` and `Refilled` before it is assigned.  Its heart is `Lined`:
a refill spends a frame's worth of the packets *owed* - sent, and not yet paid for
by a refill - and for a queued frame that n refills have followed no more is owed
than the ring less n + 1 frames and what is sent of the frame itself, so that the
refill that can be paid never takes its slot.
`Owes` bounds what the kernel has reported, is counting and what the loop holds of
a frame by what is owed; reports that were dropped only widen the bound.  The sum
of the reports is stated by its partial sums (`Tallied`), a recursive sum being
out of the prover's reach, and the recursion of `Refilled` is written out, a ring
having two frames at most.  The order of the frames needs no exception for
what the kernel took in part.

*`AtMostOneStrayAlways`* (`FakeCameraProofs`) needs the trigger thread's half-done
count in its invariant: a pulse is pending or about to be counted, not both.

`QueuedOnceAlways` and `WithdrawnFirstAlways` are proved and no longer among the
runs' properties, because later and harder ones took their place.

Only model-checked: the liveness properties, fairness and ENABLED being outside the
prover, and the runs that expect a violation, which are counterexamples.
`NegotiatedAligned` has no theorem because it is false.

## Not modelled, and why

Frame metadata, master clocks, tracing and the contents of IRBs have no bearing
on the properties.  IRQL rules are not modelled.  Of bring-up, the registrations
are not modelled, only its register part.  The two caps of the Format_7 probe at an
image of 256 MB (`dcam.c:523`, `:568`) are left out, because no modelled camera
reaches them, and a mode whose CSR pointer the probe rejects is one of the modes it
passes over (`DcamRoutines`).  Feature, identity and mailbox verbs
and the device properties are one register transaction each, under the mutex;
they share the transfer of `BusGeneration` and add no state of the driver's.
Allocation failures while an engine is created leave no engine, and are not
modelled.  Of the IOCTL front-end, the exclusion against an open DirectShow pin in
`IoctlRing` (it is in `DcamSession`), the validation of arguments and the gap
between the registry's lookup and the mutex (`ioctl/ioctl.c:325-359`) are left out;
whether the class driver sends SRB_UNINITIALIZE_DEVICE with an IRP outstanding
cannot be read from the source.  Of the emulated camera, the control descriptor's
error exit, FCP and the descriptor of the remote node after a bus reset, feature
registers, the mailbox beyond TRIGGER_MODE, I2C, the rendering of frames and the
receive listener are left out: they hold no state the transmitter depends on.

## Plan

1. Done: the engine with its pin, the abstract hand-off, IRB submission and
   teardown, the bus generation, the IOCTL ring; the packet and chunk geometry,
   format negotiation, the DCAM session against the camera's registers, the
   emulated camera's loop; their runs; the theorems above.
2. The ring's order (attached frames lie in rotation, which takes three slots to
   tell), and the exclusion between the two front-ends in `IoctlRing`.
3. The camera's mailbox and I2C, the feature registers behind the property
   tables, and the config ROM walk of `p1394.c`.
4. Proofs: done for every invariant and action property the runs check.  Items 2
   and 3 bring their own.
