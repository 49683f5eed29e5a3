# Verification of the ESP HAL drivers

This repository is the part of ESP-IDF that NuttX builds on: register access
for a family of chips, and above it the drivers and system services that share
the hardware between tasks, cores and interrupt handlers. The second part is
where state is kept and where interleavings matter. This directory models it in
TLA+, checks the models with TLC and proves theorems about them with TLAPS.

`PROJECT.json` lists components, runs, the source lines behind each definition,
hazards, findings and theorems. Paths below are relative to `src/components/`.

Contents: 1 the system, 2 the modules, 3 the runs, 4 findings, 5 proofs, 6 what
is not modelled, 7 running.

## 1. The system

| component (files) | state | operations | hard behaviour | correct means |
|---|---|---|---|---|
| **GDMA driver** (`esp_hw_support/dma/gdma.c`) | groups and pairs with reference counts, occupied positions, masks of peripherals in use, interrupt handler and enabled events | new and delete channel, sibling, register callbacks, connect, disconnect | lazily installed objects released in several critical sections; shared error path | counts cover all references; nothing in use is freed; a position or peripheral has one owner |
| **Asynchronous memcpy** (`dma/esp_async_memcpy.c`, `async_memcpy_impl_gdma.c`) | two rings of DMA descriptors, next free, next to check | install, uninstall, copy (task or callback), EOF interrupt | hardware advances while the handler walks the ring | callbacks in order, once, none lost; no piece in the wrong place |
| **Task watchdog** (`esp_system/task_wdt/`) | list of subscribers with flags, timer, waiting flag, idle cores | add, reset, delete, init, reconfigure, stop, restart, deinit, timer interrupt | joining and leaving a round; timer started by whoever comes first; init without the lock | a hang raises an alarm; no alarm without a slow subscriber |
| **Inter-processor calls** (`esp_system/esp_ipc.c`) | function, argument, notification, acknowledgement and mutex per core | call, blocking call, gcov from an interrupt, the IPC tasks | half-written call seen by a task woken for another reason | each function once, on its core, with its argument; callers return in time |
| **eFuse manager** (`efuse/src/`) | write buffers, batch nesting, recursive lock, burn counter | read, write, begin, commit, cancel, burn | nesting, lock against counter, readers without a lock, errors in the middle of a burn | a read is a snapshot; a call burns what it was asked for; protection last; lock released |
| **Interrupt allocator** (`esp_hw_support/intr_alloc.c`) | vector descriptors, shared lists, handler table, interrupt matrix, masks of non-IRAM interrupts | alloc, free, enable, disable, reserve, cache-off windows, the shared routine | free from the other core through IPC; shared handler walks a list | a source is routed while a handler is enabled; a freed handler is never called; cache-off windows restore what was enabled |
| **Spinlocks** (`esp_hw_support/include/spinlock.h`, `cpu.c`) | owner and count | acquire, release | the two words are written apart; compare-and-set in external RAM is a sequence | one owner; the assertions hold |
| **Cross-core interrupts** (`esp_system/crosscore_int.c`) and **IPC in interrupt context** (`port/arch/xtensa/esp_ipc_isr.c`) | reasons per core; flags, function, finish command, nesting | send, serve; call, stall, release, pause | reason against poke; handshake of flags written apart | every reason is served; a stalled core stays stalled |
| **Log levels** (`log/log.c`) | list of tags, cache as a heap of generations | set, get | cache keyed by address, list by text | a level set is the level got |
| **SDIO slave HAL** (`hal/sdio_slave_hal.c`) | ring of descriptors and sending state; list of receive buffers | queue, start, stop, interrupt, flush, reset; load, unload | state machine against the interrupt; ring pointers | every buffer returned once, in order; counters exact |
| **SPI slave HAL, half duplex** (`hal/spi_slave_hd_hal.c`) | a chain of descriptors | append, get finished | a chain extended while the DMA works on it | transfers returned once, in order |
| **Ethernet HAL** (`hal/emac_hal.c`) | two rings of descriptors | transmit, receive, flush, reset | several segments per frame, given one by one | frames whole, in order; no descriptor lost |
| **Shared clocks** (`esp_hw_support/clk_ctrl_os.c`, `modem_clock.c`, `periph_ctrl.c`, `regi2c_ctrl.c`) | reference counts, a frequency | acquire, release, set frequency; enable and disable a module | decision under the lock, effect after it; devices counted, clocks not | a user keeps the clock it was given |
| **Interrupt watchdog** (`esp_system/int_wdt.c`) | a flag shared by two tick handlers | tick | flag cleared after the feed | a hang shows; nothing else does |
| **RTC interrupts** (`esp_hw_support/rtc_module.c`) | handler list, masks | register, deregister, dispatch, cache-off windows | lock dropped around a handler | no call of a removed handler, none forgotten |
| **Sleep retention** (`esp_hw_support/sleep_retention.c`, `port/regdma_link.c`) | lists of register nodes per priority, branching into chains per hardware entry | create, destroy | joined and taken apart in steps; allocations fail | every register is on the chain the hardware follows, in order |
| **Event task matrix** (`esp_hw_support/esp_etm.c`) | groups with reference counts, channels, registers | create, connect, enable, delete, dump | registers written outside of the locks | a channel keeps its place and connection |
| Hooks, sleep modes, crypto, startup, panic, remaining HAL, headers | tables, registers | sequences | decided by hardware, or run once | not modelled, see section 6 |

Interactions. The memcpy driver owns two GDMA channels (a TX channel and its RX
sibling) and gets the RX EOF event in the GDMA driver's interrupt handler. GDMA,
the watchdog, the RTC module and cross-core interrupts get their handlers from
the interrupt allocator, which frees a vector of the other core through an
inter-processor call. The watchdog subscribes the idle tasks and resets them in
a FreeRTOS idle hook. Drivers take their clocks from the shared clocks. The
exclusions are spinlocks (critical sections), FreeRTOS mutexes, and interrupt
masking on one core. Nothing is persistent except eFuses: the only failure that
outlasts a call is a burn that fails half-way, which `EfuseBatch` models.

## 2. Modules

| module | role |
|---|---|
| `Gdma`, `GdmaProofs` | the GDMA driver; its types; reference counts, positions, peripherals, handlers |
| `AsyncMemcpy` | the memcpy driver, with the DMA as environment |
| `CopyQueue` | a queue of requests that end and are called back in order; refined by `AsyncMemcpy` and `SpiAppend` |
| `TaskWdt`, `TaskWdtProofs` | the task watchdog over the timer group |
| `EspIpc`, `EspIpcProofs` | inter-processor calls |
| `RemoteCall` | what `esp_ipc.h` promises; refined by `EspIpc` |
| `EfuseBatch` | the eFuse manager |
| `IntrAlloc` | the interrupt allocator |
| `Spinlock` | the spinlock, in internal and external RAM |
| `CrosscoreInt` | cross-core interrupts |
| `IpcIsr` | calls and stalls in the other core's high-level interrupt |
| `LogCache` | log levels and their cache |
| `SdioSend`, `SdioRecv` | the two halves of the SDIO slave HAL |
| `SendQueue` | what the sending half promises; refined by `SdioSend` |
| `SpiAppend` | the append mode of the SPI slave HAL |
| `EmacRecv`, `EmacSend` | the two rings of the Ethernet HAL |
| `SharedClocks`, `ModemClock` | the audio PLL; the clocks of the radio |
| `IntWdt` | the interrupt watchdog |
| `RtcIsr` | the handlers of the RTC interrupt |
| `Retention` | the lists of sleep retention |
| `EtmChannels` | the event task matrix |
| `RingProofs` | proofs about `AsyncMemcpy`, `EmacSend` and `EmacRecv` |
| `InterruptProofs` | proofs about `IntrAlloc`, `RtcIsr`, `IpcIsr` and `CrosscoreInt` |
| `SharedProofs` | proofs about `Spinlock`, `SharedClocks`, `ModemClock`, `IntWdt`, `EtmChannels` and `EfuseBatch` |
| `ListProofs` | proofs about `LogCache`, `SdioRecv`, `SpiAppend` and `SdioSend` |
| `ServicesProofs` | what follows for the instances that `MCServices` checks |
| `MC...` | model values, sets and symmetry for TLC |

In every module an action is one critical section, or one access to shared
state where the code takes no lock; the steps of a call are separate actions,
linked by a program counter, so calls interleave exactly where the code lets
them. Error returns that change nothing are stutters and not listed. Each
definition named *Mutant* in a comment is a plausible bug: with it in place of
the definition that follows, TLC finds the property named in `PROJECT.json`
violated.

Where callers can do what the code does not withstand, or hardware can be in a
state that one reading of the code forbids, the step is in the model under a
*liberty*: a member of a constant set, empty in the passing runs, so that the
assumption is named and can be lifted in a configuration.

### Gdma

State: `groupUp/groupRef` (`s_platform`), `inUse` (the masks of a group),
`pairUp/pairRef`, `occupy` (`occupy_code`), `slot` (`tx_chan`, `rx_chan`),
`events` and `handlers` (hardware and interrupt allocator), `chan` (channel
objects), `call` (the call each task is in). A search runs through
`AcquireGroup`, `AcquirePair`, `RefGroup`, `Occupy`, back through `ReleasePair`,
`ReleasePairsGroup`, `ReleaseGroup` when a pair is full, and ends in `Register`
or `GiveUpSearch`. A deletion runs `DelChannel`, `UninstallIntr`,
`DisableEvents` and the releases; registering callbacks is `InstallIntr` and
`EnableEvents`. Objects are named by their slot, so a pointer kept after the
object was freed shows as a reference to an empty slot.

Callers own their handles and use one at a time. What goes beyond plain use is a
member of `CallerLiberties`: a sibling of the wrong direction, a sibling outside
a reservation, deletion while connected, a second registration.

Bound: `MaxGroupRefs` stops new searches once a group has so many references.
It is needed because the code keeps one group reference per successful search
(see the limits below), so the counts would grow without end.

### AsyncMemcpy

State: `rx`, `tx` (the rings), `rxNext`, `txNext`, `check`
(`next_rx_desc_to_check`), `dma` and `intr` (the DMA and its interrupt), `isr`
(the handler), `waiting` and `streams` (accepted requests and how many descriptors
their callers count, for the properties). A request is a number of descriptors, the buffer a descriptor carries is a piece of a request. `Submit` is the critical section of `esp_async_memcpy`; the handler
takes a step for each of: entering and clearing the status, reading the EOF
address, choosing the next descriptor under the lock, reading its callback, and
returning from it. The DMA reads a TX descriptor and writes an RX descriptor in
ring order and may finish further requests at any moment.

`Liberties` are more streams than the backlog (from a task, or from a
callback), a copy of zero bytes, and a DMA that finishes between the clearing of
the status and the reading of the address.

External, modelled from how the driver uses it: the DMA writes a descriptor back
before it raises EOF and serves descriptors in order; uninstall waits for a
running handler, since the interrupt is freed on its own core.

### TaskWdt

State: `up` (`p_twdt_obj`), `idleMask`, `wdt` (entries, flags, waiting flag,
timer), `irq`, `call` (a subscriber past the unlocked check of `p_twdt_obj`) and
`mgr` (the progress of init, deinit or reconfigure). The functions `Added`,
`Deleted`, `Marked`, `Fed`, `Started`, `Halted` map one watchdog to the next and
are composed by the actions. `init` and `deinit` access the object without the
spinlock and are several steps; `reconfigure` is several steps under it.

Time passes in ticks, `Timeout` of them to the configured timeout. `age`,
`slowest`, `joined`, `quiet` and `stopped` are history for the properties.
Ages are capped at `2 * Timeout + 1`, one more than any property compares with;
`joined` at `MaxJoins`. The model assumes that the interrupt is taken within a
tick, so the second stage (the reset of the chip) is not reached; and that the
delay between a call's check and its critical section is arbitrary.

`Liberties = {"overlap"}` lets calls run concurrently with init and deinit.

### EspIpc

State: `mutex`, `ack`, `func`, `arg`, `note` (task notification), `task` (the
IPC task of a core), `call` (a caller), `gcovFunc` and `gcov` (the interrupt),
`aborted`, and `stage`, which the refinement needs: how far a caller's function
has come. Every read or write of shared memory is an action of its own.
FreeRTOS is modelled by what the file relies on. A function begins, for
`RemoteCall`, where the IPC task takes it out of `s_func`.

Bound: `MaxGcov` interrupts. The task may abort, after which nothing moves.

### EfuseBatch

A bit is a register and a place in it; a register belongs to a block. State:
`efuse` (what the read registers show), `pending` (the write buffers), `odd` (the
parity of `s_burn_counter`), `mode` (`s_batch_writing_mode`), `lock`, `op` (the
call of the lock's owner: what it was asked for, what is left to burn, its error)
and `reader` (a read without a lock, register by register). A write outside a batch
is `WriteStart`, `ResetDone`, `Prepared`, then block after block `BurnBlock` from
the highest down to BLOCK0, `BurnReset`, `Reloaded`, `Burnt`, `Swept`. A burn may
fail in any block of which any part is then burnt. `MaxNest` and `MaxDepth` bound
the batches inside one another; with `MaxNest = 1` none is nested.

### IntrAlloc, RtcIsr

`IntrAlloc`: `desc` (vector descriptors with their lists), `handle`, `table`,
`route` (the matrix), `mask`, `enabled`, `saved` and `asleep` (the non-IRAM
interrupts) and, because they happen outside the lock, `freeing` (a free that has
compared its core) and `isr` (the shared routine that has read the head of its
list). Liberty `migrate`: a task that frees changes its core between comparison
and critical section.

`RtcIsr`: the interrupt routine drops the lock around a handler, so `IsrNext` is a
step per handler and `Register`/`Deregister` come between. Liberties: `running` (a
handler is deregistered while it runs), `mixed` (handlers in IRAM and in flash share
a bit).

### Spinlock, CrosscoreInt, IpcIsr

`Spinlock`: `owner`, `count`, a program counter per core, and the lock of the
compare-and-set in external RAM. The count is incremented after the owner is set and
decremented before it is cleared, as in the code. `CrosscoreInt`: `Mark` and `Poke`,
`IsrClear` and `IsrTake`. `IpcIsr`: a step for each flag that is written (`Lock`,
`Post`, `Wake`, `Unlock`, `Release`, `SetRunning`) and, in the handler, for each that
is read (`HandlerStart`, `HandlerRead`, `HandlerRun`, `HandlerEnd`). Liberties:
`pause` (the feature is paused while the other core is in one of its functions),
`slow` (the stalled core does not look at the finish command for as long as it likes).

### LogCache

The cache is the heap of the code, a sequence in which entry n has its parent at
n / 2; `Hit` moves an entry down with the newest generation, `Miss` replaces the
first one, `Set` and `SetAll` update or clear. Constants tell texts from addresses
(`TextOf`) and bound the generations.

### SdioSend, SdioRecv, SpiAppend, EmacRecv, EmacSend

All five model a ring, list or chain of descriptors, the calls on it and the DMA.
Packets of `SdioSend` are cut out of the ring while they are in flight; its interrupt
service routine (the application's) is three steps. `SpiAppend` splits an append into
`Fill`, `Start` or `Link`, `Restart`, `Advance`, since the interrupt handler
(`GetFinished`) and the DMA come between. `EmacRecv` and `EmacSend` number the frames,
as many numbers as tell those apart that are in the ring; copying and giving back is a
step per descriptor. The HAL functions are documented as not thread-safe: a caller's
lock is assumed where the header asks for it.

Liberties: `restart`, `recount` (`SdioSend`), `flushAll`, `startFull` (`SdioRecv`),
`full`, `early` (`SpiAppend`), `refill` (`EmacRecv`), `long` (`EmacSend`).

### SharedClocks, ModemClock, IntWdt, Retention, EtmChannels

`SharedClocks`: `Decide` is the critical section in which a user's frequency is
accepted, or the current one is told, `SetCoefficients` the write after it.
`ModemClock`: the tables of the source for the modules, devices and clocks; a call is
one critical section. `IntWdt`: time in tick periods; the first core's hook in three
steps. `Retention`: the creation of a table of nodes is one step, under one mutex and
without anyone else to see it; the removal is `Destroy`, `Detach` per priority, `Free`,
`Removed`, because the hardware may follow the chains between. A node has as many links
as entries if it branches. `EtmChannels`: a search over groups, and a deletion in the
three steps of `Disconnect`, `Unregister`, `Release`; registers are written outside of
locks. Liberties: `bt154` (`ModemClock`), `noMemory`, `alone`, `crossed` (`Retention`),
`noMemory` (`EtmChannels`).

### MCServices

The smaller components ask small questions, and most have a few thousand states. One
run checks them all: a behaviour is one of the component that `part` names, chosen in
the initial state and kept; the components take their variables from one stock
`v1 .. v18`, of which those a component does not use stay 0. A property of the run is
`part = "..." => Component!Property`, with the component's own definition, and keeps
its name; where several components have a property of the same kind they share a name
(`NothingForgotten`, `CounterExact`, `AssertsHold`). What is checked of `Retention` is
`ChainsKept`, and `Outcome` includes that nothing is left to burn between calls. No component sees another. `Gdma`
and `AsyncMemcpy` are there a second time, in a configuration their own runs do not
have: `Gdma` with two pairs in a group and an exclusive peripheral, `AsyncMemcpy` with
callers that ignore the backlog and a DMA that finishes during the handler.

## 3. Runs

Times are a few seconds to two minutes with two workers. Where
`CHECK_DEADLOCK FALSE` appears the system may really stop: a group at its bound with
no channel left (`Gdma`), an abort (`EspIpc`), a task that keeps the lock for ever
(`efuse_nested`), and in `services` any component at a bound (periods, generations) or
with nothing more to do.

| run | instance | shows |
|---|---|---|
| `gdma_refs` | 2 tasks, 2 channels, 2 groups of 1 pair | types; counts cover references; nothing in use freed; no position given out twice; occupied positions marked |
| `gdma_errors` | 1 group of 2 pairs, 3 channels, siblings of the wrong direction, searches for TX, no callbacks | assertions of the release functions; every call returns, also a search past the last pair and group |
| `gdma_rejected` (violation) | 1 pair, siblings of the wrong direction | finding 1 |
| `gdma_rearm` (violation) | 3 channels on 1 pair | finding 2 |
| `memcpy_plain` | ring of 4, 3 requests of up to 3 descriptors, 2 cores | refines `CopyQueue`; no request refused, no callback lost, every callback comes; no finished buffer with the DMA |
| `memcpy_overcommit` (violation) | ring of 2, one core | finding 3 |
| `twdt_watch` | 1 client and 2 idle tasks, timeout of 2 ticks | a hang is noticed within two timeouts; an alarm needs a slow subscriber; the interrupt handler's assertion; nobody on a stopped timer |
| `twdt_overlap` (violation) | the same, overlapping init | finding 4 |
| `ipc_calls` | 2 callers, 2 cores, 1 gcov interrupt, a mutex per core | refines `RemoteCall`; own arguments; a call that has the mutex returns, and waiters get it one after the other |
| `ipc_gcov` (violation) | the same | finding 5 |
| `services` | see below | the smaller components |
| `efuse_nested` (violation) | 2 tasks, batches nested twice | finding 6 |

`services` (about 620,000 distinct states), by component:

| part | instance | properties |
|---|---|---|
| `efuse` | 2 writers, 1 reader, a register in BLOCK0 and two in a coded block | `AtomicReads`, `Outcome`, `ProtectionLast` |
| `pair`, `three` | 2 cores and 2 handlers; 1 core and 3 handlers on 2 vectors, allocations fail, vectors reserved | `HandlersMatch`, `Routing`, `CacheOffSafe` |
| `lock` | 3 cores, nested to 3, both kinds of RAM | `Exclusive`, `AssertsHold` |
| `cross` | 2 cores, 2 senders, 2 reasons | `NoReasonLost` |
| `ipcisr` | 2 cores, 1 function, stalls nested to 2 | `StallHolds` |
| `log` | 4 tags, a cache of 3 | `CacheAgrees`, `AssertsHold` |
| `sdio` | a ring of 3, 2 buffers | `Promised` (refines `SendQueue`), `AssertsHold`, `NothingForgotten`, `CounterExact` |
| `recv` | 3 buffers | `NothingForgotten`, `CounterExact` |
| `spi` | 3 descriptors, 3 transfers | `Promised` (refines `CopyQueue`), `AssertsHold`, `NothingForgotten` |
| `emacIn`, `emacOut` | rings of 3, frames of 1 and 2 segments, and of up to 3 | `NothingForgotten`, `CounterExact` |
| `clocks` | 3 users, 2 frequencies | `UsersKept` |
| `modem` | the five modules, each enabled up to twice | `UsersKept` |
| `etm` | 2 tasks, 3 handles, 2 groups of 1 channel, allocations fail | `UsersKept`, `CounterExact` |
| `watch` | 2 cores, 6 periods | `HangsShow` |
| `rtc` | 3 handlers of 2 bits | `HandlersMatch`, `CacheOffSafe` |
| `sleep` | 4 entries, 3 priorities, 3 modules with 5 tables, allocations fail | `ChainsKept` |
| `links` | any single table of up to 3 nodes over 3 entries | `ChainsKept` (`CrossedFail`) |
| `gdma` | 2 tasks, 2 channels, 1 group of 2 pairs, 1 exclusive peripheral | `Exclusive`, `HandlersMatch` |
| `copy` | a ring of 2, 3 requests of up to 2, overcommitted from tasks and callbacks, racing DMA | `SamePace` |

Why the bounds are enough. Two tasks are the least for every race of the GDMA
driver; two groups of one pair let a search pass from one group to the next, and
one group of two pairs from one pair to the next. Two channels fill a pair; three
are needed where a position is taken over, and where a search is to find all of a group
occupied: in `gdma_errors` one channel lives when two searches begin, with two references
to the group (`MaxGroupRefs` is 3, so a search that succeeds does not stop the next), one
of them takes the second pair, and the other goes past the last pair and group. To keep
that run small `SearchSpec` leaves out callbacks, connections, and searches for receive
channels, but no step inside a call. A ring of 4 with requests of up to 3 wraps
in the middle of a request and holds two requests at once. A timeout of 2 ticks
separates "reset in this tick", "in this round" and "in the round before"; three
subscribers let one leave and one join while a third has reset. Two callers and two
cores give contention for one mutex and calls that cross; one gcov interrupt suffices
for the notification that comes late. A ring of three descriptors has a first, a last
and one between, and is smaller than what is queued in the long run, so it wraps; a cache
of three has a root with two children; three handlers of two bits have two that match
together and one that does not; six periods are twice the three that a hang or a lost
tick is about. The instance of `Retention` has the four entries of the hardware, nodes on
one chain, on several and on all used, the owners of the source's own tables, a node that
shares no entry with the next, a list with two modules, a module with nodes at two
priorities, and an empty priority between others; `links` takes every table with three
entries, the least with which a node can be linked wrong, up to three nodes. Where a proof
exists (section 5) the bounds do not matter.

Symmetry. `MCGdma` permutes tasks and channels, `MCTaskWdt` the clients and the idle
tasks, none of which the modules compare or choose between. `MCServices` permutes
`x1, x2, x3`: a component that uses one or two of them uses them as one set without
distinguishing its members, and its states name that set only, so a permutation that
leaves the set leads to no state of the component; components whose elements differ
(handlers with different masks, tables) use numbers, which are not permuted. No run with
symmetry has a liveness property.

Fairness. `Gdma`: weak fairness of each task's step inside a call, since tasks
in the driver are scheduled and never wait for each other except for short
critical sections; nothing makes a caller begin a call. `AsyncMemcpy`: weak
fairness of the DMA (it works on what it owns) and of the interrupt handler (a
pending interrupt is taken). `EspIpc`: weak fairness of the IPC tasks, of
callers after the mutex and of the second half of the gcov interrupt, and of a free mutex
being taken by one of the callers that wait for it; which one is not said. FreeRTOS
wakes the waiter of the highest priority and does not hand the mutex over, so a caller may
wait for ever while others go by, and no property says otherwise. With a mutex per core
the IPC task runs at its caller's priority (`esp_ipc.c:149`): that a task of higher
priority does not keep the core for ever is assumed, and so is that functions return, as
the code must.
`TaskWdt` and `IntWdt` have no liveness property: their promises are about elapsed time
and stated as safety over ages and periods. For the rings and for cross-core interrupts
"nothing is left waiting" is stated as safety too (`NothingForgotten`, `NoReasonLost`):
whatever waits, the step that will serve it is pending.

## 4. Findings

1. **A refused sibling frees the pair** (`gdma.c:86-88, 153-155`): the error path
   releases a pair reference that was never taken.
2. **Deletion disarms the successor** (`gdma.c:640-650`): the position is free
   before its events are disabled.
3. **Overcommitted copies lose callbacks** (`esp_async_memcpy.c:133, 248`): a
   descriptor the DMA has returned is reused before the handler has looked at it.
4. **A subscriber nobody watches** (`task_wdt.c:610-627`): init decides on a list
   that changes meanwhile.
5. **A late gcov notification aborts an IPC task** (`esp_ipc.c:88, 189-192`).
6. **A nested batch keeps the eFuse lock** (`esp_efuse_api.c:282, 303, 322`): every
   begin takes the recursive lock, the outermost commit releases it once.

Further limits met while modelling. Those with a liberty in parentheses can be
reproduced by adding it to the instance in `MCServices` or to the configuration; the
property named fails then.

- GDMA: a successful search keeps its own reference to the group (`gdma.c:97`, `119`),
  so groups are never given back. An unreserved sibling does not mark its position (91;
  `unreserved`). A reservation that is never used keeps its bit while the pair lives
  (642). A second registration loses the first handler (757; `reregister`). A channel
  deleted while connected keeps its bit in the mask (654; `stayConnected`). The mask
  of free M2M ids is stale when used, or empty (270, `async_memcpy_impl_gdma.c:53`).
- Memcpy: a callback that submits may have its descriptor's new callback erased
  when it returns (306; `chain`); a copy of zero bytes takes no descriptor and is
  accepted (147; `zeroLength`); a DMA that finishes between status and address makes
  the handler walk further than it was told (213-214; `lateEof`). A failed init leaves a
  channel behind (`async_memcpy_impl_gdma.c:42`).
- Watchdog: deinit can free the object between a reset's check and its use (784);
  a reset that completes the round while the handler waits for the lock puts the
  blame on everybody (506); an error of the timer in reconfigure leaves the lock
  taken (643, 652); a subscription during deinit is forgotten (726; `overlap`); a
  failing interrupt allocation is ignored (`task_wdt_impl_timergroup.c:49`); a user
  handle kept after deletion may name another entry (806).
- IPC: with one mutex for all cores, a function that makes a call itself waits for its
  own caller (`esp_ipc.c:151`); the gcov function may be executed by the IPC task of
  another core (61).
- eFuses: on NuttX the lock is not recursive, yet a write in a batch takes it again
  (`esp_efuse_api.c:26`), and the mutex is initialised by the first begin only (283); a
  write that is refused in a batch leaves the part before the refusal pending
  (`esp_efuse_utility.c:267`).
- Interrupt allocator: `esp_intr_free` compares its core before its critical section
  (`intr_alloc.c:696`; `migrate`, `HandlersMatch`); a descriptor of a vector that is not
  used in the end has source 0, a real source (151; source 0 with `noMemory`).
- IPC in interrupts: a pause while the other core is inside leaves the mutex taken
  (`esp_ipc_isr.c:115`; `pause`); a stall right after a release may clear the finish
  command before the other core has seen it, and both wait for each other (125; `slow`).
- Cross-core: `crosscore_int.c` zeroes the reasons of a core when that core initialises
  itself, also one that was sent before.
- Log: two copies of one tag text at different addresses keep different levels
  (`log.c:136`; `TextOf` not injective, `CacheAgrees`); the 29-bit generations wrap
  (56; `MaxGeneration >= Generations`, `HeapOrder`).
- SDIO, sending: a start after a stop does not send the packet in flight again before
  the next one is queued, though `sdio_slave_hal.h:259` says existing data is sent
  (`restart`, `NothingForgotten`); a counter reset with packets queued walks the ring
  without end (`sdio_slave_hal.c:382`; `recount`); a flush that goes from the packets in
  flight to those not sent reports only the space of the latter (476-482). Receiving:
  flushing the last buffers does not reset what is to be returned next (579; `flushAll`),
  and a start with none left to fill leaves the interrupt off (`startFull`).
- SPI: with every descriptor but one in use, one more append overwrites the link that
  the handler follows (`spi_slave_hd_hal.c:326`; `full`); asking before anything ended
  finds the dummy head (`early`); the receiving half rounds as if it were sending
  (370 against the comment at 299).
- Ethernet: `receive_frame` looks for the last segment in descriptors it has given back
  already (`emac_hal.c:659-662`; `refill`, `NothingForgotten`): the tail of a frame with
  its CRC then comes back as a frame, though `emac_hal.h:300` says the FCS is never
  copied. Descriptors are given to the DMA first to last (462-465, 550-553). A frame of
  several buffers longer than the ring is sent without its end (483-553; `long`), and
  the loop reads one past the end of the arrays of lengths and buffers (509-510,
  524-525). Line 205 sets a flag of the second
  descriptor for each of them. A stop that finds a frame under
  way returns half-way.
- Clocks: disabling BT while IEEE 802.15.4 is enabled switches off the clock of the
  event task matrix, which both need (`modem_clock.c:84-89`; `bt154`, `UsersKept`). The
  power domain of a low-power clock source is switched off on deselection while the code
  that switches it on is commented out (260-261, 278-296). A disable too many leaves a
  count at -1 (`regi2c_ctrl.c:119`), 256 users wrap one (`periph_ctrl.c:43`).
- RTC: a handler that is deregistered while it runs leaves the routine on a freed item
  (`rtc_module.c:71`; `running`); handlers in IRAM and flash that share a bit break
  the cache-off window (151; `mixed`); an event that happens again while its handlers
  run is cleared unseen (77).
- Interrupt watchdog: the assertion asks for a timeout of at least two tick periods
  (`int_wdt.c:147`), with which a lost tick of the second core leaves no margin.
- Retention: a table in which a node of several entries is followed by one for none of
  them, and its entries then go on at different nodes, such as `<<{0,1}, {2}, {1}>>`, is
  linked wrong, because `runtime_bitmap` keeps the owner of one node only
  (`sleep_retention.c:84-89, 152`; `crossed`): the chain of entry 1 misses the third node,
  although the owner "indicates which regdma entries the current node will insert into"
  (`sleep_retention.h:57`). `CrossedFail` shows that of the tables with up to three
  nodes these come out wrong and no others; none of the tables in the source is one. An
  allocation that fails with a node alone on one chain leaks or dangles (`regdma_link.c:633`; `alone`); a sleep between taking out and
  joining loses registers; the lock of the module is created without a lock and closed
  while outer levels hold it.
- Event task matrix: a group that cannot be allocated ends the search
  (`esp_etm.c:131`).
- Hooks: a hook is tested and called without a lock (`freertos_hooks.c:36`).

## 5. Proofs

All theorems hold for every value of the constants that satisfies the module's
named assumption. Theorems about the components of `services` are about the
component's own specification and its own property; the run's property of the same
kind is that one for one instance.

**`GdmaProofs!TypeCorrect`: `Spec => []TypeOK`**, with any caller liberties.
`TypeOK` alone is not inductive: a step indexes groups and pairs by the cursor
of a call, which may stand past the last group, and channels by an object that
may be `None`. `TypeInv` adds `GoodCall`, which says at which program counters the
cursor is a pair and the object a channel. One lemma per action.

**The other seven theorems of `GdmaProofs`** are over `TypeInv`.

- `RefCountsCorrect`, `NoDanglingCorrect`, `AssertsCorrect`, provided
  `"sameDirection" \notin CallerLiberties` (finding 1 shows that the proviso is needed).
  `RefCounts` compares counters with cardinalities of sets of tasks, channels and pairs. It
  is inductive with `ObjectsOwned`: a channel object is in the state its call's step needs
  and belongs to one call. A step changes what one task holds, what one channel refers to
  and whether one pair counts for its group, so the change of a counter is compared with
  three memberships (`PairCountsStep`, `GroupCountsStep`), which `CardChange` turns into
  cardinalities. Tasks that stay where they are follow from a frame lemma. The counts of a
  group are bounds from below, because of the references that are kept. The other two
  follow: a referrer makes a set non-empty, so the count is positive and the slot filled.
- `ExclusivePositionsCorrect`, `OccupiedCorrect`, with the additional proviso that siblings
  are asked for inside a reservation. `Positions`: an object stands at a position from the
  moment it is marked (`StandsAt`), two objects never at the same one (`Apart`), whoever
  stands there is marked in the occupy code (`Marked`), and the code a search carries is
  that of its object (`CodesRight`); `Entered` ties the pair's slots to live channels.
- `ExclusivePeripheralsCorrect`, provided channels are disconnected before deletion:
  `Peripherals` says that the mask of a group is exactly the set of peripherals of its
  live channels and that no two of one direction share one.
- `NoStaleHandlerCorrect`, provided callbacks are registered once: `Handlers` follows the
  handler from installation to removal.

**`RingProofs`**, about rings of any size:

- `InOrderOnceCorrect`, the refinement of `CopyQueue` by `AsyncMemcpy`, and
  `NoCallbackLostCorrect`, `NeverRefusedCorrect` and `BuffersHeldCorrect`, provided
  `Liberties = {}` (finding 3 shows that staying within the backlog is needed). All follow
  from one invariant, `Layout`, which gives
  the whole ring in terms of the place `b` of the oldest request: where each request ends
  (`Ends`), how far the handler has looked, `c`, and the DMA has written, `f`, with
  `c <= f` and the next free descriptor of both rings behind the last request (`Where`);
  who owns each descriptor (`Owners`) and what it carries (`Contents`, `Carried`); that the
  handler is in the oldest request (`Walked`), that the DMA has finished exactly the first
  `k` (`Finished`), and that the handler walks to the end of the `w`-th of them, an interrupt
  being pending exactly when `w < k` (`Told`). That the handler never stops before an EOF it
  was told of, nor walks past it, is `Walked` and `Told` together; a callback moves `b` to
  the next request (`ReturnStep`). Places are added and compared around the ring by the
  lemmas on `After` and `Distance`.
- `SamePaceCorrect`, whatever the callers and the DMA do, provided nobody asks for a copy
  of no bytes. The layout is lost as soon as a caller goes beyond the backlog; what is left
  is `PaceInv`: the DMA reads and writes at the same place, or reads one further while it
  holds a piece (`PaceDma`), and what it may read it may write, to the same piece
  (`PaceRings`). The proviso is needed: a request without bytes takes the next descriptor
  of the ring whether it is free or not. `TypeCorrect` has the same proviso; that the
  number of streams does not fall below 0 needs the sum of what the waiting requests were
  given (`PaceSum`).
- `TxInOrder`, for `EmacSend`, with frames of any number of segments up to the ring's
  (`TxPlain`, section 4). `TxInv`: counted from the descriptor that the DMA is on, `g` are
  the DMA's and those that a call has still to give it follow (`TxRing`), together they
  hold the frames accepted and not sent, each from first to last segment (`TxFrames`), and
  the DMA is awake or about to be woken if it has any (`TxTold`).
- `RxInOrder`, for `EmacRecv`, as long as the DMA does not fill the descriptor that a call
  has given back and looks at once more (`RxPlain`, section 4). `RxInv`, counted from the
  oldest descriptor that was not given back, which is where the call is or the next one
  (`RxBase`): `n` descriptors are filled and the DMA is on the one behind (`RxRing`); they
  hold frames one behind the other and the part of one that it is receiving (`RxFollows`,
  `RxTail`, `RxPart`), none longer than its segments (`RxBody`); a call within a frame
  finds its end among them (`RxCall`); and what the caller was told with what has come
  since is the number of ends there (`RxCounts`).

**`TaskWdtProofs`**: `TypeCorrect`, `SomebodyLateCorrect`, `NoSilentHangCorrect`,
`NoFalseAlarmCorrect`, overlap with init and deinit included, and
`NobodyUnwatchedCorrect` without overlap (finding 4 shows that the proviso is needed).
The invariant of the first three has three parts beside types: `Round` (flags belong to
entries, and a round is never complete between calls); `Heard` (a subscriber that has
reset in this round is no older than the round; one that has not is no older than the
round and the one before; or else the timer was started or an alarm raised that
recently); and that an expired timer has its interrupt pending. `Heard` is what makes
"two timeouts" inductive. For `NoFalseAlarm`, `Paced` adds the lower bound: whoever has not
reset is at least as old as the round, less one slowest age per subscription in it. For
`NobodyUnwatched`, `Watched` lists the stages of init, deinit and reconfigure (`Stages`),
says at each that the idle tasks of the mask are on the list (`Kept`), that an empty list
has the waiting flag and a list that is not empty a timer that runs or was stopped on
purpose (`Waits`, `Runs`), and that nobody is in a call while the object comes or goes
(`Alone`). Each function on watchdogs keeps the invariants; the actions are compositions
of them.

**`EspIpcProofs!TypeCorrect`, `OwnArgumentCorrect` and `KeepsPromiseCorrect`**, the
last of them the refinement of `RemoteCall`, for any number of callers and cores
and for one mutex or one per core. The invariant is about a token: a caller that
waits for its acknowledgement has at most one, in the notification, in the IPC
task that has been woken for it and has not looked at `s_func` (`Carries`), in the
task until it acknowledges (`Serves`), or in the semaphore. The owner of the
mutex is the only caller the token can belong to; that is why the single
semaphore of a core serves both kinds of calls, and why argument and function
stay together. `CallOk`, `FuncOk` and `TaskOk` say where a call, a stored
function and a task stand. A wake-up for gcov that finds a function
aborts the program and destroys the invariant; the theorems hold nevertheless,
since nothing moves after an abort (`Inv` is `TypeOK` and either the abort or the
rest). Each step is a step of `RemoteCall` (`MapsAsk`, `MapsUnlock`,
`MapsLookFunc`, `MapsEndFunc`) or leaves what it speaks of alone.

**`InterruptProofs`** has an instance of each of its components, whose constants and
variables are its own, and prefixes what it says of one with the instance's name.

- `IntrMatched`, `IntrRouted`, `IntrCacheOff`, `IntrNoneFreed`: the interrupt allocator,
  for any cores, vectors, sources and handlers, with two provisos that say what the
  code relies on. `IntrPinned`: a task that frees does not change core meanwhile (without
  it the free removes the handler of another core). `IntrZeroTold`: source 0 is not
  allocated, or no allocation fails and nothing is reserved (without it a descriptor that
  was never assigned passes for one of source 0, section 4). `HandlersMatch` is not
  inductive: it does not say which descriptors are in use. `IntrInv` says what each vector
  tells of its users, the live handlers that name it (`IntrTold`): none (`IntrVacant`), one
  that does not share (`IntrAlone`), or those of its list (`IntrJoined`), with their kind
  of memory and their bit in the mask; that a vector with users is enabled, or among those
  to enable again (`IntrPowered`); and that the handlers a core has for one source are on
  one vector (`IntrOneVector`), without which a disable of one could unroute another.
- `RtcWalked`, `RtcCacheOff`: the routine of the RTC, for any handlers and masks, while no
  handler is deregistered as it runs and none in flash shares a bit with one in IRAM
  (`RtcUnmixed`; section 4 shows both). `RtcInv` adds that the cached bits are
  none of a handler's in flash and that what was read was enabled. The lemmas on the order
  of a list (`RtcOrder` and those after it) say what registering and deregistering do to
  who comes before whom.
- `IpcStalls`, `IpcOnce`, `IpcReleases`: calls and stalls in interrupt context, while no
  stall is paused with the other core in a function (`IpcUnpaused`); that the other core
  may be slow is allowed. `IpcInv`: the mutex is owned by the core with a call or an
  unreleased stall (`IpcHolds`), at most one core is called, its flags are as its handler
  left them (`IpcServing`), and a stalled one has started and not finished to wait
  (`IpcStalled`).
- `CrossNothingLost`: requests between cores; inductive with the types.

**`SharedProofs`** is laid out the same way.

- `LockMutualExclusion`, `LockAssertionsHold`, for any number of cores and any bound of the
  count. `LockOwned`: the word names the one core that has it, and the count is what that
  core holds; `LockPlaced`: what the place of a core says of what it holds.
- `ClocksKept`: the count is the cardinality of the users (`ClocksCounted`), a user about
  to write holds the PLL and writes what is recorded (`ClocksSet`), and a recorded
  frequency is in the hardware or on its way (`ClocksWritten`).
- `ModemClocksKept`, while BT is not disabled with IEEE 802.15.4 in use (`ModemApart`,
  section 4). `ModemInv`: the count of a device is the sum of the uses of its modules,
  which makes "used by nobody" and "count 0" the same.
- `WatchShown`, for any number of periods. `WatchHidden` says how far a hung second core
  may be ahead of the watchdog, by where the first core is in its hook; `WatchInTime`
  that a feed is due every other period while both are well.
- `EtmKept`, `EtmGroupCounts`, with failing allocations. `EtmInv`: a handle is in one call
  (`EtmDoing`), a channel in its slot until it is released and connected until it is
  disconnected (`EtmPlaced`), a slot without a handle has clear registers (`EtmTaken`:
  the next channel there finds nothing of the last), and a group counts its channels and
  the searches in it (`EtmCounted`).
- `EfuseSnapshots`, `EfuseOutcomes`, `EfuseProtectedLast` for any registers, blocks, tasks
  and readers, and `EfuseQuiescentUnnested` where no batch is begun inside another.
  `EfuseParity` ties the parity of the burn counter to the stages of a call; `EfuseSeen`
  says that what a reader has read since the counter was last the same is what the eFuses
  show, up to where it has come; `EfuseStages`, `EfuseProgress` and `EfusePartial` say what
  a call has burnt and has still to burn, by where it is; `EfuseLocked` compares the depth
  of the lock with the nesting.

**`ListProofs`**:

- `LogAgrees`, for any tags, levels and size of the cache, where no text has two addresses
  (`LogDistinct`, section 4), and `LogOrdered`, where the generations do not wrap around
  (`LogNarrow`). The path of an entry that sinks is a recursive function: that there is
  one (`LogPath`) is shown by induction over a set of numbers, from the library's theorem
  that every set of naturals has a least element, which takes no operator. `LogMoves`:
  the cache after that is a rearrangement, so entries stay apart (`LogAgreeing`).
  `LogSinks`: sinking the youngest along its older children leaves a heap, and each
  entry is as old as no other (`LogAged`).
- `RecvInOrder`, for any buffers, while the caller flushes no last buffer away and starts
  with one to fill (`RecvPlain`, section 4). `RecvInv` names the number of full buffers:
  they come first in the list (`RecvSplit`), those not given back yet are announced and
  the credit is the rest (`RecvCounted`), and the DMA is on the first of the rest
  (`RecvFilling`).
- `SpiPromised`, the refinement of `CopyQueue`, and `SpiHeads`, for any number of
  descriptors, while the caller keeps one back and asks when something has ended
  (`SpiPlain`, section 4). `SpiInv` names the length of the chain and how much of it has
  ended: the chain lies in the order of the ring (`SpiPlace`), its links lead along it
  (`SpiLinked`), the counter is its length but for a call between linking and counting
  (`SpiCounted`), and the DMA is on the first that has not ended or at the end, which it
  has missed only if it is about to be restarted (`SpiDone`). That following the links
  from the head gives that chain is `SpiChain`, by induction over a set.
- `SendPromised`, the refinement of `SendQueue`, and `SendCorrect` (the ring's assertions,
  nothing forgotten, exact lengths), for a ring of any size and packets of any length,
  while nothing is started with a packet in flight and the counter is not reset with
  packets queued (`SendPlain`, section 4). `SendInv` names how many descriptors are in
  flight, wait, and have come back: these lie one after another in the ring (`SendRing`),
  the ring is closed or the part in flight cut out of it (`SendLinks`), what has come back
  precedes what has not (`SendBack`), the states of sending, of the routine and of the DMA
  go together (`SendStage`), and each descriptor's length is that of the one before and
  its own (`SendWaiting`, `SendFlown`). What walking the links gives is `SendWalk`, what
  the loop of `reset_counter` adds up `SendTotals`, both by induction over a set.

**`ServicesProofs`** takes these theorems, and three of `GdmaProofs`, to the specification
that the run `services` checks: its theorems state the run's own properties, all but
`ChainsKept`; `QueuesPromised` states its refinements. `part` never
changes, a step while it names a component is a step of that component (the lemmas
`...Throughout`), and the instances inside the proof modules are those of `MCServices`
(`...Same`). The provisos above hold of the constants chosen there: so `CopyInPace` is about
callers that ignore the backlog and call from callbacks, and a DMA that races the handler.

Each of these theorems has the module's own assumption about its constants as a hypothesis
(`IntrAssumption`, ...), which `MCServices` checks as `ServicesAssumption`.

Only model-checked: liveness (`CallsReturn`, `CallsGoOn`, `EveryoneCalled`), which with ENABLED
is out of the prover's reach; and `ChainsKept`, all that is checked of `Retention`. A module's chains
there are built by a fold over its table of nodes and walked by recursive functions, and a
theorem would be about tables of any length; which of them are linked right `CrossedFail`
says of those with up to three nodes.

## 6. Not modelled

Most of the repository's lines are generated register headers, inline functions that
read or write one register field, and their tables per chip: the models cover a small
share of all lines and nearly all of the code that keeps state of its own. Not modelled:

- *FreeRTOS hooks*: tables of callbacks called without a lock; the hazard is a pointer
  tested and then read again, which is up to the compiler.
- *Sleep modes*: sequences of register accesses for one chip after another; what a sleep
  loses is decided by the hardware. Their clocks and retention are modelled.
- *Memory and crypto peripherals, other HAL, low-level headers*: sequences without state.
- *MAC addresses, chip information*: table look-ups. *Startup*: runs once in link order.
  *Panic*: runs after the system has failed.
- Within the modelled components, what each leaves out is in its note in `PROJECT.json`:
  mostly register writes under one lock, failing allocations whose clean-up frees
  everything, and abstractions of priority, trigger type and interrupt level.

What would come next: the composition of `AsyncMemcpy` with the channels of `Gdma` (the
clean-up of a failed init, the choice of an M2M id), which is a product of the two largest
state spaces; the segment mode of the SPI slave; an abstract allocator of channels that
`Gdma` and `EtmChannels` both implement; the proof that `Retention` links right the tables
that are not crossed.

## 7. Running

    tlc -workers 2 -config MCGdma_refs.cfg MCGdma.tla
    tlc -workers 2 -config MCServices.cfg MCServices.tla
    tlapm RingProofs.tla
