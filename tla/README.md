# RTL00MP3: models, checks and proofs

RTL00MP3 is the firmware of an MP3 internet radio on the Realtek RTL8710AF
(Cortex-M3, FreeRTOS, lwIP). This directory holds TLA+ models of the program's
own logic, the TLC configurations that check them on small instances, and TLAPS
proofs for every value of the constants.

    tlc -config MCRamFifo_ring.cfg MCRamFifo      one run
    tlapm RamFifo_proofs.tla                      the proofs of a module

Paths below are relative to `src/`; `user/` stands for `project/src/user/`,
`SDK/` for `RTL00_SDKV35a/component/`.

## 1. The system

The repository holds 1628 files, most of them the vendor SDK. The program's own
logic is in five files under `project/src` and in the parts of the SDK that its
author wrote or rewrote.

| Component | Code | State | Operations | Module |
|---|---|---|---|---|
| Stream FIFO | `user/spiram_fifo.c` | positions, fill, buffer, a mutex, two binary semaphores | `RamFifoInit/Close/Read/Write/Fill/Free/Len` | RamFifo, ByteQueue |
| Player life cycle | `user/main.c` | `tskreader_enable`, `tskmad_enable`, the FIFO, the I2S objects, sockets | `connect_start`, `connect_close`, `tskreader`, `tskmad`, `input` | Player |
| Playout speed | `user/main.c`, `driver/i2s_freertos.c` | `oldRate`, `oversampling`, `sampCnt`, `sampCntAdd`, `sampDelCnt` | `set_dac_sample_rate`, `i2sSetRate`, `input`, `render_sample_block` | Playout |
| I2S output | `driver/i2s_freertos.c`, `i2s_api.c`, `hal_i2s.c`, `rtl8195a_i2s.c` | page ring with own bits, three indices per object, the page being filled, a counting semaphore; the error of the last sample | `i2sInit`, `i2sClose`, `i2sPushPWMSamples`, `I2SISRHandle` | I2sDma, PwmDac |
| Settings in flash | `flash_eep.c` | two flash sectors | `flash_write_cfg`, `flash_read_cfg`, `pack_cfg_fmem` | FlashEep |
| TCM heap | `tcm_heap.c` | address-ordered free list, kept in the free memory | `tcm_heap_malloc/calloc/free/freeSpace` | TcmHeap, Heap |
| Device locks | `device_lock.c` | a table of mutexes made at first use, a word of bits | `device_mutex_lock/unlock` | DeviceLock |
| Wi-Fi scan | `wifi_api_scan.c`, `wifi_conf.c` | the record of the scan with its list, the record of the reader with its timer, registered handlers | `api_wifi_scan`, `wifi_close_scan`, the report and done handlers | WifiScan |
| Saved server | `user/main.c`, `wifi_console.c` | one record in flash | `mp3_cfg_read`, ATWS | not modelled |
| Wi-Fi start-up, reconnection | `wifi_api.c` | mode, connection | `wifi_run`, `wifi_st_connect`, event callbacks | not modelled |
| Console | `rtl_console_new.c`, `wifi_console.c`, `atcmd_user.c` | line buffer, semaphore | UART interrupt, command task, AT commands | not modelled |
| Power management | `freertos_pmu.c` | wakelock bits, sleep callbacks | tickless sleep | not modelled |
| libmad, lwIP, FreeRTOS, PolarSSL, FatFs, Wi-Fi driver, ROM, HAL, tools | vendored | | | not modelled: third-party or binary; modelled where the program uses them |

How they interact. `tskreader` (network) and `tskmad` (decoder) run at the same
priority, 7, preemptive and time-sliced; the console task runs at 4, the timer daemon at 1.
`connect_start` is called by the console command ATWS and by the Wi-Fi thread
when a connection comes up; it creates `tskreader`, which opens the FIFO and a
socket, fills the FIFO, and creates `tskmad` when the FIFO is half full.
`tskmad` reads the FIFO, decodes, and pushes samples into the I2S pages, where it
waits for the interrupt's semaphore. The two tasks and their controllers talk
through two `volatile` flags without a lock: 1 run, 0 stop please, -1 stopped.
Settings are saved by console commands under `RT_DEV_LOCK_FLASH`. The stacks of
network threads and console, and buffers of the Wi-Fi driver, come from the TCM
heap.

What is hard about it:

* the ring sizes its chunk before it takes the mutex, and decides whether to
  wait, waits and signals after it gave the mutex back;
* the flags are tested and assigned in separate steps by up to four tasks, and
  one flag carries both a request and its answer;
* two DMA engines, one interrupt line each, but one semaphore given for the first;
* saves are cut by power failures, and a full sector is packed into the other;
* signed 8-bit counters that are moved by their own corrections;
* a quantisation error that is carried from sample to sample and may be clipped;
* a free list that is cut, grown and merged in place for days;
* mutexes made by whoever comes first;
* a list of scan results that three threads may free and a fourth party fills.

What makes each part correct: the FIFO is a bounded queue that loses no byte and
no wakeup; a closed player is down, nothing is used after it is freed, a close
returns and a start plays; pages are exclusive and played in order; the bits of
the samples sum to the samples; a stream is played at its own rate; a saved
setting survives; the heap neither loses memory nor hands it out twice; a device
has one owner; a scan ends and leaves nothing behind.

## 2. The modules

Each component has a module, an `MC` module that TLC instantiates, and, where
there are proofs, a module `..._proofs`. Next to a definition stands its mutated
form, which a plausible bug would produce (`CloseWaitNot`, `MergeNextNot`, ...);
PROJECT.json pairs them with the property that detects them. Every module's type
invariant is checked by a run or proved (`RamFifo`, `I2sDma`, `TcmHeap` and
`DeviceLock`: proved only). `I2sOutput_proofs` is about two modules at once, so the
definitions of `PwmDac` that every module has carry its name: `PwmInit`, `PwmNext`,
`PwmSpec`, `PwmTypeOK`.

### ByteQueue and RamFifo (the stream FIFO)

`ByteQueue` is what the FIFO promises: a bounded queue of bytes. `RamFifo` is
`spiram_fifo.c` with one action per access to shared state: `Chunk` (line 99-102,
outside the mutex), `Lock`, `Short` (104-108), `Room` (109, outside the mutex),
`Wait`, `ReadCopy`/`WriteCopy` (memcpy), `ReadStore`/`WriteStore` (the updates,
with `fifoFill` loaded at the copy and stored afterwards, so an unprotected
update would be lost), `Signal`. `CallRead`, `CallWrite`, `CallFill` are the calls.
Bytes are numbered as they are written and a cell holds its byte's number, so
order, loss and repetition are visible. `polled` remembers whether a read asked
for no more than the last `RamFifoFill`, which is what `input()` does.
`MCRamFifo` holds the refinement mapping `Unread`: a read takes effect at its
memcpy, a write when `fifoFill` is stored.

### Player (the life cycle)

One pc per task: controllers (callers of `connect_start`/`connect_close`), slots
for instances of `tskreader` and `tskmad`. Every read or write of a flag is a
step. The FIFO is abstracted to existence and fill in units of socket reads,
which RamFifo justifies. `openConn` and `http_head_read` are abstracted to their
outcomes: `NetFault` is a refused, failed or ended connection, `HeapFault` a
failed allocation or task creation, both bounded. `NoUseAfterClose` says that a
task at a point where the code dereferences `pbuf_fifo` finds it there.
`connect_start` is assumed to be called with a url.

Commands come from any controller at any time. The history `crossed` records two
things after which the flags no longer say who runs: a command came while another
one was under way, or a start found a reader that was ending by itself (its flag is not
1, so `connect_close` does not wait for it). `InOrder` is that neither has happened.
The restart of a player that runs is in order, and so is every fault.

### I2sDma and PwmDac (the I2S output)

`I2sDma`: both objects of `pi2s`, each with its own bits, the driver's `I2STxIdx`,
the handler's `I2SHWTxIdx` and the hardware's position. Pages hold the number of
their block. The task is preempted by an interrupt at any step and does not run
while one is pending (`Running`). `HalI2SPageSend`'s second write of the own bit
is merged with the first, and a page the hardware does not own makes it wait.

`PwmDac`: how a 16-bit two's complement sample and the error of the one before
become 96 bits. A word of the page is represented by its number of ones. That 24 of
its 32 bits are sent is the meaning of `WL_24b` to the hardware, which is outside
the repository. `owed` is the history of what was asked for and not sent.

### Playout (speed)

`SetRate` is `set_dac_sample_rate` with `i2sSetRate`; a pushed sample takes 96
bits, two frames of 2 x 24, so exact playing means `hwRate = 2 * oversampling *
rate`. `Turn` is one turn of the loop of `input()`, `Sample` one sample of
`render_sample_block`; counters wrap like the `signed char` they are
(`-fsigned-char`), `Half` is 128 in the code. `drift` is the history that bounds
the run.

### FlashEep (settings)

The unit is the flash word; programming clears bits (`Program` is an AND). One
action per word written, so a `Crash` fits between any two. The searches
`get_addr_fobj`, `get_addr_fobj_save` are `Find`, `SaveAddr` over the walk
`Headers`; `get_addr_bscfg` is `Current`/`NextBank`; `Copy` is one turn of the copy loop
of `pack_cfg_fmem`, with the reads past the sector it can make. Programming one
word is taken as atomic, and so is the erase. The AND of two words is the constant
`BitAnd`: `MCFlashEep` gives it the bitwise one, and the proofs ask of it only that
a word stays a word and that an erased word takes what is programmed
(`AndAssumption`). `FlashAssumption` holds of the device: a sector has 1024 words and
the largest object 129, so two of them fit, and the erases that the flash survives
are far fewer than the segment number can count.

### Heap and TcmHeap (the TCM heap)

`Heap` is what a heap promises: blocks that do not overlap, and a refusal only
when no run of free bytes is long enough. `TcmHeap` is the free list: first fit
from the end of a chunk (`FirstFit`, `TakenAt`), the walk of `tcm_heap_freemem`
to the place of the memory (`Before`), and the merges with the chunk before and
the chunk after (`Insert`, `MergeNext`). Each call runs in a critical section and
is one step. The list begins as one chunk at the first use (`tcm_heap_init`). The
header stores the size as it was asked for, not rounded; `tcm_heap_free` rounds it
again, as the model does. Callers free only what they were given.

### DeviceLock (the device locks)

A task is interrupted between any two of the steps of `device_mutex_init`, the
unprotected look, the critical section with the second look, the creation, and the
load and store of `mutex_init`, except inside the critical section. A mutex is
its device and a number, so that a second one for the same device would be seen.
That `xSemaphoreCreateMutex` succeeds is assumed, as the code does not look. A task
holds one device at a time, as the callers do.

### WifiScan (the scan results)

The driver's thread has the highest priority: a handler runs between any two
steps of the others and is one step. `api_wifi_scan` and `wifi_close_scan` are
stepped through in the caller and in the timer daemon, which runs only while the
caller waits. `Reported` is the insertion of an access point into the sorted list
of pointers, at its full length and below. Timers are allocated, commanded
through the daemon's queue and freed by it; the queue is taken never to be full,
and whether a timer expires before a command that stops it is applied is open.
`api_wifi_scan` without a result handler has no caller in the repository but is an
entry of its interface and is modelled; `wifi_set_timer_scan` has no caller and is
left out.

## 3. The runs

| Run | Shows | Bounds |
|---|---|---|
| `fifo_ring` | `DeliveredInOrder`: no byte lost, repeated, overwritten, no lost update of `fifoFill`; `NoLostWakeup`: late tests and late signals are harmless; `PolledReadNeverWaits`; `StreamDelivered`; `ImplementsByteQueue` | ring of 4, requests up to 3 and 2, 6 bytes: longer than the ring, so both positions wrap, both tasks wait, and the spin of `RamFifoRead` occurs |
| `player_session` | one console: `CloseReturns`, `StartPlays` | 3 commands: start, restart, close; a failed connection and a failed allocation at any point; one slot for `tskreader`, which is enough while commands are in order, and two for `tskmad` |
| `player_faults` | `TypeOK`, `NoUseAfterClose`, `OneDecoder`, `ClosedMeansDown`, `NothingLeft`, `SocketPerFault` with two controllers, two network faults, one failed allocation, and a decoder that outruns the network | 3 commands, given at any time by either; symmetry of tasks of one kind, as the run has invariants only |
| `player_starved` (violated) | `CloseReturns` without any fault, when the decoder empties the FIFO | 2 commands |
| `dma_ring` | `PageExclusive`, `OwnedInTurn`, `PlayedInOrder`, `Resumes`: the task that waits is woken although only the first object gives the semaphore | the 4 pages of the code, one reopening, one failed init; semaphore limit 3 instead of 32, which saturates earlier |
| `pwm_dac` | `PwmTypeOK`, `NothingLost`, `ClipLosesLittle`: the encoding is linear in the long run, and clipping loses less than two bits a sample | 17 pairs of samples: both ends, silence, the borders of the words, the loudest that fits and the first that does not; the history of losses up to 800, more than one bit is worth |
| `play_speed` | `TypeOK`, `RateExact` for the rates where it holds, `RightUntilWrap` | counters of -16..15, a correction every 3rd sample instead of every 151st, so that the counter wraps within the history |
| `eep_log` | `TypeOK`, `DurableUntilPack`, `LastSaveReadable`, `PackInvisible`, `PackMakesRoom` | sectors of 7 words: two packs in five saves; one power failure, one failed malloc |
| `eep_lost` (violated) | `Durable` across a pack | sectors of 8 words, three saves |
| `tcm_blocks` | `Coalesced`, `NothingLost`, `ImplementsHeap` | 56 bytes, requests of 0, 5 and 13: blocks of one, two and three grains, so that the heap is full, cut into any pattern, and emptied again |
| `lock_tasks` | `MutualExclusion`, `WaitsForTheMutex`, `LockHandedOn` | 3 tasks and 2 devices: two tasks race for the creation while a third sets the bit of the other device |
| `wifi_scan` | `TypeOK`, `NoStaleList`, `NothingLost`, `TimerAlive`, `StrongestKept`, `ScanEnds` | 3 access points for a list of 2, so that the list overflows; memory for two lists and two timers: the reader's list and the next scan's, a timer whose deletion is still queued and the new one |

`CHECK_DEADLOCK FALSE` is set where the system may stop: a session, the saves and
the bounded counters end when their budget is used. The FIFO, the I2S output, the
encoder, the heap, the locks and the scan run for ever and deadlock is checked.

### Fairness

* RamFifo: weak fairness of each task's next step (FreeRTOS time-slices tasks of one
  priority), strong fairness of taking the mutex (waiters are queued), and of
  calling again (both tasks loop).
* Player: weak fairness of each task, which includes the polls of `vTaskDelay(2)`
  and that a server answers and sends; nothing is assumed of commands and faults.
  `FeedKeepsUp` (the decoder does not outrun the network while it is to run) is what the comment at
  `user/main.c:143` expects; `player_starved` shows what happens without it.
* I2sDma: weak fairness of the task, of each DMA engine and of each interrupt.
  `Skew` bounds how far one engine may be ahead, in pages: both have one clock and get
  their pages in one critical section.
* DeviceLock: weak fairness of each task's step, none among the waiters of a
  mutex. `LockHandedOn` therefore promises the lock to some waiter, not to each.
* WifiScan: weak fairness of the caller and of the timer daemon, none of the
  driver, which may never answer: `ScanEnds` rests on the timer alone.

### What the violated runs show

* `player_starved`: the inner loop of `input()` plays silence until the FIFO gives
  what is missing and does not test `tskmad_enable`. When a close arrives in that
  state `tskreader` waits for `tskmad` and no longer fills the FIFO, so neither
  ends, and `connect_close` waits with them.
* `eep_lost`: `wraddr` is not advanced in the copy loop of `pack_cfg_fmem`.

### Why the passing runs have the bounds they have

Some properties hold only under the bounds of their run. Each of these was found
by TLC with another bound or constant of the same module.

* `NoUseAfterClose`, `OneDecoder`, `ClosedMeansDown`, `NothingLeft`, `CloseReturns`
  and `StartPlays` hold while commands are in order (`InOrder`). With two controllers
  one consumes the answer that the other waits for. A reader that stopped by itself has
  cleared the flag, so `connect_start` does not wait for it; two generations of tasks share
  one FIFO then, and the final -1 of the old reader (`user/main.c:475`) overwrites the new 1.
* `CloseReturns` names the waits that have no end (`Unanswered`), and says that there
  are no others: the reader writes -1 between lines 483 and 484, or `tskmad` does between
  467 and 468, and it is overwritten; or `tskmad` gives up for want of memory with the FIFO
  full, while `tskreader` is inside `RamFifoWrite`, which looks at no flag. The root of the first two
  is one: test and assignment in two steps, one flag for request and answer.
* `SocketPerFault` allows one socket for each failed connection because an answer other
  than 200 leaves the loop before `close(fd)`. Without a fault none is left.
* `RateExact` fails for 11.025, 12, 16 and 32 kHz: from the second doubling on, `result`
  grows by one per doubling although every sample must be pushed twice as often, and
  64000 is rounded down to 48000. At 8 kHz the two errors cancel.
* `RightUntilWrap` is bounded by the history because the counter of a FIFO that stays
  full wraps: every dropped sample and every turn makes `sampDelCnt` more negative,
  nothing brings it back, and it goes from -128 to 127.
* `DurableUntilPack` and `LastSaveReadable` speak of completed saves: a save cut by a power failure leaves a
  header whose data are erased words, and reads back as that, since the header precedes its data.
  They except `stray`: a pack without memory returned `-(FMEM_MEM_ERR)`,
  which the caller takes for an address at the start of the flash.
* `NoStaleList` fails with `Hasty = TRUE`: the daemon has seen one scan running, is
  preempted while the caller ends that scan and starts another, and frees the new
  list. The caller of the program starts its scans seconds apart.

Two more observations on the scan, which break none of its properties: the list
kept for a reader lives 5 s after the scan (the comment in `wifi_api_scan.c` at
line 96) only if the 2.5 s timer does not expire before the change of its period
is applied, and an expiry that was pending when a scan ended may close the next one.

## 4. The proofs

Eight modules of proofs. In each one the properties are not inductive by
themselves; `IInv` adds what is missing. There is one lemma per action (or group
of actions), one step per conjunct, and a theorem joins them.

**RamFifo_proofs**, for every ring size, request size and stream length:
`TypeCorrect`, `RingStaysConsistent`, `NothingOverwritten`, `StreamOrder`,
`WakeupsKept`, `NeverBothBlocked`, `DecoderNeverWaits`. Assumption,
`SizeAssumption`: `RamFifoInit` refuses less than `2*FIFO_REZSIZE`, and the
largest requests (2106 and 256 bytes) fit together into the smallest ring (4096)
plus one; the last part is needed for `NeverBothBlocked` only. `IInv` adds
`MutexInv` (a task in the critical section holds the mutex), `ChunkInv` (a chunk
sized without the mutex stays valid, because only the task itself moves its
position), `StoreInv` (between copy and store the fill is the one loaded),
`CopiedInv`, `OutInv` (what was copied and not yet published), and `PollInv` (what
`RamFifoFill` reported remains a lower bound of the fill until it is used,
because only the reader takes bytes away). `NeverBothBlocked` follows from
`NoLostWakeup`: two tasks asleep without a semaphore given would be short of `n`
bytes each, which together are more than the ring.

`RingIsQueue`, the ring implements `ByteQueue`: the unread
bytes are a `Stretch` of numbers between what was read and what was written; the
memcpy of a read takes its beginning, the store of a write lengthens its end, and
every other step leaves it alone.

**I2sOutput_proofs**, the ring: `PagesExclusive`, `RingInTurn`, `HandlerKeepsUp`, `BlocksInOrder`,
for rings of 2 to 4 pages (the code has 4, and the registers of the hardware hold
no more) and everything else arbitrary. `RingInv`: the pages of the hardware are a
run of the ring that begins at its own position and ends before the driver's, and the
interrupts not yet served are the run before it. `BuffInv`, `PcInv`, `PosInv`: where the
task is and what it fills. `OrderInv`: the blocks in that run are consecutive.
The encoding: `ErrorBounded`, `LinearInTheLongRun`, `ClippingForgotten`, for any
set of samples. `Balance` is the arithmetic of one sample; the invariant adds
that what has not been sent is at least the error kept.

**Playout_proofs**, for any width of the counters that holds the corrections asked
for (at most 10), any period and fillings, and any rates up to 48 kHz.
`RightSign`: as long as the
history is shorter than half the range of a counter, no counter has wrapped
(`DriftInv`), and while the FIFO was always full the counter only fell (`SignInv`).
`Doublings`: no rate needs more than 16 doublings to pass the limit of the loop of
`i2sSetRate`; it rests on the least-number principle and on a table of the powers of
two, as the provers cannot compute `2^n` by induction. `TypeCorrect` follows.
`OwnRate`: if the clock can be set to the rates asked of it (`ClockFits`), no restart
and no change of rate leaves another one behind. `FittingExact`: 22.05, 24, 44.1 and
48 kHz are such rates, and so is 8 kHz; they are the ones that the run checks.

**Player_proofs**: `TypeCorrect`, `FifoSafe`, `DecoderUnique`, `CloseCloses`,
`EndsClean`, `SocketsAccounted`, for any number of controllers, slots, commands and
faults and any FIFO, and without further assumptions: restarts of a running player and
commands from several controllers are included. The invariant is `Data`, the types and counts,
which no order of commands disturbs, and `InOrder => Life`. As nothing takes `crossed` back
(`CrossedStays`), a step that leaves commands in order began in order, and `LifeStep` shows
that it preserves `Life`: one command at a time; one reader at a time; -1 in
`tskreader_enable` means that no reader is there; when the wait of `connect_close` is over
there is none, and a start that has passed it still finds none when it creates the new one; a
decoder exists only under a reader that has not yet begun to close, while
`tskmad_enable` is 1, or while the reader waits for it; the FIFO exists from the
reader's allocation to its release; the I2S objects belong to a decoder.
The sockets do not depend on the order of commands: the open sockets are at least the
readers that will close one and at most as many more as connections have failed
(`SocketsInv`, a count of the readers at each place). So when the last reader has
ended, a fault has cost one socket at most (`SocketsAccounted`).

**TcmHeap_proofs**: `StaysCoalesced`, `NothingIsLost`, `KeepsThePromise` (the
refinement of `Heap`), for every heap size and all requests. `Divided`: list and
blocks divide the heap. A free is proved in two halves: after the
insertion the list may touch at one place only (`OpenAt`), which the second merge closes.
That a refusal is justified follows from `Coalesced`: a run of free bytes lies in one chunk.

**DeviceLock_proofs**: `OneOwner`, `WaitersAreReached`, `MutexMadeOnce`, for any
tasks and devices. `BitInv`: the bit of a device is set after its mutex is in the
table and never cleared, so the unprotected look at it is harmless; `PathInv`
carries it to the places where a task relies on it.

**WifiScan_proofs**: `TypeCorrect`, `ListsAreThere`, `NothingIsLost`,
`CommandsReachTimers`, `StrongestAreListed`, for any access points, signals, list
length, lists and timers, assuming `~ Hasty`: the caller does not start a scan while
the daemon is inside `wifi_close_scan`. Without it `NoStaleList` fails
(section 3). `SafeInv` is who may free what: since one of the two tasks at most is
inside the functions of the scan (`Alone`), its place is the `Stage` of the scan, and
`ListInv`, `StartInv`, `CloseInv` and `TimerInv` say for each stage which
lists and timers are in use, who knows them, which handlers the driver may still
call, and whether the command to delete a timer is on its way. `PointerInv` and
`StrongInv` are about the list: the pointers are a permutation of the entries in use
and descend in signal (`SortedInv`), and every access point heard is either in one
entry with its best signal or is beaten by `MaxAp` others (`Told`, which speaks of
the entries and not of the pointers, so that sorting does not disturb it).
Lemmas say what removing an element of a sequence and inserting one does to it.

**FlashEep_proofs**: `TypeCorrect`, `KeptUntilPack`, `LastSaveIsRead`,
`PackIsInvisible`, `PackHasRoom`, `ReadsInSector`, `CopyNeverReturns`, for any sizes, ids,
values, saves, power failures and failed mallocs within the two assumptions.
`Walk`, the recursive function behind both searches, is shown to exist by the
least-number principle from the end of the sector; after that `Headers` is the
least set that holds the first header and goes on from each one
(`HeadersClosed`, `HeadersLeast`). `LogTail` is what a sector is even where a save was cut
short: no object reaches over the end, and a word that no object covers or precedes is
erased. So a new object goes to a `Slot` behind all others, its header and data
change nothing for other ids (`HeadKeepsOthers`, `DataKeepsOthers`), and what is
`Written` reads back. `NumbersInv` is which sector is current: a call packs once at most,
so the segment number falls no faster than the calls are counted, stays away from
zero, and the sector that is not current is erased or one older. `CopyInv`: until
`Commit` a pack touches only the other sector, and of that only one word, the reason
why `Durable` ends with the first pack and why there is always room after one.
`KeptInv` and `BeforeInv` are the properties during the calls. `CopyNeverReturns`
justifies that the model leaves out the early returns in the copy loop.

Only model-checked: the liveness properties (temporal reasoning under fairness is
beyond the installed provers). Every safety and action property of a passing run
is a theorem, under the assumptions named above. The properties of the player that speak of
`InOrder` say nothing once commands have crossed; what goes wrong then is in section 3.

## 5. Not modelled

* The share of the repository's lines that the models stand for is small, and
  cannot be large: of the some 709,000 lines most are vendored (sample sounds
  and pictures as C arrays, libmad, lwIP, FreeRTOS, PolarSSL, FatFs, SDK examples, the HAL).
  The author's own code with state in it is some two thousand lines.
* Wi-Fi start-up and reconnection: `wifi_run` and its callbacks react to events of
  a binary driver. Which events come, and in which order, is not in the repository,
  and a model would show what was assumed of them.
* Console: the line editor `UartLogCmdChk`, which fills the buffer in the
  interrupt, is in the ROM. The commands are modelled where they control the
  player or save settings.
* Power management: a decision on wakelock bits that only the console task
  changes, and a correction of the tick count around `sleep_ex_selective` and
  `us_ticker_read`, which are outside the repository.
* Saved server: `mp3_cfg_read`, ATWS save and read copy one record between FlashEep
  and Player. That `mp3_cfg_read` tests its result the wrong way round is noted
  as a hazard in PROJECT.json.
* `fifoOvfCnt`, `fifoUdrCnt`: nothing depends on them.
* The url, DNS, the HTTP head, retries of `openConn`: abstracted to outcomes.
* Register and pin set-up; receive pages, which the program does not use.
* `tcm_heap_dump`, which prints; `wifi_set_timer_scan`, which nothing calls.
* The decoder, the TCP stack and the kernel, except for what the program sees.

## 6. What could follow

1. `CloseReturns` and `StartPlays` beyond the bounds of `player_session`: the measure
   by which each poll comes nearer to its end, as an invariant and an action property.
2. The composition of WifiScan or of a second controller with Player, once the
   order of the driver's events is known.
