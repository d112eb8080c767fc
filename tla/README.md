# Formal models of the BCM4360 work

This directory models what the repository's own code does: to a BCM4360 and to
the kernel it runs in (the patched `brcmfmac` driver in `phase5/work/drivers/...`,
its staged boot experiments, the earlier bring-up module
`phase4/work/bcm4360_test.c`, the script of phase 1 that reads the chip's core
list), to the conclusions drawn from the firmware image (the analysis scripts of
phase 6), and to the working tree (the partner-model server). TLC checks the
models on small instances and TLAPS proves the central ones for every value of
their constants.

Paths below are relative to the repository; `pcie.c`, `core.c` and `chip.c` are
the files of `phase5/work/drivers/net/wireless/broadcom/brcm80211/brcmfmac/`.

## 1. Inventory

### The system

```
   user, kernel        driver core          bus driver              device
 ┌─────────────┐   ┌───────────────┐   ┌─────────────────┐   ┌────────────────┐
 │ net stack   │──▶│ core.c        │──▶│ pcie.c          │──▶│ BAR0: registers│
 │ bind/unbind │   │ interfaces,   │   │ probe, download,│   │  (one core at a│
 │ PM          │   │ queues,802.1X │◀──│ rings, mailbox, │◀──│  time)         │
 │ debugfs     │   │ bus_reset     │   │ IRQ, suspend    │   │ BAR2: TCM      │
 └─────────────┘   └───────────────┘   │   chip.c: cores │   │ ARM + firmware │
                                       └─────────────────┘   └────────────────┘
                                       ┌─────────────────┐          ▲
                                       │ bcm4360_test.c  │──────────┘
                                       └─────────────────┘   (instead of brcmfmac)
```

A probe resets the chip over the bus (SBR), maps the BARs, enumerates the cores
and asks the kernel for firmware. The firmware callback (`brcmf_pcie_setup`)
runs in another thread, downloads, and on a BCM4360 stops there with `-ENODEV`
after the experiments that module parameters selected; on other chips it goes on
to rings, interrupt and interfaces. From then on an interrupt thread, the network
stack, power management, a console timer and a reset worker share the device.

Two parts stand beside this. The firmware has no symbols and its source is not
public, so what the driver should do next was decided from its image:

```
   firmware image ──▶ one linear sweep ──▶ where functions begin and end
                                      ├──▶ who writes a field, and what value
                                      ├──▶ who calls a function, who holds its pointer
                                      └──▶ a call graph ──▶ breadth-first walk ──▶ "live" / "dead"
```

And the assistant that edits the tree may ask other models, through a server that
reads files into prompts and starts command-line agents in the same tree.

### Components

| Component | State | Operations | Hard part | What makes it correct |
|---|---|---|---|---|
| Mailbox interrupt and D3 handshake (`pcie.c` 2716-2971, 8278-8345) | `mailboxint`, `mailboxmask`, `dtoh`/`htod` words, `mbdata_completed`, `state` | hard handler, interrupt thread, `send_mb_data`, suspend, resume, reset and remove | four parties with no common lock, time limits, a firmware that may die | no request stranded, mask never left closed, a suspend is all or nothing and means D3 |
| Device life cycle (`pcie.c` 7500-8345, `core.c` 1302-1465) | every allocation of probe and setup, drvdata, timer, work, request | probe, callback, reset work, remove, D3 callbacks | asynchronous setup, failure labels, `leave_D3` probing again | nothing leaks, nothing freed is touched, a failed setup unbinds |
| Boot path of the BCM4360 (`pcie.c` 3787-5660, 7030-8239) | BAR0 window, ARM halt and reset, bus mastering, mask, TCM, sample buffers | bus reset, download, experiments, release, remove | order of steps over many parameter combinations; what survives unloading | download before release, an inverted word put back, whole image at release, no DMA left on |
| Chip core resets (`chip.c` 350-491, 1089-1447) | IOCTL and RESET_CTL of a core's wrapper | disable, reset, set passive, set active | resets that give up silently | part of the boot path |
| Network interfaces (`core.c` 78-969, 1195-1536) | `iflist`, `if2bss`, `netif_stop`, queue state, `pend_8021x_cnt` | add, delete, attach, detach, open, stop, transmit, complete, bus up and down | event worker against detach and resume | tables agree, queues stop and run for a reason, frames are counted |
| Staged bring-up (`phase4/work/bcm4360_test.c`) | mapped BARs, olmsg buffer, handler, window, ARM, TCM, mastering | levels 1-5, remove, handler | the handler shares the BAR0 window; state left by earlier loads | DMA only at level 5, unload leaves the ARM halted |
| Rings, indices and doorbells (`pcie.c` 2974-3334, 3571-3623) | ring descriptors, index addresses | layout, callbacks | host or TCM indices, three protocol versions | no two indices overlap, each ring gets its own |
| Firmware console readers (`pcie.c` 2156-2222, 2789-2859, 7743-7807) | read index, line buffer, cursor | timer, debugfs, test 278 | a ring the firmware is writing | text in order, losses only on overrun |
| Download of other chips, `shared_info`, OTP (`pcie.c` 5661-7480) | - | parsers, boot poll | lengths and versions from the device | agrees with a reference |
| Enumeration and memory sizing (`chip.c` 581-977) | core list | EROM scan, sizing | malformed ROM | agrees with a reference |
| ARP and neighbour tables (`core.c` 992-1130) | 8-entry tables | notifier calls | full tables, work that runs later | table equals the addresses it was told, while it has room |
| Module init and exit (`core.c` 1538-1586, `common.c`) | which buses are registered | init, exit, settings | failure half way | what was registered is unregistered |
| Shell drivers (`phase4/work/test.sh`, `phase5/work/*.sh`) | loaded modules | load, unload, collect logs | a load that hangs | any order of loads is covered by the models above |
| Core enumeration (`phase1/scripts/enumerate_cores.py`) | the BAR0 window, the reader's position, the list | save window, turn it, read the ROM entry by entry, turn it back | the `wl` driver uses the same window meanwhile; a reader that puts back one word of several | the window is given back on every way out; the list is the ROM's |
| Partner model server (`mcp/partner_llm_server.py`) | calls under way, their agents, the tree | `ask_deepseek`, `dispatch_gemini`, `dispatch_kilocode` | files that change between check and read, agents killed with work under way, shared standard input | only what was asked leaves or changes anything, every request is answered |
| Offline firmware analysis (`phase6/t297*` to `t300*`, `t307*`) | the swept instructions, the walk's queue | find functions, writers, values, callers; walk the call graph | data between the code, prologues of several kinds, returns in the middle, pointers in pools and tables | a wrong answer has a cause a reader of the script can know |
| Firmware extraction (`phase1/scripts/extract_firmware.py`), dumps and table readers of `phase5` | none | read a file, print or write | - | - |

The kernel (interrupts, timers, workqueues, rtnl, driver core), the chip's
firmware, and the parts of brcmfmac that are not in the repository (`fweh.c`,
`msgbuf.c`, `commonring.c`, `cfg80211.c`, `firmware.c`) are modelled by what the
code here does with them; their definitions are marked external in
`PROJECT.json`.

The hazards of the code, each at its line with the properties that watch it, are
listed in `PROJECT.json`.

## 2. Modules

| Module | Models | Extends / instantiates |
|---|---|---|
| `SleepHandshake` | abstract: what suspend and resume promise | |
| `PcieMailbox` | mailbox interrupt, its thread, suspend and resume | |
| `PcieMailboxRefinement` | refinement mapping to `SleepHandshake`, inductive invariant | `PcieMailbox`; instance of `SleepHandshake` |
| `PcieLifecycle` | what probe, setup, reset, remove build and take down | |
| `BootPath` | what is written to a BCM4360, in which order | |
| `Netdev` | interfaces, queues and the 802.1X count | |
| `TestHarness` | `bcm4360_test.c` | |
| `CoreEnumeration` | `enumerate_cores.py` | |
| `PartnerServer` | `partner_llm_server.py` | |
| `Thumb` | decoder's view of an image, linear sweep, tests on one instruction | |
| `FunctionBounds` | where a function begins and ends, by each script's rule | `Thumb` |
| `StoreSearch`, `ValueSearch` | who writes a field, and which value | `FunctionBounds`; `StoreSearch` |
| `CallSearch` | who calls a function or holds its pointer | `FunctionBounds` |
| `LiveOrDead` | the searches of T299 about one function after another | `CallSearch`, `StoreSearch` |
| `RegisterTracking` | the targets a function's code leads to, T299n to T307 | `LiveOrDead` |
| `Climb` | the breadth-first walk of the reachability scripts | |
| `FirmwareImage` | external: what compiler and linker produce, and what is true of it | `Thumb` |
| `FirmwareStudy` | the study as one system: link, sweep, ask, walk | `FirmwareImage`, `RegisterTracking`, `ValueSearch`, `Climb` |
| `PcieMailboxProofs` | theorems: the handshake; the mailbox and that it implements the handshake | `PcieMailboxRefinement` |
| `PcieLifecycleProofs`, `BootPathProofs`, `TestHarnessProofs`, `NetdevProofs`, `PartnerServerProofs`, `CoreEnumerationProofs`, `ClimbProofs` | theorems about the module each is named for | that module; TLAPS |
| `MC...` | instances for TLC | |

Definitions named `X_Something` and commented as slips are the plausible mistakes
against which each property is tried; nothing refers to them.

### PcieMailbox

One action per access to shared state. `hard` is the place of
`brcmf_pcie_quick_check_isr`, `pc` that of `brcmf_pcie_isr_thread` (with the call
of `handle_mb_data` inlined), `ctl` that of the thread in which setup, suspend,
resume, reset and remove run one at a time, and `send[s]` the place of each of the
two callers inside `brcmf_pcie_send_mb_data`. `dtoh` and `htod` are the two words
in shared memory, `mailboxint` and `mailboxmask` the registers. The hundred polls
of `send_mb_data` and the two-second wait of `pm_enter_D3` are waits that may give
up at any time when `SlowDevice`, and otherwise only when no answer can come. The
firmware is external: it posts a flag word when the last one was taken, sets FN0
in a second step, takes the host's word after a doorbell, and may halt. History
variables: `timedOut` (a suspend gave up since the last boot), `lateDb` (a
doorbell for waiting completions was acknowledged while `state` was DOWN).

### PcieLifecycle

Three threads run lists of steps in the order of the source: `core` (probe,
remove, PM, under the device lock), `cb` (the firmware callback) and `work`
(bus_reset). `Needs` says what a step dereferences. Every probe has a generation
number, so a stale pointer is not mistaken for its successor. Touching freed
memory is undefined behaviour: it is recorded in `fault` and ends the behaviour.
`Happens` selects which events are explored: failing steps, crashes, suspends,
unbinds, and overlaps of these with work under way. `free_irq` is two steps: no
new handler, then wait for the running one.

### BootPath

The driver is a list of `<<operation, operands>>` built by `ProbeProgram`,
`SetupProgram` and `Removal` for the load's test parameters. A register write
reaches the core the BAR0 window shows. TCM is a function from the cut points of
its layout to the last writer, so overlaps are exact to the byte without storing
bytes. The bus reset sets window and halt, leaves reset and mask open, and keeps
or loses TCM. Tests 243 and 245 read a word of TCM (`ProbeWord`, 0x90000), store
its complement and put it back: `Invert` is the first of the two stores, and the
list goes on with the second; test 243 does this twice while the firmware runs.
Test 245 stands for 246 too, 259 for the mask-only form of 260, 264 for the
waiting scaffolds 260-267. The firmware's own stores are not modelled. Setup runs to its end before remove here; the
overlap of the two is `PcieLifecycle`'s.

### Netdev

Two threads, `ctl` (attach, detach, suspend, resume) and `event` (the firmware
event worker), run step lists over `iflist`, `if2bss` and the interface objects.
Beside them the stack opens, stops and transmits, the message layer blocks and
unblocks queues and completes frames, and one waiter holds rtnl in
`brcmf_netdev_wait_pend8021x`. Objects are used again only when nothing refers to
them. `overruled`, `late`, `slipped` and `happened` are histories that name the
windows below.

### TestHarness

A load is the list of steps of the levels up to `max_level`. A backplane access is
two steps, the window register and then the access, and the interrupt handler of
the shared line may come between them. Device state survives unloading; a power
cycle resets it.

### CoreEnumeration

An action is one call of `EromReader` or one access to the window. `Round` is a
step of the loop that `main` runs for slave ports, master wrappers and slave
wrappers; `PushBack` gives back one word, however many `get_addr_desc` took. A
word of the ROM is its kind and the counts a component carries; the address,
size and revision fields are not read by any condition. `Raise` may come between
any two accesses of the `try` (a read past the mapping, an interrupt by the
user), `Finally` follows. The `wl` driver is external: it may turn the window at
any time, and then the reader sees another core's registers.

### PartnerServer

Calls run side by side, each with its own `pc`: `Take` reads a request from the
shared standard input, `MeasureFile` and `ReadFile` are the two accesses of
`_read_file_for_prompt` between which a file may be exchanged, `Post` sends the
prompt, `StartAgent`, `Collect` and `CliTimeout` are `_run_cli`. External: edits,
the API (answers, fails, falls silent, trickles), and the agents, which work,
leave commands running, and inherit the server's standard input. A file is its
kind, whether it is too big and whether it is UTF-8; two names, one of them on
the suffix list.

### The firmware study

`Thumb` gives the image to the scripts as the decoder gives it: an instruction at
every even address, code or not, and words at addresses. `Disasm` stops at bytes
that decode to nothing; `iter_all` goes on two bytes later. The script modules
have one operator per question of a script, `T299s_callers` for what
`t299s_*.py` asks, with that script's own rules: which prologues it knows, how far
it looks, which branches it counts, what closes a function. The scripts repeat
each other with small differences, and these differences are what the modules
keep. Distances are divided by `Scale` (`Win`).

`FirmwareImage` builds programs whose truth is known: function `i` hands control
to `i + 1` by a call, a tail branch, a pointer from its pool, a pointer in a
table, or not at all; prologues are narrow, wide or absent; a function may return
early, be preceded by data that looks like a prologue or like half an
instruction, and writes the mask under study with a small or a wide constant.
`FirmwareStudy` sweeps the image once (`Sweep`, as `all_ins` is filled once) and
lets one script walk the graph it reads out of the code; when the sweep is done,
every search is compared with the truth. `Climb` is the walk itself, an action
per function taken off the queue.

About fifty operators in these modules are listings that the scripts print and
that no verdict is taken from (contexts, dumps, clusters, words near an address);
they are translated, and no property asks them.

## 3. Runs

| Run | Asks | Bounds | States |
|---|---|---|---|
| `mailbox_safety` | every interleaving of handler, thread, control thread and a firmware that may be slow, sleep, halt or complete work; implements `SleepHandshake` | none | 2 469 022 |
| `mailbox_liveness` | the same with a punctual firmware and missed doorbells: are requests served and suspends ended? | none | 66 930 |
| `lifecycle` | three settings side by side: three probes with every failing step, crash, suspend and unbind one at a time; two probes with failures, suspends and unbinds at any moment, without crashes; the BCM4360's short setup with everything at any moment | `MaxProbes = 3` | 103 854 |
| `boot` | 20 parameter sets, two loads, every failure | `MaxLoads = 2`, NVRAM of 0 or 228 bytes | 325 698 |
| `boot_shared` | violation: shared_info is apart from NVRAM and seed | one load | |
| `boot_mask` | violation: test 284's mask reaches the PCIe core | one load | |
| `netdev` | two interfaces under attach, events, PM, traffic | see below | 591 256 |
| `harness` | five levels, three loads and power cycles | `MaxLoads = 3` | 11 618 |
| `harness_halt` | violation: level 4's halt sticks | `MaxLoads = 2` | |
| `enumeration` | every shape of two components, the driver turning the window | `Size = 20`, `MaxMoves = 1` | 237 957 |
| `partner` | two calls of every kind, files, API and agents that misbehave | `MaxEdits = 2` | 493 442 |
| `study` | every question of every script about every program; seven walks | see below | 11 435 |

Bounds and why they are enough:

- `PcieMailbox` has only finite variables; the number of suspends is not bounded.
  The safety run takes the most permissive device (`SlowDevice`, no ready
  message needed, a shared line). `OldPcieCore` is exercised by the liveness run.
- `lifecycle`: a first probe, one that follows a reset or a cold resume, and
  one after that over what it left; stale pointers reach back one generation. An
  overlap needs two generations, one that is replaced while its setup runs and its
  successor; so does the BCM4360's setup. The proofs cover any number of probes and
  every combination of events.
- `boot`: what a load leaves is seen by the next; a third sees nothing new since
  the bus reset forgets all but TCM, reset and mask. The sets are each parameter
  that writes, alone with test 238 (without which most are skipped), and the
  combinations the notes used. Sizes are the project's: 0xa0000 of TCM, its
  firmware of 442 232 bytes.
- `netdev`: primary and one more interface (the code treats all but the first
  alike), three firmware indices so that an add can come with the old or a new
  one, two objects so that a freed one is used again, one frame per index
  (`MaxFrames`), counts to two from zero (`MaxDrift`), traffic on the second
  interface (`Traffic`). `MaxFrames` counts frames of one index, two objects may
  have the same one.
- `harness`: a load that leaves something, one that runs over it, one after.
- `enumeration`: two components, so that what is lost or misread of one is read as
  the other; descriptors with up to two extra words, each of which may look like
  a component, an end or nothing. One turn by the driver comes between any two
  steps of the script; the proofs cover any number of either.
- `partner`: two calls are an overlap and a retry; two edits exchange a file
  after each of the guard's two accesses.
- `study`: three functions (a caller, the one in question, its callee). A program
  departs from the plainest one (narrow prologues, calls, no constants) in at
  most two ways, so that each cause of a wrong answer comes alone and with each
  other. `Scale = 4` divides the scripts' windows (16 to 65 536 bytes) so that
  the smaller ones end inside the image of at most 160 bytes. `Vectors = 0` puts the
  first function at 0. The walks go three levels deep, `t299q` none and `t299z` one,
  so that the depth limit bites.

Runs that may stop (an unbound device, a finished load, undefined behaviour) say
`CHECK_DEADLOCK FALSE`; the mailbox runs check deadlock.

What they show, beyond the properties' comments:

- `FaultsHaveCause` (life cycle) says that undefined behaviour needs a failing
  step or an overlap. TLC enumerated them: after a failure the scratch pair is
  freed twice (`release_scratchbuffers` leaves its pointers), the reset work runs
  on a freed `drvr`, suspend and remove follow stale drvdata after a failed
  re-probe; with an overlap the callback, the interrupt thread and the console
  timer run on freed memory, with a crash besides the reset work too. On a
  BCM4360 every suspend faults: setup returns before `init_waitqueue_head`.
- Of the two that overlap, `RemoverIsSafe` says, the remover itself is the one
  that is safe, unless a reset may be under way: then both may free the scratch
  pair. Likewise `NothingLeaks` says "whatever overlaps" only of a device that was
  never reset: where a crash and an overlap come together, a setup may overwrite an
  interrupt that is still requested. No setting of the run combines crashes and
  overlaps on a chip other than the BCM4360; the proofs, which are about all of
  them, asked for both conditions.
- `UnloadIsClean` holds although a halt at level 4 can be lost: `remove` halts
  once more, after the handler is gone.
- `RunsWhatWasLoaded` holds of the code of level 4 and contradicts its header,
  which has "NO shared_info written" and the firmware finding "no valid
  shared_info" (`bcm4360_test.c:1095-1097`); the body writes it before the release
  (1150-1163), since without it the firmware panics (1148).
- Test 243 stores to TCM while the firmware runs. `DownloadBeforeRelease` says that
  nothing else does, that its word is no part of what was downloaded, and that its
  two stores have nothing of the driver's between them.
- In `netdev` each property names the one window it has: `FaultsHaveCause` the
  time between freeing and unlisting in `brcmf_del_if`; `QueueHonoursReasons` the
  bus coming up, which wakes queues whatever their stop reasons;
  `NoStrandedQueue` a transmit that saw the bus down and stopped the queue after
  it was up; `PendCountsFrames` a reset of the count over frames under way;
  `MapAgrees` an add over a live interface or one that failed; `DetachFreesAll`
  an event worker that is still alive when detach goes through the list.
- In `enumeration` a wrapper descriptor of several words loses wrappers
  (`PushBack`), and an address half that looks like a component becomes one;
  `CoresAreRight` says that nothing else does. The script gives the window back
  on every way out, to the position it saved, so a turn the driver made meanwhile
  is undone.
- In `partner` a killed agent's commands work on after the answer, an agent may
  read the next request, and an API that trickles is waited for; the properties
  name these and exclude all others.
- In `study` each property is a table of what misleads which script: a leaf or a
  wide prologue, an early return, a tail branch, a prologue the sweep lost behind
  a constant, a pointer in a table, a stale register (`t299r`), a `movw` read
  without its `movt` (`t298h`, `t298i`). Every entry of the tables of guesses, writers and searches
  is needed by some program. The verdict "dead" is right except for these and for
  what lies below a walk's depth.
- The three violations and further disagreements between code and documents are
  under `findings` in `PROJECT.json`.

### Fairness

Four specifications have fairness. `PcieMailbox!FairSpec`: an interrupt that
the mask lets through is delivered; the interrupt thread and the control thread
are scheduled (strongly, since each can disable the other for a moment by filling
the `htod` word or taking the device lock, which the hundred polls and finite
callbacks outlast); a device that is alive goes on. Nobody is obliged to suspend,
resume or remove, and the interrupts of other devices on the line are promised by
nobody. `PcieLifecycle!FairSpec`: threads that have steps take them and a running
interrupt thread ends. The device lock is released because lists are finite.
`CoreEnumeration`: the script runs on (one process, no waits); the driver owes
nothing. `PartnerServer`: each call's own steps go on, as the event loop and the
timeouts of `httpx` and `subprocess.run` make them; clients, editors, the API and
the agents owe nothing. The study's questions are safety only.

## 4. Theorems

Each holds for every value of the constants: line, device speed, core revision and
firmware repertoire; any number of probes and every set of events; every set of test parameters and NVRAM length; every choice of
levels; any number of loads, of interfaces, frames, calls, files and turns; every
finite set of addresses, call graph, entry and depth limit; every ROM and mapping.

| Theorem | States | Rests on |
|---|---|---|
| `TypeCorrect` | `TypeOK` of the mailbox | one lemma per group of variables |
| `NeverStranded` | `MailboxNeverStranded` | `StrandInv` |
| `MaskOwned` | `MaskHasOwner` | `MaskInv` |
| `Accounted` | `CompletionsAccounted` | `RxInv` |
| `AllOrNothing` | `SuspendIsAllOrNothing` | `BusInv` |
| `Refines` | `KeepsHandshake`: `PcieMailbox` implements `SleepHandshake` | `HandshakeInv` |
| `SuspendKeepsPromise` | `AsleepAndQuiet`: the device sleeps and nothing is sent to it | `HandshakeInv` |
| `HandshakeHolds` | `AsleepTogether` of the abstract handshake | its types |
| `MailboxSleepsTogether` | the same of the driver, through the refinement | `Refines`, `HandshakeHolds` |
| `FullInvariant` | the invariant of threads, allocations, handler, timer and work | `FullInv` of `PcieLifecycleProofs` |
| `ListsStayInOrder` | types; every list of steps stays in order and ends as it must | the same |
| `NothingLeaksHolds` | `NothingLeaks` | the same |
| `FaultsHaveCauseHolds` | `FaultsHaveCause` of the life cycle | the same |
| `RemoverIsSafeHolds` | `RemoverIsSafe` | the same |
| `HandlerHasItsDataHolds` | `HandlerHasItsData` | the same |
| `BootTypes` | types, and what the list of steps left can be | `IInv` of `BootPathProofs` |
| `DownloadComesFirst` | `DownloadBeforeRelease` | the same |
| `ReleasedOverWholeImages` | `ReleasedWhole` | the same |
| `DmaStaysInDownload` | `DmaOnlyInDownload` | the same |
| `EverythingIsGivenBack` | `DownloadGivesBack` | the same |
| `HarnessTypes` | types, and what the list of steps left can be | `IInv` of `TestHarnessProofs` |
| `LoadsEndClean` | `UnloadIsClean` | the same |
| `OnlyLevel5MastersTheBus` | `DmaNeedsLevel5` | the same |
| `Level4RunsItsOwn` | `RunsWhatWasLoaded` | the same |
| `NetdevTypes` | types of interfaces, tables and both threads' lists | `TypeOK` of `NetdevProofs` |
| `StructHolds` | the invariant of interfaces, tables and threads | `Struct` itself |
| `QueuesHonourReasons` | `QueueHonoursReasons` | the types alone |
| `TablesAgree` | `MapAgrees` | `Struct`, `Mapped` |
| `DetachIsThorough` | `DetachFreesAll` | `Struct`, `Kept` |
| `EveryFaultHasItsCause` | `FaultsHaveCause` of `Netdev` | `Struct`, `FaultInv` |
| `QueuesRunAgain` | `NoStrandedQueue` | `Struct`, `Waking` |
| `CountsAreRight` | `PendCountsFrames` | `Struct`, `Counting` |
| `ServerTypes`, `ServerInvariant` | types; prompts under way, agents and who writes | `ServerInv` |
| `OnlyCleanPrompts` | `PromptsAreClean` | `ServerInv` |
| `OnlyAskedChanges` | `TreeChangesAsAsked`, over the history `wrote` | `ServerInv` |
| `WalkSound` | `WalkIsSound`: what the reader of a walk may conclude | `ClimbInvariant` |
| `NotReachedHolds`, `ReachedHolds`, `CutHolds` | the parts of it for the three verdicts | `ClimbInvariant`, `ClimbTypes` |
| `GivenBack` | `WindowGivenBack` | `WindowInvariant` |
| `CoresAreRightHolds` | `CoresAreRight` | `ListIsKept`, `EnumerationAssumption` |

So every safety property of `mailbox_safety`, `lifecycle`, `boot`, `harness`,
`netdev`, `enumeration` and `partner` is proved, and one of `study`.

The assumptions, each named in the module that declares the constants:

- `ConfigAssumption`, `LifecycleAssumption`, `BootAssumption`, `PartnerAssumption`, `HarnessAssumption`,
  `EnumerationAssumption`: the types of the constants (levels are 1 to 5; a ROM is a
  list of `Component`s with any number of ports, wrappers and extra words).
- `LayoutAssumption`: the fixed offsets of `pcie.c`'s tests leave the image and the
  NVRAM alone: the firmware ends below test 247's block at 0x80000, NVRAM and seed
  begin where test 234 stops zeroing. The code does not check it; it holds for the
  image and the NVRAM the offsets were chosen for. Without it `ReleasedWhole` is
  false, and rightly so.
- `NetdevAssumption`: `bsscfgidx` and `ifidx` are numbers from 0, the first finitely
  many (an array in `struct brcmf_pub`), and the traffic stays on them.
- `NodeAssumption`: addresses are finitely many.

`WalkSound` is about `Climb` alone, with any graph; that a script's graph is the
program's is the other properties' business.

### The mailbox

`MailboxNeverStranded` is nearly inductive; `MaskInv` adds
that only teardown closes the mask and that the thread ends after opening it when
`state` is UP. `RxInv` adds that the thread's copy of `mailboxint` is empty
outside its list of steps. `HandshakeInv` is the interesting one. A suspend's
request goes through stages (being written, in `htod`, taken by the device,
acknowledged in `dtoh`, in the thread's `msg`, `mbdata_completed`), and
`StagesInv` says that as long as no suspend has given up there is at most one
request and it belongs to the suspend under way. That needs `SendersInv` (what
each caller of `send_mb_data` is sending) and `ThreadInv` (`msg` is `dtoh` until
the thread clears the word; nothing runs once the interrupt is given back). Once
a suspend has timed out the stages can overlap, which is why `SleepHandshake` has
`doubt` and the properties except it.

Each mailbox proof has a step per family of actions: hard handler, interrupt thread, what
the control thread goes on with, what it is called for, what the firmware must do
and what it may do; `StagesStep` goes down to the single handler steps.

### The life cycle

Three threads at any positions of fifteen lists, beside interrupt, timer, work and
request: an invariant by positions is out of the question. `PcieLifecycleProofs`
speaks of the set of steps a thread has left, `Rem(t)`. Two relations say what the
lists of the source have in common: `Clash(x, y)`, x must not come before y (x frees
what y needs, x needs what y takes, the mappings go before the interrupt, something
follows an end), and `Awaits(x)`, what comes after x (`rel_irq` is followed by
`irq_sync`, `set_down` by `bus_stop`). Each list is shown once to obey both
(`Plan`), and what is left of a plan is one (`TailPlan`), so an invariant about
`Rem(t)` knows what a step leaves behind it without knowing where it stands.

`StepCases` sorts all actions into a few kinds: a step done (`Does`), a step failed
(`Breaks`), a list begun (`Enters`, `TakesAway`, `Builds`, `Resets`), what goes on
beside the threads (`Beside`), a fault (`Halts`). Each part of the invariant has one
lemma per kind. `FullInv` has a part for each thing the history may have spared the
device, and as the history only grows a condition that holds after a step held
before it:

- `IInv`: `LifeTypes`, `Shaped` (plans, each with its last step to come),
  `Stays4360`, and while nothing overlaps `SerialInv`: one thread works at a time
  (`OneBuilds`) under the lock it should hold (`Holders`), all that exists is of the
  last generation, a list that is to leave nothing still frees all there is
  (`Covered`), nothing is taken that is there already (`FreshTakes`), the interrupt
  goes before what its handler reads (`HandlerFirst`). Steps may fail here; it gives
  `NothingLeaks` and `HandlerHasItsData`.
- `Unreset`, without a reset, whatever overlaps: each generation is set up once,
  and only under the device lock is anything taken by `core`.
- `SmoothInv`, while no step fails, whatever overlaps: what `core` needs exists or
  is taken on the way (`Stocked`), a bound device that `core` leaves alone is whole
  (`Stands`). With `Undangled` (no freed scratch pointer waits to be freed again) it
  gives `RemoverIsSafe`.
- `GoodInv`, while no step fails and nothing overlaps: the callback and the reset
  are stocked too; who waits for firmware, whose scratch pair may dangle, when a
  reset is queued; the handler that runs is waited for and the timer stopped for
  good before what they read goes (`Handles`, `Timed`). It gives `FaultsHaveCause`:
  `GoodHalts` goes through every way to fault and leaves the BCM4360's suspend.

### The boot path and the staged bring-up

Both drivers are lists of steps, and which list a run takes depends on parameters
and on what the chip answers. An invariant that enumerates the positions of the
lists would be as long as the program and hold for the parameters it was written
for. Instead the invariant says of the rest of the list what it still promises, as
relations between its steps; the proofs show once, from the parts a program is
glued together from, that each whole list has them, and once that what is left
after a step, a skip or an insertion keeps them.

`BootPathProofs`: `Written` (a write to the ARM's wrapper directly follows its
window), `Spans` (a skip passes over light steps alone and not to a write that
wants its window), `Framed` (MSI, handler, mask writes and both given back lie
together), `RelLast` (after the release no store but to the word that test 243
inverts), `Before` and `Closes` (what the
first and the last three steps are) and `Sure` (the list will halt the ARM for
good). The state is tied to the list by phase (`PhaseInv`): in setup the ARM is
halted or no store but such a one is left; each image is whole or its store is
still to come; the handler is registered exactly as far as the list gives it back. In probe the ARM
is halted or sure to be, which is why the download finds it so. `LayoutIs` shows
that the stores after an image's own miss it, and `Pending` that a word which is
inverted is the target of the very next step.

`TestHarnessProofs`: `Since` (a step that relies on something follows the step
that provides it, with nothing between that takes it away), `Again` (and if
something takes it away, it is provided anew), `Ends`, `Soon`, and `Order` (what
may come after what on a level), next to `Written`, `Released` and `Paired` for
`arm_halt` and `arm_release`. The state enters by alternatives: mapped, or mapped
before it is used; halted, or halted before the step that wants it; master off, or
cleared before the handler is requested.

### Interfaces

`Struct` is the invariant of the two threads that add and delete interfaces:
`Lists` (the steps of a deletion come in order and on one index; a bus that comes
up visits every queue), `Turns` (who deletes when, unless detach overlaps the
event worker), `InHand` (what a thread holds between two steps), `Listing` and
`Places` (what stands in `iflist` meanwhile), `Indices` (no two listed interfaces
count frames on one index). On it stand `FaultInv`, `Waking` (a stopped queue
without a reason will be visited), `Kept` (a live interface is listed, and detach
still comes to it), `Mapped` and `Counting`. `Counting` is stronger than
`PendCountsFrames` in that it speaks of every index nobody shares; the sum over
frames is a count per index, so it needs no induction over them.

### The list of cores

`CoresAreRight` compares what the reader's loops collect with a ROM that
`FlattenSeq` lays out, so its proof has two halves.

The first says where the words of a ROM stand. `FlattenSeq` is defined by recursion
over the sequence, and the library's induction theorems take an operator as a
parameter; `SetInduction` goes round that by inducting over a set of numbers, from
`WFMin` of the library. With it `FlattenLayout` shows that `FlattenSeq` lays its
sequences end to end (`Lays`), and `RomLayout` that every component has its place
(`Base`), each of its descriptors too (`Place`), and that every other word is a
master port or an extra word of a descriptor (`ComponentLaid`).

The second is the invariant of the reader, `ListInv`, under the two provisos of the
property (`Followed`): the driver leaves the window alone, and nothing inside a
component that is skipped or split looks like an entry. Between components no word
up to the next one stops the reader (`Between`). Inside one it is at a descriptor
and has kept exactly those before it (`InOrder`), with a round only ended at the end
of its group; or it has put back the last word of a long wrapper and stands inside
it (`Astray`), from where it reads nothing more of that component. `RoundStep` proves
one round for all three groups. The list is right about the first `num` components
(`Collected`), which at the end marker are all.

### Server, window and walk

`ServerInv` says of a prompt under construction that it holds the first files of
the request, each with the checks it must have passed, and of a file that has been
measured that the measure holds or the file was exchanged since (`Measured`), the
window between `stat` and `read_bytes` in which a file may grow.

The walk's invariant says that what is seen is read, cut off or queued; that the
queue is sorted by depth and spans at most two depths, which is why the level of
a function is the least over the ways to it; and that a cut function lies exactly
one level below the last. The window's invariant needs the saved value: inside
the `try` the window may show anything, but what will be put back is a position
of the driver, and its latest unless it moved meanwhile.

### Only model-checked

- `FirmwareStudy`'s four tables of what misleads which script. They are about the
  programs within two departures from the plainest one, under windows scaled to the
  small image: a program with three may mislead a script in a way no table names.
- `FailedSetupUnbinds` and all other liveness, and fairness. The prover cannot treat
  liveness under fairness, `ENABLED`, or `RECURSIVE` operators; modules meant to be
  proved about use none.

## 5. Not modelled, and why

- The firmware's own behaviour beyond what the driver expects of it.
- Read-only experiments of `pcie.c` (their values are for a reader of the log;
  `BootPath` keeps the BAR0 window they leave), clock and PMU set-up of
  `chip_attach`. The firmware's stores to TCM are not modelled: one to 0x90000
  between test 243's read and its restore would be undone by the restore.
- In `core.c`: p2p and monitor interfaces, `multicast_work` and
  `ndoffload_work`, `ignore_probe_fail`, receive path, ethtool.
- `IsrEnable` after a remove has masked (the thread tests `state` and unmasks in
  two steps) is in `PcieMailbox`, but its consequence, an interrupt of a device
  whose handler is gone, belongs to the kernel.
- The reset work against PM callbacks: the work takes no device lock in the code.
  `PcieMailbox` lets it run only between callbacks; `PcieLifecycle` lets it run
  beside them under `overlap`.
- Rings, console readers, the download of other chips, chip enumeration in
  `chip.c`, offload tables, module init: see the plan.
- `extract_firmware.py` and the dump scripts of `phase5`: one pass over a file
  with no state; whether a heuristic is right depends on that binary alone.
- Of the analysis scripts: the disassembler (external), which strings and
  addresses of the real image they ask about, layout of what they print.
- Shell drivers and build scripts: see the inventory.

## 6. Plan

In order; done: 1 to 7.

1. `PcieMailbox`, `SleepHandshake` and their proofs.
2. `PcieLifecycle` and its proofs.
3. `TestHarness`.
4. `BootPath`.
5. `Netdev`.
6. The firmware study with the proof of its walk.
7. `CoreEnumeration` with the proofs of its window and of its list; `PartnerServer`.
8. `Rings`: index layout of `init_ringbuffers` in TCM and in host memory for the
   protocol versions, the doorbell callbacks, `init_share_ram_info`. Abstract
   promise: every ring owns its index cells. Provable: layout arithmetic for all
   numbers of rings.
9. `Console`: firmware writing a ring, `console_read` and test 278's cursor
   reading it; the abstract promise is a queue with losses marked.
10. Offload tables of `core.c` (ARP, neighbour) with the work that sends them.
11. Pure functions against reference definitions, in one run: EROM scan of
    `chip.c`, memory sizing, OTP and NVRAM parsers, the copy helpers.
12. `core_init` and `core_exit`; the download and boot poll of other chips.
