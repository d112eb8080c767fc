------------------------------ MODULE BootPath ------------------------------
(***************************************************************************)
(* What brcmfmac does to a BCM4360 from probe to remove: bus reset, chip   *)
(* enumeration, the download of firmware and NVRAM, the staged tests the   *)
(* module parameters select, and the release of the ARM.                   *)
(*                                                                         *)
(* The driver's steps are a list, <<operation, operands>>, as in the       *)
(* source's order.  Registers are reached through BAR0, which shows the    *)
(* core the window register was last set to; TCM is reached through BAR2   *)
(* and is a map from the cut points of its layout to what was last written *)
(* there.  The firmware's own writes to TCM are not modelled.              *)
(***************************************************************************)
EXTENDS Naturals, Sequences

CONSTANTS
  RamSize,     \* bytes of TCM (0xa0000)
  FwSize,      \* bytes of the firmware image, from 0
  NvramLens,   \* lengths of the NVRAM blob that are tried, 0 is no NVRAM
  TestSets,    \* the sets of test parameters that are tried
  MaxLoads     \* bound: probes between now and the end of time

ASSUME BootAssumption ==
  /\ RamSize \in Nat /\ FwSize \in 1..RamSize /\ NvramLens \subseteq 0..RamSize
  /\ MaxLoads \in Nat \ {0}

VARIABLES
  todo,     \* the steps still to take
  phase,    \* "gone", "probe", "setup", "bound" or "remove"
  loads,    \* probes so far
  tests,    \* the module parameters that are set
  nvlen,    \* length of the NVRAM blob of this load
  window,   \* what BAR0 shows
  halt,     \* CPUHALT of the ARM wrapper's IOCTL
  reset,    \* RESET_CTL of the ARM and D11 wrappers
  master,   \* PCI_COMMAND_MASTER
  mask,     \* MAILBOXMASK of the PCIe core: interrupts may be raised
  tcm,      \* what TCM holds, from each cut to the next
  mapped,   \* devinfo->regs and devinfo->tcm are mapped
  olmsg,    \* devinfo->t276_olmsg_buf is allocated
  held,     \* firmware, NVRAM and sample buffers not yet freed
  irq,      \* bcm4360_t259_safe_handler is registered: "none", "line", "msi"
  msi,      \* MSI is enabled
  isr       \* the handler: "idle", or "claim" after a non-zero status

loadVars == <<loads, tests, nvlen>>
armVars  == <<halt, reset>>
hostVars == <<mapped, olmsg, held>>
irqVars  == <<irq, msi, isr>>
vars == <<todo, phase, loadVars, window, armVars, master, mask, tcm, hostVars, irqVars>>

ArmRuns == ~halt /\ reset["arm"] = "out"
On(t)   == t \in tests
-----------------------------------------------------------------------------
(***************************************************************************)
(* The layout of TCM.                                                      *)
(***************************************************************************)
SeedFooter == 8
SeedLength == 256
SharedInfo == [lo |-> RamSize - 12124, hi |-> RamSize - 32]   \* 0x2F5C, 0x20
ZeroBlock  == [lo |-> 654848, hi |-> 655132]                  \* 0x9FE00, 0x9FF1C
Preplaced  == [lo |-> 524288, hi |-> 524360]                  \* 0x80000, 72 bytes
ProbeWord  == [lo |-> 589824, hi |-> 589828]                  \* 0x90000, one word
Firmware   == [lo |-> 0, hi |-> FwSize]
Nvram(n)   == [lo |-> RamSize - n, hi |-> RamSize]
Seed(n)    == [lo |-> RamSize - n - SeedFooter - SeedLength, hi |-> RamSize - n]

Ranges == {SharedInfo, ZeroBlock, Preplaced, ProbeWord, Firmware}
            \union {Nvram(n) : n \in NvramLens} \union {Seed(n) : n \in NvramLens}
Cuts == {0, 4} \union {r.lo : r \in Ranges} \union {r.hi : r \in Ranges}
In(r) == {c \in Cuts : r.lo <= c /\ c < r.hi}

\* The fixed offsets of the tests were chosen around this image and this NVRAM: the
\* image ends below test 247's block, the NVRAM begins where test 234 stops zeroing,
\* and the word that tests 243 and 245 invert lies between that block and the seed.
ASSUME LayoutAssumption ==
  /\ FwSize <= Preplaced.lo
  /\ \A n \in NvramLens : ZeroBlock.hi <= Nvram(n).lo /\ ProbeWord.hi <= Seed(n).lo

Owners == {"old", "fw", "nvram", "seed", "zero", "shared", "t247", "inverted"}

\* a machine that was just turned on; EFI may have left bus mastering on
Init ==
  /\ todo = <<>> /\ phase = "gone" /\ loads = 0 /\ tests = {} /\ nvlen = 0
  /\ window = "cc" /\ halt = FALSE /\ master \in BOOLEAN /\ mask = FALSE
  /\ reset \in [{"arm", "d11"} -> {"in", "out"}]
  /\ tcm = [c \in Cuts |-> "old"]
  /\ mapped = FALSE /\ olmsg = FALSE /\ held = {}
  /\ irq = "none" /\ msi = FALSE /\ isr = "idle"
-----------------------------------------------------------------------------
(***************************************************************************)
(* Backplane access and core resets, as lists of steps.  BAR0 shows        *)
(* ChipCommon, the PCIe core, the ARM core, the wrapper of ARM or D11, or  *)
(* another wrapper.                                                        *)
(***************************************************************************)
Windows == {"cc", "pcie", "arm core", "arm", "d11", "wrapper"}

Do(op)               == <<<<op>>>>
View(where)          == <<<<"window", where>>>>
Put(where, reg, val) == <<<<"write", where, reg, val>>>>
Store(r, owner)      == <<<<"tcm", r, owner>>>>
Around(steps)        == <<<<"around", steps>>>>
RoundTrip(r)         == <<<<"round trip", r>>>>
If(test, steps)      == IF test THEN steps ELSE <<>>

\* chip.c writes through buscore_prep_addr, which leaves the window where it went
Chip(core, reg, val) == View(core) \o Put(core, reg, val)

\* brcmf_chip_ai_coredisable: a core already in reset only gets the last write
CoreDisable(core, pre, in) ==
  View(core) \o <<<<"skip if in reset", core, 4>>>> \o
  Chip(core, "halt", pre) \o Chip(core, "reset", "in") \o Chip(core, "halt", in)

\* brcmf_chip_ai_resetcore; its loop gives up after 50 tries and says nothing
ResetCore(core, pre, in, post) ==
  CoreDisable(core, pre, in) \o <<<<"clear reset", core>>>> \o Chip(core, "halt", post)

\* slip: the halt bit is not carried into the reset
DisableArm_NoHalt == ResetCore("arm", FALSE, TRUE, TRUE)

\* brcmf_chip_disable_arm: a CPUHALT that is set stays set all the way
DisableArm == ResetCore("arm", halt, TRUE, TRUE)

\* slip: the ARM is not halted
SetPassive_D11Only == CoreDisable("d11", FALSE, FALSE)

SetPassive == View("arm") \o Do("disable arm") \o CoreDisable("d11", FALSE, FALSE)

\* brcmf_chip_cr4_set_active: buscore_activate writes the reset vector, the first
\* word of the firmware, over itself
SetActive ==
  Store([lo |-> 0, hi |-> 4], "fw") \o ResetCore("arm", TRUE, FALSE, FALSE)

\* the read-only probes of the ARM and D11 wrappers and of clk_ctl_st save and
\* restore the window, and then select ChipCommon all the same
ProbeState == View("cc")
-----------------------------------------------------------------------------
(***************************************************************************)
(* The experiments of the tests.                                           *)
(***************************************************************************)
IntrEnable  == Put("pcie", "mask", TRUE)
IntrDisable == Put("pcie", "mask", FALSE)
Doorbell    == Put("pcie", "doorbell", TRUE)

\* tests 241 and 242 write a sentinel and 0; 243, 245 and 246 select the PCIe core,
\* change the mask and put it and the window back; 243 and 245 then do the same to
\* a word of TCM (245 stands for 246, which leaves TCM alone)
Sentinel    == IntrEnable \o IntrDisable
WriteVerify ==
  Around(View("pcie") \o Do("flip mask") \o Do("flip mask")) \o RoundTrip(ProbeWord)

\* the readings at every stage: all keep the window but test 288a
Snapshot == If(On("288a"), View("wrapper") \o View("pcie"))

\* tests 259 to 268: MSI if it can be had, the handler, what the test does under
\* it, and both given back; a refused handler skips to the end
Scaffold(body) ==
  Do("msi on") \o <<<<"irq on", Len(body) + 1>>>> \o body \o Do("irq off") \o Do("msi off")

\* the dwells of test 238; brcmf_pcie_hostready of tests 258 to 260 rings nothing:
\* its flag is in a shared area this chip's driver never reads.  259 stands for
\* 260 with the mask alone, 264 for the scaffolds that only wait (260 to 267)
Ladder ==
  If(On("242"), Sentinel) \o If(On("243"), WriteVerify) \o
  If(On("242"), Sentinel) \o If(On("243"), WriteVerify) \o If(On("240"), Doorbell) \o
  If(~On("269"),
     If(On("258"), IntrEnable) \o
     If(On("259"), Scaffold(IntrEnable \o IntrDisable)) \o
     If(On("264"), Scaffold(<<>>)))

Ultra ==
  LET console == If(On("280"), IntrEnable) \o If(On("279"), Doorbell \o Doorbell) IN
  If(On("276"), Do("olmsg") \o Store(SharedInfo, "shared")) \o
  If(On("284"), Snapshot \o IntrEnable \o Snapshot) \o
  SetActive \o Snapshot \o
  If(On("276"), <<<<"skip unless olmsg", Len(Snapshot \o console)>>>> \o Snapshot \o console) \o
  (IF On("268") THEN Scaffold(<<>>) ELSE Ladder)
-----------------------------------------------------------------------------
(***************************************************************************)
(* probe, the firmware callback and remove.                                *)
(***************************************************************************)
\* chip_attach halts the ARM twice, in recognition and in buscore_reset
Attach ==
  Do("try enable") \o Do("set master") \o Do("map") \o View("cc") \o Do("try") \o
  SetPassive \o SetPassive \o ProbeState

ProbeProgram == Do("bus reset") \o Attach \o Do("clear master") \o Do("try") \o Do("setup")

\* slip: the seed is written although the zeroing comes after it
Zeroing_Always == Store(ZeroBlock, "zero")

Zeroing == If(~On("236"), Store(ZeroBlock, "zero"))

\* slip: bus mastering stays on
Finish_MasterOn == View("pcie") \o Do("free all") \o Do("bound")
\* slip: an early return that frees nothing
Finish_KeepsBuffers == View("pcie") \o Do("clear master") \o Do("bound")

Finish == View("pcie") \o Do("clear master") \o Do("free all") \o Do("bound")

Release ==
  IF On("235") THEN <<>> ELSE IF On("238") THEN Ultra ELSE SetActive

Download ==
  View("arm core") \o Do("alloc") \o ProbeState \o SetPassive \o ProbeState \o
  Store(Firmware, "fw") \o
  If(nvlen > 0, Store(Nvram(nvlen), "nvram") \o
                If(On("236"), Store(Seed(nvlen), "seed")) \o View("cc")) \o
  ProbeState \o Do("set master") \o
  If(On("241"), Sentinel) \o If(On("245"), WriteVerify) \o
  If(On("247"), Store(Preplaced, "t247")) \o
  View("cc") \o ProbeState \o Zeroing \o Release \o Finish

\* a request that found no firmware unbinds the device
SetupProgram == ProbeState \o Do("fw") \o View("pcie") \o ProbeState \o Download

Removal == Do("unmap") \o Do("gone")
-----------------------------------------------------------------------------
(***************************************************************************)
(* The steps.                                                              *)
(***************************************************************************)
At(op)  == todo # <<>> /\ Head(todo)[1] = op
Arg     == Head(todo)[2]
Drop(n) == todo' = SubSeq(todo, n + 2, Len(todo))
Pop     == Drop(0)
Fail    == todo' = Removal

SetWindow ==
  /\ At("window") /\ window' = Arg /\ Pop
  /\ UNCHANGED <<phase, loadVars, armVars, master, mask, tcm, hostVars, irqVars>>

\* the write goes to whatever core the window shows
Write ==
  /\ At("write") /\ Pop
  /\ LET reg == Head(todo)[3]
          val == Head(todo)[4]
          Lands(r) == window = Arg /\ reg = r
      IN /\ halt' = IF Lands("halt") /\ Arg = "arm" THEN val ELSE halt
         /\ reset' = IF Lands("reset") THEN [reset EXCEPT ![Arg] = val] ELSE reset
         /\ mask' = IF Lands("mask") THEN val ELSE mask
  /\ UNCHANGED <<phase, loadVars, window, master, tcm, hostVars, irqVars>>

ReadReset ==
  /\ At("skip if in reset")
  /\ Drop(IF reset[Arg] = "in" THEN Head(todo)[3] ELSE 0)
  /\ UNCHANGED <<phase, loadVars, window, armVars, master, mask, tcm, hostVars, irqVars>>

ClearReset ==
  /\ At("clear reset") /\ Pop
  /\ window' = Arg
  /\ reset' \in {reset, [reset EXCEPT ![Arg] = "out"]}
  /\ UNCHANGED <<phase, loadVars, halt, master, mask, tcm, hostVars, irqVars>>

ReadHalt ==
  /\ At("disable arm") /\ todo' = DisableArm \o Tail(todo)
  /\ UNCHANGED <<phase, loadVars, window, armVars, master, mask, tcm, hostVars, irqVars>>

SaveWindow ==
  /\ At("around") /\ todo' = Arg \o View(window) \o Tail(todo)
  /\ UNCHANGED <<phase, loadVars, window, armVars, master, mask, tcm, hostVars, irqVars>>

FlipMask ==
  /\ At("flip mask") /\ Pop
  /\ mask' = IF window = "pcie" THEN ~mask ELSE mask
  /\ UNCHANGED <<phase, loadVars, window, armVars, master, tcm, hostVars, irqVars>>

\* the word is read and its complement stored; the store that puts it back is next
Invert ==
  /\ At("round trip")
  /\ tcm' = [c \in Cuts |-> IF c \in In(Arg) THEN "inverted" ELSE tcm[c]]
  /\ todo' = Store(Arg, tcm[Arg.lo]) \o Tail(todo)
  /\ UNCHANGED <<phase, loadVars, window, armVars, master, mask, hostVars, irqVars>>

WriteTcm ==
  /\ At("tcm") /\ Pop
  /\ tcm' = [c \in Cuts |-> IF c \in In(Arg) THEN Head(todo)[3] ELSE tcm[c]]
  /\ UNCHANGED <<phase, loadVars, window, armVars, master, mask, hostVars, irqVars>>

\* a secondary bus reset: TCM may survive it, and the ARM may come out running
BusReset ==
  /\ At("bus reset") /\ Pop
  /\ window' = "cc" /\ halt' = FALSE /\ mask' \in BOOLEAN
  /\ reset' \in [{"arm", "d11"} -> {"in", "out"}]
  /\ tcm' \in {tcm, [c \in Cuts |-> "old"]}
  /\ UNCHANGED <<phase, loadVars, master, hostVars, irqVars>>

Enable ==
  /\ At("try enable")
  /\ \/ Pop /\ UNCHANGED phase
     \/ todo' = <<>> /\ phase' = "gone"
  /\ UNCHANGED <<loadVars, window, armVars, master, mask, tcm, hostVars, irqVars>>

SetMaster ==
  /\ (At("set master") \/ At("clear master")) /\ Pop
  /\ master' = At("set master")
  /\ UNCHANGED <<phase, loadVars, window, armVars, mask, tcm, hostVars, irqVars>>

MapBars ==
  /\ At("map")
  /\ \/ mapped' = TRUE /\ Pop
     \/ mapped' = FALSE /\ Fail
  /\ UNCHANGED <<phase, loadVars, window, armVars, master, mask, tcm, olmsg, held, irqVars>>

\* enumeration or an allocation of probe
Try ==
  /\ At("try") /\ (Pop \/ Fail)
  /\ UNCHANGED <<phase, loadVars, window, armVars, master, mask, tcm, hostVars, irqVars>>

\* probe returned; the firmware request will call back
Setup ==
  /\ At("setup") /\ phase' = "setup" /\ todo' = SetupProgram
  /\ UNCHANGED <<loadVars, window, armVars, master, mask, tcm, hostVars, irqVars>>

Request ==
  /\ At("fw")
  /\ \/ held' = {"fw"} \union (IF nvlen > 0 THEN {"nvram"} ELSE {}) /\ Pop /\ UNCHANGED phase
     \/ Fail /\ phase' = "remove" /\ UNCHANGED held
  /\ UNCHANGED <<loadVars, window, armVars, master, mask, tcm, mapped, olmsg, irqVars>>

Alloc ==
  /\ At("alloc") /\ Pop
  /\ \E got \in SUBSET {"samples", "fine"} : held' = held \union got
  /\ UNCHANGED <<phase, loadVars, window, armVars, master, mask, tcm, mapped, olmsg, irqVars>>

AllocOlmsg ==
  /\ At("olmsg")
  /\ \/ olmsg' = TRUE /\ Pop
     \/ UNCHANGED olmsg /\ Drop(1)
  /\ UNCHANGED <<phase, loadVars, window, armVars, master, mask, tcm, mapped, held, irqVars>>

IfOlmsg ==
  /\ At("skip unless olmsg") /\ Drop(IF olmsg THEN 0 ELSE Arg)
  /\ UNCHANGED <<phase, loadVars, window, armVars, master, mask, tcm, hostVars, irqVars>>

EnableMsi ==
  /\ (At("msi on") \/ At("msi off")) /\ Pop
  /\ msi' \in IF At("msi on") THEN BOOLEAN ELSE {FALSE}
  /\ UNCHANGED <<phase, loadVars, window, armVars, master, mask, tcm, hostVars, irq, isr>>

RequestIrq ==
  /\ At("irq on")
  /\ \/ irq' = (IF msi THEN "msi" ELSE "line") /\ Pop
     \/ UNCHANGED irq /\ Drop(Arg)
  /\ UNCHANGED <<phase, loadVars, window, armVars, master, mask, tcm, hostVars, msi, isr>>

\* free_irq waits for a handler that is running
FreeIrq ==
  /\ At("irq off") /\ isr = "idle" /\ irq' = "none" /\ Pop
  /\ UNCHANGED <<phase, loadVars, window, armVars, master, mask, tcm, hostVars, msi, isr>>

FreeAll ==
  /\ At("free all") /\ held' = {} /\ Pop
  /\ UNCHANGED <<phase, loadVars, window, armVars, master, mask, tcm, mapped, olmsg, irqVars>>

\* pci_disable_device ends bus mastering
Unmap ==
  /\ At("unmap") /\ olmsg' = FALSE /\ mapped' = FALSE /\ master' = FALSE /\ Pop
  /\ UNCHANGED <<phase, loadVars, window, armVars, mask, tcm, held, irqVars>>

Settle ==
  /\ (At("bound") \/ At("gone")) /\ phase' = Head(todo)[1] /\ Pop
  /\ UNCHANGED <<loadVars, window, armVars, master, mask, tcm, hostVars, irqVars>>

Load ==
  /\ phase = "gone" /\ loads < MaxLoads
  /\ loads' = loads + 1 /\ tests' \in TestSets /\ nvlen' \in NvramLens
  /\ phase' = "probe" /\ todo' = ProbeProgram
  /\ UNCHANGED <<window, armVars, master, mask, tcm, hostVars, irqVars>>

Remove ==
  /\ phase = "bound" /\ phase' = "remove" /\ Fail
  /\ UNCHANGED <<loadVars, window, armVars, master, mask, tcm, hostVars, irqVars>>

\* bcm4360_t259_safe_handler reads and clears the status and writes the mask
\* through the window as it finds it; the line is shared, MSI is the device's own
IsrClaim ==
  /\ isr = "idle" /\ (irq = "line" \/ (irq = "msi" /\ mask))
  /\ isr' = "claim"
  /\ UNCHANGED <<todo, phase, loadVars, window, armVars, master, mask, tcm, hostVars, irq, msi>>

IsrMask ==
  /\ isr = "claim" /\ isr' = "idle"
  /\ mask' = (mask /\ window # "pcie")
  /\ UNCHANGED <<todo, phase, loadVars, window, armVars, master, tcm, hostVars, irq, msi>>

Step ==
  \/ SetWindow \/ Write \/ ReadReset \/ ClearReset \/ ReadHalt \/ SaveWindow \/ FlipMask
  \/ Invert \/ WriteTcm \/ BusReset \/ Enable \/ SetMaster \/ MapBars \/ Try \/ Setup \/ Request
  \/ Alloc \/ AllocOlmsg \/ IfOlmsg \/ EnableMsi \/ RequestIrq \/ FreeIrq \/ FreeAll
  \/ Unmap \/ Settle

Next == Step \/ Load \/ Remove \/ IsrClaim \/ IsrMask

Spec == Init /\ [][Next]_vars
-----------------------------------------------------------------------------
(***************************************************************************)
(* What must hold.                                                         *)
(***************************************************************************)
\* From the firmware callback on, an ARM that runs finds the download finished: no
\* store is still to come but those of test 243, which inverts one word outside
\* image, NVRAM and seed while the firmware runs.  That word never stays inverted:
\* the store that puts it back is the driver's very next step (test 167 was written
\* for a crash of the other kind, "ARM running partially written firmware", and
\* RESUME_NOTES_HISTORY.md:2886 has the word in "a dead region", "Immediate restore").
DownloadBeforeRelease ==
  /\ phase = "setup" /\ ArmRuns =>
       \A i \in DOMAIN todo : todo[i][1] \in {"tcm", "round trip"} => todo[i][2] = ProbeWord
  /\ tcm[ProbeWord.lo] = "inverted" =>
       At("tcm") /\ Arg = ProbeWord /\ Head(todo)[3] # "inverted"

Whole(r, owner) == \A c \in In(r) : tcm[c] = owner

\* The firmware is released over a whole image, and unless test 276 is on, over
\* the NVRAM and the forced random seed too: the zeroing of test 234, which
\* overlaps the seed, is left out when the seed is written.
ReleasedWhole ==
  phase = "setup" /\ ArmRuns =>
    /\ Whole(Firmware, "fw")
    /\ nvlen > 0 /\ ~On("276") =>
         Whole(Nvram(nvlen), "nvram") /\ (On("236") => Whole(Seed(nvlen), "seed"))

\* Downloaded firmware runs on after the driver is done with it; outside probe
\* and the callback it must not be able to write host memory.
DmaOnlyInDownload ==
  phase \notin {"probe", "setup"} /\ ArmRuns /\ tcm[0] = "fw" => ~master

\* However the download goes, what it took is given back: the handler, MSI and
\* the host buffers when it ends, the mappings and the olmsg buffer at remove or
\* a failed probe; and a handler never outlives the mappings, or MSI if it came by it.
DownloadGivesBack ==
  /\ irq # "none" => mapped /\ (irq = "msi" => msi)
  /\ phase = "bound" => irq = "none" /\ ~msi /\ held = {}
  /\ phase = "gone" => ~mapped /\ ~olmsg /\ held = {}

\* phase6/t276_shared_info_design.md:53, of the region test 276 zeroes when the
\* seed is forced: "No other writes into [0x9D0A4..0x9FFE0) exist in pcie.c".
SharedInfoIsApart ==
  At("tcm") /\ Head(todo)[3] = "shared" =>
    \A c \in In(Arg) : tcm[c] \in {"old", "shared", "zero"}

\* pcie.c:4680: brcmf_pcie_intr_enable "writes MBM = 0xFF0300".
MaskReachesPcie ==
  At("write") /\ Head(todo)[3] = "mask" => window = "pcie"
=============================================================================
