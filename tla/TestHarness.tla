---------------------------- MODULE TestHarness ----------------------------
(***************************************************************************)
(* The staged bring-up module phase4/work/bcm4360_test.c: one load of the  *)
(* module runs the levels up to max_level in probe, and remove undoes the  *)
(* load.  The device keeps TCM, window and ARM state from load to load.    *)
(*                                                                         *)
(* A backplane access is two steps, the window register in configuration   *)
(* space and then the access through BAR0; nothing keeps the interrupt     *)
(* handler, which does the same, from coming between them.                 *)
(***************************************************************************)
EXTENDS Naturals, Sequences

CONSTANTS
  Levels,      \* the values of max_level that are tried, each load choosing one
  MaxLoads,    \* bound: loads of the module between now and the end of time
  SharedLine   \* another device on the line makes our handler run at any time

ASSUME HarnessAssumption ==
  Levels \subseteq 1..5 /\ MaxLoads \in Nat \ {0} /\ SharedLine \in BOOLEAN

VARIABLES
  todo,     \* the steps probe or remove has still to take
  loaded,   \* the module is bound to the device
  level,    \* max_level of this load
  loads,    \* loads so far
  regs,     \* dev->regs: BAR0 is mapped
  tcm,      \* dev->tcm: BAR2 is mapped
  olmsg,    \* dev->olmsg_buf is allocated
  irq,      \* the handler is registered
  isr,      \* where bcm4360_isr is
  master,   \* PCI_COMMAND_MASTER
  window,   \* the core BAR0 shows
  ioctl,    \* ARM wrapper IOCTL: "clk" or "halt" (CPUHALT)
  reset,    \* ARM wrapper RESET_CTL
  intmask,  \* the PCIe core may raise its interrupt
  fw,       \* what of the firmware is in TCM
  shared    \* the load that wrote shared_info, 0 is none

loadVars == <<loaded, level, loads>>
hostVars == <<regs, tcm, olmsg, irq>>
armVars  == <<ioctl, reset>>
tcmVars  == <<fw, shared>>
vars == <<todo, loadVars, hostVars, isr, master, window, armVars, intmask, tcmVars>>

ArmRuns == ioctl = "clk" /\ reset = "out"
Images  == {"none", "partial", "mismatched", "whole"}

\* a cold device: the ARM is in reset, or runs its own boot code
Init ==
  /\ todo = <<>> /\ loaded = FALSE /\ level = 0 /\ loads = 0
  /\ regs = FALSE /\ tcm = FALSE /\ olmsg = FALSE /\ irq = FALSE /\ isr = "idle"
  /\ master = FALSE /\ window = "cc" /\ ioctl = "clk" /\ reset \in {"in", "out"}
  /\ intmask = "off" /\ fw = "none" /\ shared = 0
-----------------------------------------------------------------------------
(***************************************************************************)
(* The levels as lists of steps <<operation, operands>>.                   *)
(***************************************************************************)
Bp(core, reg, val) == <<<<"window", core>>, <<"write", core, reg, val>>>>
Do(op)             == <<<<op>>>>

ArmHalt ==
  Bp("arm", "ioctl", "clk") \o Bp("arm", "reset", "in") \o
  Bp("arm", "ioctl", "halt") \o Bp("arm", "reset", "out") \o Bp("arm", "ioctl", "halt")

\* arm_release gives up when RESET_CTL does not read back clear
ArmRelease ==
  Bp("arm", "reset", "out") \o <<<<"window", "arm">>, <<"check reset">>>> \o
  Bp("arm", "ioctl", "clk")

Mask   == Bp("pcie", "intmask", "off")
Unmask == Bp("pcie", "intmask", "on")

View(core) == <<<<"window", core>>>>

Level1 == Do("try") \o View("cc") \o View("pcie") \o View("cc") \o Do("set master")
Level2 == Do("map regs") \o View("cc") \o Do("alive") \o View("arm") \o View("cc")
Level3 ==
  Do("map tcm") \o Do("try") \o View("pcie") \o View("cc") \o ArmHalt \o Do("try") \o
  Do("download") \o Do("verify")

\* slip: bus mastering is left as level 1 set it
Level4_MasterOn ==
  Mask \o Do("olmsg") \o Do("shared_info") \o Do("request irq") \o
  ArmRelease \o Do("poll") \o ArmHalt \o Do("free irq") \o Do("pass")
\* slip: shared_info waits until the ARM runs
Level4_SharedLate ==
  Do("clear master") \o Mask \o Do("olmsg") \o Do("request irq") \o
  ArmRelease \o Do("shared_info") \o Do("poll") \o ArmHalt \o Do("free irq") \o Do("pass")

Level4 ==
  Do("clear master") \o Mask \o Do("olmsg") \o Do("shared_info") \o Do("request irq") \o
  ArmRelease \o Do("poll") \o ArmHalt \o Do("free irq") \o Do("pass")

Level5 ==
  Do("map tcm") \o ArmHalt \o Do("clear master") \o Mask \o View("cc") \o View("pcie") \o
  Do("request irq") \o
  Do("set master") \o Unmask \o ArmRelease \o Do("poll") \o Mask \o Do("clear master") \o
  Do("scan") \o ArmHalt \o Do("free irq") \o Do("pass")

\* bcm4360_probe: level 3 is left out on the way to level 5
Program(l) ==
  Do("clear master") \o Level1 \o
  (IF l >= 2 THEN Level2 ELSE <<>>) \o
  (IF l \in {3, 4} THEN Level3 ELSE <<>>) \o
  (IF l = 4 THEN Level4 ELSE <<>>) \o
  (IF l = 5 THEN Level5 ELSE <<>>)

\* slip: the ARM is not halted on the way out
Removal_NoHalt == Do("free olmsg") \o Do("unmap") \o Do("unbind")

Removal == (IF tcm THEN ArmHalt ELSE <<>>) \o Do("free olmsg") \o Do("unmap") \o Do("unbind")

At(op)  == todo # <<>> /\ Head(todo)[1] = op
Advance == todo' = Tail(todo)
Return  == todo' = <<>>
-----------------------------------------------------------------------------
(***************************************************************************)
(* One action for each operation of a step.                                *)
(***************************************************************************)
SetWindow ==
  /\ At("window") /\ Advance
  /\ window' = Head(todo)[2]
  /\ UNCHANGED <<loadVars, hostVars, isr, master, armVars, intmask, tcmVars>>

\* the access goes to the core the window shows by now: offsets 0x408 and 0x800
\* of the PCIe core, where the handler leaves it, touch nothing of this state
Write ==
  /\ At("write") /\ Advance
  /\ LET lands == window = Head(todo)[2]
         reg   == Head(todo)[3]
         val   == Head(todo)[4] IN
     /\ ioctl'   = IF lands /\ reg = "ioctl" THEN val ELSE ioctl
     /\ reset'   = IF lands /\ reg = "reset" THEN val ELSE reset
     /\ intmask' = IF lands /\ reg = "intmask" THEN val ELSE intmask
  /\ UNCHANGED <<loadVars, hostVars, isr, master, window, tcmVars>>

\* the read may come from another core; the loop gives up after 50 of them
CheckReset ==
  /\ At("check reset")
  /\ \/ ~(window = "arm" /\ reset = "in") /\ Advance
     \/ ~(window = "arm" /\ reset = "out") /\ todo' = SubSeq(todo, 4, Len(todo))
  /\ UNCHANGED <<loadVars, hostVars, isr, master, window, armVars, intmask, tcmVars>>

Try ==
  /\ At("try") /\ (Advance \/ Return)
  /\ UNCHANGED <<loadVars, hostVars, isr, master, window, armVars, intmask, tcmVars>>

SetMaster ==
  /\ At("set master") \/ At("clear master")
  /\ Advance /\ master' = At("set master")
  /\ UNCHANGED <<loadVars, hostVars, isr, window, armVars, intmask, tcmVars>>

MapRegs ==
  /\ At("map regs")
  /\ \/ Advance /\ regs' = TRUE
     \/ Return /\ UNCHANGED regs
  /\ UNCHANGED <<loadVars, tcm, olmsg, irq, isr, master, window, armVars, intmask, tcmVars>>

\* all ones from ChipCommon, twice: level 2 tries the PCIe core, unmaps and fails
Alive ==
  /\ At("alive")
  /\ \/ Advance /\ UNCHANGED <<regs, window>>
     \/ Return /\ regs' = FALSE /\ window' = "pcie"
  /\ UNCHANGED <<loadVars, tcm, olmsg, irq, isr, master, armVars, intmask, tcmVars>>

MapTcm ==
  /\ At("map tcm")
  /\ \/ Advance /\ tcm' = TRUE
     \/ ~tcm /\ Return /\ UNCHANGED tcm
  /\ UNCHANGED <<loadVars, regs, olmsg, irq, isr, master, window, armVars, intmask, tcmVars>>

Download ==
  /\ At("download") /\ Advance
  /\ fw' = "partial"
  /\ UNCHANGED <<loadVars, hostVars, isr, master, window, armVars, intmask, shared>>

\* slip: all ones read back do not end the download
Verify_Ignores ==
  /\ At("verify") /\ Advance
  /\ fw' \in {"whole", "mismatched", "partial"}
  /\ UNCHANGED <<loadVars, hostVars, isr, master, window, armVars, intmask, shared>>

\* each word is read back: all ones mean a dead device and end the level, any
\* other mismatch is only logged
Verify ==
  /\ At("verify")
  /\ \/ Advance /\ fw' \in {"whole", "mismatched"}
     \/ Return /\ UNCHANGED fw
  /\ UNCHANGED <<loadVars, hostVars, isr, master, window, armVars, intmask, shared>>

AllocOlmsg ==
  /\ At("olmsg")
  /\ \/ Advance /\ olmsg' = TRUE
     \/ Return /\ UNCHANGED olmsg
  /\ UNCHANGED <<loadVars, regs, tcm, irq, isr, master, window, armVars, intmask, tcmVars>>

WriteSharedInfo ==
  /\ At("shared_info") /\ Advance
  /\ shared' = loads
  /\ UNCHANGED <<loadVars, hostVars, isr, master, window, armVars, intmask, fw>>

RequestIrq ==
  /\ At("request irq")
  /\ \/ Advance /\ irq' = TRUE
     \/ Return /\ UNCHANGED irq
  /\ UNCHANGED <<loadVars, regs, tcm, olmsg, isr, master, window, armVars, intmask, tcmVars>>

\* waiting for fw_init_done, scanning shared_info, printing the verdict
Watch ==
  /\ \E op \in {"poll", "scan", "pass"} : At(op)
  /\ Advance
  /\ UNCHANGED <<loadVars, hostVars, isr, master, window, armVars, intmask, tcmVars>>

FreeIrq ==
  /\ At("free irq") /\ isr = "idle" /\ Advance
  /\ irq' = FALSE
  /\ UNCHANGED <<loadVars, regs, tcm, olmsg, isr, master, window, armVars, intmask, tcmVars>>

FreeOlmsg ==
  /\ At("free olmsg") /\ Advance
  /\ olmsg' = FALSE
  /\ UNCHANGED <<loadVars, regs, tcm, irq, isr, master, window, armVars, intmask, tcmVars>>

Unmap ==
  /\ At("unmap") /\ Advance
  /\ tcm' = FALSE /\ regs' = FALSE
  /\ UNCHANGED <<loadVars, olmsg, irq, isr, master, window, armVars, intmask, tcmVars>>

Unbind ==
  /\ At("unbind") /\ Advance
  /\ loaded' = FALSE
  /\ UNCHANGED <<level, loads, hostVars, isr, master, window, armVars, intmask, tcmVars>>

\* a load pci_enable_device refuses does not bind and changes nothing
Load ==
  /\ ~loaded /\ loads < MaxLoads
  /\ \E l \in Levels : level' = l /\ todo' = Program(l)
  /\ loaded' = TRUE /\ loads' = loads + 1
  /\ UNCHANGED <<hostVars, isr, master, window, armVars, intmask, tcmVars>>

\* probe always succeeds; rmmod comes later
Remove ==
  /\ loaded /\ todo = <<>>
  /\ todo' = Removal
  /\ UNCHANGED <<loadVars, hostVars, isr, master, window, armVars, intmask, tcmVars>>

PowerCycle ==
  /\ ~loaded /\ loads < MaxLoads
  /\ fw' = "none" /\ shared' = 0 /\ master' = FALSE /\ window' = "cc"
  /\ ioctl' = "clk" /\ reset' \in {"in", "out"} /\ intmask' = "off"
  /\ UNCHANGED <<todo, loadVars, hostVars, isr>>

\* bcm4360_isr: the window, INTSTATUS, and if it is not 0 the window again and
\* the acknowledgement, which no other register here feels
IsrEnter ==
  /\ irq /\ isr = "idle"
  /\ SharedLine \/ (intmask = "on" /\ ArmRuns)
  /\ isr' = "read" /\ window' = "pcie"
  /\ UNCHANGED <<todo, loadVars, hostVars, master, armVars, intmask, tcmVars>>

IsrRead ==
  /\ isr = "read"
  /\ \/ isr' = "idle" /\ UNCHANGED window
     \/ isr' = "ack" /\ window' = "pcie"
  /\ UNCHANGED <<todo, loadVars, hostVars, master, armVars, intmask, tcmVars>>

IsrAck ==
  /\ isr = "ack" /\ isr' = "idle"
  /\ UNCHANGED <<todo, loadVars, hostVars, master, window, armVars, intmask, tcmVars>>

Probing ==
  SetWindow \/ Write \/ CheckReset \/ Try \/ SetMaster \/ MapRegs \/ Alive \/ MapTcm
  \/ Download \/ Verify \/ AllocOlmsg \/ WriteSharedInfo \/ RequestIrq \/ Watch

Removing == FreeIrq \/ FreeOlmsg \/ Unmap \/ Unbind

Next ==
  Probing \/ Removing \/ Load \/ Remove \/ PowerCycle \/ IsrEnter \/ IsrRead \/ IsrAck

Spec == Init /\ [][Next]_vars
-----------------------------------------------------------------------------
(***************************************************************************)
(* Properties.                                                             *)
(***************************************************************************)
\* arm_halt has taken CPUHALT away and not yet asserted the reset
Unhalted ==
  \E i \in 1..2 : i <= Len(todo) /\ todo[i][1] = "write" /\ todo[i][3] = "reset" /\ todo[i][4] = "in"

\* Firmware the harness wrote runs with bus mastering on at level 5 only, although
\* level 1 turns it on in every load, and halts can miss the ARM at level 4: levels
\* 4 and 5 turn it off before the release and the halt.  arm_halt itself lets a
\* halted ARM go for the moment between its first two writes.
DmaNeedsLevel5 ==
  ArmRuns /\ master /\ fw # "none" => level = 5 \/ Unhalted

\* Unloading is safe after every level: the handler, which reads BAR0, has been given
\* back before remove unmaps it and frees dev; and no load leaves its firmware
\* running when it is gone, also when the halt at the end of level 4 or 5 went to
\* the wrong core: remove halts once more, after the handler is gone.
UnloadIsClean ==
  /\ irq => loaded /\ regs
  /\ ~loaded /\ fw # "none" => ~ArmRuns

\* Level 4 lets the ARM run only a firmware that is there to its last word, with the
\* shared_info of this load, whose olmsg buffer is there: never what is left of an
\* aborted download, nor the bus address an earlier load left in TCM.  This is what
\* the code does (bcm4360_test.c:1147-1163); the header of level4_arm_release_safe
\* says the opposite, "NO shared_info written" and "finds no valid shared_info" (1095-1097).
RunsWhatWasLoaded ==
  level = 4 /\ irq /\ ArmRuns => fw \in {"whole", "mismatched"} /\ shared = loads /\ olmsg

\* Level 4 ends with "PASS - ARM released and re-halted safely".
HaltSticks == level = 4 /\ At("pass") => ~ArmRuns
=============================================================================
