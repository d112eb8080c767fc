--------------------------- MODULE PcieLifecycle ---------------------------
(***************************************************************************)
(* What brcmf_pcie_probe, _setup, _reset, _remove and the power-management *)
(* callbacks build and take down, and in which order.                      *)
(*                                                                         *)
(* Three threads run lists of steps: "core" (probe, remove, suspend and    *)
(* resume, called by the driver core under the device lock), "cb" (the     *)
(* firmware callback brcmf_pcie_setup) and "work" (the bus_reset work).    *)
(* The interrupt handler, the console timer, debugfs and the user run      *)
(* beside them.  A step names the memory it touches; touching what has     *)
(* been freed, or freeing it again, is undefined behaviour, is recorded in *)
(* fault and ends the behaviour.                                           *)
(*                                                                         *)
(* Every probe makes a generation of its own of each allocation, so that a *)
(* stale pointer is never mistaken for its successor.                      *)
(***************************************************************************)
EXTENDS Naturals, Sequences

CONSTANTS
  MaxProbes,   \* bound: how often a device is probed
  Settings     \* what is explored, as <<is4360, probes, happens>>: whether the PCI device
               \* is the BCM4360, how often it is probed, and which events come: a step
               \* failing, the firmware crashing, the system suspending, the driver being
               \* unbound, and any of the last three overlapping a probe, setup, reset or
               \* removal that is under way

Events == {"failure", "crash", "suspend", "unbind", "overlap"}
ASSUME LifecycleAssumption ==
  /\ MaxProbes \in Nat \ {0}
  /\ Settings \subseteq BOOLEAN \X (1..MaxProbes) \X SUBSET Events

Gens    == 1..MaxProbes
Threads == {"core", "cb", "work"}
Res     == {"devinfo", "map", "ci", "busdev", "settings", "bus", "drvr", "fwreq", "fw",
            "olmsg", "rings", "scratch", "ringupd", "irq", "flowrings", "cfg80211"}
Nobody  == "none"

VARIABLES
  setting,    \* the setting of this behaviour
  todo,       \* the steps each thread has still to take
  gen,        \* the generation each thread works on
  lock,       \* the thread that holds the device lock
  bound,      \* the driver core considers the driver bound
  suspended,  \* the system sleeps
  probes,     \* generations made so far
  drvdata,    \* the generation the device's drvdata points to, 0 is NULL
  live,       \* allocations that exist, as <<resource, generation>>
  dangling,   \* freed allocations whose pointer is still tested and freed
  up,         \* generations whose devinfo->state is UP
  waitq,      \* generations whose mbdata_resp_wait is initialised
  armed,      \* generations whose bus_reset work is initialised
  timer,      \* generations whose console timer is active
  pending,    \* generations with a firmware request under way
  queued,     \* generations whose bus_reset work is queued
  isr,        \* the generation the interrupt thread works for, 0 when idle
  lost,       \* resources whose last reference was overwritten
  fault,      \* the first undefined behaviour, <<thread, step>>
  happened    \* history: what has happened so far

threadVars == <<todo, gen, lock>>
coreVars   == <<bound, suspended, probes, drvdata>>
memVars    == <<live, dangling, lost>>
flagVars   == <<up, waitq, armed, timer>>
asyncVars  == <<pending, queued, isr>>
vars == <<setting, threadVars, coreVars, memVars, flagVars, asyncVars, fault, happened>>

NoFault == <<"none", "none">>

Is4360  == setting[1]  \* setup stops after the download
Probes  == setting[2]
Happens == setting[3]

Init ==
  /\ setting \in Settings
  /\ todo = [t \in Threads |-> <<>>] /\ gen = [t \in Threads |-> 0] /\ lock = Nobody
  /\ bound = FALSE /\ suspended = FALSE /\ probes = 0 /\ drvdata = 0
  /\ live = {} /\ dangling = {} /\ lost = {}
  /\ up = {} /\ waitq = {} /\ armed = {} /\ timer = {}
  /\ pending = {} /\ queued = {} /\ isr = 0
  /\ fault = NoFault /\ happened = {}
-----------------------------------------------------------------------------
(***************************************************************************)
(* The lists of steps, in the order of the source.                         *)
(***************************************************************************)
ProbeSteps ==
  <<"devinfo", "chip_attach", "busdev", "settings", "bus", "set_drvdata", "drvr", "otp",
    "fwreq", "get_fw", "probed">>

\* the labels fail, fail_bus and fail_brcmf of brcmf_pcie_probe
FailProbe  == <<"rel_resource", "chip_detach", "free_settings", "free_busdev",
                "free_devinfo", "unprobed">>
FailBus    == <<"free_bus">> \o FailProbe
FailBrcmf  == <<"free_drvr">> \o FailBus

SetupSteps ==
  <<"entry", "attach", "raminfo", "download", "set_up", "rings", "scratch", "ringupd",
    "irq", "flowrings", "waitqueue", "cfg80211", "timer_on">>

SetupSteps4360 == <<"entry", "attach", "raminfo", "download">>

FailSetup == <<"console", "crashed", "release_driver">>

Detach == <<"bus_stop", "cfg_detach">>

\* what remove frees after brcmf_free, given where it gives the interrupt back
AfterFree(early, late) ==
  <<"free_drvr", "free_busdev", "free_flowrings", "free_bus">> \o early \o
  <<"rel_scratch", "rel_rings", "reset_device", "rel_resource">> \o late \o
  <<"chip_detach", "free_settings", "free_devinfo", "clear_drvdata">>

StopSteps == <<"console", "timer_off", "set_down", "intr_off">>
FreeIrq   == <<"rel_irq", "irq_sync">>

\* slips: the interrupt is given back after the mappings it reads; the handler is
\* waited for while it can still be entered; the state goes down too late to keep
\* debugfs from starting the timer again; the bus device goes before its users
RemoveSteps_IrqLast  == StopSteps \o Detach \o AfterFree(<<>>, FreeIrq)
RemoveSteps_WaitsFirst ==
  StopSteps \o Detach \o AfterFree(<<"irq_sync", "rel_irq">>, <<>>)
RemoveSteps_DownLate ==
  <<"console", "timer_off", "intr_off">> \o Detach \o <<"set_down">> \o AfterFree(FreeIrq, <<>>)
RemoveSteps_BusFirst ==
  StopSteps \o <<"free_busdev">> \o Detach \o AfterFree(FreeIrq, <<>>)

RemoveSteps == StopSteps \o Detach \o AfterFree(FreeIrq, <<>>)

\* slip: the short way out forgets what the download may have allocated
ShortRemoveSteps_KeepsMap ==
  Detach \o
  <<"free_drvr", "free_busdev", "free_bus",
    "chip_detach", "free_settings", "free_devinfo", "clear_drvdata">>

\* slip: devinfo goes before what it points to
ShortRemoveSteps_InfoFirst ==
  Detach \o
  <<"free_drvr", "free_busdev", "free_bus", "free_devinfo", "rel_resource",
    "chip_detach", "free_settings", "clear_drvdata">>

\* the short way out of a BCM4360 whose setup never reached UP
ShortRemoveSteps ==
  Detach \o
  <<"free_drvr", "free_busdev", "free_bus", "rel_resource",
    "chip_detach", "free_settings", "free_devinfo", "clear_drvdata">>

\* slip: the rings of the firmware that crashed stay
ResetSteps_KeepsRings ==
  <<"intr_off", "console">> \o Detach \o FreeIrq \o
  <<"rel_scratch", "reset_device", "fwreq", "get_fw">>

ResetSteps ==
  <<"intr_off", "console">> \o Detach \o FreeIrq \o
  <<"rel_scratch", "rel_rings", "reset_device", "fwreq", "get_fw">>

RemoveList(g) == IF Is4360 /\ g \notin up THEN ShortRemoveSteps ELSE RemoveSteps

\* what a step dereferences
Needs(s) ==
  CASE s \in {"console", "intr_off", "rel_irq", "leave_D3"} -> {"devinfo", "map"}
    [] s = "attach"                  -> {"bus", "busdev", "devinfo", "map", "ci", "fwreq"}
    [] s \in {"raminfo", "reset_device"} -> {"devinfo", "map"}
    [] s = "download"                -> {"devinfo", "map", "ci", "fw"}
    [] s \in {"rings", "scratch", "ringupd", "irq", "set_up"} -> {"devinfo", "map"}
    [] s \in {"flowrings", "waitqueue"} -> {"bus", "devinfo"}
    [] s = "cfg80211"                -> {"bus", "drvr", "devinfo", "map"}
    [] s = "crashed"                 -> {"bus", "drvr"}
    [] s \in {"bus_stop", "cfg_detach"} -> {"bus", "busdev", "devinfo"}
    [] s = "free_drvr"               -> {"bus"}
    [] s \in {"timer_off", "timer_on", "set_down", "rel_scratch", "rel_rings",
              "rel_resource", "chip_detach", "free_settings", "otp"} -> {"devinfo"}
    [] s = "enter_D3"                -> {"bus", "busdev", "devinfo", "map"}
    [] s = "fwreq"                   -> {"devinfo", "ci"}
    [] OTHER                         -> {}

At(t, s)    == todo[t] # <<>> /\ Head(todo[t]) = s
Has(g, R)   == \A r \in R : <<r, g>> \in live
Sound(t)    == Has(gen[t], Needs(Head(todo[t])))
Of(R, g)    == {<<r, g>> : r \in R}
MayFail     == "failure" \in Happens

Advance(t)  == todo' = [todo EXCEPT ![t] = Tail(@)]
Divert(t, list) == todo' = [todo EXCEPT ![t] = list]

Fail(t, s)  == fault' = <<t, s>> /\ UNCHANGED <<threadVars, coreVars, memVars, flagVars,
                                                asyncVars, happened>>
Noting(e)   == happened' = happened \union {e}

\* an event that comes (b) while another thread builds or takes down
MayOverlap(b) == b => "overlap" \in Happens
Overlap(b)    == {o \in {"overlap"} : b}
NotingOverlap(b) == MayOverlap(b) /\ happened' = happened \union Overlap(b)

\* a step finds what it dereferences gone
TouchFreed(t) ==
  /\ todo[t] # <<>> /\ ~Sound(t)
  /\ Fail(t, Head(todo[t]))
-----------------------------------------------------------------------------
(***************************************************************************)
(* Steps that only read or only free.                                      *)
(***************************************************************************)
ReadOnly == {"console", "intr_off", "reset_device"}

Look(t) ==
  /\ \E s \in ReadOnly : At(t, s)
  /\ Sound(t) /\ Advance(t)
  /\ UNCHANGED <<gen, lock, coreVars, memVars, flagVars, asyncVars, fault, happened>>

Frees(s) ==
  CASE s = "rel_resource"   -> {"olmsg", "map"}
    [] s = "rel_rings"      -> {"rings"}
    [] s = "chip_detach"    -> {"ci"}
    [] s = "free_settings"  -> {"settings"}
    [] s = "free_busdev"    -> {"busdev"}
    [] s = "free_flowrings" -> {"flowrings"}
    [] s = "free_bus"       -> {"bus"}
    [] s = "free_drvr"      -> {"drvr"}
    [] s = "free_devinfo"   -> {"devinfo"}
    [] s = "cfg_detach"     -> {"cfg80211"}
    [] OTHER                -> {}

\* a pointer that is NULL is passed over; one that has been freed is gone with
\* its owner or set to NULL, but for the two of rel_scratch
Free(t) ==
  /\ todo[t] # <<>> /\ Frees(Head(todo[t])) # {}
  /\ Sound(t) /\ Advance(t)
  /\ live' = live \ Of(Frees(Head(todo[t])), gen[t])
  /\ armed' = IF At(t, "free_drvr") THEN armed \ {gen[t]} ELSE armed
  /\ UNCHANGED <<gen, lock, coreVars, dangling, lost, up, waitq, timer, asyncVars, fault,
                 happened>>

Scratch == {"scratch", "ringupd"}

\* brcmf_pcie_release_scratchbuffers leaves both pointers as they are
ReleaseScratch(t) ==
  /\ At(t, "rel_scratch") /\ Sound(t)
  /\ IF Of(Scratch, gen[t]) \intersect dangling # {}
       THEN Fail(t, "rel_scratch")
       ELSE /\ Advance(t)
            /\ live' = live \ Of(Scratch, gen[t])
            /\ dangling' = dangling \union (Of(Scratch, gen[t]) \intersect live)
            /\ UNCHANGED <<gen, lock, coreVars, lost, flagVars, asyncVars, fault, happened>>

\* free_irq: no interrupt enters any more ...
ReleaseIrq(t) ==
  /\ At(t, "rel_irq") /\ Sound(t) /\ Advance(t)
  /\ live' = live \ {<<"irq", gen[t]>>}
  /\ UNCHANGED <<gen, lock, coreVars, dangling, lost, flagVars, asyncVars, fault, happened>>

\* ... and the handler that is inside is waited for, if there was one to free
IrqSync(t) ==
  /\ At(t, "irq_sync") /\ isr # gen[t] /\ Advance(t)
  /\ UNCHANGED <<gen, lock, coreVars, memVars, flagVars, asyncVars, fault, happened>>

\* brcmf_pcie_fwcon_timer(FALSE): from remove and from brcmf_pcie_down
TimerOff(t) ==
  /\ At(t, "timer_off") \/ At(t, "bus_stop")
  /\ Sound(t) /\ Advance(t)
  /\ timer' = timer \ {gen[t]}
  /\ UNCHANGED <<gen, lock, coreVars, memVars, up, waitq, armed, asyncVars, fault, happened>>

SetDown(t) ==
  /\ At(t, "set_down") /\ Sound(t) /\ Advance(t)
  /\ up' = up \ {gen[t]}
  /\ UNCHANGED <<gen, lock, coreVars, memVars, waitq, armed, timer, asyncVars, fault,
                 happened>>

ClearDrvdata(t) ==
  /\ At(t, "clear_drvdata") /\ Advance(t)
  /\ drvdata' = 0
  /\ UNCHANGED <<gen, lock, bound, suspended, probes, memVars, flagVars, asyncVars, fault,
                 happened>>

TakeDown(t) ==
  Look(t) \/ Free(t) \/ ReleaseScratch(t) \/ ReleaseIrq(t) \/ IrqSync(t) \/ TimerOff(t) \/ SetDown(t)
  \/ ClearDrvdata(t)
-----------------------------------------------------------------------------
(***************************************************************************)
(* Steps that take something and may not get it.                           *)
(***************************************************************************)
Taken == {"devinfo", "busdev", "settings", "bus", "drvr", "fwreq", "rings", "irq", "flowrings"}

OnFailure(t, s) ==
  CASE s = "devinfo"                        -> <<"unprobed">>
    [] s \in {"busdev", "settings", "bus"}  -> FailProbe
    [] s = "drvr"                           -> FailBus
    [] s = "fwreq" /\ t = "core"            -> FailBrcmf
    [] s = "fwreq" /\ t = "work"            -> <<>>
    [] OTHER                                -> FailSetup

Take(t) ==
  /\ \E s \in Taken : At(t, s)
  /\ Sound(t)
  /\ LET s == Head(todo[t]) IN
     \/ /\ Advance(t)
        /\ live' = live \union {<<s, gen[t]>>}
        /\ lost' = lost \union ({s} \intersect {r[1] : r \in live \intersect Of({s}, gen[t])})
        /\ UNCHANGED happened
     \/ /\ MayFail /\ Noting("failure")
        /\ Divert(t, OnFailure(t, s))
        /\ UNCHANGED <<live, lost>>
  /\ UNCHANGED <<gen, lock, coreVars, dangling, flagVars, asyncVars, fault>>

\* brcmf_chip_attach maps the BARs first (brcmf_pcie_get_resource) and may fail
\* before or after that
ChipAttach(t) ==
  /\ At(t, "chip_attach")
  /\ \/ /\ Advance(t) /\ live' = live \union Of({"map", "ci"}, gen[t])
        /\ UNCHANGED happened
     \/ /\ MayFail /\ Noting("failure")
        /\ Divert(t, FailProbe)
        /\ live' \in {live, live \union Of({"map"}, gen[t])}
  /\ UNCHANGED <<gen, lock, coreVars, dangling, lost, flagVars, asyncVars, fault>>

SetDrvdata(t) ==
  /\ At(t, "set_drvdata") /\ Advance(t)
  /\ drvdata' = gen[t]
  /\ UNCHANGED <<gen, lock, bound, suspended, probes, memVars, flagVars, asyncVars, fault,
                 happened>>

\* the OTP is not read on a BCM4360
ReadOtp(t) ==
  /\ At(t, "otp")
  /\ \/ Advance(t) /\ UNCHANGED happened
     \/ MayFail /\ ~Is4360 /\ Noting("failure") /\ Divert(t, FailBrcmf)
  /\ UNCHANGED <<gen, lock, coreVars, memVars, flagVars, asyncVars, fault>>

\* brcmf_fw_get_firmwares: the callback comes later.  A second request while
\* the first is out would have two callbacks set up one device.
GetFirmwares(t) ==
  /\ At(t, "get_fw")
  /\ \/ /\ gen[t] \notin pending
        /\ ~(todo["cb"] # <<>> /\ gen["cb"] = gen[t])
        /\ Advance(t)
        /\ pending' = pending \union {gen[t]}
        /\ UNCHANGED <<gen, lock, coreVars, memVars, flagVars, queued, isr, fault, happened>>
     \/ /\ gen[t] \in pending \/ (todo["cb"] # <<>> /\ gen["cb"] = gen[t])
        /\ Fail(t, "get_fw")
     \/ /\ MayFail /\ Noting("failure")
        /\ Divert(t, IF t = "core" THEN FailBrcmf ELSE <<>>)
        /\ live' = live \ {<<"fwreq", gen[t]>>}
        /\ UNCHANGED <<gen, lock, coreVars, dangling, lost, flagVars, asyncVars, fault>>

Probed(t) ==
  /\ At(t, "probed") /\ Advance(t)
  /\ bound' = TRUE /\ lock' = Nobody
  /\ UNCHANGED <<gen, suspended, probes, drvdata, memVars, flagVars, asyncVars, fault,
                 happened>>

\* a probe that fails for the driver core leaves no drvdata; one that fails for
\* brcmf_pcie_pm_leave_D3 leaves the driver bound and drvdata as it was
Unprobed(t) ==
  /\ At(t, "unprobed") /\ Advance(t)
  /\ lock' = Nobody
  /\ drvdata' = IF bound THEN drvdata ELSE 0
  /\ UNCHANGED <<gen, bound, suspended, probes, memVars, flagVars, asyncVars, fault, happened>>

Unbound(t) ==
  /\ At(t, "unbound") /\ Advance(t)
  /\ bound' = FALSE /\ lock' = Nobody
  /\ UNCHANGED <<gen, suspended, probes, drvdata, memVars, flagVars, asyncVars, fault,
                 happened>>

NewGeneration(list) ==
  /\ probes < Probes /\ probes' = probes + 1
  /\ gen' = [gen EXCEPT !["core"] = probes + 1]
  /\ Divert("core", list)

Reprobe ==
  /\ At("core", "reprobe")
  /\ NewGeneration(ProbeSteps)
  /\ UNCHANGED <<lock, bound, suspended, drvdata, memVars, flagVars, asyncVars, fault, happened>>

Probe ==
  \/ \E t \in {"core", "work"} : Take(t) \/ GetFirmwares(t)
  \/ ChipAttach("core") \/ SetDrvdata("core") \/ ReadOtp("core")
  \/ Probed("core") \/ Unprobed("core") \/ Reprobe
  \/ \E t \in {"core", "cb"} : Unbound(t)
-----------------------------------------------------------------------------
(***************************************************************************)
(* brcmf_pcie_setup.                                                       *)
(***************************************************************************)
SetupEntry(g) ==
  /\ g \in pending /\ todo["cb"] = <<>>
  /\ IF drvdata # g \/ ~Has(g, {"bus", "busdev", "devinfo", "map"})
       THEN Fail("cb", "entry")
       ELSE /\ pending' = pending \ {g}
            /\ gen' = [gen EXCEPT !["cb"] = g]
            /\ \/ /\ Divert("cb", Tail(IF Is4360 THEN SetupSteps4360 ELSE SetupSteps))
                  /\ UNCHANGED <<live, happened>>
               \/ /\ MayFail /\ Noting("failure")   \* no firmware: the loader frees fwreq
                  /\ Divert("cb", FailSetup)
                  /\ live' = live \ {<<"fwreq", g>>}
            /\ UNCHANGED <<lock, coreVars, dangling, lost, flagVars, queued, isr, fault>>

\* brcmf_pcie_attach, and the firmware out of the request
SetupAttach ==
  /\ At("cb", "attach") /\ Sound("cb") /\ Advance("cb")
  /\ live' = (live \ {<<"fwreq", gen["cb"]>>}) \union {<<"fw", gen["cb"]>>}
  /\ UNCHANGED <<gen, lock, coreVars, dangling, lost, flagVars, asyncVars, fault, happened>>

SetupRaminfo ==
  /\ At("cb", "raminfo") /\ Sound("cb")
  /\ \/ Advance("cb") /\ UNCHANGED <<live, happened>>
     \/ /\ MayFail /\ Noting("failure")
        /\ Divert("cb", FailSetup)
        /\ live' = live \ {<<"fw", gen["cb"]>>}
  /\ UNCHANGED <<gen, lock, coreVars, dangling, lost, flagVars, asyncVars, fault>>

\* brcmf_pcie_download_fw_nvram releases firmware and NVRAM on every path.  On a
\* BCM4360 it may allocate the olmsg buffer, and setup returns after it.
SetupDownload ==
  /\ At("cb", "download") /\ Sound("cb")
  /\ \/ /\ Advance("cb") /\ UNCHANGED happened
        /\ LET rest == live \ {<<"fw", gen["cb"]>>} IN
           live' \in {rest} \union (IF Is4360 THEN {rest \union Of({"olmsg"}, gen["cb"])} ELSE {})
     \/ /\ MayFail /\ ~Is4360 /\ Noting("failure")
        /\ Divert("cb", FailSetup)
        /\ live' = live \ {<<"fw", gen["cb"]>>}
  /\ UNCHANGED <<gen, lock, coreVars, dangling, lost, flagVars, asyncVars, fault>>

SetUp ==
  /\ At("cb", "set_up") /\ Sound("cb") /\ Advance("cb")
  /\ up' = up \union {gen["cb"]}
  /\ UNCHANGED <<gen, lock, coreVars, memVars, waitq, armed, timer, asyncVars, fault, happened>>

\* brcmf_pcie_init_scratchbuffers.  The allocation overwrites its pointer, also
\* with NULL; on failure both pointers are freed as they stand.
InitScratch(s) ==
  /\ At("cb", s) /\ Sound("cb")
  /\ LET mine == {<<s, gen["cb"]>>}
         old  == Of(Scratch, gen["cb"]) \ mine IN
     \/ /\ Advance("cb")
        /\ live' = live \union mine
        /\ dangling' = dangling \ mine
        /\ UNCHANGED <<gen, lock, coreVars, lost, flagVars, asyncVars, fault, happened>>
     \/ /\ MayFail /\ old \intersect dangling = {}
        /\ Noting("failure") /\ Divert("cb", FailSetup)
        /\ live' = live \ old
        /\ dangling' = (dangling \ mine) \union (old \intersect live)
        /\ UNCHANGED <<gen, lock, coreVars, lost, flagVars, asyncVars, fault>>
     \/ /\ MayFail /\ old \intersect dangling # {}
        /\ fault' = <<"cb", s>> /\ Noting("failure")
        /\ UNCHANGED <<threadVars, coreVars, memVars, flagVars, asyncVars>>

InitWaitqueue ==
  /\ At("cb", "waitqueue") /\ Sound("cb") /\ Advance("cb")
  /\ waitq' = waitq \union {gen["cb"]}
  /\ UNCHANGED <<gen, lock, coreVars, memVars, up, armed, timer, asyncVars, fault, happened>>

\* brcmf_attach: everything the rest of the driver registers, and at the end
\* the bus_reset work, which must not be queued when it is initialised anew
CoreAttach ==
  /\ At("cb", "cfg80211") /\ Sound("cb")
  /\ \/ /\ gen["cb"] \notin queued
        /\ Advance("cb")
        /\ live' = live \union {<<"cfg80211", gen["cb"]>>}
        /\ armed' = armed \union {gen["cb"]}
        /\ UNCHANGED <<gen, lock, coreVars, dangling, lost, up, waitq, timer, asyncVars, fault,
                       happened>>
     \/ /\ gen["cb"] \in queued
        /\ Fail("cb", "cfg80211")
     \/ /\ MayFail /\ Noting("failure")
        /\ Divert("cb", Detach \o FailSetup)
        /\ UNCHANGED <<gen, lock, coreVars, memVars, flagVars, asyncVars, fault>>

TimerOn ==
  /\ At("cb", "timer_on") /\ Sound("cb") /\ Advance("cb")
  /\ timer' \in {timer, timer \union ({gen["cb"]} \intersect up)}
  /\ UNCHANGED <<gen, lock, coreVars, memVars, up, waitq, armed, asyncVars, fault, happened>>

\* brcmf_fw_crashed schedules the reset once the work is initialised
FwCrashed ==
  /\ At("cb", "crashed") /\ Sound("cb") /\ Advance("cb")
  /\ queued' = queued \union ({gen["cb"]} \intersect armed)
  /\ UNCHANGED <<gen, lock, coreVars, memVars, flagVars, pending, isr, fault, happened>>

Removal(g) == IF g = 0 THEN <<"unbound">> ELSE RemoveList(g) \o <<"unbound">>

\* device_release_driver waits for the device lock
ReleaseDriver ==
  /\ At("cb", "release_driver")
  /\ lock = Nobody
  /\ IF bound
       THEN /\ lock' = "cb"
            /\ gen' = [gen EXCEPT !["cb"] = drvdata]
            /\ Divert("cb", Removal(drvdata))
       ELSE /\ Advance("cb")
            /\ UNCHANGED <<gen, lock>>
  /\ UNCHANGED <<coreVars, memVars, flagVars, asyncVars, fault, happened>>

Setup ==
  \/ \E g \in Gens : SetupEntry(g)
  \/ SetupAttach \/ SetupRaminfo \/ SetupDownload \/ SetUp \/ Take("cb")
  \/ \E s \in Scratch : InitScratch(s)
  \/ InitWaitqueue \/ CoreAttach \/ TimerOn \/ FwCrashed \/ ReleaseDriver
-----------------------------------------------------------------------------
(***************************************************************************)
(* What starts the threads.                                                *)
(***************************************************************************)
Free4Core == lock = Nobody /\ todo["core"] = <<>>

Bind ==
  /\ Free4Core /\ ~bound /\ ~suspended
  /\ NewGeneration(ProbeSteps)
  /\ lock' = "core"
  /\ UNCHANGED <<bound, suspended, drvdata, memVars, flagVars, asyncVars, fault, happened>>

\* something is under way that an event can overlap; Bind excludes "core" itself
Building == pending # {} \/ \E t \in Threads : todo[t] # <<>>
Busy     == Building \/ queued # {}

Unbind ==
  /\ "unbind" \in Happens
  /\ Free4Core /\ bound /\ ~suspended
  /\ IF drvdata # 0 /\ ~Has(drvdata, {"bus", "busdev", "devinfo"})
       THEN Fail("core", "remove")
       ELSE /\ lock' = "core"
            /\ gen' = [gen EXCEPT !["core"] = drvdata]
            /\ Divert("core", Removal(drvdata))
            /\ NotingOverlap(Busy)
            /\ UNCHANGED <<coreVars, memVars, flagVars, asyncVars, fault>>

\* brcmf_pcie_pm_enter_D3; the handshake itself is PcieMailbox
Suspend ==
  /\ "suspend" \in Happens
  /\ Free4Core /\ bound /\ ~suspended
  /\ IF drvdata = 0 \/ ~Has(drvdata, Needs("enter_D3")) \/ drvdata \notin waitq
       THEN /\ fault' = <<"core", "enter_D3">>
            /\ UNCHANGED <<threadVars, coreVars, memVars, flagVars, asyncVars>>
       ELSE /\ timer' = timer \ {drvdata}
            /\ \/ up' = up \ {drvdata} /\ suspended' = TRUE
               \/ UNCHANGED <<up, suspended>>
            /\ UNCHANGED <<threadVars, bound, probes, drvdata, memVars, waitq, armed, asyncVars,
                           fault>>
  /\ NotingOverlap(Busy)

\* brcmf_pcie_pm_leave_D3: the device is still up, or everything anew
ResumeHot ==
  /\ suspended /\ Free4Core /\ bound
  /\ Has(drvdata, Needs("leave_D3"))
  /\ up' = up \union {drvdata}
  /\ timer' \in {timer, timer \union {drvdata}}
  /\ suspended' = FALSE
  /\ UNCHANGED <<threadVars, bound, probes, drvdata, memVars, waitq, armed, asyncVars, fault,
                 happened>>

ResumeCold ==
  /\ suspended /\ Free4Core /\ bound
  /\ probes < Probes
  /\ Has(drvdata, Needs("leave_D3"))
  /\ lock' = "core" /\ suspended' = FALSE
  /\ gen' = [gen EXCEPT !["core"] = drvdata]
  /\ live' = live \ {<<"ci", drvdata>>}
  /\ Divert("core", RemoveList(drvdata) \o <<"reprobe">>)
  /\ NotingOverlap(Busy)
  /\ UNCHANGED <<bound, probes, drvdata, dangling, lost, flagVars, asyncVars, fault>>

ResumeUnbound ==
  /\ suspended /\ Free4Core /\ ~bound
  /\ suspended' = FALSE
  /\ UNCHANGED <<threadVars, bound, probes, drvdata, memVars, flagVars, asyncVars, fault,
                 happened>>

\* brcmf_core_bus_reset
ResetWork(g) ==
  /\ g \in queued /\ todo["work"] = <<>>
  /\ IF ~Has(g, {"drvr", "bus", "busdev"})
       THEN Fail("work", "bus_reset")
       ELSE /\ NotingOverlap(Building)
            /\ queued' = queued \ {g}
            /\ gen' = [gen EXCEPT !["work"] = g]
            /\ Divert("work", ResetSteps)
            /\ UNCHANGED <<lock, coreVars, memVars, flagVars, pending, isr, fault>>

IsrBegin(g) ==
  /\ <<"irq", g>> \in live /\ isr = 0
  /\ isr' = g
  /\ UNCHANGED <<threadVars, coreVars, memVars, flagVars, pending, queued, fault, happened>>

IsrEnd ==
  /\ isr # 0
  /\ IF ~Has(isr, {"devinfo", "map"})
       THEN Fail("isr", "isr_thread")
       ELSE /\ isr' = 0
            /\ UNCHANGED <<threadVars, coreVars, memVars, flagVars, pending, queued, fault,
                           happened>>

\* BRCMF_D2H_DEV_FWHALT
IsrCrash ==
  /\ "crash" \in Happens
  /\ isr # 0
  /\ MayOverlap(Building)
  /\ happened' = happened \union {"crash"} \union Overlap(Building)
  /\ IF ~Has(isr, {"bus", "drvr"})
       THEN fault' = <<"isr", "fw_crashed">> /\ UNCHANGED <<isr, queued>>
       ELSE /\ isr' = 0
            /\ queued' = queued \union ({isr} \intersect armed)
            /\ UNCHANGED fault
  /\ UNCHANGED <<threadVars, coreVars, memVars, flagVars, pending>>

TimerFires(g) ==
  /\ g \in timer /\ ~Has(g, {"devinfo", "map"})
  /\ Fail("timer", "fwcon")

\* brcmf_pcie_console_interval_set, through debugfs while that exists
ConsoleInterval(g) ==
  /\ <<"cfg80211", g>> \in live
  /\ timer' \in {timer \ {g}, timer \union ({g} \intersect up)}
  /\ timer' # timer
  /\ UNCHANGED <<threadVars, coreVars, memVars, up, waitq, armed, asyncVars, fault, happened>>

\* bus_reset_write, through debugfs while that exists
DebugfsReset(g) ==
  /\ "crash" \in Happens
  /\ <<"cfg80211", g>> \in live /\ g \in armed /\ g \notin queued
  /\ queued' = queued \union {g}
  /\ MayOverlap(Building)
  /\ happened' = happened \union {"crash"} \union Overlap(Building)
  /\ UNCHANGED <<threadVars, coreVars, memVars, flagVars, pending, isr, fault>>

Starts ==
  \/ Bind \/ Unbind \/ Suspend \/ ResumeHot \/ ResumeCold \/ ResumeUnbound
  \/ \E g \in Gens : ResetWork(g) \/ IsrBegin(g) \/ TimerFires(g) \/ ConsoleInterval(g)
                     \/ DebugfsReset(g)
  \/ IsrEnd \/ IsrCrash

ThreadSteps == (\E t \in Threads : TakeDown(t) \/ TouchFreed(t)) \/ Probe \/ Setup

Next == fault = NoFault /\ (ThreadSteps \/ Starts) /\ UNCHANGED setting

Fairness ==
  /\ WF_vars(fault = NoFault /\ ThreadSteps /\ UNCHANGED setting)
  /\ WF_vars(fault = NoFault /\ IsrEnd /\ UNCHANGED setting)

Spec == Init /\ [][Next]_vars
FairSpec == Spec /\ Fairness
-----------------------------------------------------------------------------
(***************************************************************************)
(* Properties.                                                             *)
(***************************************************************************)
Serial == "overlap" \notin happened

\* As long as nothing overlaps a probe, setup, reset or removal, undefined
\* behaviour needs a step that failed: every pointer the take-down lists follow
\* (RemoveSteps, ResetSteps, brcmf_detach) still has its target, also over resets,
\* cold resumes and a console timer that debugfs restarts.  The one exception is
\* the suspend of a BCM4360, whose setup returns before init_waitqueue_head.
FaultsHaveCause ==
  fault # NoFault =>
    \/ happened \intersect {"failure", "overlap"} # {}
    \/ Is4360 /\ fault = <<"core", "enter_D3">>

\* While the interrupt is requested, what brcmf_pcie_isr_thread reads exists: the
\* request comes after the mappings and every way down gives it back before them.
HandlerHasItsData ==
  Serial => \A g \in Gens : <<"irq", g>> \in live => Has(g, {"devinfo", "map"})

\* A reset has never run: the firmware has not crashed, or it is the BCM4360's.
NoReset == Is4360 \/ "crash" \notin happened

\* A device nobody is bound to and nobody works on holds nothing, whichever step
\* failed on the way and however often it was reset.  Without a reset no allocation
\* is ever overwritten, whatever overlaps; with resets, as long as nothing overlaps
\* them, only bus->msgbuf->flowrings, which a reset does not free.
NothingLeaks ==
  /\ Serial /\ fault = NoFault /\ ~bound /\ pending = {} /\ (\A t \in Threads : todo[t] = <<>>)
       => live = {}
  /\ Serial => lost \subseteq {"flowrings"}
  /\ NoReset => lost = {}

\* brcmf_pcie_remove that comes while setup runs is itself safe unless a step
\* failed or a reset may be under way: what it takes down is there, or passed over.
\* (It is setup, the handler setup installs and the timer it starts that then work
\* on freed memory.)
RemoverIsSafe ==
  fault[1] = "core" /\ "failure" \notin happened /\ NoReset => fault[2] = "enter_D3"

\* A setup that failed, at whatever step, ends with the driver unbound and its
\* callback finished, unless undefined behaviour comes first: it must get the
\* device lock that probe, remove and resume hold.
FailedSetupUnbinds ==
  At("cb", "release_driver") ~> (todo["cb"] = <<>> \/ fault # NoFault)
=============================================================================
