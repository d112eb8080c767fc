---------------------------- MODULE PcieMailbox ----------------------------
(***************************************************************************)
(* The mailbox interrupt of brcmfmac/pcie.c and the power-management       *)
(* handshake that travels over it.                                         *)
(*                                                                         *)
(* Four parties interleave:                                                *)
(*   - the hard interrupt handler   brcmf_pcie_quick_check_isr,            *)
(*   - the interrupt thread         brcmf_pcie_isr_thread,                 *)
(*   - the control thread           brcmf_pcie_setup, _pm_enter_D3,        *)
(*                                  _pm_leave_D3, _reset and _remove,      *)
(*   - the device's firmware, which is not in the repository and is        *)
(*     modelled from what the driver writes to it and expects of it.       *)
(*                                                                         *)
(* The word dtoh (shared->dtoh_mb_data_addr) carries requests from the     *)
(* device, the word htod (shared->htod_mb_data_addr) messages to it; the   *)
(* register mailboxint says that something happened and mailboxmask        *)
(* whether that raises the interrupt line.                                 *)
(***************************************************************************)
EXTENDS Integers

CONSTANTS
  SharedLine,   \* the interrupt line is shared: other devices invoke our handler
  SlowDevice,   \* a live device may exceed the driver's waits (1 s and 2 s)
  OldPcieCore,  \* core->rev <= 13: a doorbell can be missed, it is rung twice
  HostRdy,      \* the firmware waits for BRCMF_PCIE_SHARED_HOSTRDY_DB1
  FwDoes        \* what the firmware does of its own accord

ASSUME ConfigAssumption ==
  /\ SharedLine \in BOOLEAN
  /\ SlowDevice \in BOOLEAN
  /\ OldPcieCore \in BOOLEAN
  /\ HostRdy \in BOOLEAN
  /\ FwDoes \subseteq {"sleep", "halt", "complete"}

D2HFlags == {"DS_ENTER_REQ", "DS_EXIT_NOTE", "D3_ACK", "FWHALT"}
H2DMsgs  == {"DS_ACK", "D3_INFORM", "D0_INFORM"}
None     == "none"
IntBits  == {"FN0", "D2H_DB"}
Senders  == {"ctl", "isr"}      \* the two callers of brcmf_pcie_send_mb_data

VARIABLES
  (* device registers and shared memory *)
  mailboxint,   \* set of latched interrupt bits, write one to clear
  mailboxmask,  \* TRUE: both bits are let through
  dtoh,         \* set of flags in the device-to-host word
  htod,         \* the message in the host-to-device word, or None
  bell,         \* doorbells (SBMBX) the device has not seen yet, 0..2
  (* the device *)
  dev,          \* power and protocol state of the firmware
  raising,      \* the firmware wrote dtoh and has yet to set FN0
  ready,        \* the host rang H2D_MAILBOX_1 (brcmf_pcie_hostready)
  rx,           \* completions wait in a device-to-host ring
  (* the driver *)
  irq,          \* the handler is installed
  state,        \* devinfo->state
  bus,          \* bus->state
  completed,    \* devinfo->mbdata_completed
  armed,        \* drvr->bus_reset has been initialised
  crashed,      \* brcmf_fw_crashed ran and the reset work is queued
  hard,         \* where quick_check_isr is
  wake,         \* IRQ_WAKE_THREAD was returned and the thread has not begun
  pc,           \* where isr_thread is
  status,       \* isr_thread's local copy of mailboxint
  msg,          \* handle_mb_data's local dtoh_mb_data
  ctl,          \* where the control thread is
  send,         \* each sender's place in brcmf_pcie_send_mb_data
  (* history *)
  timedOut,     \* a suspend has timed out since the last probe
  lateDb        \* a D2H_DB for the waiting completions was acknowledged while state was DOWN

devVars  == <<dev, raising, ready, rx>>
regVars  == <<mailboxint, mailboxmask, dtoh, htod, bell>>
isrVars  == <<hard, wake, pc, status, msg>>
hostVars == <<irq, state, bus, completed, armed, crashed, ctl>>
vars == <<regVars, devVars, isrVars, hostVars, send, timedOut, lateDb>>

Idle == [step |-> "idle", msg |-> None]

HardSteps == {"idle", "mask"}
IsrSteps  == {"idle", "w1c", "mb", "mbclear", "sending", "acks", "db", "ckstate", "enable"}
DevStates == {"off", "D0", "dsreq", "ds", "d3pend", "D3", "dead"}
SetupSteps   == {"reqirq", "install", "preinit", "hostready"}
SuspendSteps == {"d3send", "d3wait", "d3check"}
ResumeSteps  == {"d0send", "hotresume", "unmask"}
ReleaseSteps == {"mask0", "detach", "relmask", "unhook", "drain", "leftover"}
CtlSteps == {"off", "run", "suspended", "leaveD3"}
            \union SetupSteps \union SuspendSteps \union ResumeSteps \union ReleaseSteps

RegType ==
  /\ mailboxint \in SUBSET IntBits
  /\ mailboxmask \in BOOLEAN
  /\ dtoh \in SUBSET D2HFlags
  /\ htod \in H2DMsgs \union {None}
  /\ bell \in 0..2

DevType ==
  dev \in DevStates /\ raising \in BOOLEAN /\ ready \in BOOLEAN /\ rx \in BOOLEAN

IsrType ==
  /\ hard \in HardSteps /\ wake \in BOOLEAN /\ pc \in IsrSteps
  /\ status \in SUBSET IntBits /\ msg \in SUBSET D2HFlags

HostType ==
  /\ irq \in BOOLEAN /\ state \in {"UP", "DOWN"} /\ bus \in {"UP", "DOWN"}
  /\ completed \in BOOLEAN /\ armed \in BOOLEAN /\ crashed \in BOOLEAN
  /\ ctl \in CtlSteps

SendType ==
  send \in [Senders -> [step : {"idle", "poll", "write", "bell"},
                        msg : H2DMsgs \union {None}]]

HistoryType == timedOut \in BOOLEAN /\ lateDb \in BOOLEAN

\* Every variable has its type.
TypeOK == RegType /\ DevType /\ IsrType /\ HostType /\ SendType /\ HistoryType

Init ==
  /\ mailboxint = {} /\ mailboxmask = FALSE
  /\ dtoh = {} /\ htod = None /\ bell = 0
  /\ dev = "off" /\ raising = FALSE /\ ready = FALSE /\ rx = FALSE
  /\ irq = FALSE /\ state = "DOWN" /\ bus = "DOWN"
  /\ completed = FALSE /\ armed = FALSE /\ crashed = FALSE
  /\ hard = "idle" /\ wake = FALSE /\ pc = "idle"
  /\ status = {} /\ msg = {}
  /\ ctl = "off" /\ send = [s \in Senders |-> Idle]
  /\ timedOut = FALSE /\ lateDb = FALSE
-----------------------------------------------------------------------------
(***************************************************************************)
(* brcmf_pcie_send_mb_data, called by the interrupt thread (DS_ACK) and by *)
(* the control thread (D3_INFORM, D0_INFORM) with no lock between them:    *)
(* wait for the word to be free, write it, ring.  The hundred polls of ten *)
(* milliseconds are a wait that ends when the word is free or that gives   *)
(* up; a device that keeps to its deadlines is given up on only when dead. *)
(***************************************************************************)
Unanswering == dev \in {"dead", "off"}

SendPoll(s) ==
  /\ send[s].step = "poll"
  /\ htod = None
  /\ send' = [send EXCEPT ![s].step = "write"]

SendWrite(s) ==
  /\ send[s].step = "write"
  /\ htod' = send[s].msg
  /\ send' = [send EXCEPT ![s].step = "bell"]

\* slip: every write of SBMBX counted as a doorbell of its own
RingDoorbell_Counted == bell + (IF OldPcieCore THEN 2 ELSE 1)

\* pci_write_config_dword(SBMBX, 1), twice on an old core
RingDoorbell == IF OldPcieCore THEN 2 ELSE IF bell = 2 THEN 2 ELSE 1

SendBell(s) ==
  /\ send[s].step = "bell"
  /\ bell' = RingDoorbell
  /\ send' = [send EXCEPT ![s] = Idle]

\* slip: the polling loop has no limit
SendGiveUp_Never(s) == FALSE /\ send' = [send EXCEPT ![s] = Idle]

SendGiveUp(s) ==
  /\ send[s].step = "poll"
  /\ htod # None
  /\ SlowDevice \/ Unanswering
  /\ send' = [send EXCEPT ![s] = Idle]

\* the two middle steps, the same for both callers
SendStep(s) ==
  /\ \/ SendPoll(s) /\ UNCHANGED htod
     \/ SendWrite(s)
  /\ UNCHANGED <<mailboxint, mailboxmask, dtoh, bell, devVars, isrVars, hostVars,
                 timedOut, lateDb>>
-----------------------------------------------------------------------------
(***************************************************************************)
(* The hard handler: it reads mailboxint, and if that is not zero masks    *)
(* the interrupt and asks for the thread.  On a shared line it also runs   *)
(* for other devices' interrupts, whatever mailboxmask is.                 *)
(***************************************************************************)
QuickCheckIsr ==
  /\ irq /\ hard = "idle"
  /\ mailboxint # {}
  /\ mailboxmask \/ SharedLine
  /\ hard' = "mask"
  /\ UNCHANGED <<regVars, devVars, wake, pc, status, msg, hostVars, send, timedOut, lateDb>>

QuickCheckMask ==
  /\ hard = "mask"
  /\ mailboxmask' = FALSE
  /\ wake' = TRUE
  /\ hard' = "idle"
  /\ UNCHANGED <<mailboxint, dtoh, htod, bell, devVars, pc, status, msg, hostVars, send,
                 timedOut, lateDb>>

(***************************************************************************)
(* The interrupt thread, one action per access to shared state.            *)
(***************************************************************************)
\* slip: nothing to do, return without enabling the interrupt again
IsrReadStatus_Returns ==
  /\ wake /\ pc = "idle"
  /\ wake' = FALSE
  /\ status' = mailboxint
  /\ pc' = IF mailboxint = {} THEN "idle" ELSE "w1c"
  /\ UNCHANGED <<regVars, devVars, hard, msg, hostVars, send, timedOut, lateDb>>

IsrReadStatus ==
  /\ wake /\ pc = "idle"
  /\ wake' = FALSE
  /\ status' = mailboxint
  /\ pc' = IF mailboxint = {} THEN "ckstate" ELSE "w1c"
  /\ UNCHANGED <<regVars, devVars, hard, msg, hostVars, send, timedOut, lateDb>>

AfterW1C == IF "FN0" \in status THEN "mb" ELSE "db"

\* slip: all bits are cleared, not the ones that were read
IsrW1C_AllBits ==
  /\ pc = "w1c"
  /\ mailboxint' = {}
  /\ pc' = AfterW1C
  /\ UNCHANGED <<mailboxmask, dtoh, htod, bell, devVars, hard, wake, status, msg, hostVars,
                 send, timedOut, lateDb>>

IsrW1C ==
  /\ pc = "w1c"
  /\ mailboxint' = mailboxint \ status
  /\ pc' = AfterW1C
  /\ UNCHANGED <<mailboxmask, dtoh, htod, bell, devVars, hard, wake, status, msg, hostVars,
                 send, timedOut, lateDb>>

\* handle_mb_data: read the word, return at once when it is zero
HandleMbRead ==
  /\ pc = "mb"
  /\ msg' = dtoh
  /\ pc' = IF dtoh = {} THEN "db" ELSE "mbclear"
  /\ UNCHANGED <<regVars, devVars, hard, wake, status, hostVars, send, timedOut, lateDb>>

\* the word is freed, and a deep-sleep request answered before the other
\* flags are looked at
HandleMbClear ==
  /\ pc = "mbclear"
  /\ dtoh' = {}
  /\ IF "DS_ENTER_REQ" \in msg
       THEN /\ send' = [send EXCEPT !["isr"] = [step |-> "poll", msg |-> "DS_ACK"]]
            /\ pc' = "sending"
       ELSE /\ pc' = "acks"
            /\ UNCHANGED send
  /\ UNCHANGED <<mailboxint, mailboxmask, htod, bell, devVars, hard, wake, status, msg,
                 hostVars, timedOut, lateDb>>

\* slip: the word is written and no doorbell rung
HandleMbAckSent_NoBell ==
  /\ pc = "sending"
  /\ send["isr"].step = "bell"
  /\ send' = [send EXCEPT !["isr"] = Idle]
  /\ pc' = "acks"
  /\ UNCHANGED <<mailboxint, mailboxmask, dtoh, htod, bell, devVars, hard, wake, status, msg,
                 hostVars, timedOut, lateDb>>

HandleMbAckSent ==
  /\ pc = "sending"
  /\ \/ SendBell("isr")
     \/ SendGiveUp("isr") /\ UNCHANGED bell
  /\ pc' = "acks"
  /\ UNCHANGED <<mailboxint, mailboxmask, dtoh, htod, devVars, hard, wake, status, msg,
                 hostVars, timedOut, lateDb>>

HandleMbFlags ==
  /\ pc = "acks"
  /\ completed' = (completed \/ "D3_ACK" \in msg)
  /\ crashed' = (crashed \/ ("FWHALT" \in msg /\ armed))
  /\ msg' = {}
  /\ pc' = "db"
  /\ UNCHANGED <<regVars, devVars, hard, wake, status, irq, state, bus, armed,
                 ctl, send, timedOut, lateDb>>

\* brcmf_proto_msgbuf_rx_trigger drains the completions, but only when UP
IsrRxTrigger ==
  /\ pc = "db"
  /\ rx' = (rx /\ ~("D2H_DB" \in status /\ state = "UP"))
  /\ lateDb' = (rx /\ IF "D2H_DB" \in status THEN state # "UP" ELSE lateDb)
  /\ status' = {}
  /\ pc' = "ckstate"
  /\ UNCHANGED <<regVars, dev, raising, ready, hard, wake, msg, hostVars, send, timedOut>>

IsrCheckState ==
  /\ pc = "ckstate"
  /\ pc' = IF state = "UP" THEN "enable" ELSE "idle"
  /\ UNCHANGED <<regVars, devVars, hard, wake, status, msg, hostVars, send, timedOut, lateDb>>

IsrEnable ==
  /\ pc = "enable"
  /\ mailboxmask' = TRUE
  /\ pc' = "idle"
  /\ UNCHANGED <<mailboxint, dtoh, htod, bell, devVars, hard, wake, status, msg, hostVars,
                 send, timedOut, lateDb>>

IsrThread ==
  \/ IsrReadStatus \/ IsrW1C
  \/ HandleMbRead \/ HandleMbClear
  \/ SendStep("isr") \/ HandleMbAckSent \/ HandleMbFlags
  \/ IsrRxTrigger \/ IsrCheckState \/ IsrEnable
-----------------------------------------------------------------------------
(***************************************************************************)
(* The control thread.  The driver core runs the callbacks of one device   *)
(* one at a time (device_lock); the reset work is taken here only when no  *)
(* callback runs.                                                          *)
(***************************************************************************)
CtlUnchanged == <<devVars, isrVars, timedOut, lateDb>>

\* a fresh boot of the firmware: download, then state = UP.  Whatever the
\* chip's reset left in mailboxmask is still there.
SetupBoot ==
  /\ ctl = "off"
  /\ mailboxint' = {} /\ mailboxmask' \in BOOLEAN
  /\ dtoh' = {} /\ htod' = None /\ bell' = 0
  /\ dev' = "D0" /\ raising' = FALSE /\ ready' = FALSE /\ rx' = FALSE
  /\ state' = "UP"
  /\ timedOut' = FALSE /\ lateDb' = FALSE
  /\ ctl' = "reqirq"
  /\ UNCHANGED <<isrVars, irq, bus, completed, armed, crashed, send>>

\* brcmf_pcie_request_irq masks, then installs the handler
RequestIrqMask ==
  /\ ctl = "reqirq"
  /\ mailboxmask' = FALSE
  /\ ctl' = "install"
  /\ UNCHANGED <<mailboxint, dtoh, htod, bell, CtlUnchanged, irq, state, bus, completed,
                 armed, crashed, send>>

RequestIrqInstall ==
  /\ ctl = "install"
  /\ irq' = TRUE
  /\ ctl' = "preinit"
  /\ UNCHANGED <<regVars, CtlUnchanged, state, bus, completed, armed, crashed, send>>

\* brcmf_bus_started: bus UP, then brcmf_pcie_preinit unmasks and says ready
Preinit ==
  /\ ctl = "preinit"
  /\ bus' = "UP"
  /\ mailboxmask' = TRUE
  /\ ctl' = "hostready"
  /\ UNCHANGED <<mailboxint, dtoh, htod, bell, CtlUnchanged, irq, state, completed,
                 armed, crashed, send>>

\* brcmf_pcie_hostready, at the end of brcmf_bus_started (INIT_WORK) and of a hot resume
Hostready ==
  /\ ctl = "hostready"
  /\ ready' = HostRdy
  /\ armed' = TRUE
  /\ ctl' = "run"
  /\ UNCHANGED <<regVars, dev, raising, rx, isrVars, irq, state, bus, completed, crashed,
                 send, timedOut, lateDb>>

\* slip: mbdata_completed keeps the value of the last suspend
EnterD3_StaleCompleted ==
  /\ ctl = "run"
  /\ bus' = "DOWN"
  /\ send' = [send EXCEPT !["ctl"] = [step |-> "poll", msg |-> "D3_INFORM"]]
  /\ ctl' = "d3send"
  /\ UNCHANGED <<regVars, CtlUnchanged, irq, state, completed, armed, crashed>>

\* brcmf_pcie_pm_enter_D3
EnterD3 ==
  /\ ctl = "run"
  /\ bus' = "DOWN"
  /\ completed' = FALSE
  /\ send' = [send EXCEPT !["ctl"] = [step |-> "poll", msg |-> "D3_INFORM"]]
  /\ ctl' = "d3send"
  /\ UNCHANGED <<regVars, CtlUnchanged, irq, state, armed, crashed>>

\* the result of send_mb_data is not looked at
EnterD3Sent ==
  /\ ctl = "d3send"
  /\ \/ SendBell("ctl")
     \/ SendGiveUp("ctl") /\ UNCHANGED bell
  /\ ctl' = "d3wait"
  /\ UNCHANGED <<mailboxint, mailboxmask, dtoh, htod, CtlUnchanged, irq, state, bus,
                 completed, armed, crashed>>

\* an acknowledgement of D3 can still reach the driver
AckComing ==
  \/ htod = "D3_INFORM" \/ dev = "d3pend"
  \/ "D3_ACK" \in dtoh \/ "D3_ACK" \in msg

\* slip: wait_event without a timeout
EnterD3Wait_Forever ==
  /\ ctl = "d3wait"
  /\ completed
  /\ ctl' = "d3check"
  /\ UNCHANGED <<regVars, CtlUnchanged, irq, state, bus, completed, armed, crashed, send>>

\* wait_event_timeout: woken, or two seconds have passed
EnterD3Wait ==
  /\ ctl = "d3wait"
  /\ completed \/ SlowDevice \/ Unanswering \/ ~AckComing
  /\ ctl' = "d3check"
  /\ UNCHANGED <<regVars, CtlUnchanged, irq, state, bus, completed, armed, crashed, send>>

\* slip: the bus stays DOWN after a refused suspend
EnterD3Check_BusLeftDown ==
  /\ ctl = "d3check"
  /\ IF completed
       THEN state' = "DOWN" /\ ctl' = "suspended" /\ UNCHANGED timedOut
       ELSE ctl' = "run" /\ timedOut' = TRUE /\ UNCHANGED state
  /\ UNCHANGED <<regVars, devVars, isrVars, irq, bus, completed, armed, crashed, send, lateDb>>

EnterD3Check ==
  /\ ctl = "d3check"
  /\ IF completed
       THEN /\ state' = "DOWN" /\ ctl' = "suspended"
            /\ UNCHANGED <<bus, timedOut>>
       ELSE /\ bus' = "UP" /\ ctl' = "run"
            /\ timedOut' = TRUE
            /\ UNCHANGED state
  /\ UNCHANGED <<regVars, devVars, isrVars, irq, completed, armed, crashed, send, lateDb>>

\* slip: the message of suspend
LeaveD3_SaysD3 ==
  /\ ctl = "suspended"
  /\ IF dev = "off"
       THEN ctl' = "leaveD3" /\ UNCHANGED send
       ELSE /\ send' = [send EXCEPT !["ctl"] = [step |-> "poll", msg |-> "D3_INFORM"]]
            /\ ctl' = "d0send"
  /\ UNCHANGED <<regVars, CtlUnchanged, irq, state, bus, completed, armed, crashed>>

\* brcmf_pcie_pm_leave_D3: intmask reads zero when the device lost its power
LeaveD3 ==
  /\ ctl = "suspended"
  /\ IF dev = "off"
       THEN ctl' = "leaveD3" /\ UNCHANGED send
       ELSE /\ send' = [send EXCEPT !["ctl"] = [step |-> "poll", msg |-> "D0_INFORM"]]
            /\ ctl' = "d0send"
  /\ UNCHANGED <<regVars, CtlUnchanged, irq, state, bus, completed, armed, crashed>>

LeaveD3Sent ==
  /\ ctl = "d0send"
  /\ \/ SendBell("ctl") /\ ctl' = "hotresume"
     \/ SendGiveUp("ctl") /\ ctl' = "leaveD3" /\ UNCHANGED bell
  /\ UNCHANGED <<mailboxint, mailboxmask, dtoh, htod, CtlUnchanged, irq, state, bus,
                 completed, armed, crashed>>

HotResume ==
  /\ ctl = "hotresume"
  /\ state' = "UP" /\ bus' = "UP"
  /\ ctl' = "unmask"
  /\ UNCHANGED <<regVars, CtlUnchanged, irq, completed, armed, crashed, send>>

HotResumeUnmask ==
  /\ ctl = "unmask"
  /\ mailboxmask' = TRUE
  /\ ctl' = "hostready"
  /\ UNCHANGED <<mailboxint, dtoh, htod, bell, CtlUnchanged, irq, state, bus, completed,
                 armed, crashed, send>>

\* the cleanup label: chip_detach, ci = NULL, then brcmf_pcie_remove, which
\* without ci leaves the mask alone
LeaveD3Cleanup ==
  /\ ctl = "leaveD3"
  /\ state' = "DOWN"
  /\ ctl' = "detach"
  /\ UNCHANGED <<regVars, CtlUnchanged, irq, bus, completed, armed, crashed, send>>

\* brcmf_pcie_remove sets state first, brcmf_pcie_reset leaves it UP
RemoveBegin ==
  /\ ctl = "run"
  /\ state' = "DOWN"
  /\ ctl' = "mask0"
  /\ UNCHANGED <<regVars, CtlUnchanged, irq, bus, completed, armed, crashed, send>>

ResetBegin ==
  /\ ctl = "run" /\ crashed
  /\ crashed' = FALSE
  /\ ctl' = "mask0"
  /\ UNCHANGED <<regVars, CtlUnchanged, irq, state, bus, completed, armed, send>>

TeardownMask ==
  /\ \/ ctl = "mask0" /\ ctl' = "detach"
     \/ ctl = "relmask" /\ ctl' = "unhook"
  /\ mailboxmask' = FALSE
  /\ UNCHANGED <<mailboxint, dtoh, htod, bell, CtlUnchanged, irq, state, bus, completed,
                 armed, crashed, send>>

\* brcmf_detach
TeardownDetach ==
  /\ ctl = "detach"
  /\ bus' = "DOWN"
  /\ ctl' = "relmask"
  /\ UNCHANGED <<regVars, CtlUnchanged, irq, state, completed, armed, crashed, send>>

\* free_irq: no new call of the handler, then wait for the running ones
ReleaseIrqUnhook ==
  /\ ctl = "unhook"
  /\ irq' = FALSE
  /\ ctl' = "drain"
  /\ UNCHANGED <<regVars, CtlUnchanged, state, bus, completed, armed, crashed, send>>

ReleaseIrqDrained ==
  /\ ctl = "drain"
  /\ hard = "idle" /\ ~wake /\ pc = "idle"
  /\ ctl' = "leftover"
  /\ UNCHANGED <<regVars, CtlUnchanged, irq, state, bus, completed, armed, crashed, send>>

\* clear what is still latched; remove goes on to free devinfo and drvr, and
\* the next probe starts with zeroed ones
ReleaseIrqLeftover ==
  /\ ctl = "leftover"
  /\ mailboxint' = {}
  /\ completed' = (completed /\ state = "UP")
  /\ armed' = (armed /\ state = "UP")
  /\ crashed' = (crashed /\ state = "UP")
  /\ ctl' = "off"
  /\ UNCHANGED <<mailboxmask, dtoh, htod, bell, CtlUnchanged, irq, state, bus, send>>

SuspendWork == EnterD3Sent \/ EnterD3Wait \/ EnterD3Check
ResumeWork  == LeaveD3Sent \/ HotResume \/ HotResumeUnmask \/ LeaveD3Cleanup
SetupWork   == RequestIrqMask \/ RequestIrqInstall \/ Preinit \/ Hostready
Teardown    == TeardownMask \/ TeardownDetach \/ ReleaseIrqUnhook
               \/ ReleaseIrqDrained \/ ReleaseIrqLeftover

\* what the control thread does once it has begun a call
CtlContinues ==
  SendStep("ctl") \/ SetupWork \/ SuspendWork \/ ResumeWork \/ Teardown

\* the calls themselves, made by the kernel
CtlCalls == SetupBoot \/ EnterD3 \/ LeaveD3 \/ RemoveBegin
-----------------------------------------------------------------------------
(***************************************************************************)
(* The firmware.  Like the driver it waits for the word it writes to be    *)
(* free.  After D3_ACK it is silent until D0_INFORM.                       *)
(***************************************************************************)
DevUnchanged == <<mailboxmask, htod, bell, isrVars, hostVars, send, timedOut, lateDb>>

Speaking == ready \/ ~HostRdy

Post(flags) ==
  /\ Speaking /\ dtoh = {} /\ ~raising
  /\ dtoh' = flags
  /\ raising' = TRUE

DevRequestSleep ==
  /\ "sleep" \in FwDoes
  /\ dev = "D0" /\ Post({"DS_ENTER_REQ"})
  /\ dev' = "dsreq"
  /\ UNCHANGED <<mailboxint, ready, rx, DevUnchanged>>

DevLeaveSleep ==
  /\ dev = "ds" /\ Post({"DS_EXIT_NOTE"})
  /\ dev' = "D0"
  /\ UNCHANGED <<mailboxint, ready, rx, DevUnchanged>>

\* a device in deep sleep notes that it left it in the same word
DevAckD3 ==
  /\ dev = "d3pend"
  /\ Post({"D3_ACK"}) \/ Post({"D3_ACK", "DS_EXIT_NOTE"})
  /\ dev' = "D3"
  /\ ready' = FALSE
  /\ UNCHANGED <<mailboxint, rx, DevUnchanged>>

DevHalt ==
  /\ "halt" \in FwDoes
  /\ dev \in {"D0", "dsreq", "ds", "d3pend"} /\ Post({"FWHALT"})
  /\ dev' = "dead"
  /\ UNCHANGED <<mailboxint, ready, rx, DevUnchanged>>

DevRaise ==
  /\ raising
  /\ raising' = FALSE
  /\ mailboxint' = mailboxint \union {"FN0"}
  /\ UNCHANGED <<dtoh, dev, ready, rx, DevUnchanged>>

DevComplete ==
  /\ "complete" \in FwDoes
  /\ dev = "D0" /\ Speaking
  /\ rx' = TRUE
  /\ mailboxint' = mailboxint \union {"D2H_DB"}
  /\ UNCHANGED <<dtoh, dev, raising, ready, DevUnchanged>>

DevTake ==
  /\ ~Unanswering
  /\ bell > 0 /\ bell' = 0
  /\ \/ htod = "DS_ACK" /\ dev' = (IF dev = "dsreq" THEN "ds" ELSE dev)
     \/ htod = "D3_INFORM" /\ dev' = "d3pend"
     \/ htod = "D0_INFORM" /\ dev' = "D0"
     \/ htod = None /\ UNCHANGED dev
  /\ htod' = None
  /\ UNCHANGED <<mailboxint, mailboxmask, dtoh, raising, ready, rx, isrVars, hostVars, send,
                 timedOut, lateDb>>

\* the reason for the second ring on old cores
DevMissDoorbell ==
  /\ bell = 2 /\ bell' = 1
  /\ UNCHANGED <<mailboxint, mailboxmask, dtoh, htod, devVars, isrVars, hostVars, send,
                 timedOut, lateDb>>

\* the platform removes power from a suspended device
PowerLost ==
  /\ ctl = "suspended" /\ hard = "idle" /\ ~wake /\ pc = "idle"
  /\ dev' = "off" /\ raising' = FALSE /\ ready' = FALSE /\ rx' = FALSE
  /\ mailboxint' = {} /\ mailboxmask' = FALSE
  /\ dtoh' = {} /\ htod' = None /\ bell' = 0
  /\ UNCHANGED <<isrVars, hostVars, send, timedOut, lateDb>>

DevReacts  == DevRaise \/ DevTake \/ DevAckD3
DevChooses == DevRequestSleep \/ DevLeaveSleep \/ DevHalt \/ DevComplete
              \/ DevMissDoorbell \/ PowerLost

Next ==
  \/ QuickCheckIsr \/ QuickCheckMask
  \/ IsrThread
  \/ CtlContinues \/ CtlCalls \/ ResetBegin
  \/ DevReacts \/ DevChooses

(***************************************************************************)
(* An interrupt that mailboxmask lets through is delivered (nobody promises *)
(* those of the other devices on the line), threads are scheduled and a    *)
(* live device goes on; nobody has to suspend, resume or remove.  Fairness *)
(* is strong for the two threads because they disable one another only for *)
(* a moment: the other's message in htod is taken within the hundred polls, *)
(* and the reset work waits for a lock that no callback holds for ever.    *)
(***************************************************************************)
Fairness ==
  /\ WF_vars((QuickCheckIsr /\ mailboxmask) \/ QuickCheckMask)
  /\ SF_vars(IsrThread)
  /\ SF_vars(CtlContinues) /\ SF_vars(ResetBegin)
  /\ WF_vars(DevRaise) /\ WF_vars(DevTake) /\ WF_vars(DevAckD3)

Spec == Init /\ [][Next]_vars
FairSpec == Spec /\ Fairness
-----------------------------------------------------------------------------
(***************************************************************************)
(* Properties.                                                             *)
(***************************************************************************)

\* A request the firmware left in dtoh is never stranded: its interrupt is
\* still to be raised or latched, or the thread has acknowledged the interrupt
\* and goes on to read the word.  This is why isr_thread clears mailboxint
\* before handle_mb_data reads the word, and never after.
MailboxNeverStranded ==
  irq /\ dtoh # {} =>
    \/ raising
    \/ "FN0" \in mailboxint
    \/ pc \in {"mb", "mbclear"}

\* In normal operation the mask is closed only while somebody is bound to open
\* it again: the hard handler is about to wake the thread, the thread is due,
\* or it runs and has not yet passed the point where it opens the mask.  No
\* order of hard handler, thread, suspend and resume leaves a driver that is UP
\* deaf to its device.
MaskHasOwner ==
  ctl \in {"run"} \union SuspendSteps /\ ~mailboxmask
    => hard = "mask" \/ wake \/ pc # "idle"

\* A suspend that returned 0 left a device that really entered D3 (or died or
\* lost its power since), unless an earlier suspend had timed out, after which
\* a late acknowledgement may be taken for a new one.
SuspendedMeansD3 ==
  ctl = "suspended" /\ ~timedOut => dev \in {"D3", "dead", "off"}

\* While the host believes the device asleep no message to it is being written:
\* the deep-sleep answer in handle_mb_data finishes before the D3 answer of the
\* same word lets the suspend return.
NoSendWhileSuspended ==
  ctl = "suspended" /\ ~timedOut => \A s \in Senders : send[s] = Idle

\* A suspend that returned 0 is what the PM core takes it for: the device sleeps
\* and the host says nothing more to it.
AsleepAndQuiet == SuspendedMeansD3 /\ NoSendWhileSuspended

\* Completions in the rings are never without a reason to be drained: their
\* doorbell is latched, or the thread holds it, or it was acknowledged while
\* the state was DOWN (the one window in which isr_thread drops a doorbell).
CompletionsAccounted ==
  irq /\ rx => \/ "D2H_DB" \in mailboxint \union status
               \/ lateDb

\* A suspend leaves bus and device state in agreement, whether the firmware
\* answered or not: a refused suspend has the bus running again.
SuspendIsAllOrNothing ==
  ctl \in {"run", "suspended"} => bus = state

\* What the firmware asks for is looked at, as long as the host stays up.
RequestServed ==
  dtoh # {} ~> (dtoh = {} \/ ctl = "suspended" \/ ~irq)

\* A firmware that asked for deep sleep is answered, or sent to D3 instead, or
\* dies, or the driver lets go of it: the unlocked sends of the thread and of a
\* suspend may overwrite each other but never leave it waiting.
SleepAnswered ==
  dev = "dsreq" ~> (dev # "dsreq" \/ ~irq)

\* Every suspend comes to an end, asleep or running again, also when the device
\* is dead, its message never left or its answer is lost.
SuspendEnds ==
  ctl \in SuspendSteps ~> ctl \in {"run", "suspended"}

\* A firmware crash that was noticed ends in a reset or a removal, unless the
\* system is asleep.
CrashLeadsToReset ==
  crashed ~> (~crashed \/ ctl \in {"suspended", "off"})
=============================================================================
