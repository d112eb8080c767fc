------------------------- MODULE PcieMailboxProofs -------------------------
(***************************************************************************)
(* Theorems about PcieMailbox, for every configuration of line, device and *)
(* firmware: the type invariant, the invariants on which the interrupt     *)
(* path rests, and that it implements the sleep handshake.                 *)
(*                                                                         *)
(* The argument is the same for each: a part of the invariant is preserved *)
(* by each family of actions (hard handler, interrupt thread, what the     *)
(* control thread goes on with, what it is called for, what the firmware   *)
(* must do, what it may do) and by stuttering.  The actions are expanded   *)
(* throughout; a leaf cites what it needs besides.                         *)
(***************************************************************************)
EXTENDS PcieMailboxRefinement, TLAPS

USE DEF regVars, devVars, isrVars, hostVars, CtlUnchanged, DevUnchanged
USE DEF SendPoll, SendWrite, SendStep, SendBell, SendGiveUp, RingDoorbell,
        QuickCheckIsr, QuickCheckMask,
        IsrThread, IsrReadStatus, IsrW1C, AfterW1C, HandleMbRead, HandleMbClear,
        HandleMbAckSent, HandleMbFlags, IsrRxTrigger, IsrCheckState, IsrEnable
USE DEF CtlContinues, SetupWork, RequestIrqMask, RequestIrqInstall, Preinit, Hostready,
        SuspendWork, EnterD3Sent, EnterD3Wait, EnterD3Check,
        ResumeWork, LeaveD3Sent, HotResume, HotResumeUnmask, LeaveD3Cleanup,
        Teardown, TeardownMask, TeardownDetach, ReleaseIrqUnhook, ReleaseIrqDrained,
        ReleaseIrqLeftover,
        CtlCalls, SetupBoot, EnterD3, LeaveD3, RemoveBegin, ResetBegin
USE DEF DevReacts, DevRaise, DevTake, DevAckD3, Post,
        DevChooses, DevRequestSleep, DevLeaveSleep, DevHalt, DevComplete,
        DevMissDoorbell, PowerLost

-----------------------------------------------------------------------------
(***************************************************************************)
(* Types.                                                                  *)
(***************************************************************************)

\* The bits and flags that are latched, and those in the device-to-host word.
LEMMA WordsKeepType ==
  TypeOK /\ [Next]_vars => (mailboxint \in SUBSET IntBits /\ dtoh \in SUBSET D2HFlags)'
<1> SUFFICES ASSUME TypeOK, [Next]_vars
             PROVE  (mailboxint \in SUBSET IntBits /\ dtoh \in SUBSET D2HFlags)'
  OBVIOUS
<1> USE DEF TypeOK, RegType, IntBits, D2HFlags
<1>1. CASE QuickCheckIsr \/ QuickCheckMask
  BY <1>1
<1>2. CASE IsrThread
  BY <1>2
<1>3. CASE CtlContinues
  BY <1>3
<1>4. CASE CtlCalls \/ ResetBegin
  BY <1>4
<1>5. CASE DevReacts
  BY <1>5
<1>6. CASE DevChooses
  BY <1>6
<1>7. CASE UNCHANGED vars
  BY <1>7 DEF vars
<1> QED
  BY <1>1, <1>2, <1>3, <1>4, <1>5, <1>6, <1>7 DEF Next

\* The mask register.
LEMMA MaskKeepsType ==
  TypeOK /\ [Next]_vars => (mailboxmask \in BOOLEAN)'
<1> SUFFICES ASSUME TypeOK, [Next]_vars
             PROVE  (mailboxmask \in BOOLEAN)'
  OBVIOUS
<1> USE DEF TypeOK, RegType
<1>1. CASE QuickCheckIsr \/ QuickCheckMask
  BY <1>1
<1>2. CASE IsrThread
  BY <1>2
<1>3. CASE CtlContinues
  BY <1>3
<1>4. CASE CtlCalls \/ ResetBegin
  BY <1>4
<1>5. CASE DevReacts
  BY <1>5
<1>6. CASE DevChooses
  BY <1>6
<1>7. CASE UNCHANGED vars
  BY <1>7 DEF vars
<1> QED
  BY <1>1, <1>2, <1>3, <1>4, <1>5, <1>6, <1>7 DEF Next

\* The host-to-device word holds what some sender had in hand.
LEMMA MessageKeepsType ==
  TypeOK /\ [Next]_vars => (htod \in H2DMsgs \union {None})'
<1> SUFFICES ASSUME TypeOK, [Next]_vars
             PROVE  (htod \in H2DMsgs \union {None})'
  OBVIOUS
<1> USE DEF TypeOK, RegType, SendType, Senders, H2DMsgs, None
<1>1. CASE QuickCheckIsr \/ QuickCheckMask
  BY <1>1
<1>2. CASE IsrThread
  BY <1>2
<1>3. CASE CtlContinues
  BY <1>3
<1>4. CASE CtlCalls \/ ResetBegin
  BY <1>4
<1>5. CASE DevReacts
  BY <1>5
<1>6. CASE DevChooses
  BY <1>6
<1>7. CASE UNCHANGED vars
  BY <1>7 DEF vars
<1> QED
  BY <1>1, <1>2, <1>3, <1>4, <1>5, <1>6, <1>7 DEF Next

\* At most two doorbells are pending, whatever the core's revision.
LEMMA BellKeepsType ==
  TypeOK /\ [Next]_vars => (bell \in 0..2)'
<1> SUFFICES ASSUME TypeOK, [Next]_vars
             PROVE  (bell \in 0..2)'
  OBVIOUS
<1> USE DEF TypeOK, RegType
<1>1. CASE QuickCheckIsr \/ QuickCheckMask
  BY <1>1
<1>2. CASE IsrThread
  BY <1>2
<1>3. CASE CtlContinues
  BY <1>3
<1>4. CASE CtlCalls \/ ResetBegin
  BY <1>4
<1>5. CASE DevReacts
  BY <1>5
<1>6. CASE DevChooses
  BY <1>6
<1>7. CASE UNCHANGED vars
  BY <1>7 DEF vars
<1> QED
  BY <1>1, <1>2, <1>3, <1>4, <1>5, <1>6, <1>7 DEF Next

\* The firmware's state.
LEMMA DevKeepsType ==
  TypeOK /\ [Next]_vars => DevType'
<1> SUFFICES ASSUME TypeOK, [Next]_vars
             PROVE  DevType'
  OBVIOUS
<1> USE DEF TypeOK, DevType, DevStates
<1>1. CASE QuickCheckIsr \/ QuickCheckMask
  BY <1>1
<1>2. CASE IsrThread
  BY <1>2
<1>3. CASE CtlContinues
  BY <1>3, ConfigAssumption DEF ConfigAssumption
<1>4. CASE CtlCalls \/ ResetBegin
  BY <1>4
<1>5. CASE DevReacts
  BY <1>5
<1>6. CASE DevChooses
  BY <1>6
<1>7. CASE UNCHANGED vars
  BY <1>7 DEF vars
<1> QED
  BY <1>1, <1>2, <1>3, <1>4, <1>5, <1>6, <1>7 DEF Next

\* The interrupt handler's place and its local variables.
LEMMA IsrKeepsType ==
  TypeOK /\ [Next]_vars => IsrType'
<1> SUFFICES ASSUME TypeOK, [Next]_vars
             PROVE  IsrType'
  OBVIOUS
<1> USE DEF TypeOK, RegType, IsrType, HardSteps, IsrSteps, IntBits, D2HFlags
<1>1. CASE QuickCheckIsr \/ QuickCheckMask
  BY <1>1
<1>2. CASE IsrThread
  <2>1. CASE IsrReadStatus \/ IsrW1C
    BY <2>1
  <2>2. CASE HandleMbRead \/ HandleMbClear
    BY <2>2
  <2>3. CASE SendStep("isr") \/ HandleMbAckSent
    BY <2>3
  <2>4. CASE HandleMbFlags \/ IsrRxTrigger \/ IsrCheckState \/ IsrEnable
    BY <2>4
  <2> QED
    BY <1>2, <2>1, <2>2, <2>3, <2>4
<1>3. CASE CtlContinues
  BY <1>3
<1>4. CASE CtlCalls \/ ResetBegin
  BY <1>4
<1>5. CASE DevReacts
  BY <1>5
<1>6. CASE DevChooses
  BY <1>6
<1>7. CASE UNCHANGED vars
  BY <1>7 DEF vars
<1> QED
  BY <1>1, <1>2, <1>3, <1>4, <1>5, <1>6, <1>7 DEF Next

\* The driver's own variables.
LEMMA HostKeepsType ==
  TypeOK /\ [Next]_vars => HostType'
<1> SUFFICES ASSUME TypeOK, [Next]_vars
             PROVE  HostType'
  OBVIOUS
<1> USE DEF TypeOK, HostType, CtlSteps, SetupSteps, SuspendSteps,
            ResumeSteps, ReleaseSteps
<1>1. CASE QuickCheckIsr \/ QuickCheckMask
  BY <1>1
<1>2. CASE IsrThread
  BY <1>2
<1>3. CASE CtlContinues
  BY <1>3
<1>4. CASE CtlCalls \/ ResetBegin
  BY <1>4
<1>5. CASE DevReacts
  BY <1>5
<1>6. CASE DevChooses
  BY <1>6
<1>7. CASE UNCHANGED vars
  BY <1>7 DEF vars
<1> QED
  BY <1>1, <1>2, <1>3, <1>4, <1>5, <1>6, <1>7 DEF Next

\* The senders.
LEMMA SendKeepsType ==
  TypeOK /\ [Next]_vars => SendType'
<1> SUFFICES ASSUME TypeOK, [Next]_vars
             PROVE  SendType'
  OBVIOUS
<1> USE DEF TypeOK, SendType, Senders, H2DMsgs, Idle, None
<1>1. CASE QuickCheckIsr \/ QuickCheckMask
  BY <1>1
<1>2. CASE IsrThread
  BY <1>2
<1>3. CASE CtlContinues
  BY <1>3
<1>4. CASE CtlCalls \/ ResetBegin
  BY <1>4
<1>5. CASE DevReacts
  BY <1>5
<1>6. CASE DevChooses
  BY <1>6
<1>7. CASE UNCHANGED vars
  BY <1>7 DEF vars
<1> QED
  BY <1>1, <1>2, <1>3, <1>4, <1>5, <1>6, <1>7 DEF Next

\* The history variables.
LEMMA HistoryKeepsType ==
  TypeOK /\ [Next]_vars => HistoryType'
<1> SUFFICES ASSUME TypeOK, [Next]_vars
             PROVE  HistoryType'
  OBVIOUS
<1> USE DEF TypeOK, HistoryType
<1>1. CASE QuickCheckIsr \/ QuickCheckMask
  BY <1>1
<1>2. CASE IsrThread
  BY <1>2
<1>3. CASE CtlContinues
  BY <1>3
<1>4. CASE CtlCalls \/ ResetBegin
  BY <1>4
<1>5. CASE DevReacts
  BY <1>5
<1>6. CASE DevChooses
  BY <1>6
<1>7. CASE UNCHANGED vars
  BY <1>7 DEF vars
<1> QED
  BY <1>1, <1>2, <1>3, <1>4, <1>5, <1>6, <1>7 DEF Next

\* TypeOK is an invariant: in particular the doorbell counter stays within 0..2
\* and the locals of both handlers hold only bits and flags that exist.
THEOREM TypeCorrect == Spec => []TypeOK
<1>1. Init => TypeOK
  <2> SUFFICES ASSUME Init
               PROVE  TypeOK
    OBVIOUS
  <2>1. RegType
    <3>1. mailboxint \in SUBSET IntBits /\ dtoh \in SUBSET D2HFlags
      BY DEF Init
    <3>2. mailboxmask \in BOOLEAN
      BY DEF Init
    <3>3. htod \in H2DMsgs \union {None} /\ bell \in 0..2
      BY DEF Init
    <3> QED
      BY <3>1, <3>2, <3>3 DEF RegType
  <2>2. DevType /\ IsrType
    BY DEF Init, DevType, IsrType, DevStates, HardSteps, IsrSteps
  <2>3. ctl \in CtlSteps
    BY DEF Init, CtlSteps
  <2>4. HostType /\ HistoryType
    BY <2>3, Zenon DEF Init, HostType, HistoryType
  <2>5. SendType
    BY DEF Init, SendType, Idle
  <2> QED
    BY <2>1, <2>2, <2>4, <2>5 DEF TypeOK
<1>2. TypeOK /\ [Next]_vars => TypeOK'
  <2> SUFFICES ASSUME TypeOK, [Next]_vars
               PROVE  TypeOK'
    OBVIOUS
  <2>1. RegType'
    BY WordsKeepType, MaskKeepsType, MessageKeepsType, BellKeepsType DEF RegType
  <2>2. DevType' /\ IsrType' /\ HostType'
    BY DevKeepsType, IsrKeepsType, HostKeepsType
  <2>3. SendType' /\ HistoryType'
    BY SendKeepsType, HistoryKeepsType
  <2> QED
    BY <2>1, <2>2, <2>3 DEF TypeOK
<1> QED
  BY <1>1, <1>2, PTL DEF Spec

-----------------------------------------------------------------------------
(***************************************************************************)
(* No request of the firmware is stranded.  While the handler is not yet   *)
(* installed the firmware may already speak, and while it is being taken   *)
(* away the latched bits are thrown away: the invariant has to cover the   *)
(* first and exclude the second.                                           *)
(***************************************************************************)
StrandInv ==
  /\ (irq \/ ctl \in {"reqirq", "install"}) /\ dtoh # {} =>
       raising \/ "FN0" \in mailboxint \/ pc \in {"mb", "mbclear"}
  /\ ctl \in {"drain", "leftover", "off"} => ~irq

\* The write-one-to-clear of a bit moves the thread to the read of the word.
LEMMA StrandStep ==
  TypeOK /\ StrandInv /\ [Next]_vars => StrandInv'
<1> SUFFICES ASSUME TypeOK, StrandInv, [Next]_vars
             PROVE  StrandInv'
  OBVIOUS
<1> USE DEF TypeOK, RegType, IsrType, StrandInv
<1>1. CASE QuickCheckIsr \/ QuickCheckMask
  BY <1>1
<1>2. CASE IsrThread
  BY <1>2
<1>3. CASE CtlContinues
  BY <1>3
<1>4. CASE CtlCalls \/ ResetBegin
  BY <1>4
<1>5. CASE DevReacts
  BY <1>5
<1>6. CASE DevChooses
  BY <1>6
<1>7. CASE UNCHANGED vars
  BY <1>7 DEF vars
<1> QED
  BY <1>1, <1>2, <1>3, <1>4, <1>5, <1>6, <1>7 DEF Next

\* A word the firmware wrote is still announced or about to be read, in every
\* configuration: MailboxNeverStranded.
THEOREM NeverStranded == Spec => []MailboxNeverStranded
<1>1. Init => StrandInv
  BY DEF Init, StrandInv
<1>2. StrandInv => MailboxNeverStranded
  BY DEF StrandInv, MailboxNeverStranded
<1> QED
  BY <1>1, <1>2, StrandStep, TypeCorrect, PTL DEF Spec

-----------------------------------------------------------------------------
(***************************************************************************)
(* A closed mask has an owner.  The thread opens the mask again only when  *)
(* it finds the state UP, so the invariant carries the state along.        *)
(***************************************************************************)
Awake ==
  {"reqirq", "install", "preinit", "hostready", "run", "unmask"} \union SuspendSteps

MaskInv ==
  /\ ctl \in Awake => state = "UP"
  /\ ctl \in {"hostready", "run"} \union SuspendSteps /\ ~mailboxmask
       => hard = "mask" \/ wake \/ pc # "idle"

\* Whoever closes the mask of a driver that is UP hands it to the thread.
LEMMA MaskStep ==
  TypeOK /\ MaskInv /\ [Next]_vars => MaskInv'
<1> SUFFICES ASSUME TypeOK, MaskInv, [Next]_vars
             PROVE  MaskInv'
  OBVIOUS
<1> USE DEF TypeOK, RegType, IsrType, MaskInv, Awake, SuspendSteps
<1>1. CASE QuickCheckIsr \/ QuickCheckMask
  BY <1>1
<1>2. CASE IsrThread
  BY <1>2
<1>3. CASE CtlContinues
  BY <1>3
<1>4. CASE CtlCalls \/ ResetBegin
  BY <1>4
<1>5. CASE DevReacts
  BY <1>5
<1>6. CASE DevChooses
  BY <1>6
<1>7. CASE UNCHANGED vars
  BY <1>7 DEF vars
<1> QED
  BY <1>1, <1>2, <1>3, <1>4, <1>5, <1>6, <1>7 DEF Next

\* A driver that is UP is never left deaf: MaskHasOwner.
THEOREM MaskOwned == Spec => []MaskHasOwner
<1>1. Init => MaskInv
  BY DEF Init, MaskInv, Awake, SuspendSteps
<1>2. MaskInv => MaskHasOwner
  BY DEF MaskInv, MaskHasOwner
<1> QED
  BY <1>1, <1>2, MaskStep, TypeCorrect, PTL DEF Spec

-----------------------------------------------------------------------------
(***************************************************************************)
(* Completions.  The thread's copy of mailboxint is empty unless it is on  *)
(* its way to the rings, so reading the register never overwrites a bit.   *)
(***************************************************************************)
RxInv ==
  /\ (irq \/ ctl \in {"reqirq", "install"}) /\ rx =>
       "D2H_DB" \in mailboxint \union status \/ lateDb
  /\ pc \in {"idle", "ckstate", "enable"} => status = {}
  /\ ctl \in {"drain", "leftover", "off"} => ~irq

\* A doorbell is latched, in the thread's hands, served, or dropped while DOWN.
LEMMA RxStep ==
  TypeOK /\ RxInv /\ [Next]_vars => RxInv'
<1> SUFFICES ASSUME TypeOK, RxInv, [Next]_vars
             PROVE  RxInv'
  OBVIOUS
<1> USE DEF TypeOK, RegType, IsrType, RxInv
<1>1. CASE QuickCheckIsr \/ QuickCheckMask
  BY <1>1
<1>2. CASE IsrThread
  BY <1>2
<1>3. CASE CtlContinues
  BY <1>3
<1>4. CASE CtlCalls \/ ResetBegin
  BY <1>4
<1>5. CASE DevReacts
  BY <1>5
<1>6. CASE DevChooses
  BY <1>6
<1>7. CASE UNCHANGED vars
  BY <1>7 DEF vars
<1> QED
  BY <1>1, <1>2, <1>3, <1>4, <1>5, <1>6, <1>7 DEF Next

\* Completions are lost to the driver only through the one window in which it
\* drops a doorbell: CompletionsAccounted.
THEOREM Accounted == Spec => []CompletionsAccounted
<1>1. Init => RxInv
  BY DEF Init, RxInv
<1>2. RxInv => CompletionsAccounted
  BY DEF RxInv, CompletionsAccounted
<1> QED
  BY <1>1, <1>2, RxStep, TypeCorrect, PTL DEF Spec

-----------------------------------------------------------------------------
(***************************************************************************)
(* The bus state follows the device state through every suspend.           *)
(***************************************************************************)
BusInv ==
  /\ ctl \in {"hostready", "run"} => state = "UP" /\ bus = "UP"
  /\ ctl = "unmask" => state = "UP" /\ bus = "UP"
  /\ ctl \in {"reqirq", "install", "preinit"} \union SuspendSteps => state = "UP"
  /\ ctl = "suspended" => state = "DOWN" /\ bus = "DOWN"
  /\ ctl \in SuspendSteps => bus = "DOWN"

\* A suspend takes the bus down first and brings it back when it is refused.
LEMMA BusStep ==
  TypeOK /\ BusInv /\ [Next]_vars => BusInv'
<1> SUFFICES ASSUME TypeOK, BusInv, [Next]_vars
             PROVE  BusInv'
  OBVIOUS
<1> USE DEF TypeOK, RegType, IsrType, BusInv, SuspendSteps
<1>1. CASE QuickCheckIsr \/ QuickCheckMask
  BY <1>1
<1>2. CASE IsrThread
  BY <1>2
<1>3. CASE CtlContinues
  BY <1>3
<1>4. CASE CtlCalls \/ ResetBegin
  BY <1>4
<1>5. CASE DevReacts
  BY <1>5
<1>6. CASE DevChooses
  BY <1>6
<1>7. CASE UNCHANGED vars
  BY <1>7 DEF vars
<1> QED
  BY <1>1, <1>2, <1>3, <1>4, <1>5, <1>6, <1>7 DEF Next

\* A suspend succeeds or is undone: SuspendIsAllOrNothing.
THEOREM AllOrNothing == Spec => []SuspendIsAllOrNothing
<1>1. Init => BusInv
  BY DEF Init, BusInv, SuspendSteps
<1>2. BusInv => SuspendIsAllOrNothing
  BY DEF BusInv, SuspendIsAllOrNothing
<1> QED
  BY <1>1, <1>2, BusStep, TypeCorrect, PTL DEF Spec

-----------------------------------------------------------------------------
(***************************************************************************)
(* The mailbox implements the sleep handshake.                             *)
(***************************************************************************)

\* Nobody's message changes while he sends it.
LEMMA SendersStep ==
  TypeOK /\ SendersInv /\ [Next]_vars => SendersInv'
<1> SUFFICES ASSUME TypeOK, SendersInv, [Next]_vars
             PROVE  SendersInv'
  OBVIOUS
<1> USE DEF TypeOK, SendType, Senders, SendersInv, Idle, SuspendSteps
<1>1. CASE QuickCheckIsr \/ QuickCheckMask
  BY <1>1
<1>2. CASE IsrThread
  BY <1>2
<1>3. CASE CtlContinues
  BY <1>3
<1>4. CASE CtlCalls \/ ResetBegin
  BY <1>4
<1>5. CASE DevReacts
  BY <1>5
<1>6. CASE DevChooses
  BY <1>6
<1>7. CASE UNCHANGED vars
  BY <1>7 DEF vars
<1> QED
  BY <1>1, <1>2, <1>3, <1>4, <1>5, <1>6, <1>7 DEF Next

\* The device does not write a word the thread has yet to clear.
LEMMA ThreadStep ==
  TypeOK /\ ThreadInv /\ [Next]_vars => ThreadInv'
<1> SUFFICES ASSUME TypeOK, ThreadInv, [Next]_vars
             PROVE  ThreadInv'
  OBVIOUS
<1> USE DEF TypeOK, IsrType, RegType, ThreadInv
<1>1. CASE QuickCheckIsr \/ QuickCheckMask
  BY <1>1
<1>2. CASE IsrThread
  BY <1>2
<1>3. CASE CtlContinues
  BY <1>3
<1>4. CASE CtlCalls \/ ResetBegin
  BY <1>4
<1>5. CASE DevReacts
  BY <1>5
<1>6. CASE DevChooses
  BY <1>6
<1>7. CASE UNCHANGED vars
  BY <1>7 DEF vars
<1> QED
  BY <1>1, <1>2, <1>3, <1>4, <1>5, <1>6, <1>7 DEF Next

\* A request goes through its stages in order, unless the host gives up on it.
LEMMA StagesStep ==
  TypeOK /\ HandshakeInv /\ [Next]_vars => (timedOut \/ StagesInv)'
<1> SUFFICES ASSUME TypeOK, HandshakeInv, [Next]_vars
             PROVE  (timedOut \/ StagesInv)'
  OBVIOUS
<1> USE DEF TypeOK, RegType, SendType, Senders, H2DMsgs, IsrType, HandshakeInv, SendersInv,
           ThreadInv, StagesInv, Acked, NotSent, Silent, Asking, SuspendSteps, None, Idle
<1>1. CASE QuickCheckIsr \/ QuickCheckMask
  BY <1>1
<1>2. CASE IsrThread
  <2>1. CASE IsrReadStatus \/ IsrW1C
    BY <2>1
  <2>2. CASE HandleMbRead
    BY <2>2
  <2>3. CASE HandleMbClear
    BY <2>3
  <2>4. CASE SendStep("isr")
    BY <2>4
  <2>5. CASE HandleMbAckSent
    BY <2>5
  <2>6. CASE HandleMbFlags
    BY <2>6
  <2>7. CASE IsrRxTrigger \/ IsrCheckState \/ IsrEnable
    BY <2>7
  <2> QED
    BY <1>2, <2>1, <2>2, <2>3, <2>4, <2>5, <2>6, <2>7
<1>3. CASE CtlContinues
  <2>1. CASE SendStep("ctl")
    BY <2>1
  <2>2. CASE SetupWork
    BY <2>2
  <2>3. CASE EnterD3Sent
    BY <2>3
  <2>4. CASE EnterD3Wait
    BY <2>4
  <2>5. CASE EnterD3Check
    BY <2>5
  <2>6. CASE ResumeWork
    BY <2>6
  <2>7. CASE Teardown
    BY <2>7
  <2> QED
    BY <1>3, <2>1, <2>2, <2>3, <2>4, <2>5, <2>6, <2>7
<1>4. CASE CtlCalls \/ ResetBegin
  BY <1>4
<1>5. CASE DevReacts
  BY <1>5
<1>6. CASE DevChooses
  BY <1>6
<1>7. CASE UNCHANGED vars
  BY <1>7 DEF vars
<1> QED
  BY <1>1, <1>2, <1>3, <1>4, <1>5, <1>6, <1>7 DEF Next

\* Every step of the mailbox is one of the handshake or none.
LEMMA RefineStep ==
  TypeOK /\ HandshakeInv /\ [Next]_vars => [Handshake!Next]_(Handshake!vars)
<1> SUFFICES ASSUME TypeOK, HandshakeInv, [Next]_vars
             PROVE  [Handshake!Next]_(Handshake!vars)
  OBVIOUS
<1> USE DEF TypeOK, RegType, HandshakeInv, SendersInv, StagesInv, Acked, NotSent, Silent, Asking, SuspendSteps, None, Unanswering, HostBar, DeviceBar, Handshake!vars, Handshake!Next,
           Handshake!Boot, Handshake!Ask, Handshake!Sleep, Handshake!GiveUp, Handshake!Wake,
           Handshake!Close, Handshake!Hear, Handshake!FallAsleep, Handshake!GetUp, Handshake!Die,
           Handshake!LosePower
<1>1. CASE QuickCheckIsr \/ QuickCheckMask
  BY <1>1
<1>2. CASE IsrThread
  BY <1>2
<1>3. CASE CtlContinues
  BY <1>3
<1>4. CASE CtlCalls \/ ResetBegin
  BY <1>4
<1>5. CASE DevReacts
  BY <1>5
<1>6. CASE DevChooses
  BY <1>6
<1>7. CASE UNCHANGED vars
  BY <1>7 DEF vars
<1> QED
  BY <1>1, <1>2, <1>3, <1>4, <1>5, <1>6, <1>7 DEF Next

\* The strengthening that makes the promise inductive.
LEMMA HandshakeInvariant == Spec => []HandshakeInv
<1>1. Init => HandshakeInv
  BY DEF Init, HandshakeInv, SendersInv, ThreadInv, StagesInv, Acked, NotSent, Silent, Asking,
         SuspendSteps, Idle, None, Senders
<1>2. TypeOK /\ HandshakeInv /\ [Next]_vars => HandshakeInv'
  BY SendersStep, ThreadStep, StagesStep DEF HandshakeInv
<1> QED
  BY <1>1, <1>2, TypeCorrect, PTL DEF Spec

-----------------------------------------------------------------------------
(***************************************************************************)
(* What the project states.                                                *)
(***************************************************************************)

\* The driver's suspend and resume implement the handshake: KeepsHandshake.
THEOREM Refines == Spec => KeepsHandshake
<1>1. Init => Handshake!Init
  BY DEF Init, Handshake!Init, HostBar, DeviceBar
<1> QED
  BY <1>1, RefineStep, TypeCorrect, HandshakeInvariant, PTL DEF Spec, KeepsHandshake, Handshake!Spec

\* What the handshake itself guarantees: host and device stay among the named states.
LEMMA HandshakeTypes == Handshake!Spec => []Handshake!TypeOK
<1>1. Handshake!Init => Handshake!TypeOK
  BY DEF Handshake!Init, Handshake!TypeOK
<1>2. Handshake!TypeOK /\ [Handshake!Next]_(Handshake!vars) => Handshake!TypeOK'
  BY DEF Handshake!TypeOK, Handshake!Next, Handshake!Boot, Handshake!Ask, Handshake!Sleep,
         Handshake!GiveUp, Handshake!Wake, Handshake!Close, Handshake!Hear,
         Handshake!FallAsleep, Handshake!GetUp, Handshake!Die, Handshake!LosePower,
         Handshake!vars
<1> QED
  BY <1>1, <1>2, PTL DEF Handshake!Spec

\* Host and device sleep together, as long as the host gives no request up, in
\* everything that implements the handshake: AsleepTogether of SleepHandshake.
THEOREM HandshakeHolds == Handshake!Spec => []Handshake!AsleepTogether
<1>1. Handshake!Init => Handshake!AsleepTogether
  BY DEF Handshake!Init, Handshake!AsleepTogether
<1>2. Handshake!TypeOK /\ Handshake!AsleepTogether /\ [Handshake!Next]_(Handshake!vars)
        => Handshake!AsleepTogether'
  BY DEF Handshake!TypeOK, Handshake!AsleepTogether, Handshake!Next, Handshake!Boot,
         Handshake!Ask, Handshake!Sleep, Handshake!GiveUp, Handshake!Wake, Handshake!Close,
         Handshake!Hear, Handshake!FallAsleep, Handshake!GetUp, Handshake!Die,
         Handshake!LosePower, Handshake!vars
<1> QED
  BY <1>1, <1>2, HandshakeTypes, PTL DEF Handshake!Spec

\* So the driver that suspends without a timeout sleeps beside a device that does:
\* what brcmf_pcie_pm_enter_D3 takes the D3 acknowledgement for.
THEOREM MailboxSleepsTogether == Spec => []Handshake!AsleepTogether
BY Refines, HandshakeHolds, PTL DEF KeepsHandshake

\* A suspend that returned 0 left a device in D3: SuspendedMeansD3.
LEMMA SuspendSleeps == Spec => []SuspendedMeansD3
<1>1. HandshakeInv => SuspendedMeansD3
  BY DEF HandshakeInv, StagesInv, SuspendedMeansD3
<1> QED
  BY <1>1, HandshakeInvariant, PTL

\* No message to the device is being written while the host sleeps:
\* NoSendWhileSuspended.
LEMMA SuspendIsQuiet == Spec => []NoSendWhileSuspended
<1>1. HandshakeInv => NoSendWhileSuspended
  <2> SUFFICES ASSUME HandshakeInv, ctl = "suspended", ~timedOut
               PROVE  \A s \in Senders : send[s] = Idle
    BY DEF NoSendWhileSuspended
  <2>1. send["ctl"] = Idle
    BY DEF HandshakeInv, SendersInv
  <2>2. pc # "sending"
    BY DEF HandshakeInv, StagesInv, Silent, ThreadInv
  <2>3. send["isr"] = Idle
    BY <2>2 DEF HandshakeInv, SendersInv
  <2> QED
    BY <2>1, <2>3 DEF Senders
<1> QED
  BY <1>1, HandshakeInvariant, PTL

\* What brcmf_pcie_pm_enter_D3's return value of 0 promises: AsleepAndQuiet.
THEOREM SuspendKeepsPromise == Spec => []AsleepAndQuiet
BY SuspendSleeps, SuspendIsQuiet, PTL DEF AsleepAndQuiet

=============================================================================
