----------------------- MODULE PcieMailboxRefinement -----------------------
(***************************************************************************)
(* The mailbox as an implementation of SleepHandshake.                     *)
(***************************************************************************)
EXTENDS PcieMailbox

\* suspend is under way, done, or neither
HostBar ==
  IF ctl = "off" THEN "off"
  ELSE IF ctl \in SuspendSteps THEN "asking"
  ELSE IF ctl = "suspended" THEN "asleep"
  ELSE "awake"

\* deep sleep is the firmware's own affair
DeviceBar ==
  IF dev = "d3pend" THEN "told"
  ELSE IF dev = "D3" THEN "asleep"
  ELSE IF dev \in {"off", "dead"} THEN dev
  ELSE "awake"

Handshake == INSTANCE SleepHandshake WITH host <- HostBar, device <- DeviceBar, doubt <- timedOut

\* pm_enter_D3, pm_leave_D3, handle_mb_data and the unlocked send_mb_data between
\* them keep the promise of the handshake: no order of messages, answers and halts
\* puts a device to sleep unasked, wakes it under a sleeping host, or lets the host
\* sleep before it, but for what a suspend that timed out leaves behind.
KeepsHandshake == Handshake!Spec
-----------------------------------------------------------------------------
(***************************************************************************)
(* Why it does: an inductive invariant.                                    *)
(***************************************************************************)
\* Each caller of send_mb_data sends what its place says.
SendersInv ==
  /\ ctl = "d3send" => send["ctl"].step # "idle" /\ send["ctl"].msg = "D3_INFORM"
  /\ ctl = "d0send" => send["ctl"].step # "idle" /\ send["ctl"].msg = "D0_INFORM"
  /\ ctl \notin {"d3send", "d0send"} => send["ctl"] = Idle
  /\ pc = "sending" => send["isr"].step # "idle" /\ send["isr"].msg = "DS_ACK"
  /\ pc # "sending" => send["isr"] = Idle

\* The interrupt thread's copy of the word is the word until it clears it, and
\* nothing runs when the interrupt has been given back.
ThreadInv ==
  /\ pc = "mbclear" => msg = dtoh /\ dtoh # {}
  /\ pc = "sending" => "DS_ENTER_REQ" \in msg
  /\ pc \notin {"mbclear", "sending", "acks"} => msg = {}
  /\ ctl \in {"drain", "leftover", "off"} => ~irq
  /\ ctl \in {"leftover", "off"} => hard = "idle" /\ ~wake /\ pc = "idle"

Acked   == "D3_ACK" \in dtoh \union msg
NotSent == ctl = "d3send" /\ send["ctl"].step \in {"poll", "write"}
Silent  == htod # "D0_INFORM" /\ dtoh = {} /\ msg = {}
Asking  == ctl \in SuspendSteps /\ ~NotSent

\* D3_INFORM in the word, the device about to answer, the answer in the word or in
\* the thread's hands, and mbdata_completed are the stages of one request: they
\* follow one another and belong to the suspend that is under way.
StagesInv ==
  /\ NotSent => ~completed /\ ~Acked /\ htod # "D3_INFORM" /\ dev # "d3pend"
  /\ htod = "D3_INFORM" => Asking /\ ~completed /\ ~Acked /\ dev # "d3pend"
  /\ dev = "d3pend" => Asking /\ ~completed /\ ~Acked /\ htod # "D0_INFORM"
  /\ Acked => Asking /\ ~completed /\ dev = "D3" /\ htod # "D0_INFORM"
  /\ "D3_ACK" \in dtoh => "DS_ENTER_REQ" \notin dtoh
  /\ "D3_ACK" \in msg => "DS_ENTER_REQ" \notin msg /\ (pc # "mbclear" => dtoh = {})
  /\ ctl \in SuspendSteps /\ completed => dev = "D3" /\ Silent
  /\ ctl = "suspended" => dev \in {"D3", "off"} /\ Silent

HandshakeInv == SendersInv /\ ThreadInv /\ (timedOut \/ StagesInv)
=============================================================================
