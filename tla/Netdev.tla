------------------------------- MODULE Netdev -------------------------------
(***************************************************************************)
(* The interfaces of the driver core (core.c): the two tables that find    *)
(* them, the stopping and waking of their transmit queues, and the count   *)
(* of 802.1X frames on their way.                                          *)
(*                                                                         *)
(* Two threads make and delete interfaces: "ctl" (attach, detach, suspend  *)
(* and resume, under the device lock) and "event" (the worker that handles *)
(* the firmware's interface events).  Each runs a list of steps; a step    *)
(* that reads a freed interface is undefined behaviour, is recorded in     *)
(* fault and ends the behaviour.  Beside them run the network stack (open, *)
(* stop, transmit), the flow control and the completions of the message    *)
(* layer, and one waiter for 802.1X frames, which holds the rtnl lock.     *)
(*                                                                         *)
(* The message layer, the firmware event queue and cfg80211 are not part   *)
(* of the sources; they are modelled by what they call in core.c.  Left    *)
(* out: the p2p device (off unless asked for) and the monitor interface.   *)
(***************************************************************************)
EXTENDS Integers, Sequences, FiniteSets

CONSTANTS
  Bss,        \* bsscfg indices, the primary interface has 0
  Ifidx,      \* interface indices of the firmware, the primary interface has 0
  Ifs,        \* struct brcmf_if objects; freed ones are used again
  MaxFrames,  \* bound: 802.1X frames the firmware holds under one index
  MaxDrift,   \* bound: how far a count goes from zero
  Traffic     \* bound: bsscfg indices whose interfaces the network stack opens

ASSUME NetdevAssumption ==
  /\ IsFiniteSet(Bss) /\ 0 \in Bss /\ Bss = 0..(Cardinality(Bss) - 1)
  /\ 0 \in Ifidx /\ Ifidx \subseteq Nat
  /\ Ifs \subseteq Nat \ {0}
  /\ MaxFrames \in Nat /\ MaxDrift \in Nat
  /\ Traffic \subseteq Bss

Null    == 0     \* no interface
Invalid == -1    \* BRCMF_BSSIDX_INVALID
Threads == {"ctl", "event"}
Reasons == {"disconnected", "flow"}   \* enum brcmf_netif_stop_reason

VARIABLES
  todo,      \* the steps each thread has still to take
  held,      \* the interface in each thread's local variable
  stage,     \* "attaching"; "attached", firmware events arrive; "gone"
  up,        \* bus->state is BRCMF_BUS_UP
  iflist,    \* drvr->iflist
  if2bss,    \* drvr->if2bss
  nif,       \* the interfaces
  xmit,      \* where start_xmit of each interface is
  flight,    \* 802.1X frames the message layer holds under each interface index
  waiter,    \* brcmf_netdev_wait_pend8021x: the interface waited for, and if time is up
  fault,     \* the first undefined behaviour: who, and the interface
  overruled, \* history: interfaces woken by the bus over a stop reason
  late,      \* history: interfaces stopped for a bus that was up again
  slipped,   \* history: interfaces whose count was reset or served another's frame
  happened   \* history: "stale" (an add that failed or went over a live interface),
             \* "unstarted" (brcmf_bus_started failed), "overlap" (detach and event worker)

tables  == <<iflist, if2bss>>
frames  == <<xmit, flight, waiter>>
history == <<overruled, late, slipped, happened>>
vars == <<todo, held, stage, up, tables, nif, frames, fault, history>>

NoFault == [who |-> "", nif |-> Null]
NoWait  == [nif |-> Null, expired |-> FALSE]

Blank(life, b, x) == [life |-> life, bss |-> b, idx |-> x, open |-> FALSE, stopped |-> FALSE,
                      stops |-> {}, pend |-> 0]

Freed == Blank("freed", 0, 0)

Alive(o) == nif[o].life \in {"made", "registered"}
Usable(o) == nif[o].life = "registered" /\ nif[o].open /\ \E b \in Bss : iflist[b] = o

\* brcmf_get_ifp
GetIfp(x) == IF if2bss[x] = Invalid THEN Null ELSE iflist[if2bss[x]]
-----------------------------------------------------------------------------
(***************************************************************************)
(* The step lists.                                                         *)
(***************************************************************************)
Do(op, b, x) == [op |-> op, bss |-> b, idx |-> x]

\* slip: the entry stays in the list
DelIf_KeepsEntry(b) == <<Do("hold", b, 0), Do("quiet", b, 0), Do("detach", b, 0)>>

\* brcmf_remove_interface and brcmf_del_if
DelIf(b) == <<Do("hold", b, 0), Do("quiet", b, 0), Do("detach", b, 0), Do("forget", b, 0)>>

Visits == [i \in 1..Cardinality(Bss) |-> Do("visit", i - 1, 0)]

\* slip: the queues are woken before the state is up
BusUp_WakesFirst == Visits \o <<Do("up", 0, 0)>>

\* brcmf_bus_change_state
BusUp == <<Do("up", 0, 0)>> \o Visits

\* the loop of brcmf_detach: the primary interface last
DelIfs ==
  LET n == Len(DelIf(0))
  IN [i \in 1..n * Cardinality(Bss) |-> DelIf(Cardinality(Bss) - 1 - (i - 1) \div n)[((i - 1) % n) + 1]]

\* brcmf_detach: the event worker is drained after all interfaces are gone
Detach == <<Do("down", 0, 0)>> \o DelIfs \o <<Do("silence", 0, 0)>>

\* brcmf_bus_started
BusStarted == <<Do("alloc", 0, 0)>> \o BusUp
              \o <<Do("preinit", 0, 0), Do("register", 0, 0), Do("notifiers", 0, 0)>>

\* its failure label, which forgets the first two interfaces, and that of brcmf_attach
FailStarted == <<Do("detach", 0, 0), Do("unlist", 0, 0)>>
               \o (IF 1 \in Bss THEN <<Do("unlist", 1, 0)>> ELSE <<>>) \o Detach

\* slip: what is replaced is only forgotten
Replace_Forgets(b) == <<Do("quiet", b, 0), Do("unlist", b, 0)>>

\* brcmf_add_if and brcmf_net_attach, for an interface event; replacing what is there
AddIf(b, x) == <<Do("alloc", b, x), Do("register", b, x)>>
Replace(b) == <<Do("quiet", b, 0), Do("detach", b, 0), Do("unlist", b, 0)>>
-----------------------------------------------------------------------------
Step(t, op) == todo[t] # <<>> /\ Head(todo[t]).op = op
Arg(t)      == Head(todo[t])
Advance(t)  == todo' = [todo EXCEPT ![t] = Tail(@)]
Divert(t, steps) == todo' = [todo EXCEPT ![t] = steps]

\* the interfaces are taken down while the event worker is busy
Overlap == IF todo["event"] # <<>> THEN {"overlap"} ELSE {}
Fails(t) == happened' = happened \union (IF t = "ctl" THEN {"unstarted"} \union Overlap ELSE {"stale"})

Faulty(who, o) ==
  /\ fault' = [who |-> who, nif |-> o]
  /\ UNCHANGED <<todo, held, stage, up, tables, nif, frames, history>>

Init ==
  /\ todo = [t \in Threads |-> IF t = "ctl" THEN BusStarted ELSE <<>>]
  /\ held = [t \in Threads |-> Null]
  /\ stage = "attaching"
  /\ up = FALSE
  /\ iflist = [b \in Bss |-> Null]
  /\ if2bss = [x \in Ifidx |-> Invalid]
  /\ nif = [o \in Ifs |-> Freed]
  /\ xmit = [o \in Ifs |-> "idle"]
  /\ flight = [x \in Ifidx |-> 0]
  /\ waiter = NoWait
  /\ fault = NoFault
  /\ overruled = {} /\ late = {} /\ slipped = {} /\ happened = {}
-----------------------------------------------------------------------------
(***************************************************************************)
(* Steps of the two threads.                                               *)
(***************************************************************************)
\* nothing refers to the object any more: another may be allocated in its place
Unused(o) ==
  /\ nif[o].life = "freed"
  /\ \A b \in Bss : iflist[b] # o
  /\ \A t \in Threads : held[t] # o

\* The second half of brcmf_add_if.  An index that is mapped already stays mapped
\* as it is.
Alloc(t) ==
  /\ Step(t, "alloc")
  /\ LET b == Arg(t).bss
         x == Arg(t).idx IN
     \/ \E o \in Ifs :
          /\ Unused(o) /\ \A p \in Ifs : Unused(p) => o <= p
          /\ nif' = [nif EXCEPT ![o] = Blank("made", b, x)]
          /\ iflist' = [iflist EXCEPT ![b] = o]
          /\ if2bss' = [if2bss EXCEPT ![x] = IF @ = Invalid THEN b ELSE @]
          /\ held' = [held EXCEPT ![t] = o]
          /\ overruled' = overruled \ {o} /\ late' = late \ {o}
          /\ slipped' = IF flight[x] = 0 THEN slipped \ {o} ELSE slipped \union {o}
          /\ Advance(t)
          /\ UNCHANGED happened
     \/ /\ Fails(t)
        /\ Divert(t, IF t = "ctl" THEN Detach ELSE <<>>)
        /\ UNCHANGED <<held, tables, nif, overruled, late, slipped>>
  /\ UNCHANGED <<stage, up, frames, fault>>

\* brcmf_net_attach.  When it fails for an interface event, the interface leaves the
\* list and nobody frees it; here its object is used again.
Register(t) ==
  /\ Step(t, "register")
  /\ LET o == held[t] IN
     \/ /\ Alive(o) /\ waiter = NoWait
        /\ nif' = [nif EXCEPT ![o].life = "registered"]
        /\ held' = IF t = "ctl" THEN held ELSE [held EXCEPT ![t] = Null]
        /\ Advance(t)
        /\ UNCHANGED <<stage, up, tables, frames, fault, history>>
     \/ /\ Alive(o) /\ Fails(t)
        /\ iflist' = [iflist EXCEPT ![nif[o].bss] = Null]
        /\ Divert(t, IF t = "ctl" THEN FailStarted ELSE <<>>)
        /\ nif' = IF t = "ctl" THEN nif ELSE [nif EXCEPT ![o] = Freed]
        /\ held' = IF t = "ctl" THEN held ELSE [held EXCEPT ![t] = Null]
        /\ UNCHANGED <<stage, up, if2bss, frames, fault, overruled, late, slipped>>
     \/ ~Alive(o) /\ Faulty(t, o)

\* brcmf_bus_preinit and the rest of brcmf_bus_started; from the first on events arrive
Started(op) ==
  /\ Step("ctl", op)
  /\ \/ /\ Advance("ctl")
        /\ held' = IF op = "notifiers" THEN [held EXCEPT !["ctl"] = Null] ELSE held
        /\ stage' = "attached"
        /\ UNCHANGED happened
     \/ /\ Fails("ctl")
        /\ Divert("ctl", FailStarted)
        /\ stage' \in {stage, "attached"}
        /\ UNCHANGED held
  /\ UNCHANGED <<up, tables, nif, frames, fault, overruled, late, slipped>>

\* the entry checks of brcmf_remove_interface and brcmf_del_if
Hold(t) ==
  /\ Step(t, "hold")
  /\ LET o == iflist[Arg(t).bss] IN
     IF o = Null
       THEN /\ Divert(t, SubSeq(todo[t], Len(DelIf(0)) + 1, Len(todo[t])))
            /\ UNCHANGED <<held, stage, up, tables, nif, frames, fault, history>>
       ELSE IF Alive(o)
         THEN /\ held' = [held EXCEPT ![t] = o]
              /\ Advance(t)
              /\ UNCHANGED <<stage, up, tables, nif, frames, fault, history>>
         ELSE Faulty(t, o)

Block(n, r)   == [n EXCEPT !.stops = @ \union {r}, !.stopped = @ \/ n.stops = {}]
Unblock(n, r) == [n EXCEPT !.stops = @ \ {r}, !.stopped = @ /\ n.stops \ {r} # {}]

\* brcmf_netdev_stop for the primary interface, netif_stop_queue for the others
Quiet(t) ==
  /\ Step(t, "quiet")
  /\ LET o == held[t] IN
     IF ~Alive(o)
       THEN Faulty(t, o)
       ELSE /\ IF nif[o].bss = 0
                 THEN waiter = NoWait /\ nif' = [nif EXCEPT ![o] = Block(@, "disconnected")]
                 ELSE nif' = [nif EXCEPT ![o].stopped = TRUE]
            /\ Advance(t)
            /\ UNCHANGED <<held, stage, up, tables, frames, fault, history>>

\* brcmf_net_detach: unregistering takes the rtnl lock, closes the interface and
\* waits for its transmit function; the interface is freed with its net device
NetDetach(t) ==
  /\ Step(t, "detach")
  /\ LET o == held[t] IN
     IF ~Alive(o)
       THEN Faulty(t, o)
       ELSE /\ nif[o].life = "registered" => waiter = NoWait /\ xmit[o] = "idle"
            /\ nif' = [nif EXCEPT ![o] = Blank("freed", 0, @.idx)]   \* idx was read before
            /\ overruled' = overruled \ {o} /\ late' = late \ {o} /\ slipped' = slipped \ {o}
            /\ Advance(t)
            /\ UNCHANGED <<held, stage, up, tables, frames, fault, happened>>

Unlist(t) ==
  /\ Step(t, "unlist")
  /\ iflist' = [iflist EXCEPT ![Arg(t).bss] = Null]
  /\ nif' = IF Alive(held[t]) THEN nif ELSE [nif EXCEPT ![held[t]] = Freed]
  /\ Advance(t)
  /\ UNCHANGED <<held, stage, up, if2bss, frames, fault, history>>

\* slip: the map keeps its entry
Forget_KeepsMap(t) ==
  /\ Step(t, "forget")
  /\ iflist' = [iflist EXCEPT ![Arg(t).bss] = Null]
  /\ held' = [held EXCEPT ![t] = Null]
  /\ Advance(t)
  /\ UNCHANGED <<stage, up, if2bss, nif, frames, fault, history>>

\* the end of brcmf_del_if
Forget(t) ==
  /\ Step(t, "forget")
  /\ LET b == Arg(t).bss
         x == nif[held[t]].idx IN
     /\ iflist' = [iflist EXCEPT ![b] = Null]
     /\ if2bss' = [if2bss EXCEPT ![x] = IF @ = b THEN Invalid ELSE @]
  /\ nif' = [nif EXCEPT ![held[t]] = Freed]
  /\ held' = [held EXCEPT ![t] = Null]
  /\ Advance(t)
  /\ UNCHANGED <<stage, up, frames, fault, history>>

SetState(op) ==
  /\ Step("ctl", op)
  /\ up' = (op = "up")
  /\ Advance("ctl")
  /\ UNCHANGED <<held, stage, tables, nif, frames, fault, history>>

\* one round of the loop in brcmf_bus_change_state: it looks at the queue only
Visit ==
  /\ Step("ctl", "visit")
  /\ LET o == iflist[Arg("ctl").bss] IN
     IF o # Null /\ ~Alive(o)
       THEN Faulty("ctl", o)
       ELSE /\ IF o # Null /\ nif[o].stopped
                 THEN /\ nif' = [nif EXCEPT ![o].stopped = FALSE]
                      /\ overruled' = IF nif[o].stops # {} THEN overruled \union {o} ELSE overruled
                      /\ late' = late \ {o}
                 ELSE UNCHANGED <<nif, overruled, late>>
            /\ Advance("ctl")
            /\ UNCHANGED <<held, stage, up, tables, frames, fault, slipped, happened>>

\* brcmf_fweh_detach waits for the event worker; the rest of brcmf_detach is the
\* life cycle's, here the behaviour ends
Silence ==
  /\ Step("ctl", "silence") /\ todo["event"] = <<>>
  /\ stage' = "gone"
  /\ Advance("ctl")
  /\ UNCHANGED <<held, up, tables, nif, frames, fault, history>>

ThreadStep ==
  \/ \E t \in Threads : \/ Alloc(t) \/ Register(t) \/ Hold(t) \/ Quiet(t) \/ NetDetach(t)
                        \/ Unlist(t) \/ Forget(t)
  \/ \E op \in {"preinit", "notifiers"} : Started(op)
  \/ \E op \in {"up", "down"} : SetState(op)
  \/ Visit \/ Silence
-----------------------------------------------------------------------------
(***************************************************************************)
(* What gives the threads work.                                            *)
(***************************************************************************)
Begin(t, steps, o) == Divert(t, steps) /\ held' = [held EXCEPT ![t] = o]

\* brcmf_detach is under way
Leaving == \E i \in DOMAIN todo["ctl"] : todo["ctl"][i].op = "silence"

\* BRCMF_E_IF with action add; the firmware gives out an index no other interface has
IfAdded(b, x) ==
  /\ stage = "attached" /\ todo["event"] = <<>>
  /\ b # 0 /\ x # 0
  /\ \A c \in Bss \ {b} : iflist[c] # Null => nif[iflist[c]].idx # x
  /\ LET o == iflist[b] IN
     IF o = Null
       THEN Begin("event", AddIf(b, x), Null) /\ UNCHANGED fault
       ELSE IF Alive(o)
         THEN Begin("event", Replace(b) \o AddIf(b, x), o) /\ UNCHANGED fault
         ELSE fault' = [who |-> "event", nif |-> o] /\ UNCHANGED <<todo, held>>
  /\ happened' = happened \union (IF iflist[b] # Null THEN {"stale"} ELSE {})
                          \union (IF Leaving THEN {"overlap"} ELSE {})
  /\ UNCHANGED <<stage, up, tables, nif, frames, overruled, late, slipped>>

\* BRCMF_E_IF with action del
IfDeleted(b) ==
  /\ stage = "attached" /\ todo["event"] = <<>>
  /\ b # 0 /\ iflist[b] # Null
  /\ Begin("event", DelIf(b), Null)
  /\ happened' = happened \union (IF Leaving THEN {"overlap"} ELSE {})
  /\ UNCHANGED <<stage, up, tables, nif, frames, fault, overruled, late, slipped>>

\* brcmf_pcie_pm_enter_D3, its failure and _leave_D3, brcmf_pcie_remove and _reset
Control(steps) ==
  /\ stage = "attached" /\ todo["ctl"] = <<>>
  /\ Begin("ctl", steps, Null)
  /\ happened' = happened \union
                   (IF steps = Detach THEN Overlap ELSE {})
  /\ UNCHANGED <<stage, up, tables, nif, frames, fault, overruled, late, slipped>>

Work ==
  \/ \E b \in Bss : IfDeleted(b) \/ \E x \in Ifidx : IfAdded(b, x)
  \/ up /\ Control(<<Do("down", 0, 0)>>)
  \/ ~up /\ Control(BusUp)
  \/ Control(Detach)
-----------------------------------------------------------------------------
(***************************************************************************)
(* Open, stop, and the transmit queue.                                     *)
(***************************************************************************)
Owed(o) == flight[nif[o].idx] + IF xmit[o] = "counted" THEN 1 ELSE 0

\* the count is set to zero: right if no frame is on its way
Recount(o) == slipped' = IF Owed(o) = 0 THEN slipped \ {o} ELSE slipped \union {o}

\* brcmf_netdev_open
Open(o) ==
  /\ nif[o].life = "registered" /\ ~nif[o].open /\ waiter = NoWait
  /\ up /\ nif[o].bss \in Traffic
  /\ \E ok \in BOOLEAN : nif' = [nif EXCEPT ![o].pend = 0, ![o].open = ok]
  /\ Recount(o)
  /\ UNCHANGED <<todo, held, stage, up, tables, frames, fault, overruled, late, happened>>

\* brcmf_netdev_stop, after the stack has waited for the transmit function
Stop(o) ==
  /\ Usable(o) /\ waiter = NoWait /\ xmit[o] = "idle"
  /\ nif' = [nif EXCEPT ![o] = [Block(@, "disconnected") EXCEPT !.open = FALSE]]
  /\ UNCHANGED <<todo, held, stage, up, tables, frames, fault, history>>

\* slip: clearing one reason wakes the queue
TxFlowBlock_WakesAny(o, r, state) ==
  /\ Usable(o)
  /\ nif' = [nif EXCEPT ![o] = IF state THEN Block(@, r)
                               ELSE [@ EXCEPT !.stops = @ \ {r}, !.stopped = FALSE]]
  /\ UNCHANGED <<todo, held, stage, up, tables, frames, fault, history>>

\* brcmf_txflowblock_if, for the message layer and for brcmf_net_setcarrier
TxFlowBlock(o, r, state) ==
  /\ Usable(o)
  /\ nif' = [nif EXCEPT ![o] = IF state THEN Block(@, r) ELSE Unblock(@, r)]
  /\ IF ~state /\ nif[o].stops \subseteq {r}
       THEN overruled' = overruled \ {o} /\ late' = late \ {o}
       ELSE UNCHANGED <<overruled, late>>
  /\ UNCHANGED <<todo, held, stage, up, tables, frames, fault, slipped, happened>>

\* brcmf_netdev_start_xmit up to the count; the stack calls it on a running queue
StartXmit(o) ==
  /\ Usable(o) /\ ~nif[o].stopped /\ xmit[o] = "idle"
  /\ IF ~up
       THEN /\ xmit' = [xmit EXCEPT ![o] = "stopping"]
            /\ UNCHANGED nif
       ELSE /\ nif[o].pend < MaxDrift
            /\ flight[nif[o].idx] + Cardinality({p \in Ifs : xmit[p] = "counted"}) < MaxFrames
            /\ xmit' = [xmit EXCEPT ![o] = "counted"]
            /\ nif' = [nif EXCEPT ![o].pend = @ + 1]
  /\ UNCHANGED <<todo, held, stage, up, tables, flight, waiter, fault, history>>

\* its netif_stop_queue, which the bus may have overtaken
StopQueue(o) ==
  /\ xmit[o] = "stopping"
  /\ xmit' = [xmit EXCEPT ![o] = "idle"]
  /\ nif' = [nif EXCEPT ![o].stopped = TRUE]
  /\ late' = IF up THEN late \union {o} ELSE late
  /\ UNCHANGED <<todo, held, stage, up, tables, flight, waiter, fault, overruled, slipped,
                 happened>>

\* slip: a frame that could not be queued stays counted
QueueData_Forgets(o) ==
  /\ xmit[o] = "counted"
  /\ xmit' = [xmit EXCEPT ![o] = "idle"]
  /\ flight' \in {flight, [flight EXCEPT ![nif[o].idx] = @ + 1]}
  /\ UNCHANGED <<todo, held, stage, up, tables, nif, waiter, fault, history>>

\* the rest of it: brcmf_proto_tx_queue_data, or brcmf_txfinalize when that fails
QueueData(o) ==
  /\ xmit[o] = "counted"
  /\ xmit' = [xmit EXCEPT ![o] = "idle"]
  /\ \/ flight' = [flight EXCEPT ![nif[o].idx] = @ + 1] /\ UNCHANGED nif
     \/ nif' = [nif EXCEPT ![o].pend = @ - 1] /\ UNCHANGED flight
  /\ UNCHANGED <<todo, held, stage, up, tables, waiter, fault, history>>

\* The transmit status of a frame names its ifidx: brcmf_txfinalize of whatever
\* brcmf_get_ifp finds there.
Complete(x) ==
  /\ flight[x] > 0
  /\ LET o == GetIfp(x) IN
     IF o # Null /\ ~Alive(o)
       THEN Faulty("completion", o)
       ELSE /\ o # Null => nif[o].pend > -MaxDrift
            /\ flight' = [flight EXCEPT ![x] = @ - 1]
            /\ nif' = IF o = Null THEN nif ELSE [nif EXCEPT ![o].pend = @ - 1]
            /\ slipped' = slipped \union {p \in Ifs : Alive(p) /\ (nif[p].idx = x) # (p = o)}
            /\ UNCHANGED <<todo, held, stage, up, tables, xmit, waiter, fault, overruled, late,
                           happened>>

\* brcmf_netdev_wait_pend8021x: the count is read once more when the time is up
WaitBegin(o) ==
  /\ Usable(o) /\ waiter = NoWait
  /\ waiter' = [nif |-> o, expired |-> FALSE]
  /\ UNCHANGED <<todo, held, stage, up, tables, nif, xmit, flight, fault, history>>

WaitDone ==
  /\ waiter # NoWait /\ ~waiter.expired
  /\ waiter' = IF nif[waiter.nif].pend = 0 THEN NoWait ELSE [waiter EXCEPT !.expired = TRUE]
  /\ UNCHANGED <<todo, held, stage, up, tables, nif, xmit, flight, fault, history>>

WaitReset ==
  /\ waiter.expired
  /\ waiter' = NoWait
  /\ nif' = [nif EXCEPT ![waiter.nif].pend = 0]
  /\ Recount(waiter.nif)
  /\ UNCHANGED <<todo, held, stage, up, tables, xmit, flight, fault, overruled, late, happened>>

Stack ==
  \/ \E o \in Ifs : \/ Open(o) \/ Stop(o) \/ StartXmit(o) \/ StopQueue(o) \/ QueueData(o)
                    \/ WaitBegin(o)
                    \/ \E r \in Reasons, state \in BOOLEAN : TxFlowBlock(o, r, state)
  \/ (\E x \in Ifidx : Complete(x)) \/ WaitDone \/ WaitReset

Next == fault = NoFault /\ stage # "gone" /\ (ThreadStep \/ Work \/ Stack)

Spec == Init /\ [][Next]_vars
-----------------------------------------------------------------------------
(***************************************************************************)
(* Properties.                                                             *)
(***************************************************************************)
Deleting(t, o) ==
  held[t] = o /\ todo[t] # <<>> /\ Head(todo[t]).op \in {"quiet", "detach", "unlist", "forget"}

Idle == \A t \in Threads : todo[t] = <<>>

\* A freed interface is found through the list only while the thread that freed it
\* is about to take it out (brcmf_del_if unregisters first and clears iflist last),
\* and a thread meets a freed interface of its own only if detach overlapped the
\* event worker, which brcmf_detach stops after the interfaces are gone.
FaultsHaveCause ==
  /\ \A b \in Bss : (iflist[b] # Null /\ ~Alive(iflist[b])) => \E t \in Threads : Deleting(t, iflist[b])
  /\ fault # NoFault =>
       \/ "overlap" \in happened
       \/ fault.who \notin {"event"} /\ \E t \in Threads : Deleting(t, fault.nif)

\* Between interface events the two tables agree: an index leads to the interface
\* that has it and every listed interface is found by its index.  An add over an
\* interface whose deletion was missed, or one that failed, leaves the map stale.
MapAgrees ==
  Idle /\ fault = NoFault /\ happened = {} =>
    /\ \A x \in Ifidx : if2bss[x] # Invalid => GetIfp(x) # Null /\ nif[GetIfp(x)].idx = x
    /\ \A b \in Bss : iflist[b] # Null => GetIfp(nif[iflist[b]].idx) = iflist[b]

\* A queue runs over a stop reason only if brcmf_bus_change_state woke it, which
\* does not look at netif_stop: two reasons that come and go in any order, with
\* the stops of transmit and deletion between them, never lose each other.
QueueHonoursReasons ==
  \A o \in Ifs : Alive(o) /\ nif[o].stops # {} => nif[o].stopped \/ o \in overruled

\* On a bus that is up, a queue nobody has a reason to stop runs, unless its
\* transmit function saw the bus down and stopped it after the bus had come up and
\* woken everybody; nothing wakes that one before the next stop reason goes.
NoStrandedQueue ==
  \A o \in Ifs :
    /\ Usable(o) /\ up /\ nif[o].stops = {} /\ nif[o].stopped
    /\ \A t \in Threads : ~Deleting(t, o)
    /\ ~\E i \in DOMAIN todo["ctl"] : todo["ctl"][i].op = "visit"
    => o \in late

\* The count brcmf_netdev_wait_pend8021x waits on is the number of 802.1X frames on
\* their way, through failing transmissions and completions in any order, until a
\* wait that times out, or an open, sets it to zero over frames still to complete,
\* or its interface index serves two interfaces.
PendCountsFrames ==
  \A b \in Bss :
    LET o == iflist[b] IN
    /\ o \notin slipped \union {Null} /\ nif[o].life = "registered"
    /\ \A p \in Ifs \ {o} : Alive(p) => nif[p].idx # nif[o].idx
    => nif[o].pend = Owed(o)

\* brcmf_detach leaves no interface behind, replaced or not, except those whose
\* registration failed and those the event worker adds after the loop went by.
DetachFreesAll ==
  stage = "gone" /\ happened \intersect {"unstarted", "overlap"} = {} =>
    \A o \in Ifs : ~Alive(o)
=============================================================================
