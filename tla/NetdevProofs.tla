---------------------------- MODULE NetdevProofs ----------------------------
(***************************************************************************)
(* The interfaces of Netdev, for every number of bsscfg and interface      *)
(* indices and interface objects and every amount of traffic.              *)
(*                                                                         *)
(* The properties rest on what the lists of steps promise: an interface    *)
(* that is stopped for deletion is detached and taken from the list next,  *)
(* a bus that comes up visits every queue, detach comes to every index.    *)
(***************************************************************************)
EXTENDS Netdev, TLAPS, FiniteSetTheorems, SequenceTheorems

Ops == {"alloc", "register", "preinit", "notifiers", "hold", "quiet", "detach", "unlist", "forget",
        "up", "down", "visit", "silence"}
StepType == [op : Ops, bss : Bss, idx : Ifidx]
NifType  == [life : {"freed", "made", "registered"}, bss : Bss, idx : Ifidx, open : BOOLEAN,
             stopped : BOOLEAN, stops : SUBSET Reasons, pend : Int]
ThreadTypes ==
  /\ todo \in [Threads -> Seq(StepType)]
  /\ held \in [Threads -> Ifs \cup {Null}]
  /\ stage \in {"attaching", "attached", "gone"} /\ up \in BOOLEAN
TableTypes == iflist \in [Bss -> Ifs \cup {Null}] /\ if2bss \in [Ifidx -> Bss \cup {Invalid}]
FrameTypes ==
  /\ xmit \in [Ifs -> {"idle", "stopping", "counted"}] /\ flight \in [Ifidx -> Int]
  /\ waiter \in [nif : Ifs \cup {Null}, expired : BOOLEAN]
TypeOK == ThreadTypes /\ TableTypes /\ FrameTypes /\ nif \in [Ifs -> NifType]

-----------------------------------------------------------------------------
(***************************************************************************)
(* The lists of steps.                                                     *)
(***************************************************************************)
\* deleting goes through all its steps, on one index
Chained(s) == \A i \in 1 .. Len(s) :
  /\ s[i].op = "hold" => i < Len(s) /\ s[i + 1].op = "quiet" /\ s[i + 1].bss = s[i].bss
  /\ s[i].op = "quiet" => i < Len(s) /\ s[i + 1].op = "detach" /\ s[i + 1].bss = s[i].bss
  /\ s[i].op = "detach" => i < Len(s) /\ s[i + 1].op \in {"unlist", "forget"} /\ s[i + 1].bss = s[i].bss
DeleteOps == {"hold", "quiet", "detach", "unlist", "forget"}
\* and none of them stands without the one before it, but at the head
Rear(s) == \A i \in 2 .. Len(s) :
  /\ s[i].op = "quiet" => s[i - 1].op = "hold"
  /\ s[i].op = "detach" => s[i - 1].op = "quiet"
  /\ s[i].op = "forget" => s[i - 1].op = "detach"
  /\ s[i].op = "unlist" => s[i - 1].op \in {"detach", "unlist"} /\ \A j \in 1 .. i : s[j].op # "hold"
\* what the event worker has to do is about one secondary interface
EventList(s) == \A i \in 1 .. Len(s) :
  /\ s[i].op \in DeleteOps \cup {"alloc", "register"}
  /\ s[i].bss # 0 /\ \A j \in 1 .. Len(s) : s[j].bss = s[i].bss
  /\ s[i].op = "unlist" => i + 2 = Len(s) /\ s[i + 1].op = "alloc"
  /\ s[i].op = "alloc" => i + 1 = Len(s) /\ s[i].idx # 0 /\ s[i + 1].op = "register" /\ s[i + 1].idx = s[i].idx
  /\ s[i].op = "register" => i = Len(s) /\ s[i].idx # 0
  /\ s[i].op = "forget" => i = Len(s)
\* attach works on the primary interface, nothing is deleted but on the way out
CtlList(s) == \A i \in 1 .. Len(s) :
  /\ s[i].op = "alloc" => i = 1 /\ Len(s) > 1 /\ s[2].op = "up" /\ s[i].bss = 0 /\ s[i].idx = 0
  /\ s[i].op = "register" => s[i].bss = 0 /\ s[i].idx = 0
  /\ s[i].op \in {"preinit", "register", "notifiers"} =>
       \A j \in i .. Len(s) : s[j].op \in {"preinit", "register", "notifiers"}
  /\ s[i].op \in {"alloc", "preinit", "register", "notifiers"} => s[Len(s)].op = "notifiers"
  /\ s[i].op \in DeleteOps => s[Len(s)].op = "silence"
  /\ s[i].op \in {"silence", "notifiers"} => i = Len(s)
  /\ s[i].op = "up" => \A b \in Bss : \E j \in i + 1 .. Len(s) : s[j].op = "visit" /\ s[j].bss = b
  /\ s[i].op = "up" => \A j \in i + 1 .. Len(s) : s[j].op # "up"
Lists == /\ \A t \in Threads : Chained(todo[t]) /\ Rear(todo[t])
         /\ EventList(todo["event"]) /\ CtlList(todo["ctl"])

-----------------------------------------------------------------------------
(***************************************************************************)
(* Threads and interfaces.                                                 *)
(***************************************************************************)
Has(s, op) == \E i \in 1 .. Len(s) : s[i].op = op
Now(t) == IF todo[t] = <<>> THEN "none" ELSE Head(todo[t]).op
Pending(op, b) == \E i \in 1 .. Len(todo["ctl"]) : todo["ctl"][i].op = op /\ todo["ctl"][i].bss = b
Adds(b, x) == \E i \in 1 .. Len(todo["event"]) :
  todo["event"][i].op = "alloc" /\ todo["event"][i].bss = b /\ todo["event"][i].idx = x
Quarrel == "overlap" \in happened
Smooth  == happened \cap {"unstarted", "overlap"} = {}
\* Two threads delete at a time only if detach overlaps the event worker; until
\* events arrive the event worker is idle, and before the first step nothing exists.
Turns ==
  /\ Has(todo["ctl"], "silence") /\ Now("event") # "none" => Quarrel
  /\ stage = "attaching" => Now("event") = "none"
  /\ Now("ctl") = "alloc" => /\ stage = "attaching"
                             /\ \A o \in Ifs : ~Alive(o)
                             /\ \A b \in Bss : iflist[b] = Null
                             /\ \A x \in Ifidx : if2bss[x] = Invalid
  /\ Has(todo["ctl"], "up") => ~up
  /\ Has(todo["ctl"], "unlist") => ~Smooth

\* What a thread has in hand.
InHand ==
  /\ \A t \in Threads : Now(t) \in {"quiet", "detach"} =>
       /\ held[t] \in Ifs
       /\ Alive(held[t]) => nif[held[t]].bss = Arg(t).bss
       /\ Alive(held[t]) \/ Quarrel
  /\ \A t \in Threads : Now(t) \in {"unlist", "forget"} => held[t] \in Ifs /\ ~Alive(held[t])
  /\ Now("event") = "register" =>
       /\ held["event"] \in Ifs
       /\ Alive(held["event"]) => /\ nif[held["event"]].life = "made"
                                  /\ nif[held["event"]].bss = Arg("event").bss
       /\ Alive(held["event"]) \/ Quarrel
  /\ Now("ctl") # "alloc" /\ Has(todo["ctl"], "notifiers") =>
       held["ctl"] \in Ifs /\ Alive(held["ctl"]) /\ nif[held["ctl"]].bss = 0

\* What stands in the list.
Listing ==
  /\ \A b \in Bss : iflist[b] # Null /\ Alive(iflist[b]) => nif[iflist[b]].bss = b
  /\ \A b, c \in Bss : iflist[b] # Null /\ iflist[b] = iflist[c] => b = c
  /\ \A b \in Bss : iflist[b] # Null /\ ~Alive(iflist[b]) =>
       \E t \in Threads : held[t] = iflist[b] /\ Now(t) \in {"unlist", "forget"} /\ Arg(t).bss = b
  /\ Now("event") = "alloc" => iflist[Arg("event").bss] = Null
FaultInv ==
  fault # NoFault => \/ Quarrel
                     \/ fault.who # "event" /\ \E t \in Threads : Deleting(t, fault.nif)

-----------------------------------------------------------------------------
(***************************************************************************)
(* Queues and counts.                                                      *)
(***************************************************************************)
Listed(o) == \E b \in Bss : iflist[b] = o
\* One that is neither listed nor in a thread's hands is there for good.
Ending(o) == \E t \in Threads : held[t] = o /\ (Now(t) \in {"quiet", "detach"} \/ (t = "event" /\ Now(t) = "register"))
\* What stands in the list where a thread is at work.
Places ==
  /\ Now("event") \in {"register", "quiet", "detach", "unlist", "forget"} =>
       iflist[Arg("event").bss] \in {held["event"], Null}
  /\ Now("ctl") \in {"quiet", "detach"} /\ Alive(held["ctl"]) =>
       Arg("ctl").bss = 0 \/ iflist[Arg("ctl").bss] = held["ctl"]
Indices ==
  /\ \A o \in Ifs : Alive(o) => (nif[o].bss = 0 <=> nif[o].idx = 0)
  /\ \A o, p \in Ifs : Alive(o) /\ Alive(p) /\ nif[o].bss = 0 /\ nif[p].bss = 0 => o = p
  /\ \A o, p \in Ifs : Alive(o) /\ Alive(p) /\ o # p /\ nif[o].idx = nif[p].idx /\ Listed(o) =>
       ~Listed(p) /\ ~Ending(p)
  /\ \A b, c \in Bss, x \in Ifidx :
       Adds(b, x) /\ iflist[c] # Null /\ c # b => nif[iflist[c]].idx # x
Counting ==
  /\ \A o \in Ifs : nif[o].life # "registered" => xmit[o] = "idle"
  /\ \A o \in Ifs : /\ Alive(o) /\ Listed(o) /\ o \notin slipped
                    /\ \A p \in Ifs \ {o} : Alive(p) => nif[p].idx # nif[o].idx
                    => nif[o].pend = Owed(o)
Waking ==
  \A b \in Bss :
    LET o == iflist[b] IN
    /\ o # Null /\ o \notin late /\ up
    /\ Alive(o) /\ nif[o].stops = {} /\ nif[o].stopped
    => \/ \E t \in Threads : held[t] = o /\ Now(t) \in {"quiet", "detach"}
       \/ Pending("visit", b)

-----------------------------------------------------------------------------
(***************************************************************************)
(* Tables and detach.                                                      *)
(***************************************************************************)
Kept ==
  Smooth =>
    /\ \A o \in Ifs : Alive(o) => iflist[nif[o].bss] = o
    /\ \A t \in Threads : Now(t) \in {"quiet", "detach", "unlist", "forget"} => iflist[Arg(t).bss] = held[t]
    /\ Has(todo["ctl"], "silence") => \A o \in Ifs : Alive(o) =>
         \/ held["ctl"] = o /\ Now("ctl") \in {"quiet", "detach"}
         \/ Pending("hold", nif[o].bss)
    /\ stage = "gone" => \A o \in Ifs : ~Alive(o)
Mapped ==
  happened = {} =>
    /\ \A b \in Bss : iflist[b] # Null => if2bss[nif[iflist[b]].idx] = b
    /\ \A x \in Ifidx : if2bss[x] # Invalid => iflist[if2bss[x]] # Null /\ nif[iflist[if2bss[x]]].idx = x
    /\ ~Has(todo["event"], "unlist")

-----------------------------------------------------------------------------
(***************************************************************************)
(* Facts about the lists.                                                  *)
(***************************************************************************)
\* The interface indices are the numbers below some positive number.
LEMMA Numbers ==
  /\ Cardinality(Bss) \in Nat \ {0}
  /\ \A b : b \in Bss <=> b \in Nat /\ b < Cardinality(Bss)
  /\ 0 \in Ifidx /\ 0 \in Bss /\ Null \notin Ifs /\ Invalid \notin Bss
<1>1. Cardinality(Bss) \in Nat
  BY FS_CardinalityType, NetdevAssumption
<1>2. Bss = 0 .. Cardinality(Bss) - 1 /\ 0 \in Bss
  BY NetdevAssumption
<1> QED
  BY <1>1, <1>2, NetdevAssumption DEF Null, Invalid

\* Step k of the deletion of every index, the highest first.
LEMMA DelIfsSteps ==
  /\ DelIfs \in Seq(StepType) /\ Len(DelIfs) = 4 * Cardinality(Bss)
  /\ \A k \in 0 .. Cardinality(Bss) - 1 :
       LET b == Cardinality(Bss) - 1 - k
       IN /\ b \in Bss
          /\ DelIfs[4 * k + 1] = Do("hold", b, 0) /\ DelIfs[4 * k + 2] = Do("quiet", b, 0)
          /\ DelIfs[4 * k + 3] = Do("detach", b, 0) /\ DelIfs[4 * k + 4] = Do("forget", b, 0)
  /\ \A i \in 1 .. Len(DelIfs) : \E k \in 0 .. Cardinality(Bss) - 1, m \in 1 .. 4 : i = 4 * k + m
<1> DEFINE N == Cardinality(Bss)
<1>1. N \in Nat \ {0} /\ \A b : b \in Bss <=> b \in Nat /\ b < N
  BY Numbers
<1>2. Len(DelIf(0)) = 4
  BY DEF DelIf
<1>3. DelIfs = [i \in 1 .. 4 * N |-> DelIf(N - 1 - (i - 1) \div 4)[((i - 1) % 4) + 1]]
  BY <1>2 DEF DelIfs
<1> HIDE DEF N
<1>4. \A i \in 1 .. 4 * N : \E k \in 0 .. N - 1, m \in 1 .. 4 : i = 4 * k + m
  <2> SUFFICES ASSUME NEW i \in 1 .. 4 * N PROVE \E k \in 0 .. N - 1, m \in 1 .. 4 : i = 4 * k + m
    OBVIOUS
  <2> DEFINE k == (i - 1) \div 4
             m == ((i - 1) % 4) + 1
  <2>1. k \in 0 .. N - 1 /\ m \in 1 .. 4 /\ i = 4 * k + m
    BY <1>1
  <2> QED
    BY <2>1
<1>5. ASSUME NEW k \in 0 .. N - 1, NEW m \in 1 .. 4
      PROVE  4 * k + m \in 1 .. 4 * N /\ DelIfs[4 * k + m] = DelIf(N - 1 - k)[m]
  <2>1. 4 * k + m \in 1 .. 4 * N
    BY <1>1
  <2>2. (4 * k + m - 1) \div 4 = k /\ ((4 * k + m - 1) % 4) + 1 = m
    BY <1>1
  <2> QED
    BY <1>3, <2>1, <2>2
<1>6. \A b : /\ DelIf(b)[1] = Do("hold", b, 0) /\ DelIf(b)[2] = Do("quiet", b, 0)
            /\ DelIf(b)[3] = Do("detach", b, 0) /\ DelIf(b)[4] = Do("forget", b, 0)
  BY DEF DelIf
<1>7. \A k \in 0 .. N - 1 : N - 1 - k \in Bss
  BY <1>1
<1>8. \A b \in Bss, m \in 1 .. 4 : DelIf(b)[m] \in StepType
  <2>1. \A b \in Bss, op \in Ops : Do(op, b, 0) \in StepType
    BY Numbers DEF Do, StepType
  <2>2. {"hold", "quiet", "detach", "forget"} \subseteq Ops
    BY DEF Ops
  <2> QED
    BY <1>6, <2>1, <2>2
<1>9. \A i \in 1 .. 4 * N : DelIfs[i] \in StepType
  <2> SUFFICES ASSUME NEW i \in 1 .. 4 * N PROVE DelIfs[i] \in StepType
    OBVIOUS
  <2>1. PICK k \in 0 .. N - 1, m \in 1 .. 4 : i = 4 * k + m
    BY <1>4
  <2> QED
    BY <1>5, <1>7, <1>8, <2>1
<1>10. DelIfs \in [1 .. 4 * N -> StepType]
  BY <1>3, <1>9
<1>11. DelIfs \in Seq(StepType) /\ Len(DelIfs) = 4 * N
  BY <1>1, <1>10
<1>12. ASSUME NEW k \in 0 .. N - 1
       PROVE  /\ DelIfs[4 * k + 1] = Do("hold", N - 1 - k, 0) /\ DelIfs[4 * k + 2] = Do("quiet", N - 1 - k, 0)
              /\ DelIfs[4 * k + 3] = Do("detach", N - 1 - k, 0) /\ DelIfs[4 * k + 4] = Do("forget", N - 1 - k, 0)
  <2>1. 1 \in 1 .. 4 /\ 2 \in 1 .. 4 /\ 3 \in 1 .. 4 /\ 4 \in 1 .. 4
    OBVIOUS
  <2> QED
    BY <1>5, <1>6, <2>1
<1> QED
  BY <1>4, <1>7, <1>11, <1>12 DEF N

\* What is left of a list keeps what the whole list promised.
LEMMA Dropped ==
  ASSUME NEW s \in Seq(StepType), NEW r \in Seq(StepType), NEW n \in Nat, Len(s) = n + Len(r),
         \A i \in 1 .. Len(r) : r[i] = s[i + n]
  PROVE  /\ Chained(s) => Chained(r)
         /\ Rear(s) => Rear(r)
         /\ EventList(s) => EventList(r)
         /\ CtlList(s) => CtlList(r)
         /\ \A op : Has(r, op) => Has(s, op)
<1>0. Len(r) \in Nat /\ Len(s) \in Nat
  BY LenProperties
<1>1. Chained(s) => Chained(r)
  <2>1. ASSUME NEW i \in 1 .. Len(r)
        PROVE  /\ i + n \in 1 .. Len(s) /\ r[i] = s[i + n] /\ (i < Len(r) <=> i + n < Len(s))
               /\ i < Len(r) => r[i + 1] = s[i + n + 1]
    BY <1>0
  <2> QED
    BY <2>1 DEF Chained
<1>r. Rear(s) => Rear(r)
  <2> SUFFICES ASSUME Rear(s), NEW i \in 2 .. Len(r)
      PROVE  /\ r[i].op = "quiet" => r[i - 1].op = "hold"
             /\ r[i].op = "detach" => r[i - 1].op = "quiet"
             /\ r[i].op = "forget" => r[i - 1].op = "detach"
             /\ r[i].op = "unlist" => r[i - 1].op \in {"detach", "unlist"} /\ \A j \in 1 .. i : r[j].op # "hold"
    BY DEF Rear
  <2>1. /\ i + n \in 2 .. Len(s) /\ r[i] = s[i + n]
        /\ i - 1 \in 1 .. Len(r) /\ (i - 1) + n = (i + n) - 1
    BY <1>0
  <2>2. r[i - 1] = s[(i + n) - 1]
    BY <2>1
  <2>3. \A j \in 1 .. i : j + n \in 1 .. i + n /\ r[j] = s[j + n]
    BY <1>0
  <2> QED
    BY <2>1, <2>2, <2>3 DEF Rear
<1>2. EventList(s) => EventList(r)
  <2> SUFFICES ASSUME EventList(s) PROVE EventList(r)
    OBVIOUS
  <2> SUFFICES ASSUME NEW i \in 1 .. Len(r)
       PROVE  /\ r[i].op \in DeleteOps \cup {"alloc", "register"}
              /\ r[i].bss # 0 /\ \A j \in 1 .. Len(r) : r[j].bss = r[i].bss
              /\ r[i].op = "unlist" => i + 2 = Len(r) /\ r[i + 1].op = "alloc"
              /\ r[i].op = "alloc" => i + 1 = Len(r) /\ r[i].idx # 0 /\ r[i + 1].op = "register" /\ r[i + 1].idx = r[i].idx
              /\ r[i].op = "register" => i = Len(r) /\ r[i].idx # 0
              /\ r[i].op = "forget" => i = Len(r)
    BY DEF EventList
  <2>1. i + n \in 1 .. Len(s) /\ r[i] = s[i + n]
        /\ \A j \in 1 .. Len(r) : j + n \in 1 .. Len(s) /\ r[j] = s[j + n]
    BY <1>0
  <2>2. r[i].op \in DeleteOps \cup {"alloc", "register"}
    BY <2>1 DEF EventList
  <2>3. r[i].bss # 0 /\ \A j \in 1 .. Len(r) : r[j].bss = r[i].bss
    BY <2>1 DEF EventList
  <2>4. i < Len(r) => r[i + 1] = s[i + n + 1]
    BY <1>0
  <2>5. r[i].op = "unlist" => i + 2 = Len(r) /\ r[i + 1].op = "alloc"
    <3>1. r[i].op = "unlist" => i + n + 2 = Len(s) /\ s[i + n + 1].op = "alloc"
      BY <2>1 DEF EventList
    <3>2. i + n + 2 = Len(s) => i + 2 = Len(r) /\ i < Len(r)
      BY <1>0
    <3> QED
      BY <2>4, <3>1, <3>2
  <2>6. r[i].op = "alloc" => i + 1 = Len(r) /\ r[i].idx # 0 /\ r[i + 1].op = "register" /\ r[i + 1].idx = r[i].idx
    BY <1>0, <2>1, <2>4 DEF EventList
  <2>7. (r[i].op = "register" => i = Len(r) /\ r[i].idx # 0) /\ (r[i].op = "forget" => i = Len(r))
    BY <1>0, <2>1 DEF EventList
  <2> QED
    BY <2>2, <2>3, <2>5, <2>6, <2>7
<1>3. CtlList(s) => CtlList(r)
  <2> SUFFICES ASSUME CtlList(s), NEW i \in 1 .. Len(r)
       PROVE  /\ r[i].op = "alloc" => i = 1 /\ Len(r) > 1 /\ r[2].op = "up" /\ r[i].bss = 0 /\ r[i].idx = 0
              /\ r[i].op = "register" => r[i].bss = 0 /\ r[i].idx = 0
              /\ r[i].op \in {"preinit", "register", "notifiers"} =>
                   \A j \in i .. Len(r) : r[j].op \in {"preinit", "register", "notifiers"}
              /\ r[i].op \in {"alloc", "preinit", "register", "notifiers"} => r[Len(r)].op = "notifiers"
              /\ r[i].op \in DeleteOps => r[Len(r)].op = "silence"
              /\ r[i].op \in {"silence", "notifiers"} => i = Len(r)
              /\ r[i].op = "up" => \A b \in Bss : \E j \in i + 1 .. Len(r) : r[j].op = "visit" /\ r[j].bss = b
              /\ r[i].op = "up" => \A j \in i + 1 .. Len(r) : r[j].op # "up"
    BY DEF CtlList
  <2>1. i + n \in 1 .. Len(s) /\ r[i] = s[i + n]
    BY <1>0
  <2>2. r[i].op = "alloc" => i = 1 /\ Len(r) > 1 /\ r[2].op = "up" /\ r[i].bss = 0 /\ r[i].idx = 0
    BY <1>0, <2>1 DEF CtlList
  <2>3. r[i].op = "register" => r[i].bss = 0 /\ r[i].idx = 0
    BY <2>1 DEF CtlList
  <2>4. r[i].op \in {"preinit", "register", "notifiers"} =>
          \A j \in i .. Len(r) : r[j].op \in {"preinit", "register", "notifiers"}
    <3>1. \A j \in i .. Len(r) : j + n \in i + n .. Len(s) /\ r[j] = s[j + n]
      BY <1>0
    <3>2. s[i + n].op \in {"preinit", "register", "notifiers"} =>
            \A j \in i + n .. Len(s) : s[j].op \in {"preinit", "register", "notifiers"}
      BY <2>1 DEF CtlList
    <3> QED
      BY <2>1, <3>1, <3>2
  <2>5. r[i].op \in DeleteOps => r[Len(r)].op = "silence"
    BY <1>0, <2>1 DEF CtlList
  <2>8. r[i].op \in {"alloc", "preinit", "register", "notifiers"} => r[Len(r)].op = "notifiers"
    BY <1>0, <2>1 DEF CtlList
  <2>9. r[i].op = "up" => \A j \in i + 1 .. Len(r) : r[j].op # "up"
    <3>1. \A j \in i + 1 .. Len(r) : j + n \in (i + n) + 1 .. Len(s) /\ r[j] = s[j + n]
      BY <1>0
    <3> QED
      BY <2>1, <3>1 DEF CtlList
  <2>6. r[i].op \in {"silence", "notifiers"} => i = Len(r)
    BY <1>0, <2>1 DEF CtlList
  <2>7. r[i].op = "up" => \A b \in Bss : \E j \in i + 1 .. Len(r) : r[j].op = "visit" /\ r[j].bss = b
    <3> SUFFICES ASSUME r[i].op = "up", NEW b \in Bss
                 PROVE  \E j \in i + 1 .. Len(r) : r[j].op = "visit" /\ r[j].bss = b
      OBVIOUS
    <3>1. PICK j \in i + n + 1 .. Len(s) : s[j].op = "visit" /\ s[j].bss = b
      BY <2>1 DEF CtlList
    <3>2. j - n \in i + 1 .. Len(r) /\ r[j - n] = s[j]
      BY <1>0
    <3> QED
      BY <3>1, <3>2
  <2> QED
    BY <2>2, <2>3, <2>4, <2>5, <2>6, <2>7, <2>8, <2>9
<1>4. \A op : Has(r, op) => Has(s, op)
  BY <1>0 DEF Has
<1> QED
  BY <1>1, <1>r, <1>2, <1>3, <1>4

\* One step taken, and four of a deletion skipped.
LEMMA Tails ==
  ASSUME NEW s \in Seq(StepType), s # <<>>
  PROVE  /\ Len(s) \in Nat \ {0} /\ Head(s) = s[1] /\ s[1] \in StepType
         /\ Tail(s) \in Seq(StepType) /\ Len(Tail(s)) = Len(s) - 1
         /\ \A i \in 1 .. Len(s) - 1 : Tail(s)[i] = s[i + 1]
         /\ Tail(s) # <<>> => Len(s) > 1 /\ Head(Tail(s)) = s[2]
         /\ Tail(s) = <<>> => Len(s) = 1
         /\ Chained(s) => Chained(Tail(s))
         /\ Rear(s) => Rear(Tail(s))
         /\ EventList(s) => EventList(Tail(s))
         /\ CtlList(s) => CtlList(Tail(s))
         /\ \A op : Has(Tail(s), op) => Has(s, op)
         /\ \A op : Has(s, op) /\ s[1].op # op => Has(Tail(s), op)
<1>1. Len(s) \in Nat \ {0} /\ Head(s) = s[1] /\ s[1] \in StepType
  BY LenProperties, EmptySeq, HeadTailProperties
<1>2. Tail(s) \in Seq(StepType) /\ Len(Tail(s)) = Len(s) - 1
      /\ \A i \in 1 .. Len(s) - 1 : Tail(s)[i] = s[i + 1]
  BY HeadTailProperties
<1>3. Len(s) = 1 + Len(Tail(s))
  BY <1>1, <1>2
<1>4. /\ Chained(s) => Chained(Tail(s))
      /\ Rear(s) => Rear(Tail(s))
      /\ EventList(s) => EventList(Tail(s))
      /\ CtlList(s) => CtlList(Tail(s))
      /\ \A op : Has(Tail(s), op) => Has(s, op)
  BY <1>2, <1>3, Dropped
<1>5. Tail(s) # <<>> => Len(s) > 1 /\ Head(Tail(s)) = s[2]
  <2> SUFFICES ASSUME Tail(s) # <<>> PROVE Len(s) > 1 /\ Head(Tail(s)) = s[2]
    OBVIOUS
  <2>1. Len(Tail(s)) # 0
    BY <1>2, EmptySeq
  <2>2. Len(s) > 1
    BY <1>1, <1>2, <2>1
  <2> QED
    BY <1>1, <1>2, <2>2, HeadTailProperties
<1>6. Tail(s) = <<>> => Len(s) = 1
  <2>1. Len(<<>>) = 0
    OBVIOUS
  <2>2. Tail(s) = <<>> => Len(Tail(s)) = 0
    BY <2>1, Zenon
  <2> QED
    BY <1>1, <1>2, <2>2
<1>7. ASSUME NEW op, Has(s, op), s[1].op # op PROVE Has(Tail(s), op)
  <2>1. PICK i \in 1 .. Len(s) : s[i].op = op
    BY <1>7 DEF Has
  <2>2. i # 1 /\ i - 1 \in 1 .. Len(s) - 1 /\ Tail(s)[i - 1] = s[i]
    BY <1>1, <1>2, <1>7, <2>1
  <2> QED
    BY <1>2, <2>1, <2>2 DEF Has
<1> QED
  BY <1>1, <1>2, <1>4, <1>5, <1>6, <1>7
LEMMA Skips ==
  ASSUME NEW s \in Seq(StepType), s # <<>>, Chained(s), s[1].op = "hold"
  PROVE  LET r == SubSeq(s, Len(DelIf(0)) + 1, Len(s))
         IN /\ Len(s) \in Nat /\ Len(s) >= 4
            /\ s[2].op = "quiet" /\ s[3].op = "detach" /\ s[4].op \in {"unlist", "forget"}
            /\ r \in Seq(StepType) /\ Len(r) = Len(s) - 4
            /\ \A i \in 1 .. Len(s) - 4 : r[i] = s[i + 4]
            /\ Chained(r) /\ (Rear(s) => Rear(r))
            /\ EventList(s) => EventList(r)
            /\ CtlList(s) => CtlList(r)
            /\ \A op : Has(r, op) => Has(s, op)
            /\ \A op : Has(s, op) /\ op \notin DeleteOps => Has(r, op)
<1> DEFINE r == SubSeq(s, 5, Len(s))
<1>1. Len(s) \in Nat \ {0}
  BY Tails
<1>2. 1 < Len(s) /\ s[2].op = "quiet"
  BY <1>1 DEF Chained
<1>3. 2 < Len(s) /\ s[3].op = "detach"
  BY <1>1, <1>2 DEF Chained
<1>4. 3 < Len(s) /\ s[4].op \in {"unlist", "forget"}
  BY <1>1, <1>3 DEF Chained
<1>5. \A i \in 5 .. Len(s) : s[i] \in StepType
  BY <1>1, ElementOfSeq
<1>6. /\ r \in Seq(StepType) /\ Len(r) = IF 5 <= Len(s) THEN Len(s) - 5 + 1 ELSE 0
      /\ \A i \in 1 .. Len(s) - 5 + 1 : r[i] = s[5 + i - 1]
  BY <1>1, <1>5, SubSeqProperties
<1> HIDE DEF r
<1>7. Len(r) = Len(s) - 4 /\ \A i \in 1 .. Len(s) - 4 : r[i] = s[i + 4]
  <2>1. Len(r) = Len(s) - 4
    <3>1. CASE 5 <= Len(s)
      BY <1>1, <1>6, <3>1
    <3>2. CASE ~(5 <= Len(s))
      <4>1. \A n \in Nat : 3 < n /\ ~(5 <= n) => n = 4
        OBVIOUS
      <4>3. Len(s) \in Nat /\ 3 < Len(s)
        BY <1>1, <1>4
      <4>2. Len(r) = 0
        BY <1>6, <3>2
      <4>4. Len(s) = 4
        BY <3>2, <4>1, <4>3, Zenon
      <4> QED
        BY <4>2, <4>4
    <3> QED
      BY <3>1, <3>2
  <2>2. ASSUME NEW i \in 1 .. Len(s) - 4 PROVE r[i] = s[i + 4]
    <3>1. i \in 1 .. Len(s) - 5 + 1 /\ 5 + i - 1 = i + 4
      BY <1>1
    <3>2. r[i] = s[5 + i - 1]
      BY <1>6, <3>1
    <3> QED
      BY <3>1, <3>2
  <2> QED
    BY <2>1, <2>2
<1>8. Len(s) = 4 + Len(r)
  BY <1>1, <1>7
<1>9. Chained(r) /\ (Rear(s) => Rear(r)) /\ (EventList(s) => EventList(r)) /\ (CtlList(s) => CtlList(r))
      /\ \A op : Has(r, op) => Has(s, op)
  BY <1>6, <1>7, <1>8, Dropped
<1>10. ASSUME NEW op, Has(s, op), op \notin DeleteOps PROVE Has(r, op)
  <2>1. PICK i \in 1 .. Len(s) : s[i].op = op
    BY <1>10 DEF Has
  <2>2. i \notin {1, 2, 3, 4}
    BY <1>2, <1>3, <1>4, <1>10, <2>1 DEF DeleteOps
  <2>3. i - 4 \in 1 .. Len(r) /\ r[i - 4] = s[i]
    BY <1>1, <1>7, <2>2
  <2> QED
    BY <2>1, <2>3 DEF Has
<1>11. Len(DelIf(0)) + 1 = 5
  BY DEF DelIf
<1> QED
  BY <1>1, <1>2, <1>3, <1>4, <1>6, <1>7, <1>9, <1>10, <1>11 DEF r

-----------------------------------------------------------------------------
\* The lists the event worker starts with.
LEMMA DeleteList ==
  ASSUME NEW b \in Bss \ {0}
  PROVE  /\ DelIf(b) \in Seq(StepType) /\ DelIf(b) # <<>> /\ Chained(DelIf(b)) /\ EventList(DelIf(b))
         /\ Rear(DelIf(b)) /\ DelIf(b)[1] = Do("hold", b, 0) /\ ~Has(DelIf(b), "unlist")
<1>1. \A op \in Ops : Do(op, b, 0) \in StepType
  BY Numbers DEF Do, StepType
<1>2. {"hold", "quiet", "detach", "forget"} \subseteq Ops
  BY DEF Ops
<1>3. /\ Do("hold", b, 0) \in StepType /\ Do("quiet", b, 0) \in StepType
      /\ Do("detach", b, 0) \in StepType /\ Do("forget", b, 0) \in StepType
  BY <1>1, <1>2
<1>4. DelIf(b) \in Seq(StepType)
  BY <1>3 DEF DelIf
<1>5. Rear(DelIf(b))
  <2>1. \A i \in 2 .. Len(DelIf(b)) : i = 2 \/ i = 3 \/ i = 4
    BY DEF DelIf
  <2> QED
    BY <2>1 DEF DelIf, Rear, Do
<1> QED
  BY <1>4, <1>5 DEF DelIf, Chained, EventList, Has, Do, DeleteOps
LEMMA EventLists ==
  ASSUME NEW b \in Bss \ {0}, NEW x \in Ifidx \ {0}
  PROVE  /\ \A s \in {AddIf(b, x), Replace(b) \o AddIf(b, x)} :
              s \in Seq(StepType) /\ s # <<>> /\ Chained(s) /\ Rear(s) /\ EventList(s)
         /\ AddIf(b, x)[1] = Do("alloc", b, x) /\ (Replace(b) \o AddIf(b, x))[1] = Do("quiet", b, 0)
         /\ ~Has(AddIf(b, x), "unlist")
         /\ \A s \in {AddIf(b, x), Replace(b) \o AddIf(b, x)} :
              \A i \in 1 .. Len(s) : s[i].op = "alloc" => s[i] = Do("alloc", b, x)
<1> USE Numbers
<1> DEFINE p == Replace(b)
           a == AddIf(b, x)
           s == p \o a
<1>1. \A op \in Ops, y \in Ifidx : Do(op, b, y) \in StepType
  BY DEF Do, StepType
<1>2. {"hold", "quiet", "detach", "forget", "alloc", "register", "unlist"} \subseteq Ops
  BY DEF Ops
<1>3. /\ Do("hold", b, 0) \in StepType /\ Do("quiet", b, 0) \in StepType
      /\ Do("detach", b, 0) \in StepType /\ Do("forget", b, 0) \in StepType
      /\ Do("unlist", b, 0) \in StepType /\ Do("alloc", b, x) \in StepType
      /\ Do("register", b, x) \in StepType
  BY <1>1, <1>2
<1>5. p \in Seq(StepType) /\ Len(p) = 3
  BY <1>3 DEF Replace
<1>6. a \in Seq(StepType) /\ Len(a) = 2
  BY <1>3 DEF AddIf
<1>8. a # <<>> /\ Chained(a) /\ Rear(a) /\ EventList(a) /\ ~Has(a, "unlist")
  BY DEF AddIf, Chained, Rear, EventList, Has, Do, DeleteOps
<1>w. \A i \in 1 .. Len(a) : a[i].op = "alloc" => a[i] = Do("alloc", b, x)
  BY DEF AddIf, Do
<1>9. /\ p[1] = Do("quiet", b, 0) /\ p[2] = Do("detach", b, 0) /\ p[3] = Do("unlist", b, 0)
      /\ a[1] = Do("alloc", b, x) /\ a[2] = Do("register", b, x)
  BY DEF Replace, AddIf
<1> HIDE DEF p, a
<1>10. /\ s \in Seq(StepType) /\ Len(s) = 5
       /\ \A i \in 1 .. 5 : s[i] = IF i <= 3 THEN p[i] ELSE a[i - 3]
  <2>1. /\ s \in Seq(StepType) /\ Len(s) = Len(p) + Len(a)
        /\ \A i \in 1 .. Len(p) + Len(a) : s[i] = IF i <= Len(p) THEN p[i] ELSE a[i - Len(p)]
    BY <1>5, <1>6, ConcatProperties
  <2>2. Len(p) + Len(a) = 5
    BY <1>5, <1>6
  <2> HIDE DEF s
  <2> QED
    BY <1>5, <2>1, <2>2
<1>11. /\ s[1] = Do("quiet", b, 0) /\ s[2] = Do("detach", b, 0) /\ s[3] = Do("unlist", b, 0)
       /\ s[4] = Do("alloc", b, x) /\ s[5] = Do("register", b, x)
  BY <1>9, <1>10
<1> HIDE DEF s
<1>12. \A i \in 1 .. 5 : i = 1 \/ i = 2 \/ i = 3 \/ i = 4 \/ i = 5
  OBVIOUS
<1>13. Chained(s)
  BY <1>10, <1>11, <1>12 DEF Chained, Do
<1>14. EventList(s)
  BY <1>10, <1>11, <1>12 DEF EventList, Do, DeleteOps
<1>16. Rear(s)
  <2>1. \A i \in 2 .. 5 : i = 2 \/ i = 3 \/ i = 4 \/ i = 5
    OBVIOUS
  <2>2. \A j \in 1 .. 3 : j = 1 \/ j = 2 \/ j = 3
    OBVIOUS
  <2> QED
    BY <1>10, <1>11, <2>1, <2>2 DEF Rear, Do
<1>17. \A i \in 1 .. Len(s) : s[i].op = "alloc" => s[i] = Do("alloc", b, x)
  BY <1>10, <1>11, <1>12 DEF Do
<1>15. s # <<>>
  <2>1. Len(<<>>) = 0
    OBVIOUS
  <2>2. s = <<>> => Len(s) = 0
    BY <2>1, Zenon
  <2> QED
    BY <1>10, <2>2
<1> QED
  BY <1>6, <1>8, <1>w, <1>9, <1>10, <1>11, <1>13, <1>14, <1>15, <1>16, <1>17 DEF p, a, s

\* Two lists, one after the other.
LEMMA Joined ==
  ASSUME NEW p \in Seq(StepType), NEW r \in Seq(StepType)
  PROVE  LET s == p \o r
         IN /\ Len(p) \in Nat /\ Len(r) \in Nat
            /\ s \in Seq(StepType) /\ Len(s) = Len(p) + Len(r)
            /\ \A i \in 1 .. Len(p) : s[i] = p[i]
            /\ \A i \in 1 .. Len(r) : s[Len(p) + i] = r[i]
            /\ \A i \in 1 .. Len(s) : i <= Len(p) \/ i - Len(p) \in 1 .. Len(r)
            /\ Chained(p) /\ Chained(r) => Chained(s)
<1> DEFINE s == p \o r
<1>1. Len(p) \in Nat /\ Len(r) \in Nat
  BY LenProperties
<1>2. /\ s \in Seq(StepType) /\ Len(s) = Len(p) + Len(r)
      /\ \A i \in 1 .. Len(p) + Len(r) : s[i] = IF i <= Len(p) THEN p[i] ELSE r[i - Len(p)]
  BY ConcatProperties
<1> HIDE DEF s
<1>3. \A i \in 1 .. Len(p) : s[i] = p[i]
  BY <1>1, <1>2
<1>4. \A i \in 1 .. Len(r) : s[Len(p) + i] = r[i]
  <2> SUFFICES ASSUME NEW i \in 1 .. Len(r) PROVE s[Len(p) + i] = r[i]
    OBVIOUS
  <2>1. /\ Len(p) + i \in 1 .. Len(p) + Len(r) /\ ~(Len(p) + i <= Len(p))
        /\ Len(p) + i - Len(p) = i
    BY <1>1
  <2> QED
    BY <1>2, <2>1
<1>5. \A i \in 1 .. Len(s) : i <= Len(p) \/ i - Len(p) \in 1 .. Len(r)
  BY <1>1, <1>2
<1>6. ASSUME Chained(p), Chained(r) PROVE Chained(s)
  <2> SUFFICES ASSUME NEW i \in 1 .. Len(s)
      PROVE /\ s[i].op = "hold" => i < Len(s) /\ s[i + 1].op = "quiet" /\ s[i + 1].bss = s[i].bss
            /\ s[i].op = "quiet" => i < Len(s) /\ s[i + 1].op = "detach" /\ s[i + 1].bss = s[i].bss
            /\ s[i].op = "detach" => i < Len(s) /\ s[i + 1].op \in {"unlist", "forget"} /\ s[i + 1].bss = s[i].bss
    BY DEF Chained
  <2>1. CASE i <= Len(p)
    <3>1. s[i] = p[i] /\ (i < Len(p) => s[i + 1] = p[i + 1] /\ i < Len(s))
      BY <1>1, <1>2, <1>3, <2>1
    <3>2. i \in 1 .. Len(p)
      BY <1>1, <2>1
    <3> QED
      BY <1>6, <3>1, <3>2 DEF Chained
  <2>2. CASE i - Len(p) \in 1 .. Len(r)
    <3> DEFINE j == i - Len(p)
    <3>1. s[i] = r[j] /\ (j < Len(r) => s[i + 1] = r[j + 1] /\ i < Len(s))
      <4>1. Len(p) + j = i /\ (j < Len(r) => j + 1 \in 1 .. Len(r) /\ Len(p) + (j + 1) = i + 1)
        BY <1>1, <2>2
      <4> QED
        BY <1>1, <1>2, <1>4, <2>2, <4>1
    <3>2. j \in 1 .. Len(r)
      BY <2>2
    <3> HIDE DEF j
    <3> QED
      BY <1>6, <3>1, <3>2 DEF Chained
  <2> QED
    BY <1>5, <2>1, <2>2
<1> QED
  BY <1>1, <1>2, <1>3, <1>4, <1>5, <1>6 DEF s

\* The way out comes to every index, and ends with the draining of the worker.
Goes(s) == \A b \in Bss : \E i \in 1 .. Len(s) : s[i].op = "hold" /\ s[i].bss = b
OutList(s) == /\ s \in Seq(StepType) /\ s # <<>> /\ Chained(s) /\ Rear(s) /\ CtlList(s) /\ Goes(s)
              /\ Has(s, "silence") /\ ~Has(s, "up") /\ ~Has(s, "notifiers") /\ ~Has(s, "alloc")
LEMMA DetachList == OutList(Detach) /\ Detach[1] = Do("down", 0, 0) /\ ~Has(Detach, "unlist")
<1> DEFINE d == <<Do("down", 0, 0)>>
           z == <<Do("silence", 0, 0)>>
           s == d \o DelIfs
           N == Cardinality(Bss)
<1>0. N \in Nat \ {0} /\ \A b : b \in Bss <=> b \in Nat /\ b < N
  BY Numbers
<1>1. /\ d \in Seq(StepType) /\ Len(d) = 1 /\ d[1] = Do("down", 0, 0)
      /\ z \in Seq(StepType) /\ Len(z) = 1 /\ z[1] = Do("silence", 0, 0)
  <2>1. Do("down", 0, 0) \in StepType /\ Do("silence", 0, 0) \in StepType
    BY Numbers DEF Do, StepType, Ops
  <2> QED
    BY <2>1
<1>2. Chained(d) /\ Chained(z)
  BY DEF Chained, Do
<1>3. DelIfs \in Seq(StepType) /\ Len(DelIfs) = 4 * N
  BY DelIfsSteps
<1>4. ASSUME NEW i \in 1 .. 4 * N
      PROVE  /\ DelIfs[i].op \in {"hold", "quiet", "detach", "forget"}
             /\ DelIfs[i].op # "forget" => i < 4 * N /\ DelIfs[i + 1].bss = DelIfs[i].bss
             /\ DelIfs[i].op = "hold" => DelIfs[i + 1].op = "quiet"
             /\ DelIfs[i].op = "quiet" => DelIfs[i + 1].op = "detach"
             /\ DelIfs[i].op = "detach" => DelIfs[i + 1].op = "forget"
             /\ DelIfs[i].op # "hold" => i > 1
             /\ DelIfs[i].op = "quiet" => DelIfs[i - 1].op = "hold"
             /\ DelIfs[i].op = "detach" => DelIfs[i - 1].op = "quiet"
             /\ DelIfs[i].op = "forget" => DelIfs[i - 1].op = "detach"
  <2>1. PICK k \in 0 .. N - 1, m \in 1 .. 4 : i = 4 * k + m
    BY DelIfsSteps, <1>3
  <2>2. /\ DelIfs[4 * k + 1] = Do("hold", N - 1 - k, 0) /\ DelIfs[4 * k + 2] = Do("quiet", N - 1 - k, 0)
        /\ DelIfs[4 * k + 3] = Do("detach", N - 1 - k, 0) /\ DelIfs[4 * k + 4] = Do("forget", N - 1 - k, 0)
    BY DelIfsSteps
  <2>3. k \in Int /\ 4 * k + 4 <= 4 * N /\ m \in {1, 2, 3, 4}
    BY <1>0
  <2>4. CASE m = 1
    <3>1. i = 4 * k + 1 /\ i + 1 = 4 * k + 2 /\ i < 4 * N
      BY <1>0, <2>1, <2>3, <2>4
    <3> QED
      BY <2>2, <3>1 DEF Do
  <2>5. CASE m = 2
    <3>1. i = 4 * k + 2 /\ i + 1 = 4 * k + 3 /\ i < 4 * N /\ i - 1 = 4 * k + 1 /\ i > 1
      BY <1>0, <2>1, <2>3, <2>5
    <3> QED
      BY <2>2, <3>1 DEF Do
  <2>6. CASE m = 3
    <3>1. i = 4 * k + 3 /\ i + 1 = 4 * k + 4 /\ i < 4 * N /\ i - 1 = 4 * k + 2 /\ i > 1
      BY <1>0, <2>1, <2>3, <2>6
    <3> QED
      BY <2>2, <3>1 DEF Do
  <2>7. CASE m = 4
    <3>1. i = 4 * k + 4 /\ i - 1 = 4 * k + 3 /\ i > 1
      BY <1>0, <2>1, <2>3, <2>7
    <3> QED
      BY <2>2, <3>1 DEF Do
  <2> QED
    BY <2>3, <2>4, <2>5, <2>6, <2>7
<1> HIDE DEF N
<1>5. Chained(DelIfs)
  BY <1>3, <1>4 DEF Chained
<1> HIDE DEF d, z
<1>6. /\ s \in Seq(StepType) /\ Len(s) = 1 + 4 * N /\ Chained(s)
      /\ s[1] = d[1] /\ \A i \in 1 .. 4 * N : s[1 + i] = DelIfs[i]
  <2>1. /\ s \in Seq(StepType) /\ Len(s) = Len(d) + Len(DelIfs) /\ Chained(s)
        /\ \A i \in 1 .. Len(d) : s[i] = d[i]
        /\ \A i \in 1 .. Len(DelIfs) : s[Len(d) + i] = DelIfs[i]
    BY <1>1, <1>2, <1>3, <1>5, Joined
  <2> HIDE DEF s
  <2> QED
    BY <1>1, <1>3, <2>1
<1>7. Detach = s \o z
  BY DEF Detach, d, z
<1> HIDE DEF s
<1>8. /\ Detach \in Seq(StepType) /\ Len(Detach) = Len(s) + 1 /\ Chained(Detach)
      /\ \A i \in 1 .. Len(s) : Detach[i] = s[i]
      /\ Detach[Len(s) + 1] = z[1]
  <2>1. Chained(s \o z) /\ s \o z \in Seq(StepType) /\ Len(s \o z) = Len(s) + Len(z)
        /\ (\A i \in 1 .. Len(s) : (s \o z)[i] = s[i]) /\ \A i \in 1 .. Len(z) : (s \o z)[Len(s) + i] = z[i]
    BY <1>1, <1>2, <1>6, Joined
  <2> QED
    BY <1>1, <1>7, <2>1
<1>9. /\ Len(Detach) = 4 * N + 2
      /\ Detach[1] = Do("down", 0, 0) /\ Detach[4 * N + 2] = Do("silence", 0, 0)
  BY <1>0, <1>1, <1>6, <1>8
<1>10. ASSUME NEW i \in 1 .. 4 * N PROVE Detach[i + 1] = DelIfs[i]
  <2>1. 1 + i \in 1 .. Len(s) /\ 1 + i = i + 1
    BY <1>0, <1>6
  <2> QED
    BY <1>6, <1>8, <2>1
<1>11. ASSUME NEW i \in 1 .. Len(Detach)
       PROVE  \/ i = 1 /\ Detach[i].op = "down"
              \/ i = Len(Detach) /\ Detach[i].op = "silence"
              \/ Detach[i].op \in {"hold", "quiet", "detach", "forget"}
  <2>1. CASE i = 1
    BY <1>9, <2>1 DEF Do
  <2>2. CASE i = 4 * N + 2
    BY <1>9, <2>2 DEF Do
  <2>3. CASE i # 1 /\ i # 4 * N + 2
    <3>1. i - 1 \in 1 .. 4 * N /\ (i - 1) + 1 = i
      BY <1>0, <1>9, <2>3
    <3> QED
      BY <1>4, <1>10, <3>1
  <2> QED
    BY <2>1, <2>2, <2>3
<1>r. Rear(Detach)
  <2> SUFFICES ASSUME NEW i \in 2 .. Len(Detach)
      PROVE  /\ Detach[i].op = "quiet" => Detach[i - 1].op = "hold"
             /\ Detach[i].op = "detach" => Detach[i - 1].op = "quiet"
             /\ Detach[i].op = "forget" => Detach[i - 1].op = "detach"
             /\ Detach[i].op # "unlist"
    BY DEF Rear
  <2>1. CASE i = 4 * N + 2
    BY <1>9, <2>1 DEF Do
  <2>2. CASE i # 4 * N + 2
    <3>1. i - 1 \in 1 .. 4 * N /\ (i - 1) + 1 = i
      BY <1>0, <1>9, <2>2
    <3>2. Detach[i] = DelIfs[i - 1] /\ (i - 1 > 1 => Detach[i - 1] = DelIfs[(i - 1) - 1])
      <4>1. i - 1 > 1 => (i - 1) - 1 \in 1 .. 4 * N /\ ((i - 1) - 1) + 1 = i - 1
        BY <1>0, <3>1
      <4> QED
        BY <1>10, <3>1, <4>1
    <3> QED
      BY <1>4, <3>1, <3>2
  <2> QED
    BY <2>1, <2>2
<1>12. CtlList(Detach)
  BY <1>0, <1>9, <1>11 DEF CtlList, DeleteOps, Do
<1>13. Goes(Detach)
  <2> SUFFICES ASSUME NEW b \in Bss PROVE \E i \in 1 .. Len(Detach) : Detach[i].op = "hold" /\ Detach[i].bss = b
    BY DEF Goes
  <2> DEFINE k == N - 1 - b
  <2>1. k \in 0 .. N - 1 /\ N - 1 - k = b
    BY <1>0
  <2>2. DelIfs[4 * k + 1] = Do("hold", b, 0)
    BY <2>1, DelIfsSteps DEF N
  <2>3. 4 * k + 1 \in 1 .. 4 * N /\ (4 * k + 1) + 1 \in 1 .. Len(Detach)
    BY <1>0, <1>9, <2>1
  <2>4. Detach[(4 * k + 1) + 1] = Do("hold", b, 0)
    BY <1>10, <2>2, <2>3
  <2> QED
    BY <2>3, <2>4 DEF Do
<1>14. /\ Has(Detach, "silence") /\ ~Has(Detach, "up") /\ ~Has(Detach, "notifiers")
       /\ ~Has(Detach, "alloc") /\ ~Has(Detach, "unlist")
  <2>1. 4 * N + 2 \in 1 .. Len(Detach)
    BY <1>0, <1>9
  <2> QED
    BY <1>9, <1>11, <2>1 DEF Has, Do
<1>15. Detach # <<>>
  <2>1. Len(<<>>) = 0 /\ Len(Detach) # 0
    BY <1>0, <1>9
  <2> QED
    BY <2>1, Zenon
<1> QED
  BY <1>8, <1>9, <1>r, <1>12, <1>13, <1>14, <1>15 DEF OutList

\* A start that fails detaches the primary interface before the way out.
LEMMA FailStartedList == OutList(FailStarted) /\ FailStarted[1] = Do("detach", 0, 0)
<1> DEFINE a == <<Do("detach", 0, 0), Do("unlist", 0, 0)>>
           b == <<Do("unlist", 1, 0)>>
           p == a \o (IF 1 \in Bss THEN b ELSE <<>>)
           s == p \o Detach
<1>1. FailStarted = s
  BY DEF FailStarted
<1>2. /\ a \in Seq(StepType) /\ Len(a) = 2 /\ a[1] = Do("detach", 0, 0) /\ a[2] = Do("unlist", 0, 0)
      /\ (1 \in Bss => b \in Seq(StepType)) /\ Len(b) = 1 /\ b[1] = Do("unlist", 1, 0)
  <2>1. Do("detach", 0, 0) \in StepType /\ Do("unlist", 0, 0) \in StepType
        /\ (1 \in Bss => Do("unlist", 1, 0) \in StepType)
    BY Numbers DEF Do, StepType, Ops
  <2> QED
    BY <2>1
<1>3. Chained(a) /\ Chained(b)
  BY DEF Chained, Do
<1>4. /\ p \in Seq(StepType) /\ Len(p) \in {2, 3} /\ Chained(p)
      /\ p[1] = Do("detach", 0, 0) /\ p[2].op = "unlist" /\ (Len(p) = 3 => p[3].op = "unlist")
  <2>1. CASE 1 \in Bss
    <3>1. p = a \o b
      BY <2>1
    <3> HIDE DEF a, b, p
    <3>2. /\ a \o b \in Seq(StepType) /\ Len(a \o b) = Len(a) + Len(b) /\ Chained(a \o b)
          /\ \A i \in 1 .. Len(a) : (a \o b)[i] = a[i]
          /\ \A i \in 1 .. Len(b) : (a \o b)[Len(a) + i] = b[i]
      BY <1>2, <1>3, <2>1, Joined
    <3>3. Len(p) = 3 /\ p[1] = a[1] /\ p[2] = a[2] /\ p[3] = b[1]
      BY <1>2, <3>1, <3>2
    <3> QED
      BY <1>2, <3>1, <3>2, <3>3 DEF Do
  <2>2. CASE 1 \notin Bss
    <3>1. p = a \o <<>>
      BY <2>2
    <3> HIDE DEF a, p
    <3>2. p = a
      BY <1>2, <3>1, ConcatEmptySeq
    <3>3. p \in Seq(StepType) /\ Len(p) = 2 /\ Chained(p) /\ p[1] = Do("detach", 0, 0)
          /\ p[2] = Do("unlist", 0, 0)
      BY <1>2, <1>3, <3>2, Zenon
    <3> QED
      BY <3>3 DEF Do
  <2> QED
    BY <2>1, <2>2
<1> HIDE DEF a, b, p
<1>5. /\ s \in Seq(StepType) /\ Len(s) = Len(p) + Len(Detach) /\ Len(Detach) \in Nat /\ Len(p) \in Nat
      /\ Chained(s)
      /\ \A i \in 1 .. Len(p) : s[i] = p[i]
      /\ \A i \in 1 .. Len(Detach) : s[Len(p) + i] = Detach[i]
      /\ \A i \in 1 .. Len(s) : i <= Len(p) \/ i - Len(p) \in 1 .. Len(Detach)
  BY <1>4, DetachList, Joined DEF OutList
<1> HIDE DEF s
<1>6. ASSUME NEW i \in 1 .. Len(s)
      PROVE  \/ s[i].op \in {"detach", "unlist"}
             \/ i - Len(p) \in 1 .. Len(Detach) /\ s[i] = Detach[i - Len(p)]
  <2>1. CASE i <= Len(p)
    <3>1. i \in {1, 2, 3} /\ (i = 3 => Len(p) = 3)
      <4>1. Len(p) \in {2, 3} /\ i \in Int /\ i >= 1
        BY <1>4, <1>5
      <4>2. \A n \in {2, 3}, j \in Int : j >= 1 /\ j <= n => j \in {1, 2, 3} /\ (j = 3 => n = 3)
        OBVIOUS
      <4> QED
        BY <2>1, <4>1, <4>2, Zenon
    <3>2. s[i] = p[i]
      BY <1>5, <2>1
    <3> QED
      BY <1>4, <3>1, <3>2 DEF Do
  <2>2. CASE i - Len(p) \in 1 .. Len(Detach)
    <3>1. Len(p) + (i - Len(p)) = i
      BY <1>5
    <3> QED
      BY <1>5, <2>2, <3>1
  <2> QED
    BY <1>5, <2>1, <2>2
<1>7. Len(Detach) # 0 /\ Detach[Len(Detach)].op = "silence"
  <2>1. PICK i \in 1 .. Len(Detach) : Detach[i].op = "silence"
    BY DetachList DEF OutList, Has
  <2> QED
    BY <1>5, <2>1, DetachList DEF OutList, CtlList
<1>8. s[Len(s)].op = "silence"
  <2>1. Len(Detach) \in 1 .. Len(Detach) /\ Len(p) + Len(Detach) = Len(s)
    BY <1>5, <1>7
  <2> QED
    BY <1>5, <1>7, <2>1
<1>9. ASSUME NEW i \in 1 .. Len(s)
      PROVE  /\ s[i].op \notin {"alloc", "register", "preinit", "notifiers", "up"}
             /\ s[i].op = "silence" => i = Len(s)
  <2>1. CASE s[i].op \in {"detach", "unlist"}
    BY <2>1
  <2>2. CASE i - Len(p) \in 1 .. Len(Detach) /\ s[i] = Detach[i - Len(p)]
    <3> DEFINE j == i - Len(p)
    <3>1. s[i].op \notin {"alloc", "notifiers", "up"}
      BY <2>2, DetachList DEF OutList, Has
    <3>2. j \in 1 .. Len(Detach)
      BY <2>2
    <3>3. Detach[j].op \notin {"register", "preinit"} /\ (Detach[j].op = "silence" => j = Len(Detach))
      <4> HIDE DEF j
      <4>1. Len(Detach) \in j .. Len(Detach)
        BY <1>5, <3>2
      <4> QED
        BY <1>7, <3>2, <4>1, DetachList DEF OutList, CtlList
    <3> QED
      BY <1>5, <2>2, <3>1, <3>3
  <2> QED
    BY <1>6, <2>1, <2>2
<1>10. CtlList(s)
  BY <1>8, <1>9 DEF CtlList
<1>r. Rear(s)
  <2> SUFFICES ASSUME NEW i \in 2 .. Len(s)
      PROVE  /\ s[i].op = "quiet" => s[i - 1].op = "hold"
             /\ s[i].op = "detach" => s[i - 1].op = "quiet"
             /\ s[i].op = "forget" => s[i - 1].op = "detach"
             /\ s[i].op = "unlist" => s[i - 1].op \in {"detach", "unlist"} /\ \A j \in 1 .. i : s[j].op # "hold"
    BY DEF Rear
  <2>0. Rear(Detach) /\ Detach[1].op = "down" /\ ~Has(Detach, "unlist")
    BY DetachList DEF OutList, Do
  <2>a. \A j \in 1 .. Len(p) : s[j].op \in {"detach", "unlist"} /\ (j > 1 => s[j].op = "unlist")
    <3>1. \A n \in {2, 3} : \A j \in 1 .. n : j \in {1, 2, 3} /\ (j = 3 => n = 3)
      OBVIOUS
    <3>2. \A j \in 1 .. Len(p) : s[j] = p[j] /\ j \in {1, 2, 3} /\ (j = 3 => Len(p) = 3)
      BY <1>4, <1>5, <3>1
    <3>3. p[1].op = "detach"
      BY <1>4 DEF Do
    <3> QED
      BY <1>4, <3>2, <3>3
  <2>1. CASE i <= Len(p)
    <3>1. i - 1 \in 1 .. Len(p) /\ i \in 1 .. Len(p) /\ i > 1 /\ \A j \in 1 .. i : j \in 1 .. Len(p)
      BY <1>5, <2>1
    <3> QED
      BY <2>a, <3>1
  <2>2. CASE i - Len(p) \in 1 .. Len(Detach)
    <3> DEFINE j == i - Len(p)
    <3>1. s[i] = Detach[j] /\ j \in 1 .. Len(Detach)
      <4>1. Len(p) + j = i
        BY <1>5
      <4> QED
        BY <1>5, <2>2, <4>1
    <3>2. j # 1 => s[i - 1] = Detach[j - 1] /\ j \in 2 .. Len(Detach)
      <4>0. i \in Int /\ Len(p) \in Int /\ Len(Detach) \in Int
        BY <1>5
      <4>1. j # 1 => Len(p) + (j - 1) = i - 1 /\ j - 1 \in 1 .. Len(Detach) /\ j \in 2 .. Len(Detach)
        BY <2>2, <4>0
      <4> QED
        BY <1>5, <4>1
    <3> HIDE DEF j
    <3> QED
      BY <2>0, <3>1, <3>2 DEF Rear, Has
  <2> QED
    BY <1>5, <2>1, <2>2
<1>11. Goes(s)
  <2> SUFFICES ASSUME NEW c \in Bss PROVE \E i \in 1 .. Len(s) : s[i].op = "hold" /\ s[i].bss = c
    BY DEF Goes
  <2>1. PICK i \in 1 .. Len(Detach) : Detach[i].op = "hold" /\ Detach[i].bss = c
    BY DetachList DEF OutList, Goes
  <2>2. Len(p) + i \in 1 .. Len(s) /\ s[Len(p) + i] = Detach[i]
    BY <1>5
  <2> QED
    BY <2>1, <2>2
<1>12. Len(s) \in 1 .. Len(s)
  BY <1>5, <1>7
<1>13. Has(s, "silence") /\ ~Has(s, "up") /\ ~Has(s, "notifiers") /\ ~Has(s, "alloc")
  BY <1>8, <1>9, <1>12 DEF Has
<1>14. s # <<>> /\ s[1] = Do("detach", 0, 0)
  <2>1. Len(<<>>) = 0 /\ Len(s) # 0 /\ 1 \in 1 .. Len(p)
    BY <1>4, <1>5, <1>7
  <2>2. s # <<>>
    BY <2>1, Zenon
  <2> QED
    BY <1>4, <1>5, <2>1, <2>2
<1> QED
  BY <1>1, <1>5, <1>r, <1>10, <1>11, <1>13, <1>14 DEF OutList

\* A bus that comes up is followed by a visit to every index.
LEMMA BusUpList ==
  /\ BusUp \in Seq(StepType) /\ BusUp # <<>> /\ Chained(BusUp) /\ Rear(BusUp) /\ CtlList(BusUp)
  /\ Len(BusUp) \in Nat \ {0} /\ BusUp[1] = Do("up", 0, 0)
  /\ \A i \in 2 .. Len(BusUp) : BusUp[i].op = "visit"
  /\ \A b \in Bss : \E i \in 2 .. Len(BusUp) : BusUp[i] = Do("visit", b, 0)
<1> DEFINE u == <<Do("up", 0, 0)>>
           N == Cardinality(Bss)
<1>0. N \in Nat \ {0} /\ \A b : b \in Bss <=> b \in Nat /\ b < N
  BY Numbers
<1>1. /\ u \in Seq(StepType) /\ Len(u) = 1 /\ u[1] = Do("up", 0, 0)
      /\ \A b \in Bss : Do("visit", b, 0) \in StepType
  <2>1. Do("up", 0, 0) \in StepType /\ \A b \in Bss : Do("visit", b, 0) \in StepType
    BY Numbers DEF Do, StepType, Ops
  <2> QED
    BY <2>1
<1>2. Visits = [i \in 1 .. N |-> Do("visit", i - 1, 0)]
  BY DEF Visits
<1> HIDE DEF N
<1>3. Visits \in [1 .. N -> StepType]
  <2>1. \A i \in 1 .. N : i - 1 \in Bss
    BY <1>0
  <2> QED
    BY <1>1, <1>2, <2>1
<1>4. Visits \in Seq(StepType) /\ Len(Visits) = N /\ \A i \in 1 .. N : Visits[i] = Do("visit", i - 1, 0)
  BY <1>0, <1>2, <1>3
<1>5. Chained(u) /\ Chained(Visits)
  BY <1>1, <1>4 DEF Chained, Do
<1>6. BusUp = u \o Visits
  BY DEF BusUp
<1> HIDE DEF u
<1>7. /\ u \o Visits \in Seq(StepType) /\ Len(u \o Visits) = Len(u) + Len(Visits) /\ Chained(u \o Visits)
      /\ \A i \in 1 .. Len(u) : (u \o Visits)[i] = u[i]
      /\ \A i \in 1 .. Len(Visits) : (u \o Visits)[Len(u) + i] = Visits[i]
  BY <1>1, <1>4, <1>5, Joined
<1>8. /\ BusUp \in Seq(StepType) /\ Len(BusUp) = N + 1 /\ Chained(BusUp)
      /\ BusUp[1] = Do("up", 0, 0)
      /\ \A i \in 1 .. N : BusUp[1 + i] = Do("visit", i - 1, 0)
  BY <1>0, <1>1, <1>4, <1>6, <1>7
<1>9. ASSUME NEW i \in 2 .. N + 1 PROVE BusUp[i] = Do("visit", i - 2, 0)
  <2>1. i - 1 \in 1 .. N /\ 1 + (i - 1) = i /\ (i - 1) - 1 = i - 2
    BY <1>0
  <2> QED
    BY <1>8, <2>1
<1>10. ASSUME NEW b \in Bss PROVE b + 2 \in 2 .. N + 1 /\ BusUp[b + 2] = Do("visit", b, 0)
  <2>1. b + 2 \in 2 .. N + 1 /\ (b + 2) - 2 = b
    BY <1>0
  <2> QED
    BY <1>9, <2>1
<1>a. \A b : Do("visit", b, 0).op = "visit" /\ Do("visit", b, 0).bss = b
  BY DEF Do
<1>b. \A i \in 2 .. N + 1 : BusUp[i].op = "visit"
  BY <1>9, <1>a
<1>11. CtlList(BusUp)
  <2>1. \A i \in 1 .. Len(BusUp) : i = 1 \/ BusUp[i].op = "visit"
    <3>1. \A i \in 1 .. N + 1 : i = 1 \/ i \in 2 .. N + 1
      BY <1>0
    <3> QED
      BY <1>8, <1>b, <3>1
  <2>2. \A b \in Bss : \E j \in 1 + 1 .. Len(BusUp) : BusUp[j].op = "visit" /\ BusUp[j].bss = b
    <3> SUFFICES ASSUME NEW b \in Bss
                 PROVE  \E j \in 1 + 1 .. Len(BusUp) : BusUp[j].op = "visit" /\ BusUp[j].bss = b
      OBVIOUS
    <3>1. b + 2 \in 1 + 1 .. Len(BusUp)
      BY <1>0, <1>8, <1>10
    <3>2. BusUp[b + 2].op = "visit" /\ BusUp[b + 2].bss = b
      BY <1>10, <1>a
    <3> QED
      BY <3>1, <3>2
  <2>3. \A j \in 1 + 1 .. Len(BusUp) : BusUp[j].op # "up"
    BY <1>8, <1>b
  <2> QED
    BY <1>8, <2>1, <2>2, <2>3 DEF CtlList, Do, DeleteOps
<1>r. Rear(BusUp)
  BY <1>8, <1>b DEF Rear
<1>12. BusUp # <<>>
  <2>1. Len(<<>>) = 0 /\ Len(BusUp) # 0
    BY <1>0, <1>8
  <2> QED
    BY <2>1, Zenon
<1>13. /\ \A i \in 2 .. Len(BusUp) : BusUp[i].op = "visit"
       /\ \A b \in Bss : \E i \in 2 .. Len(BusUp) : BusUp[i] = Do("visit", b, 0)
  <2>1. \A i \in 2 .. N + 1 : BusUp[i].op = "visit"
    BY <1>b
  <2>2. \A b \in Bss : \E i \in 2 .. N + 1 : BusUp[i] = Do("visit", b, 0)
    BY <1>10
  <2>3. Len(BusUp) = N + 1
    BY <1>8
  <2> QED
    BY <2>1, <2>2, <2>3, Zenon
<1>14. Len(BusUp) \in Nat \ {0}
  BY <1>0, <1>8
<1> QED
  BY <1>8, <1>r, <1>11, <1>12, <1>13, <1>14

\* Attach: the primary interface, the bus, and what the start needs.
LEMMA BusStartedList ==
  /\ BusStarted \in Seq(StepType) /\ BusStarted # <<>> /\ Chained(BusStarted) /\ Rear(BusStarted)
  /\ CtlList(BusStarted)
  /\ BusStarted[1] = Do("alloc", 0, 0) /\ ~Has(BusStarted, "silence") /\ Has(BusStarted, "notifiers")
<1> DEFINE a == <<Do("alloc", 0, 0)>>
           r == <<Do("preinit", 0, 0), Do("register", 0, 0), Do("notifiers", 0, 0)>>
           p == a \o BusUp
           s == p \o r
           M == Len(BusUp)
<1>0. \A op : Do(op, 0, 0).op = op /\ Do(op, 0, 0).bss = 0 /\ Do(op, 0, 0).idx = 0
  BY DEF Do
<1>1. /\ a \in Seq(StepType) /\ Len(a) = 1 /\ a[1] = Do("alloc", 0, 0)
      /\ r \in Seq(StepType) /\ Len(r) = 3
      /\ r[1] = Do("preinit", 0, 0) /\ r[2] = Do("register", 0, 0) /\ r[3] = Do("notifiers", 0, 0)
  <2>1. /\ Do("alloc", 0, 0) \in StepType /\ Do("preinit", 0, 0) \in StepType
        /\ Do("register", 0, 0) \in StepType /\ Do("notifiers", 0, 0) \in StepType
    BY Numbers DEF Do, StepType, Ops
  <2> QED
    BY <2>1
<1>2. Chained(a) /\ Chained(r)
  BY DEF Chained, Do
<1>3. BusStarted = s
  BY DEF BusStarted
<1> HIDE DEF a, r
<1>4. /\ p \in Seq(StepType) /\ Len(p) = Len(a) + Len(BusUp) /\ Chained(p)
      /\ \A i \in 1 .. Len(a) : p[i] = a[i]
      /\ \A i \in 1 .. Len(BusUp) : p[Len(a) + i] = BusUp[i]
  BY <1>1, <1>2, BusUpList, Joined
<1> HIDE DEF p
<1>5. /\ s \in Seq(StepType) /\ Len(s) = Len(p) + Len(r) /\ Chained(s)
      /\ \A i \in 1 .. Len(p) : s[i] = p[i]
      /\ \A i \in 1 .. Len(r) : s[Len(p) + i] = r[i]
  BY <1>1, <1>2, <1>4, Joined
<1> HIDE DEF s, M
<1>6. M \in Nat \ {0} /\ Len(p) = M + 1 /\ Len(s) = M + 4 /\ Len(BusUp) = M
  BY <1>1, <1>4, <1>5, BusUpList DEF M
<1>7. s[1] = Do("alloc", 0, 0)
  BY <1>1, <1>4, <1>5, <1>6
<1>8. ASSUME NEW i \in 1 .. M PROVE s[i + 1] = BusUp[i]
  <2>1. i + 1 \in 1 .. Len(p) /\ 1 + i = i + 1
    BY <1>6
  <2> QED
    BY <1>1, <1>4, <1>5, <1>6, <2>1
<1>9. s[M + 2] = Do("preinit", 0, 0) /\ s[M + 3] = Do("register", 0, 0) /\ s[M + 4] = Do("notifiers", 0, 0)
  <2>1. (M + 1) + 1 = M + 2 /\ (M + 1) + 2 = M + 3 /\ (M + 1) + 3 = M + 4
    BY <1>6
  <2> QED
    BY <1>1, <1>5, <1>6, <2>1
<1>10. ASSUME NEW i \in 3 .. M + 1 PROVE s[i].op = "visit"
  <2>1. i - 1 \in 1 .. M /\ i - 1 \in 2 .. Len(BusUp) /\ (i - 1) + 1 = i
    BY <1>6
  <2> QED
    BY <1>8, <2>1, BusUpList
<1>11. s[2] = Do("up", 0, 0)
  <2>1. 1 \in 1 .. M /\ 1 + 1 = 2
    BY <1>6
  <2> QED
    BY <1>8, <2>1, BusUpList
<1>12. ASSUME NEW b \in Bss PROVE \E j \in 2 + 1 .. Len(s) : s[j].op = "visit" /\ s[j].bss = b
  <2>1. PICK i \in 2 .. Len(BusUp) : BusUp[i] = Do("visit", b, 0)
    BY BusUpList
  <2>2. i + 1 \in 2 + 1 .. Len(s) /\ i \in 1 .. M
    BY <1>6
  <2>3. Do("visit", b, 0).op = "visit" /\ Do("visit", b, 0).bss = b
    BY DEF Do
  <2> QED
    BY <1>8, <2>1, <2>2, <2>3
<1>13. \A i \in 1 .. Len(s) : i = 1 \/ i = 2 \/ i \in 3 .. M + 1 \/ i = M + 2 \/ i = M + 3 \/ i = M + 4
  BY <1>6
<1>14. \A i \in 1 .. Len(s) :
         /\ s[i].op = "alloc" => i = 1
         /\ s[i].op = "register" => i = M + 3
         /\ s[i].op = "notifiers" => i = M + 4
         /\ s[i].op \in {"preinit", "register", "notifiers"} => i \in M + 2 .. M + 4
         /\ s[i].op \notin DeleteOps \cup {"silence"}
         /\ s[i].op = "up" => i = 2
  BY <1>0, <1>6, <1>7, <1>9, <1>10, <1>11, <1>13 DEF DeleteOps
<1>15. CtlList(s)
  <2> SUFFICES ASSUME NEW i \in 1 .. Len(s)
       PROVE  /\ s[i].op = "alloc" => i = 1 /\ Len(s) > 1 /\ s[2].op = "up" /\ s[i].bss = 0 /\ s[i].idx = 0
              /\ s[i].op = "register" => s[i].bss = 0 /\ s[i].idx = 0
              /\ s[i].op \in {"preinit", "register", "notifiers"} =>
                   \A j \in i .. Len(s) : s[j].op \in {"preinit", "register", "notifiers"}
              /\ s[i].op \in {"alloc", "preinit", "register", "notifiers"} => s[Len(s)].op = "notifiers"
              /\ s[i].op \in DeleteOps => s[Len(s)].op = "silence"
              /\ s[i].op \in {"silence", "notifiers"} => i = Len(s)
              /\ s[i].op = "up" => \A b \in Bss : \E j \in i + 1 .. Len(s) : s[j].op = "visit" /\ s[j].bss = b
              /\ s[i].op = "up" => \A j \in i + 1 .. Len(s) : s[j].op # "up"
    BY DEF CtlList
  <2>1. s[i].op = "alloc" => i = 1 /\ Len(s) > 1 /\ s[2].op = "up" /\ s[i].bss = 0 /\ s[i].idx = 0
    BY <1>0, <1>6, <1>7, <1>11, <1>14
  <2>2. s[i].op = "register" => s[i].bss = 0 /\ s[i].idx = 0
    BY <1>0, <1>9, <1>14
  <2>3. s[i].op \in {"preinit", "register", "notifiers"} =>
          \A j \in i .. Len(s) : s[j].op \in {"preinit", "register", "notifiers"}
    <3>1. \A j \in M + 2 .. Len(s) : j = M + 2 \/ j = M + 3 \/ j = M + 4
      BY <1>6
    <3>2. i \in M + 2 .. M + 4 => \A j \in i .. Len(s) : j \in M + 2 .. Len(s)
      BY <1>6
    <3> QED
      BY <1>0, <1>9, <1>14, <3>1, <3>2
  <2>4. s[i].op = "up" => \A b \in Bss : \E j \in i + 1 .. Len(s) : s[j].op = "visit" /\ s[j].bss = b
    BY <1>12, <1>14
  <2>5. s[Len(s)].op = "notifiers"
    BY <1>0, <1>6, <1>9
  <2>6. s[i].op = "up" => \A j \in i + 1 .. Len(s) : s[j].op # "up"
    <3>1. \A j \in 2 + 1 .. Len(s) : j \in 1 .. Len(s) /\ j # 2
      BY <1>6
    <3> QED
      BY <1>14, <3>1
  <2> QED
    BY <1>6, <1>14, <2>1, <2>2, <2>3, <2>4, <2>5, <2>6
<1>r. Rear(s)
  <2>1. \A i \in 2 .. Len(s) : i \in 1 .. Len(s)
    BY <1>6
  <2> QED
    BY <1>14, <2>1 DEF Rear, DeleteOps
<1>16. s # <<>> /\ ~Has(s, "silence") /\ Has(s, "notifiers")
  <2>1. Len(<<>>) = 0 /\ Len(s) # 0 /\ M + 4 \in 1 .. Len(s)
    BY <1>6
  <2>2. s # <<>>
    BY <2>1, Zenon
  <2> QED
    BY <1>0, <1>9, <1>14, <2>1, <2>2 DEF Has
<1> QED
  BY <1>3, <1>5, <1>7, <1>r, <1>15, <1>16
\* Taking the bus down, and nothing more.
LEMMA DownList ==
  LET s == <<Do("down", 0, 0)>>
  IN /\ s \in Seq(StepType) /\ s # <<>> /\ Chained(s) /\ Rear(s) /\ CtlList(s) /\ Len(s) = 1
     /\ s[1] = Do("down", 0, 0)
     /\ ~Has(s, "silence") /\ ~Has(s, "up") /\ ~Has(s, "notifiers")
<1>1. Do("down", 0, 0) \in StepType
  BY Numbers DEF Do, StepType, Ops
<1> QED
  BY <1>1 DEF Chained, Rear, CtlList, Has, Do, DeleteOps

-----------------------------------------------------------------------------
(***************************************************************************)
(* The types.                                                              *)
(***************************************************************************)
LEMMA BlankType ==
  ASSUME NEW b \in Bss, NEW x \in Ifidx, NEW l \in {"freed", "made", "registered"}
  PROVE  Blank(l, b, x) \in NifType
BY DEF Blank, NifType
LEMMA BlockType ==
  ASSUME NEW n \in NifType, NEW r \in Reasons
  PROVE  Block(n, r) \in NifType /\ Unblock(n, r) \in NifType
<1>1. n.stops \cup {r} \in SUBSET Reasons /\ n.stops \ {r} \in SUBSET Reasons
  BY DEF NifType
<1>2. (n.stopped \/ n.stops = {}) \in BOOLEAN /\ (n.stopped /\ n.stops \ {r} # {}) \in BOOLEAN
  OBVIOUS
<1>3. /\ Block(n, r) = [n EXCEPT !.stops = n.stops \cup {r}, !.stopped = n.stopped \/ n.stops = {}]
      /\ Unblock(n, r) = [n EXCEPT !.stops = n.stops \ {r}, !.stopped = n.stopped /\ n.stops \ {r} # {}]
  BY DEF Block, Unblock
<1>4. Block(n, r) \in NifType
  BY <1>1, <1>2, <1>3 DEF NifType
<1>5. Unblock(n, r) \in NifType
  BY <1>1, <1>2, <1>3 DEF NifType
<1> QED
  BY <1>4, <1>5

LEMMA FieldTypes ==
  ASSUME NEW n \in NifType
  PROVE  /\ [n EXCEPT !.life = "registered"] \in NifType
         /\ \A s \in BOOLEAN : [n EXCEPT !.stopped = s] \in NifType
         /\ \A s \in BOOLEAN : [n EXCEPT !.open = s] \in NifType
         /\ \A k \in Int : [n EXCEPT !.pend = k] \in NifType
         /\ [n EXCEPT !.pend = 0] \in NifType
         /\ \A k \in Int, s \in BOOLEAN : [n EXCEPT !.pend = k, !.open = s] \in NifType
         /\ \A r \in SUBSET Reasons, s \in BOOLEAN : [n EXCEPT !.stops = r, !.stopped = s] \in NifType
<1>1. [n EXCEPT !.pend = 0] \in NifType
  BY DEF NifType
<1> QED
  BY <1>1 DEF NifType
LEMMA Fields ==
  ASSUME NEW n \in NifType
  PROVE  /\ n.idx \in Ifidx /\ n.bss \in Bss /\ n.pend \in Int
         /\ n.stops \in SUBSET Reasons /\ n.stopped \in BOOLEAN /\ n.open \in BOOLEAN
         /\ n.life \in {"freed", "made", "registered"}
BY DEF NifType
LEMMA ArgTypes ==
  ASSUME ThreadTypes, NEW t \in Threads, todo[t] # <<>>
  PROVE  /\ Arg(t).bss \in Bss /\ Arg(t).idx \in Ifidx
         /\ Tail(todo[t]) \in Seq(StepType) /\ Arg(t) = todo[t][1]
<1>1. todo[t] \in Seq(StepType)
  BY DEF ThreadTypes
<1>2. todo[t][1] \in StepType /\ Head(todo[t]) = todo[t][1] /\ Tail(todo[t]) \in Seq(StepType)
  BY <1>1, Tails
<1> QED
  BY <1>2 DEF Arg, StepType

\* The steps of the two threads.
LEMMA TypeThread ==
  TypeOK /\ ThreadStep => TypeOK'
<1> SUFFICES ASSUME TypeOK, ThreadStep PROVE TypeOK'
  OBVIOUS
<1>t. ASSUME NEW t \in Threads, todo[t] # <<>>
      PROVE  /\ Arg(t).bss \in Bss /\ Arg(t).idx \in Ifidx
             /\ Advance(t) => todo' \in [Threads -> Seq(StepType)]
  BY <1>t, ArgTypes DEF Advance, TypeOK, ThreadTypes
<1>d. ASSUME NEW t \in Threads, NEW s \in Seq(StepType), Divert(t, s)
      PROVE  todo' \in [Threads -> Seq(StepType)]
  BY <1>d DEF Divert, TypeOK, ThreadTypes
<1>n. \A o \in Ifs : nif[o] \in NifType
  BY DEF TypeOK
<1>f. Freed \in NifType
  BY BlankType, Numbers DEF Freed
<1>e. <<>> \in Seq(StepType)
  OBVIOUS
<1>x. ASSUME NEW o, NEW n \in NifType, nif' = [nif EXCEPT ![o] = n] PROVE nif' \in [Ifs -> NifType]
  BY <1>x DEF TypeOK
<1>y. ASSUME NEW who, NEW o, Faulty(who, o) PROVE TypeOK'
  BY <1>y DEF Faulty, TypeOK, ThreadTypes, TableTypes, FrameTypes, tables, frames
<1>0. ASSUME NEW t \in Threads, Alloc(t) PROVE TypeOK'
  <2>1. Arg(t).bss \in Bss /\ Arg(t).idx \in Ifidx /\ todo[t] # <<>>
    BY <1>0, <1>t DEF Alloc, Step
  <2>2. Blank("made", Arg(t).bss, Arg(t).idx) \in NifType
    BY <2>1, BlankType
  <2>3. Detach \in Seq(StepType)
    BY DetachList DEF OutList
  <2>4. todo' \in [Threads -> Seq(StepType)]
    BY <1>0, <1>t, <1>d, <1>e, <2>1, <2>3 DEF Alloc
  <2>5. nif' \in [Ifs -> NifType]
    BY <1>0, <2>2, <1>x DEF Alloc, TypeOK
  <2>6. ThreadTypes'
    <3>1. held' \in [Threads -> Ifs \cup {Null}] /\ UNCHANGED <<stage, up>>
      BY <1>0 DEF Alloc, ThreadTypes, TypeOK
    <3> QED
      BY <2>4, <3>1 DEF ThreadTypes, TypeOK
  <2>7. TableTypes'
    BY <1>0, <2>1 DEF Alloc, TableTypes, TypeOK, tables
  <2> QED
    BY <1>0, <2>5, <2>6, <2>7 DEF Alloc, TypeOK, frames, FrameTypes
<1>1. ASSUME NEW t \in Threads, Register(t) PROVE TypeOK'
  <2>1. FailStarted \in Seq(StepType) /\ todo[t] # <<>>
    BY <1>1, FailStartedList DEF OutList, Register, Step
  <2>2. CASE Faulty(t, held[t])
    BY <1>y, <2>2
  <2>3. CASE ~Faulty(t, held[t])
    <3>1. nif' \in [Ifs -> NifType]
      <4>1. nif' = [nif EXCEPT ![held[t]].life = "registered"] \/ nif' = nif \/ nif' = [nif EXCEPT ![held[t]] = Freed]
        BY <1>1, <2>3 DEF Register
      <4> QED
        BY <1>f, <1>n, <1>x, <4>1, FieldTypes DEF TypeOK
    <3>2. todo' \in [Threads -> Seq(StepType)]
      BY <1>1, <1>t, <1>d, <1>e, <2>1, <2>3 DEF Register
    <3>3. held' \in [Threads -> Ifs \cup {Null}]
      BY <1>1, <2>3 DEF Register, TypeOK, ThreadTypes
    <3>4. iflist' \in [Bss -> Ifs \cup {Null}] /\ UNCHANGED <<stage, up, if2bss, frames>>
      BY <1>1, <2>3 DEF Register, TypeOK, TableTypes, tables
    <3> QED
      BY <3>1, <3>2, <3>3, <3>4 DEF TypeOK, ThreadTypes, TableTypes, FrameTypes, frames
  <2> QED
    BY <2>2, <2>3
<1>2. ASSUME NEW t \in Threads, Hold(t) PROVE TypeOK'
  <2>0. todo[t] # <<>> /\ Arg(t).bss \in Bss
    BY <1>2, <1>t DEF Hold, Step
  <2>1. SubSeq(todo[t], Len(DelIf(0)) + 1, Len(todo[t])) \in Seq(StepType)
    <3>0. todo[t] \in Seq(StepType)
      BY DEF TypeOK, ThreadTypes
    <3>1. Len(todo[t]) \in Nat /\ Len(DelIf(0)) + 1 = 5
      BY <3>0, LenProperties DEF DelIf
    <3>2. \A i \in 5 .. Len(todo[t]) : todo[t][i] \in StepType
      BY <3>0, <3>1, ElementOfSeq
    <3> QED
      BY <3>1, <3>2, SubSeqProperties
  <2>2. CASE Faulty(t, iflist[Arg(t).bss])
    BY <1>y, <2>2
  <2>3. CASE ~Faulty(t, iflist[Arg(t).bss])
    <3>1. todo' \in [Threads -> Seq(StepType)]
      BY <1>2, <1>t, <1>d, <2>0, <2>1, <2>3 DEF Hold
    <3>2. held' = held \/ held' = [held EXCEPT ![t] = iflist[Arg(t).bss]]
      BY <1>2, <2>3 DEF Hold
    <3>3. iflist[Arg(t).bss] \in Ifs \cup {Null}
      BY <2>0 DEF TypeOK, TableTypes
    <3>4. UNCHANGED <<stage, up, tables, nif, frames>>
      BY <1>2, <2>3 DEF Hold
    <3> QED
      BY <3>1, <3>2, <3>3, <3>4 DEF TypeOK, ThreadTypes, TableTypes, FrameTypes, frames, tables
  <2> QED
    BY <2>2, <2>3
<1>3. ASSUME NEW t \in Threads, Quiet(t) PROVE TypeOK'
  <2>0. todo[t] # <<>>
    BY <1>3 DEF Quiet, Step
  <2>1. \A o \in Ifs : Block(nif[o], "disconnected") \in NifType /\ [nif[o] EXCEPT !.stopped = TRUE] \in NifType
    BY <1>n, BlockType, FieldTypes DEF Reasons
  <2>2. CASE Faulty(t, held[t])
    BY <1>y, <2>2
  <2>3. CASE ~Faulty(t, held[t])
    <3>1. UNCHANGED <<held, stage, up, tables, frames, fault, history>> /\ Advance(t)
          /\ \/ nif' = [nif EXCEPT ![held[t]] = Block(nif[held[t]], "disconnected")]
             \/ nif' = [nif EXCEPT ![held[t]].stopped = TRUE]
      BY <1>3, <2>3 DEF Quiet
    <3>2. nif' \in [Ifs -> NifType]
      BY <2>1, <3>1 DEF TypeOK
    <3> QED
      BY <1>t, <2>0, <3>1, <3>2 DEF TypeOK, ThreadTypes, TableTypes, FrameTypes, frames, tables
  <2> QED
    BY <2>2, <2>3
<1>4. ASSUME NEW t \in Threads, NetDetach(t) PROVE TypeOK'
  <2>0. todo[t] # <<>>
    BY <1>4 DEF NetDetach, Step
  <2>1. \A o \in Ifs : Blank("freed", 0, nif[o].idx) \in NifType
    BY <1>n, BlankType, Fields, Numbers
  <2>2. CASE Faulty(t, held[t])
    BY <1>y, <2>2
  <2>3. CASE ~Faulty(t, held[t])
    <3>1. UNCHANGED <<held, stage, up, tables, frames, fault, happened>> /\ Advance(t)
          /\ nif' = [nif EXCEPT ![held[t]] = Blank("freed", 0, nif[held[t]].idx)]
      BY <1>4, <2>3 DEF NetDetach
    <3>2. nif' \in [Ifs -> NifType]
      BY <2>1, <3>1 DEF TypeOK
    <3> QED
      BY <1>t, <2>0, <3>1, <3>2 DEF TypeOK, ThreadTypes, TableTypes, FrameTypes, frames, tables
  <2> QED
    BY <2>2, <2>3
<1>5. ASSUME NEW t \in Threads, Unlist(t) \/ Forget(t) PROVE TypeOK'
  <2>0. todo[t] # <<>> /\ Arg(t).bss \in Bss
    BY <1>5, <1>t DEF Unlist, Forget, Step
  <2>1. /\ nif' = nif \/ nif' = [nif EXCEPT ![held[t]] = Freed]
        /\ held' = held \/ held' = [held EXCEPT ![t] = Null]
        /\ Advance(t) /\ UNCHANGED <<stage, up, frames>>
    BY <1>5 DEF Unlist, Forget
  <2>2. TableTypes'
    BY <1>5, <2>0 DEF Unlist, Forget, TypeOK, TableTypes
  <2>3. nif' \in [Ifs -> NifType]
    BY <1>f, <1>x, <2>1 DEF TypeOK
  <2>4. ThreadTypes'
    BY <1>t, <2>0, <2>1 DEF TypeOK, ThreadTypes
  <2> QED
    BY <2>1, <2>2, <2>3, <2>4 DEF TypeOK, FrameTypes, frames
<1>6. ASSUME NEW op \in {"preinit", "notifiers"}, Started(op) PROVE TypeOK'
  <2>1. FailStarted \in Seq(StepType) /\ todo["ctl"] # <<>> /\ "ctl" \in Threads
    BY <1>6, FailStartedList DEF OutList, Started, Step, Threads
  <2>2. todo' \in [Threads -> Seq(StepType)]
    BY <1>6, <1>t, <1>d, <2>1 DEF Started
  <2>3. ThreadTypes'
    BY <1>6, <2>1, <2>2 DEF Started, TypeOK, ThreadTypes
  <2> QED
    BY <1>6, <2>3 DEF Started, TypeOK, TableTypes, FrameTypes, tables, frames
<1>7. ASSUME NEW op \in {"up", "down"}, SetState(op) PROVE TypeOK'
  BY <1>7, <1>t DEF SetState, Threads, Step, TypeOK, ThreadTypes, TableTypes, FrameTypes, tables, frames
<1>8. ASSUME Visit PROVE TypeOK'
  <2>0. todo["ctl"] # <<>> /\ "ctl" \in Threads
    BY <1>8 DEF Visit, Step, Threads
  <2> DEFINE o == iflist[Arg("ctl").bss]
  <2>2. CASE Faulty("ctl", o)
    BY <1>y, <2>2
  <2>3. CASE ~Faulty("ctl", o)
    <3>1. /\ UNCHANGED <<held, stage, up, tables, frames>> /\ Advance("ctl")
          /\ nif' = nif \/ nif' = [nif EXCEPT ![o].stopped = FALSE]
      BY <1>8, <2>3 DEF Visit
    <3>2. \A p \in Ifs : [nif[p] EXCEPT !.stopped = FALSE] \in NifType
      BY <1>n, FieldTypes
    <3>3. nif' \in [Ifs -> NifType]
      BY <3>1, <3>2 DEF TypeOK
    <3> QED
      BY <1>t, <2>0, <3>1, <3>3 DEF TypeOK, ThreadTypes, TableTypes, FrameTypes, frames, tables
  <2> QED
    BY <2>2, <2>3
<1>9. ASSUME Silence PROVE TypeOK'
  <2>0. todo["ctl"] # <<>> /\ "ctl" \in Threads
    BY <1>9 DEF Silence, Step, Threads
  <2> QED
    BY <1>9, <1>t, <2>0 DEF Silence, TypeOK, ThreadTypes, TableTypes, FrameTypes, frames, tables
<1> QED
  BY <1>0, <1>1, <1>2, <1>3, <1>4, <1>5, <1>6, <1>7, <1>8, <1>9 DEF ThreadStep

\* What gives them work.
LEMMA TypeWork ==
  TypeOK /\ Work => TypeOK'
<1> SUFFICES ASSUME TypeOK, Work PROVE TypeOK'
  OBVIOUS
<1>b. ASSUME NEW t \in Threads, NEW s \in Seq(StepType), NEW o \in Ifs \cup {Null}, Begin(t, s, o),
             UNCHANGED <<stage, up, tables, nif, frames>>
      PROVE  TypeOK'
  BY <1>b DEF Begin, Divert, TypeOK, ThreadTypes, TableTypes, FrameTypes, frames, tables
<1>1. ASSUME NEW b \in Bss, IfDeleted(b) PROVE TypeOK'
  <2>1. DelIf(b) \in Seq(StepType)
    BY <1>1, DeleteList DEF IfDeleted
  <2> QED
    BY <1>1, <1>b, <2>1 DEF IfDeleted, Threads
<1>2. ASSUME NEW b \in Bss, NEW x \in Ifidx, IfAdded(b, x) PROVE TypeOK'
  <2>1. AddIf(b, x) \in Seq(StepType) /\ Replace(b) \o AddIf(b, x) \in Seq(StepType)
    BY <1>2, EventLists DEF IfAdded
  <2>2. iflist[b] \in Ifs \cup {Null}
    BY DEF TypeOK, TableTypes
  <2>3. UNCHANGED <<stage, up, tables, nif, frames>>
    BY <1>2 DEF IfAdded
  <2>4. \/ Begin("event", AddIf(b, x), Null)
        \/ Begin("event", Replace(b) \o AddIf(b, x), iflist[b])
        \/ UNCHANGED <<todo, held>>
    BY <1>2 DEF IfAdded
  <2>5. CASE UNCHANGED <<todo, held>>
    BY <2>3, <2>5 DEF TypeOK, ThreadTypes, TableTypes, FrameTypes, frames, tables
  <2> QED
    BY <1>b, <2>1, <2>2, <2>3, <2>4, <2>5 DEF Threads
<1>3. ASSUME NEW s \in Seq(StepType), Control(s) PROVE TypeOK'
  BY <1>3, <1>b DEF Control, Threads
<1>4. <<Do("down", 0, 0)>> \in Seq(StepType) /\ BusUp \in Seq(StepType) /\ Detach \in Seq(StepType)
  BY DownList, BusUpList, DetachList DEF OutList
<1> QED
  BY <1>1, <1>2, <1>3, <1>4 DEF Work

\* The network stack, the message layer and the waiter.
LEMMA TypeStack ==
  TypeOK /\ Stack => TypeOK'
<1> SUFFICES ASSUME TypeOK, Stack PROVE TypeOK'
  OBVIOUS
<1>n. \A o \in Ifs : nif[o] \in NifType
  BY DEF TypeOK
<1>x. ASSUME UNCHANGED <<todo, held, stage, up, tables, frames>>, nif' \in [Ifs -> NifType] PROVE TypeOK'
  BY <1>x DEF TypeOK, ThreadTypes, TableTypes, FrameTypes, frames, tables
<1>z. ASSUME UNCHANGED <<todo, held, stage, up, tables>>, nif' \in [Ifs -> NifType], FrameTypes' PROVE TypeOK'
  BY <1>z DEF TypeOK, ThreadTypes, TableTypes, tables
<1>1. ASSUME NEW o \in Ifs, Open(o) PROVE TypeOK'
  <2>1. PICK ok \in BOOLEAN : nif' = [nif EXCEPT ![o].pend = 0, ![o].open = ok]
    BY <1>1 DEF Open
  <2>2. [nif[o] EXCEPT !.pend = 0, !.open = ok] \in NifType
    <3>1. [nif[o] EXCEPT !.pend = 0] \in NifType
      BY <1>n, FieldTypes
    <3> DEFINE n == [nif[o] EXCEPT !.pend = 0]
    <3>2. [nif[o] EXCEPT !.pend = 0, !.open = ok] = [n EXCEPT !.open = ok]
      OBVIOUS
    <3> HIDE DEF n
    <3> QED
      BY <3>1, <3>2, FieldTypes DEF n
  <2>3. nif' = [nif EXCEPT ![o] = [nif[o] EXCEPT !.pend = 0, !.open = ok]]
    BY <2>1 DEF TypeOK
  <2>4. nif' \in [Ifs -> NifType]
    BY <2>2, <2>3 DEF TypeOK
  <2> QED
    BY <1>1, <1>x, <2>4 DEF Open
<1>2. ASSUME NEW o \in Ifs, Stop(o) PROVE TypeOK'
  <2>1. [Block(nif[o], "disconnected") EXCEPT !.open = FALSE] \in NifType
    BY <1>n, BlockType, FieldTypes DEF Reasons
  <2>2. nif' \in [Ifs -> NifType]
    BY <1>2, <2>1 DEF Stop, TypeOK
  <2> QED
    BY <1>2, <1>x, <2>2 DEF Stop
<1>3. ASSUME NEW o \in Ifs, NEW r \in Reasons, NEW state \in BOOLEAN, TxFlowBlock(o, r, state) PROVE TypeOK'
  <2>1. Block(nif[o], r) \in NifType /\ Unblock(nif[o], r) \in NifType
    BY <1>n, BlockType
  <2>2. nif' \in [Ifs -> NifType]
    BY <1>3, <2>1 DEF TxFlowBlock, TypeOK
  <2> QED
    BY <1>3, <1>x, <2>2 DEF TxFlowBlock
<1>p. ASSUME NEW o, NEW k \in Int, nif' = [nif EXCEPT ![o].pend = k] PROVE nif' \in [Ifs -> NifType]
  <2>1. o \in Ifs => [nif[o] EXCEPT !.pend = k] \in NifType
    BY <1>n, FieldTypes
  <2> QED
    BY <1>p, <2>1 DEF TypeOK
<1>4. ASSUME NEW o \in Ifs, StartXmit(o) PROVE TypeOK'
  <2>1. nif[o].pend + 1 \in Int
    BY <1>n, Fields
  <2>2. nif' = nif \/ nif' = [nif EXCEPT ![o].pend = nif[o].pend + 1]
    BY <1>4 DEF StartXmit
  <2>3. nif' \in [Ifs -> NifType]
    BY <1>p, <2>1, <2>2 DEF TypeOK
  <2>4. FrameTypes'
    BY <1>4 DEF StartXmit, TypeOK, FrameTypes
  <2> QED
    BY <1>4, <1>z, <2>3, <2>4 DEF StartXmit
<1>5. ASSUME NEW o \in Ifs, StopQueue(o) PROVE TypeOK'
  <2>1. [nif[o] EXCEPT !.stopped = TRUE] \in NifType
    BY <1>n, FieldTypes
  <2>2. nif' \in [Ifs -> NifType]
    BY <1>5, <2>1 DEF StopQueue, TypeOK
  <2>3. FrameTypes'
    BY <1>5 DEF StopQueue, TypeOK, FrameTypes
  <2> QED
    BY <1>5, <1>z, <2>2, <2>3 DEF StopQueue
<1>6. ASSUME NEW o \in Ifs, QueueData(o) PROVE TypeOK'
  <2>1. nif[o].pend - 1 \in Int /\ nif[o].idx \in Ifidx
    BY <1>n, Fields
  <2>2. nif' = nif \/ nif' = [nif EXCEPT ![o].pend = nif[o].pend - 1]
    BY <1>6 DEF QueueData
  <2>3. nif' \in [Ifs -> NifType]
    BY <1>p, <2>1, <2>2 DEF TypeOK
  <2>4. FrameTypes'
    BY <1>6, <2>1 DEF QueueData, TypeOK, FrameTypes
  <2> QED
    BY <1>6, <1>z, <2>3, <2>4 DEF QueueData
<1>7. ASSUME NEW x \in Ifidx, Complete(x) PROVE TypeOK'
  <2> DEFINE o == GetIfp(x)
  <2>0. o \in Ifs \cup {Null}
    BY DEF GetIfp, TypeOK, TableTypes
  <2>1. CASE Faulty("completion", o)
    BY <2>1, <1>x DEF Faulty, TypeOK
  <2>2. CASE ~Faulty("completion", o)
    <3>1. /\ flight' = [flight EXCEPT ![x] = flight[x] - 1]
          /\ nif' = IF o = Null THEN nif ELSE [nif EXCEPT ![o].pend = nif[o].pend - 1]
          /\ UNCHANGED <<todo, held, stage, up, tables, xmit, waiter>>
      BY <1>7, <2>2 DEF Complete
    <3>2. \A p \in Ifs : nif[p].pend - 1 \in Int
      BY <1>n, Fields
    <3>3. nif' \in [Ifs -> NifType]
      BY <1>p, <2>0, <3>1, <3>2 DEF TypeOK
    <3>4. FrameTypes'
      BY <3>1 DEF TypeOK, FrameTypes
    <3> QED
      BY <1>z, <3>1, <3>3, <3>4
  <2> QED
    BY <2>1, <2>2
<1>8. ASSUME NEW o \in Ifs, WaitBegin(o) PROVE TypeOK'
  BY <1>8, <1>z DEF WaitBegin, TypeOK, FrameTypes
<1>9. ASSUME WaitDone PROVE TypeOK'
  <2>1. NoWait \in [nif : Ifs \cup {Null}, expired : BOOLEAN]
    BY DEF NoWait
  <2>2. FrameTypes'
    BY <1>9, <2>1 DEF WaitDone, TypeOK, FrameTypes
  <2> QED
    BY <1>9, <1>z, <2>2 DEF WaitDone, TypeOK
<1>10. ASSUME WaitReset PROVE TypeOK'
  <2>1. NoWait \in [nif : Ifs \cup {Null}, expired : BOOLEAN]
    BY DEF NoWait
  <2>2. FrameTypes'
    BY <1>10, <2>1 DEF WaitReset, TypeOK, FrameTypes
  <2>3. nif' = [nif EXCEPT ![waiter.nif].pend = 0] /\ UNCHANGED <<todo, held, stage, up, tables>>
    BY <1>10 DEF WaitReset
  <2>4. nif' \in [Ifs -> NifType]
    <3>1. \A o \in Ifs : [nif[o] EXCEPT !.pend = 0] \in NifType
      BY <1>n, FieldTypes
    <3> QED
      BY <2>3, <3>1 DEF TypeOK
  <2> QED
    BY <1>z, <2>2, <2>3, <2>4
<1> QED
  BY <1>1, <1>2, <1>3, <1>4, <1>5, <1>6, <1>7, <1>8, <1>9, <1>10 DEF Stack

\* The types hold throughout.
THEOREM NetdevTypes == Spec => []TypeOK
<1>1. Init => TypeOK
  <2> SUFFICES ASSUME Init PROVE TypeOK
    OBVIOUS
  <2>1. ThreadTypes
    <3>1. BusStarted \in Seq(StepType) /\ <<>> \in Seq(StepType)
      BY BusStartedList
    <3>2. todo \in [Threads -> Seq(StepType)]
      BY <3>1 DEF Init
    <3> QED
      BY <3>2 DEF Init, ThreadTypes, Null
  <2>2. TableTypes /\ FrameTypes
    BY DEF Init, TableTypes, FrameTypes, Null, Invalid, NoWait
  <2>3. Freed \in NifType
    BY BlankType, Numbers DEF Freed
  <2> QED
    BY <2>1, <2>2, <2>3 DEF Init, TypeOK
<1>2. TypeOK /\ [Next]_vars => TypeOK'
  BY TypeThread, TypeWork, TypeStack
     DEF Next, vars, TypeOK, ThreadTypes, TableTypes, FrameTypes, tables, frames
<1> QED
  BY <1>1, <1>2, PTL DEF Spec

-----------------------------------------------------------------------------
(***************************************************************************)
(* Stop reasons.                                                           *)
(***************************************************************************)
LEMMA BlockFields ==
  ASSUME NEW n \in NifType, NEW r
  PROVE  /\ Block(n, r).stops = n.stops \cup {r} /\ (Block(n, r).stopped <=> n.stopped \/ n.stops = {})
         /\ Unblock(n, r).stops = n.stops \ {r}
         /\ (Unblock(n, r).stopped <=> n.stopped /\ n.stops \ {r} # {})
         /\ \A m \in {Block(n, r), Unblock(n, r)} :
              m.life = n.life /\ m.bss = n.bss /\ m.idx = n.idx /\ m.open = n.open /\ m.pend = n.pend
<1>1. n.stopped \in BOOLEAN
  BY Fields
<1> QED
  BY <1>1 DEF Block, Unblock, NifType

\* A stop reason never goes without its queue stopped, except by a bus that wakes it.
LEMMA QueueStep ==
  TypeOK /\ QueueHonoursReasons /\ [Next]_vars => QueueHonoursReasons'
<1> SUFFICES ASSUME TypeOK, QueueHonoursReasons, [Next]_vars,
                    NEW o \in Ifs, Alive(o)', nif'[o].stops # {}
             PROVE  nif'[o].stopped \/ o \in overruled'
  BY DEF QueueHonoursReasons
<1>n. nif \in [Ifs -> NifType] /\ nif[o] \in NifType /\ \A p \in Ifs : nif[p] \in NifType
  BY DEF TypeOK
<1>k. Alive(o) /\ nif[o].stops # {} => nif[o].stopped \/ o \in overruled
  BY DEF QueueHonoursReasons
<1>s. ASSUME nif'[o].life = nif[o].life, nif'[o].stops = nif[o].stops,
             nif[o].stopped => nif'[o].stopped, overruled' = overruled
      PROVE  nif'[o].stopped \/ o \in overruled'
  BY <1>s, <1>k DEF Alive
<1>u. ASSUME nif' = nif, overruled' = overruled PROVE nif'[o].stopped \/ o \in overruled'
  BY <1>u, <1>s
<1>f. \A who, p : Faulty(who, p) => nif' = nif /\ overruled' = overruled
  BY DEF Faulty, history
<1>b. \A l, b, x : Blank(l, b, x).stops = {} /\ Freed.stops = {}
  BY DEF Blank, Freed
<1>0. ASSUME NEW t \in Threads, Alloc(t) PROVE nif'[o].stopped \/ o \in overruled'
  <2>1. PICK p : \/ /\ nif' = [nif EXCEPT ![p] = Blank("made", Arg(t).bss, Arg(t).idx)]
                    /\ overruled' = overruled \ {p}
                 \/ nif' = nif /\ overruled' = overruled
    BY <1>0 DEF Alloc
  <2> QED
    BY <1>n, <1>b, <1>k, <1>u, <2>1 DEF Alive
<1>1. ASSUME NEW t \in Threads, Register(t) PROVE nif'[o].stopped \/ o \in overruled'
  <2>1. /\ \/ nif' = nif \/ nif' = [nif EXCEPT ![held[t]] = Freed]
           \/ Alive(held[t]) /\ nif' = [nif EXCEPT ![held[t]].life = "registered"]
        /\ overruled' = overruled
    BY <1>1, <1>f DEF Register, history
  <2>2. CASE Alive(held[t]) /\ nif' = [nif EXCEPT ![held[t]].life = "registered"]
    <3>1. nif'[o].stops = nif[o].stops /\ nif'[o].stopped = nif[o].stopped /\ Alive(o)
      BY <1>n, <2>2 DEF NifType, Alive
    <3> QED
      BY <1>k, <2>1, <3>1
  <2> QED
    BY <1>n, <1>b, <1>k, <1>u, <2>1, <2>2 DEF Alive
<1>2. ASSUME NEW t \in Threads, Hold(t) PROVE nif'[o].stopped \/ o \in overruled'
  BY <1>2, <1>f, <1>u DEF Hold, history
<1>3. ASSUME NEW t \in Threads, Quiet(t) PROVE nif'[o].stopped \/ o \in overruled'
  <2>1. /\ \/ nif' = nif
           \/ nif' = [nif EXCEPT ![held[t]] = Block(nif[held[t]], "disconnected")]
           \/ nif' = [nif EXCEPT ![held[t]].stopped = TRUE]
        /\ overruled' = overruled
    BY <1>3, <1>f DEF Quiet, history
  <2>2. CASE nif' = [nif EXCEPT ![held[t]] = Block(nif[held[t]], "disconnected")]
    BY <1>n, <1>k, <1>u, <2>1, <2>2, BlockFields DEF Alive
  <2>3. CASE nif' = [nif EXCEPT ![held[t]].stopped = TRUE]
    BY <1>n, <1>s, <2>1, <2>3
  <2> QED
    BY <1>u, <2>1, <2>2, <2>3
<1>4. ASSUME NEW t \in Threads, NetDetach(t) PROVE nif'[o].stopped \/ o \in overruled'
  <2>1. \/ nif' = nif /\ overruled' = overruled
        \/ /\ nif' = [nif EXCEPT ![held[t]] = Blank("freed", 0, nif[held[t]].idx)]
           /\ overruled' = overruled \ {held[t]}
    BY <1>4, <1>f DEF NetDetach
  <2> QED
    BY <1>n, <1>b, <1>k, <1>u, <2>1 DEF Alive
<1>5. ASSUME NEW t \in Threads, Unlist(t) \/ Forget(t) PROVE nif'[o].stopped \/ o \in overruled'
  <2>1. (nif' = nif \/ nif' = [nif EXCEPT ![held[t]] = Freed]) /\ overruled' = overruled
    BY <1>5 DEF Unlist, Forget, history
  <2> QED
    BY <1>n, <1>b, <1>k, <1>u, <2>1 DEF Alive
<1>6. ASSUME NEW op \in {"preinit", "notifiers"}, Started(op) PROVE nif'[o].stopped \/ o \in overruled'
  BY <1>6, <1>u DEF Started
<1>7. ASSUME NEW op \in {"up", "down"}, SetState(op) PROVE nif'[o].stopped \/ o \in overruled'
  BY <1>7, <1>u DEF SetState, history
<1>8. ASSUME Visit PROVE nif'[o].stopped \/ o \in overruled'
  <2> DEFINE p == iflist[Arg("ctl").bss]
  <2>1. \/ nif' = nif /\ overruled' = overruled
        \/ /\ nif' = [nif EXCEPT ![p].stopped = FALSE]
           /\ overruled' = IF nif[p].stops # {} THEN overruled \cup {p} ELSE overruled
    BY <1>8, <1>f DEF Visit
  <2> HIDE DEF p
  <2>2. CASE p = o /\ nif' = [nif EXCEPT ![p].stopped = FALSE]
    BY <1>n, <1>u, <2>1, <2>2 DEF NifType
  <2>3. CASE p # o
    BY <1>n, <1>k, <1>u, <2>1, <2>3 DEF Alive
  <2> QED
    BY <1>u, <2>1, <2>2, <2>3
<1>9. ASSUME Silence PROVE nif'[o].stopped \/ o \in overruled'
  BY <1>9, <1>u DEF Silence, history
<1>10. ASSUME Work PROVE nif'[o].stopped \/ o \in overruled'
  BY <1>10, <1>u DEF Work, IfDeleted, IfAdded, Control
<1>11. ASSUME NEW p \in Ifs, Open(p) PROVE nif'[o].stopped \/ o \in overruled'
  <2>1. PICK ok \in BOOLEAN : nif' = [nif EXCEPT ![p].pend = 0, ![p].open = ok]
    BY <1>11 DEF Open
  <2>2. nif'[o].life = nif[o].life /\ nif'[o].stops = nif[o].stops /\ nif'[o].stopped = nif[o].stopped
    BY <1>n, <2>1 DEF NifType
  <2> QED
    BY <1>11, <1>s, <2>2 DEF Open
<1>12. ASSUME NEW p \in Ifs, Stop(p) PROVE nif'[o].stopped \/ o \in overruled'
  <2> DEFINE n == Block(nif[p], "disconnected")
  <2>1. nif' = [nif EXCEPT ![p] = [n EXCEPT !.open = FALSE]] /\ overruled' = overruled /\ n \in NifType
    BY <1>12, <1>n, BlockType DEF Stop, history, Reasons
  <2>2. n.life = nif[p].life /\ n.stops = nif[p].stops \cup {"disconnected"} /\ (n.stopped <=> nif[p].stopped \/ nif[p].stops = {})
    BY <1>n, BlockFields
  <2> HIDE DEF n
  <2>3. LET m == [n EXCEPT !.open = FALSE] IN m.life = n.life /\ m.stops = n.stops /\ m.stopped = n.stopped
    BY <2>1 DEF NifType
  <2> QED
    BY <1>n, <1>k, <1>u, <2>1, <2>2, <2>3 DEF Alive
<1>13. ASSUME NEW p \in Ifs, NEW r \in Reasons, NEW state \in BOOLEAN, TxFlowBlock(p, r, state)
       PROVE  nif'[o].stopped \/ o \in overruled'
  <2>1. CASE state
    <3>1. nif' = [nif EXCEPT ![p] = Block(nif[p], r)] /\ overruled' = overruled
      BY <1>13, <2>1 DEF TxFlowBlock
    <3> QED
      BY <1>n, <1>k, <1>u, <3>1, BlockFields DEF Alive
  <2>2. CASE ~state
    <3>1. nif' = [nif EXCEPT ![p] = Unblock(nif[p], r)]
          /\ overruled' = IF nif[p].stops \subseteq {r} THEN overruled \ {p} ELSE overruled
      BY <1>13, <2>2 DEF TxFlowBlock
    <3> QED
      BY <1>n, <1>k, <1>u, <3>1, BlockFields DEF Alive
  <2> QED
    BY <2>1, <2>2
<1>14. ASSUME NEW p \in Ifs, StartXmit(p) PROVE nif'[o].stopped \/ o \in overruled'
  BY <1>14, <1>n, <1>s DEF StartXmit, history, NifType
<1>15. ASSUME NEW p \in Ifs, StopQueue(p) PROVE nif'[o].stopped \/ o \in overruled'
  BY <1>15, <1>n, <1>s DEF StopQueue
<1>16. ASSUME NEW p \in Ifs, QueueData(p) PROVE nif'[o].stopped \/ o \in overruled'
  BY <1>16, <1>n, <1>s DEF QueueData, history, NifType
<1>17. ASSUME NEW x \in Ifidx, Complete(x) PROVE nif'[o].stopped \/ o \in overruled'
  <2>1. (nif' = nif \/ nif' = [nif EXCEPT ![GetIfp(x)].pend = @ - 1]) /\ overruled' = overruled
    BY <1>17, <1>f DEF Complete
  <2> QED
    BY <1>n, <1>s, <2>1 DEF NifType
<1>18. ASSUME NEW p \in Ifs, WaitBegin(p) PROVE nif'[o].stopped \/ o \in overruled'
  BY <1>18, <1>u DEF WaitBegin, history
<1>19. ASSUME WaitDone PROVE nif'[o].stopped \/ o \in overruled'
  BY <1>19, <1>u DEF WaitDone, history
<1>20. ASSUME WaitReset PROVE nif'[o].stopped \/ o \in overruled'
  BY <1>20, <1>n, <1>s DEF WaitReset, NifType
<1>21. ASSUME UNCHANGED vars PROVE nif'[o].stopped \/ o \in overruled'
  BY <1>21, <1>u DEF vars, history
<1> QED
  BY <1>0, <1>1, <1>2, <1>3, <1>4, <1>5, <1>6, <1>7, <1>8, <1>9, <1>10, <1>11, <1>12, <1>13, <1>14,
     <1>15, <1>16, <1>17, <1>18, <1>19, <1>20, <1>21 DEF Next, ThreadStep, Stack

THEOREM QueuesHonourReasons == Spec => []QueueHonoursReasons
<1>1. Init => QueueHonoursReasons
  BY DEF Init, QueueHonoursReasons, Alive, Freed, Blank
<1> QED
  BY <1>1, QueueStep, NetdevTypes, PTL DEF Spec

-----------------------------------------------------------------------------
(***************************************************************************)
(* How the lists move.                                                     *)
(***************************************************************************)
\* What the step a thread is at says of the rest.
LEMMA Here ==
  ASSUME ThreadTypes, Lists
  PROVE  /\ \A t \in Threads : Now(t) = "none" => todo[t] = <<>> /\ \A op : ~Has(todo[t], op)
         /\ \A t \in Threads : todo[t] # <<>> =>
              /\ Now(t) = Arg(t).op /\ Arg(t) = todo[t][1] /\ Arg(t).bss \in Bss /\ Arg(t).idx \in Ifidx
              /\ Now(t) # "none" /\ Has(todo[t], Now(t))
         /\ Now("ctl") = "none" => \A op, b : ~Pending(op, b)
         /\ Now("event") = "none" => \A b, x : ~Adds(b, x)
         /\ Now("event") \in DeleteOps \cup {"alloc", "register", "none"}
         /\ Now("event") # "none" => Arg("event").bss # 0
         /\ Now("event") \in {"alloc", "register"} => Arg("event").idx # 0
         /\ Now("event") = "alloc" => Adds(Arg("event").bss, Arg("event").idx)
         /\ Now("ctl") \in DeleteOps \cup {"silence"} => Has(todo["ctl"], "silence")
         /\ Now("ctl") = "alloc" => /\ Arg("ctl").bss = 0 /\ Arg("ctl").idx = 0
                                    /\ Has(todo["ctl"], "up") /\ Has(todo["ctl"], "notifiers")
         /\ Now("ctl") \in {"preinit", "register", "notifiers"} =>
              Has(todo["ctl"], "notifiers") /\ \A b : ~Pending("visit", b)
         /\ Has(todo["ctl"], "notifiers") => ~Has(todo["ctl"], "silence")
         /\ Now("ctl") = "silence" => \A b : ~Pending("hold", b)
         /\ Now("ctl") = "up" => \A b \in Bss : Pending("visit", b)
         /\ \A b, x : Adds(b, x) => b # 0 /\ x # 0
<1> DEFINE c == todo["ctl"]
           e == todo["event"]
<1>0. "ctl" \in Threads /\ "event" \in Threads /\ c \in Seq(StepType) /\ e \in Seq(StepType)
  BY DEF Threads, ThreadTypes
<1>1. \A t \in Threads : todo[t] = <<>> => \A op : ~Has(todo[t], op)
  BY DEF Has
<1>2. ASSUME NEW t \in Threads, todo[t] # <<>>
      PROVE  /\ Now(t) = Arg(t).op /\ Arg(t) = todo[t][1] /\ Arg(t).bss \in Bss /\ Arg(t).idx \in Ifidx
             /\ Now(t) # "none" /\ Has(todo[t], Now(t)) /\ Len(todo[t]) \in Nat \ {0}
  <2>1. todo[t] \in Seq(StepType)
    BY DEF ThreadTypes
  <2>2. todo[t][1] \in StepType /\ Head(todo[t]) = todo[t][1] /\ Len(todo[t]) \in Nat \ {0}
    BY <1>2, <2>1, Tails
  <2>3. Now(t) = todo[t][1].op /\ Arg(t) = todo[t][1]
    BY <1>2, <2>2 DEF Now, Arg
  <2>4. todo[t][1].op \in Ops /\ "none" \notin Ops
    BY <2>2 DEF StepType, Ops
  <2> QED
    BY <2>2, <2>3, <2>4 DEF StepType, Has
<1>3. Len(c) \in Nat /\ Len(e) \in Nat /\ CtlList(c) /\ EventList(e)
  BY <1>0, LenProperties DEF Lists
<1>4. \A t \in Threads : Now(t) = "none" => todo[t] = <<>>
  BY <1>2
<1>5. Now("ctl") = "none" => \A op, b : ~Pending(op, b)
  BY <1>0, <1>4 DEF Pending
<1>6. Now("event") = "none" => \A b, x : ~Adds(b, x)
  BY <1>0, <1>4 DEF Adds
<1>7. /\ Now("event") \in DeleteOps \cup {"alloc", "register", "none"}
      /\ Now("event") # "none" => Arg("event").bss # 0
      /\ Now("event") \in {"alloc", "register"} => Arg("event").idx # 0
      /\ Now("event") = "alloc" => Adds(Arg("event").bss, Arg("event").idx)
  <2>1. CASE e = <<>>
    BY <2>1 DEF Now
  <2>2. CASE e # <<>>
    <3>1. /\ Now("event") = e[1].op /\ Arg("event") = e[1] /\ 1 \in 1 .. Len(e)
      BY <1>0, <1>2, <2>2
    <3>2. e[1].op \in DeleteOps \cup {"alloc", "register"} /\ e[1].bss # 0
          /\ (e[1].op \in {"alloc", "register"} => e[1].idx # 0)
      BY <1>3, <3>1 DEF EventList
    <3> QED
      BY <3>1, <3>2 DEF Adds
  <2> QED
    BY <2>1, <2>2
<1>8. CASE c = <<>>
  <2>1. Now("ctl") = "none" /\ \A op : ~Has(c, op)
    BY <1>8 DEF Now, Has
  <2>2. \A b, x : Adds(b, x) => b # 0 /\ x # 0
    BY <1>3 DEF EventList, Adds
  <2> QED
    BY <1>1, <1>2, <1>4, <1>5, <1>6, <1>7, <2>1, <2>2 DEF DeleteOps
<1>9. CASE c # <<>>
  <2>1. /\ Now("ctl") = c[1].op /\ Arg("ctl") = c[1] /\ 1 \in 1 .. Len(c) /\ Len(c) \in 1 .. Len(c)
    BY <1>0, <1>2, <1>9
  <2>2. Now("ctl") \in DeleteOps \cup {"silence"} => Has(c, "silence")
    <3>1. Now("ctl") \in DeleteOps => c[Len(c)].op = "silence"
      BY <1>3, <2>1 DEF CtlList
    <3> QED
      BY <2>1, <3>1 DEF Has
  <2>3. Now("ctl") = "alloc" => /\ Arg("ctl").bss = 0 /\ Arg("ctl").idx = 0
                                /\ Has(c, "up") /\ Has(c, "notifiers")
    <3>1. Now("ctl") = "alloc" => /\ c[1].bss = 0 /\ c[1].idx = 0 /\ Len(c) > 1 /\ c[2].op = "up"
                                  /\ c[Len(c)].op = "notifiers"
      BY <1>3, <2>1 DEF CtlList
    <3>2. Len(c) > 1 => 2 \in 1 .. Len(c)
      BY <1>3
    <3> QED
      BY <2>1, <3>1, <3>2 DEF Has
  <2>4. Now("ctl") \in {"preinit", "register", "notifiers"} =>
          Has(c, "notifiers") /\ \A b : ~Pending("visit", b)
    <3>1. Now("ctl") \in {"preinit", "register", "notifiers"} =>
            /\ \A j \in 1 .. Len(c) : c[j].op \in {"preinit", "register", "notifiers"}
            /\ c[Len(c)].op = "notifiers"
      BY <1>3, <2>1 DEF CtlList
    <3> QED
      BY <2>1, <3>1 DEF Has, Pending
  <2>5. Has(c, "notifiers") => ~Has(c, "silence")
    BY <1>3 DEF CtlList, Has
  <2>6. Now("ctl") = "silence" => \A b : ~Pending("hold", b)
    <3>1. Now("ctl") = "silence" => 1 = Len(c)
      BY <1>3, <2>1 DEF CtlList
    <3> QED
      BY <2>1, <3>1 DEF Pending
  <2>7. Now("ctl") = "up" => \A b \in Bss : Pending("visit", b)
    <3>1. Now("ctl") = "up" => \A b \in Bss : \E j \in 1 + 1 .. Len(c) : c[j].op = "visit" /\ c[j].bss = b
      BY <1>3, <2>1 DEF CtlList
    <3>2. \A j \in 1 + 1 .. Len(c) : j \in 1 .. Len(c)
      BY <1>3
    <3> QED
      BY <3>1, <3>2 DEF Pending
  <2>8. \A b, x : Adds(b, x) => b # 0 /\ x # 0
    BY <1>3 DEF EventList, Adds
  <2> QED
    BY <1>1, <1>2, <1>4, <1>5, <1>6, <1>7, <2>2, <2>3, <2>4, <2>5, <2>6, <2>7, <2>8
<1> QED
  BY <1>8, <1>9

\* One step done.
LEMMA Advanced ==
  ASSUME ThreadTypes, Lists, NEW t \in Threads, todo[t] # <<>>, Advance(t)
  PROVE  /\ \A u \in Threads \ {t} : todo'[u] = todo[u] /\ Now(u)' = Now(u) /\ Arg(u)' = Arg(u)
         /\ Now(t) = "hold" => Now(t)' = "quiet" /\ Arg(t)'.bss = Arg(t).bss
         /\ Now(t) = "quiet" => Now(t)' = "detach" /\ Arg(t)'.bss = Arg(t).bss
         /\ Now(t) = "detach" => Now(t)' \in {"unlist", "forget"} /\ Arg(t)'.bss = Arg(t).bss
         /\ Now(t)' = "quiet" => Now(t) = "hold"
         /\ Now(t)' = "detach" => Now(t) = "quiet"
         /\ Now(t)' = "forget" => Now(t) = "detach"
         /\ Now(t)' = "unlist" => Now(t) \in {"detach", "unlist"}
         /\ t = "event" => /\ Now(t) = "unlist" => Now(t)' = "alloc" /\ Arg(t)'.bss = Arg(t).bss
                           /\ Now(t) = "alloc" => Now(t)' = "register" /\ Arg(t)'.bss = Arg(t).bss
                           /\ Now(t) \in {"register", "forget"} => Now(t)' = "none"
         /\ t = "ctl" => /\ Now(t)' # "alloc" /\ (Now(t) = "up" => ~Has(todo'["ctl"], "up"))
                         /\ Now(t) = "notifiers" => Now(t)' = "none"
         /\ \A op : Has(todo'[t], op) => Has(todo[t], op)
         /\ \A op : Has(todo[t], op) /\ Now(t) # op => Has(todo'[t], op)
<1> DEFINE s == todo[t]
           r == todo'[t]
<1>0. s \in Seq(StepType) /\ s # <<>> /\ Chained(s) /\ Rear(s)
  BY DEF ThreadTypes, Lists
<1>1. r = Tail(s) /\ \A u \in Threads \ {t} : todo'[u] = todo[u]
  BY DEF Advance, ThreadTypes
<1>2. \A u \in Threads \ {t} : Now(u)' = Now(u) /\ Arg(u)' = Arg(u)
  BY <1>1 DEF Now, Arg
<1>3. /\ Len(s) \in Nat \ {0} /\ Head(s) = s[1]
      /\ r \in Seq(StepType) /\ Len(r) = Len(s) - 1
      /\ r # <<>> => Len(s) > 1 /\ Head(r) = s[2]
      /\ r = <<>> => Len(s) = 1
      /\ \A op : Has(r, op) => Has(s, op)
      /\ \A op : Has(s, op) /\ s[1].op # op => Has(r, op)
  BY <1>0, <1>1, Tails
<1>4. Now(t) = s[1].op /\ Arg(t) = s[1] /\ 1 \in 1 .. Len(s)
  BY <1>0, <1>3 DEF Now, Arg
<1>5. CASE r = <<>>
  <2>1. Now(t)' = "none" /\ Len(s) = 1
    BY <1>3, <1>5 DEF Now
  <2>2. Now(t) \notin {"hold", "quiet", "detach"}
    BY <1>0, <1>4, <2>1 DEF Chained
  <2>3. t = "event" => Now(t) \notin {"unlist", "alloc"}
    <3> SUFFICES ASSUME t = "event" PROVE s[1].op \notin {"unlist", "alloc"}
      BY <1>4
    <3>1. EventList(s)
      BY DEF Lists
    <3> QED
      BY <1>4, <2>1, <3>1 DEF EventList
  <2>4. \A op : ~Has(r, op)
    BY <1>5 DEF Has
  <2> QED
    BY <1>1, <1>2, <1>3, <1>4, <2>1, <2>2, <2>3, <2>4
<1>6. CASE r # <<>>
  <2>1. Now(t)' = s[2].op /\ Arg(t)' = s[2] /\ 2 \in 2 .. Len(s) /\ 2 - 1 = 1 /\ 2 \in 1 .. Len(s)
    BY <1>3, <1>6 DEF Now, Arg
  <2>2. /\ Now(t) = "hold" => Now(t)' = "quiet" /\ Arg(t)'.bss = Arg(t).bss
        /\ Now(t) = "quiet" => Now(t)' = "detach" /\ Arg(t)'.bss = Arg(t).bss
        /\ Now(t) = "detach" => Now(t)' \in {"unlist", "forget"} /\ Arg(t)'.bss = Arg(t).bss
    <3>1. 1 + 1 = 2
      OBVIOUS
    <3> QED
      BY <1>0, <1>4, <2>1, <3>1 DEF Chained
  <2>3. /\ Now(t)' = "quiet" => Now(t) = "hold"
        /\ Now(t)' = "detach" => Now(t) = "quiet"
        /\ Now(t)' = "forget" => Now(t) = "detach"
        /\ Now(t)' = "unlist" => Now(t) \in {"detach", "unlist"}
    BY <1>0, <1>4, <2>1 DEF Rear
  <2>4. ASSUME t = "event"
        PROVE  /\ Now(t) = "unlist" => Now(t)' = "alloc" /\ Arg(t)'.bss = Arg(t).bss
               /\ Now(t) = "alloc" => Now(t)' = "register" /\ Arg(t)'.bss = Arg(t).bss
               /\ Now(t) \in {"register", "forget"} => Now(t)' = "none"
    <3>1. EventList(s)
      BY <2>4 DEF Lists
    <3>2. 1 + 1 = 2 /\ Len(s) # 1
      BY <1>3, <1>6
    <3>3. /\ s[1].op = "unlist" => s[2].op = "alloc"
          /\ s[1].op = "alloc" => s[2].op = "register"
          /\ s[1].op \notin {"register", "forget"}
          /\ s[2].bss = s[1].bss
      BY <1>4, <2>1, <3>1, <3>2 DEF EventList
    <3> QED
      BY <1>4, <2>1, <3>3
  <2>5. ASSUME t = "ctl"
        PROVE  /\ Now(t)' # "alloc" /\ (Now(t) = "up" => ~Has(todo'["ctl"], "up"))
               /\ Now(t) = "notifiers" => Now(t)' = "none"
    <3>1. CtlList(s)
      BY <2>5 DEF Lists
    <3>2. s[2].op # "alloc"
      BY <2>1, <3>1 DEF CtlList
    <3>3. s[1].op = "up" => \A j \in 1 + 1 .. Len(s) : s[j].op # "up"
      BY <1>4, <3>1 DEF CtlList
    <3>4. \A j \in 1 .. Len(s) - 1 : r[j] = s[j + 1] /\ j + 1 \in 1 + 1 .. Len(s)
      BY <1>0, <1>1, <1>3, Tails
    <3>5. s[1].op = "up" => ~Has(r, "up")
      BY <1>3, <3>3, <3>4 DEF Has
    <3>6. s[1].op # "notifiers"
      BY <1>3, <1>4, <1>6, <3>1 DEF CtlList
    <3> QED
      BY <1>4, <2>1, <2>5, <3>2, <3>5, <3>6
  <2> QED
    BY <1>1, <1>2, <1>3, <1>4, <2>2, <2>3, <2>4, <2>5
<1> QED
  BY <1>5, <1>6

\* What is still to come when one step is done.
LEMMA AdvancedRest ==
  ASSUME ThreadTypes, Lists, NEW t \in Threads, todo[t] # <<>>, Advance(t)
  PROVE  /\ \A op, b : Pending(op, b)' => Pending(op, b)
         /\ \A op, b : Pending(op, b) => Pending(op, b)' \/ (t = "ctl" /\ Now(t) = op /\ Arg(t).bss = b)
         /\ \A b, x : Adds(b, x)' => Adds(b, x)
         /\ Lists'
<1> DEFINE s == todo[t]
           r == todo'[t]
<1>0. s \in Seq(StepType) /\ s # <<>> /\ Chained(s) /\ Rear(s)
  BY DEF ThreadTypes, Lists
<1>1. r = Tail(s) /\ \A u \in Threads \ {t} : todo'[u] = todo[u]
  BY DEF Advance, ThreadTypes
<1>2. /\ Len(s) \in Nat \ {0} /\ Head(s) = s[1] /\ Len(r) = Len(s) - 1
      /\ \A i \in 1 .. Len(s) - 1 : r[i] = s[i + 1]
      /\ Chained(r) /\ Rear(r)
      /\ EventList(s) => EventList(r)
      /\ CtlList(s) => CtlList(r)
  BY <1>0, <1>1, Tails
<1>3. Now(t) = s[1].op /\ Arg(t) = s[1]
  BY <1>0, <1>2 DEF Now, Arg
<1>4. \A i \in 1 .. Len(r) : i + 1 \in 1 .. Len(s) /\ r[i] = s[i + 1]
  BY <1>2
<1>5. \A i \in 1 .. Len(s) : i = 1 \/ (i - 1 \in 1 .. Len(r) /\ r[i - 1] = s[i])
  BY <1>2
<1>6. Lists'
  BY <1>1, <1>2 DEF Lists, Threads
<1>7. CASE t = "ctl"
  <2>1. todo'["event"] = todo["event"]
    BY <1>1, <1>7 DEF Threads
  <2>2. \A b, x : Adds(b, x)' => Adds(b, x)
    BY <2>1 DEF Adds
  <2>3. \A op, b : Pending(op, b)' => Pending(op, b)
    BY <1>4, <1>7 DEF Pending
  <2>4. \A op, b : Pending(op, b) => Pending(op, b)' \/ (Now(t) = op /\ Arg(t).bss = b)
    BY <1>3, <1>5, <1>7 DEF Pending
  <2> QED
    BY <1>6, <1>7, <2>2, <2>3, <2>4
<1>8. CASE t = "event"
  <2>1. todo'["ctl"] = todo["ctl"]
    BY <1>1, <1>8 DEF Threads
  <2>2. \A b, x : Adds(b, x)' => Adds(b, x)
    BY <1>4, <1>8 DEF Adds
  <2>3. \A op, b : Pending(op, b)' <=> Pending(op, b)
    BY <2>1 DEF Pending
  <2> QED
    BY <1>6, <2>2, <2>3
<1> QED
  BY <1>7, <1>8 DEF Threads

\* A deletion left out because nothing is there.
LEMMA Skipped ==
  ASSUME ThreadTypes, Lists, NEW t \in Threads, todo[t] # <<>>, Now(t) = "hold",
         Divert(t, SubSeq(todo[t], Len(DelIf(0)) + 1, Len(todo[t])))
  PROVE  /\ \A u \in Threads \ {t} : todo'[u] = todo[u] /\ Now(u)' = Now(u) /\ Arg(u)' = Arg(u)
         /\ Now(t)' \notin {"quiet", "detach", "unlist", "forget", "alloc"}
         /\ t = "event" => Now(t)' = "none"
         /\ \A op : Has(todo'[t], op) => Has(todo[t], op)
         /\ \A op : Has(todo[t], op) /\ op \notin DeleteOps => Has(todo'[t], op)
         /\ \A op, b : Pending(op, b)' => Pending(op, b)
         /\ \A b : Pending("visit", b) => Pending("visit", b)'
         /\ \A b : Pending("hold", b) => Pending("hold", b)' \/ (t = "ctl" /\ Arg(t).bss = b)
         /\ \A b, x : Adds(b, x)' => Adds(b, x)
         /\ Lists'
<1> DEFINE s == todo[t]
           r == todo'[t]
<1>0. s \in Seq(StepType) /\ s # <<>> /\ Chained(s) /\ Rear(s)
  BY DEF ThreadTypes, Lists
<1>1. r = SubSeq(s, Len(DelIf(0)) + 1, Len(s)) /\ \A u \in Threads \ {t} : todo'[u] = todo[u]
  BY DEF Divert, ThreadTypes
<1>2. \A u \in Threads \ {t} : Now(u)' = Now(u) /\ Arg(u)' = Arg(u)
  BY <1>1 DEF Now, Arg
<1>3. Now(t) = s[1].op /\ Arg(t) = s[1] /\ s[1].op = "hold"
  BY <1>0, Tails DEF Now, Arg
<1>4. /\ Len(s) \in Nat /\ Len(s) >= 4
      /\ s[2].op = "quiet" /\ s[3].op = "detach" /\ s[4].op \in {"unlist", "forget"}
      /\ r \in Seq(StepType) /\ Len(r) = Len(s) - 4
      /\ \A i \in 1 .. Len(s) - 4 : r[i] = s[i + 4]
      /\ Chained(r) /\ Rear(r)
      /\ EventList(s) => EventList(r)
      /\ CtlList(s) => CtlList(r)
      /\ \A op : Has(r, op) => Has(s, op)
      /\ \A op : Has(s, op) /\ op \notin DeleteOps => Has(r, op)
  <2> DEFINE q == SubSeq(s, Len(DelIf(0)) + 1, Len(s))
  <2> HIDE DEF s
  <2>1. /\ Len(s) \in Nat /\ Len(s) >= 4
        /\ s[2].op = "quiet" /\ s[3].op = "detach" /\ s[4].op \in {"unlist", "forget"}
        /\ q \in Seq(StepType) /\ Len(q) = Len(s) - 4
        /\ \A i \in 1 .. Len(s) - 4 : q[i] = s[i + 4]
        /\ Chained(q) /\ (Rear(s) => Rear(q))
        /\ EventList(s) => EventList(q)
        /\ CtlList(s) => CtlList(q)
        /\ \A op : Has(q, op) => Has(s, op)
        /\ \A op : Has(s, op) /\ op \notin DeleteOps => Has(q, op)
    BY <1>0, <1>3, Skips
  <2>2. r = q
    BY <1>1
  <2> HIDE DEF q, r
  <2> QED
    BY <1>0, <2>1, <2>2
<1>5. Lists'
  BY <1>1, <1>4 DEF Lists, Threads
<1>6. \A i \in 1 .. Len(r) : i + 4 \in 1 .. Len(s) /\ r[i] = s[i + 4]
  BY <1>4
<1>7. \A i \in 1 .. Len(s) : i \in {1, 2, 3, 4} \/ (i - 4 \in 1 .. Len(r) /\ r[i - 4] = s[i])
  <2> HIDE DEF s, r
  <2> SUFFICES ASSUME NEW i \in 1 .. Len(s), i \notin {1, 2, 3, 4} PROVE i - 4 \in 1 .. Len(r) /\ r[i - 4] = s[i]
    OBVIOUS
  <2>1. i - 4 \in 1 .. Len(s) - 4 /\ (i - 4) + 4 = i
    BY <1>4
  <2> QED
    BY <1>4, <2>1
<1>8. s[4].op = "forget"
  <2>1. 4 \in 2 .. Len(s) /\ 1 \in 1 .. 4
    BY <1>4
  <2> QED
    BY <1>0, <1>3, <1>4, <2>1 DEF Rear
<1>9. t = "event" => r = <<>>
  <2> SUFFICES ASSUME t = "event" PROVE r = <<>>
    OBVIOUS
  <2>1. EventList(s) /\ 4 \in 1 .. Len(s)
    BY <1>4 DEF Lists
  <2>2. Len(s) = 4
    BY <1>8, <2>1 DEF EventList
  <2> QED
    BY <1>4, <2>2, EmptySeq
<1>10. Now(t)' \notin {"quiet", "detach", "unlist", "forget", "alloc"}
  <2>1. CASE r = <<>>
    BY <2>1 DEF Now
  <2>2. CASE r # <<>>
    <3>1. Now(t)' = r[1].op /\ Len(r) \in Nat \ {0}
      BY <1>4, <2>2, Tails DEF Now
    <3>2. r[1] = s[5] /\ 5 \in 2 .. Len(s) /\ 5 - 1 = 4 /\ 1 \in 1 .. 5 /\ 5 \in 1 .. Len(s)
      <4> HIDE DEF s, r
      <4>1. 1 \in 1 .. Len(s) - 4 /\ 1 + 4 = 5 /\ Len(s) >= 5
        BY <1>4, <3>1
      <4> QED
        BY <1>4, <4>1
    <3>3. s[5].op \notin {"quiet", "detach", "unlist", "forget"}
      BY <1>0, <1>3, <1>8, <3>2 DEF Rear
    <3>4. s[5].op # "alloc"
      <4>1. t = "ctl"
        BY <1>9, <2>2 DEF Threads
      <4>2. CtlList(s) /\ 5 \in 1 .. Len(s)
        BY <3>2, <4>1 DEF Lists
      <4> QED
        BY <4>2 DEF CtlList
    <3> QED
      BY <3>1, <3>2, <3>3, <3>4
  <2> QED
    BY <2>1, <2>2
<1>11. CASE t = "ctl"
  <2>1. todo'["event"] = todo["event"]
    BY <1>1, <1>11 DEF Threads
  <2>2. \A b, x : Adds(b, x)' => Adds(b, x)
    BY <2>1 DEF Adds
  <2>3. \A op, b : Pending(op, b)' => Pending(op, b)
    BY <1>6, <1>11 DEF Pending
  <2>4. \A b : Pending("visit", b) => Pending("visit", b)'
    BY <1>3, <1>4, <1>7, <1>11 DEF Pending
  <2>5. \A b : Pending("hold", b) => Pending("hold", b)' \/ Arg(t).bss = b
    BY <1>3, <1>4, <1>7, <1>11 DEF Pending
  <2> QED
    BY <1>1, <1>2, <1>4, <1>5, <1>10, <1>11, <2>2, <2>3, <2>4, <2>5
<1>12. CASE t = "event"
  <2>1. todo'["ctl"] = todo["ctl"] /\ r = <<>>
    BY <1>1, <1>9, <1>12 DEF Threads
  <2>2. \A b, x : Adds(b, x)' => Adds(b, x)
    BY <1>6, <1>12 DEF Adds
  <2>3. \A op, b : Pending(op, b)' <=> Pending(op, b)
    BY <2>1 DEF Pending
  <2>4. Now(t)' = "none"
    BY <2>1 DEF Now
  <2> QED
    BY <1>1, <1>2, <1>4, <1>5, <1>10, <2>2, <2>3, <2>4
<1> QED
  BY <1>11, <1>12 DEF Threads

\* A new list.
LEMMA Diverted ==
  ASSUME ThreadTypes, Lists, NEW t \in Threads, NEW s \in Seq(StepType), Divert(t, s)
  PROVE  /\ \A u \in Threads \ {t} : todo'[u] = todo[u] /\ Now(u)' = Now(u) /\ Arg(u)' = Arg(u)
         /\ todo'[t] = s
         /\ s = <<>> => Now(t)' = "none"
         /\ s # <<>> => Now(t)' = s[1].op /\ Arg(t)' = s[1]
         /\ t = "event" => \A op, b : Pending(op, b)' <=> Pending(op, b)
         /\ t = "ctl" => \A b, x : Adds(b, x)' <=> Adds(b, x)
         /\ Chained(s) /\ Rear(s) /\ (t = "ctl" => CtlList(s)) /\ (t = "event" => EventList(s)) => Lists'
<1>1. todo'[t] = s /\ \A u \in Threads \ {t} : todo'[u] = todo[u]
  BY DEF Divert, ThreadTypes
<1>2. \A u \in Threads \ {t} : Now(u)' = Now(u) /\ Arg(u)' = Arg(u)
  BY <1>1 DEF Now, Arg
<1>3. (s = <<>> => Now(t)' = "none") /\ (s # <<>> => Now(t)' = s[1].op /\ Arg(t)' = s[1])
  BY <1>1, Tails DEF Now, Arg
<1>4. t = "event" => todo'["ctl"] = todo["ctl"]
  BY <1>1 DEF Threads
<1>5. t = "ctl" => todo'["event"] = todo["event"]
  BY <1>1 DEF Threads
<1>6. t = "event" => \A op, b : Pending(op, b)' <=> Pending(op, b)
  BY <1>4 DEF Pending
<1>7. t = "ctl" => \A b, x : Adds(b, x)' <=> Adds(b, x)
  BY <1>5 DEF Adds
<1>8. Chained(s) /\ Rear(s) /\ (t = "ctl" => CtlList(s)) /\ (t = "event" => EventList(s)) => Lists'
  BY <1>1 DEF Lists, Threads
<1> QED
  BY <1>1, <1>2, <1>3, <1>6, <1>7, <1>8

\* A list that stands still.
LEMMA Unmoved ==
  ASSUME todo' = todo
  PROVE  /\ \A t : Now(t)' = Now(t) /\ Arg(t)' = Arg(t)
         /\ \A op, b : Pending(op, b)' <=> Pending(op, b)
         /\ \A b, x : Adds(b, x)' <=> Adds(b, x)
         /\ Lists => Lists'
<1>1. \A t : Now(t)' = Now(t) /\ Arg(t)' = Arg(t)
  BY DEF Now, Arg
<1>2. \A op, b : Pending(op, b)' <=> Pending(op, b)
  BY DEF Pending
<1>3. \A b, x : Adds(b, x)' <=> Adds(b, x)
  BY DEF Adds
<1>4. Lists => Lists'
  BY DEF Lists
<1> QED
  BY <1>1, <1>2, <1>3, <1>4

-----------------------------------------------------------------------------
(***************************************************************************)
(* Lists, hands and tables: the invariant.                                 *)
(***************************************************************************)
Struct == /\ Lists /\ Turns /\ InHand /\ Listing /\ Places /\ Indices
          /\ Kept /\ Mapped
\* The interfaces are who they were.
Kin == \A o \in Ifs : nif'[o].life = nif[o].life /\ nif'[o].bss = nif[o].bss /\ nif'[o].idx = nif[o].idx
Kind == \A o \in Ifs : (Alive(o)' <=> Alive(o)) /\ nif'[o].bss = nif[o].bss /\ nif'[o].idx = nif[o].idx
Frame == UNCHANGED <<todo, held, stage, up, tables>> /\ happened \subseteq happened'

\* None of this is about queues and counts.
LEMMA StillStep ==
  ASSUME TypeOK, Struct, Frame, Kin
  PROVE  Struct'
<1>0. /\ UNCHANGED <<todo, held, stage, up, iflist, if2bss>>
      /\ \A o \in Ifs : Alive(o)' <=> Alive(o)
      /\ (Smooth' => Smooth) /\ (Quarrel => Quarrel') /\ (happened' = {} => happened = {})
  BY DEF Frame, Kin, tables, Alive, Smooth, Quarrel
<1>1. /\ \A t : Now(t)' = Now(t) /\ Arg(t)' = Arg(t)
      /\ \A op, b : Pending(op, b)' <=> Pending(op, b)
      /\ \A b, x : Adds(b, x)' <=> Adds(b, x)
      /\ Lists'
  BY <1>0, Unmoved DEF Struct
<1>2. \A b \in Bss : iflist[b] # Null => iflist[b] \in Ifs
  BY DEF TypeOK, TableTypes
<1>3. Turns'
  BY <1>0, <1>1 DEF Struct, Turns
<1>4. InHand'
  BY <1>0, <1>1 DEF Struct, InHand, Kin
<1>5. Listing'
  BY <1>0, <1>1, <1>2 DEF Struct, Listing, Kin
<1>6. Places'
  BY <1>0, <1>1 DEF Struct, Places, InHand, Threads
<1>7. Indices'
  <2>1. \A o : (Listed(o)' <=> Listed(o)) /\ (Ending(o)' <=> Ending(o))
    BY <1>0, <1>1 DEF Listed, Ending
  <2> QED
    BY <1>0, <1>1, <1>2, <2>1 DEF Struct, Indices, Kin
<1>8. Kept'
  BY <1>0, <1>1 DEF Struct, Kept, Kin
<1>9. Mapped'
  <2>1. \A x \in Ifidx : if2bss[x] # Invalid => if2bss[x] \in Bss
    BY DEF TypeOK, TableTypes
  <2> QED
    BY <1>0, <1>1, <1>2, <2>1 DEF Struct, Mapped, Kin
<1> QED
  BY <1>1, <1>3, <1>4, <1>5, <1>6, <1>7, <1>8, <1>9 DEF Struct

Gives(t) == /\ Now(t)' \notin {"quiet", "detach", "unlist", "forget", "register"}
            /\ t = "ctl" => ~Has(todo'["ctl"], "notifiers")
\* A step of a thread that leaves the tables alone.
LEMMA PlainStep ==
  ASSUME TypeOK, Struct, Kind, UNCHANGED <<tables, happened>>, NEW t \in Threads, todo[t] # <<>>, Advance(t),
         \A o \in Ifs : nif'[o].life = nif[o].life \/ (Now(t) = "register" /\ o = held[t]),
         Now(t) \in {"quiet", "up", "down", "visit", "preinit", "register", "notifiers", "silence"},
         held' = held \/ (Gives(t) /\ held' = [held EXCEPT ![t] = Null]),
         stage' = stage \/ (t = "ctl" /\ stage' \in {"attached", "gone"}),
         stage' = "gone" => stage = "gone" \/ (t = "ctl" /\ Now(t) = "silence"),
         up' = up \/ (t = "ctl" /\ (up' => ~Has(todo'["ctl"], "up")))
  PROVE  Struct'
<1>0. /\ UNCHANGED <<iflist, if2bss, happened>>
      /\ \A o \in Ifs : Alive(o)' <=> Alive(o)
      /\ ThreadTypes /\ Lists
      /\ \A u : u \in Threads <=> u = "ctl" \/ u = "event"
      /\ "ctl" \in Threads /\ "event" \in Threads
  BY DEF Kind, tables, TypeOK, Struct, Threads
<1>h. \A u \in Threads \ {t} : held'[u] = held[u]
  BY DEF TypeOK, ThreadTypes
<1>g. held'[t] = held[t] \/ Gives(t)
  OBVIOUS
<1>1. /\ Now("event") \in DeleteOps \cup {"alloc", "register", "none"}
      /\ Now("ctl") = "alloc" => Has(todo["ctl"], "up") /\ Has(todo["ctl"], "notifiers")
      /\ Now(t) = Arg(t).op /\ Arg(t).bss \in Bss
  BY <1>0, Here
<1>2. /\ \A u \in Threads \ {t} : todo'[u] = todo[u] /\ Now(u)' = Now(u) /\ Arg(u)' = Arg(u)
      /\ Now(t) = "quiet" => Now(t)' = "detach" /\ Arg(t)'.bss = Arg(t).bss
      /\ Now(t)' # "quiet"
      /\ Now(t)' = "detach" => Now(t) = "quiet"
      /\ Now(t)' \notin {"forget", "unlist"}
      /\ t = "event" /\ Now(t) = "register" => Now(t)' = "none"
      /\ t = "ctl" => Now(t)' # "alloc"
      /\ \A op : Has(todo'[t], op) => Has(todo[t], op)
  BY <1>0, Advanced
<1>3. /\ \A op, b : Pending(op, b)' => Pending(op, b)
      /\ \A b : Pending("hold", b) => Pending("hold", b)'
      /\ \A b, x : Adds(b, x)' => Adds(b, x)
      /\ Lists'
  BY <1>0, AdvancedRest
<1>4. \A op : \A u \in Threads : Has(todo'[u], op) => Has(todo[u], op)
  BY <1>2
<1>5. Now("event")' \notin {"alloc", "register"} \/ t = "ctl"
  BY <1>0, <1>1, <1>2 DEF DeleteOps
<1>6. \A b \in Bss : iflist[b] # Null => iflist[b] \in Ifs
  BY DEF TypeOK, TableTypes
<1>7. Turns'
  <2>1. Has(todo'["ctl"], "silence") /\ Now("event")' # "none" => Quarrel'
    <3>1. Now("event")' # "none" => Now("event") # "none"
      BY <1>0, <1>2
    <3> QED
      BY <1>0, <1>4, <3>1 DEF Struct, Turns, Quarrel
  <2>2. stage' = "attaching" => Now("event")' = "none"
    BY <1>0, <1>2 DEF Struct, Turns
  <2>3. Now("ctl")' = "alloc" => FALSE
    BY <1>0, <1>2 DEF Struct, Turns
  <2>4. Has(todo'["ctl"], "up") => ~up'
    BY <1>0, <1>4 DEF Struct, Turns
  <2>5. Has(todo'["ctl"], "unlist") => ~Smooth'
    BY <1>0, <1>4 DEF Struct, Turns, Smooth
  <2> QED
    BY <2>1, <2>2, <2>3, <2>4, <2>5 DEF Turns
<1>8. InHand'
  <2>1. ASSUME NEW u \in Threads, Now(u)' \in {"quiet", "detach"}
        PROVE  held'[u] = held[u] /\ Now(u) \in {"quiet", "detach"} /\ Arg(u)'.bss = Arg(u).bss
    BY <1>2, <1>h, <1>g, <2>1 DEF Gives
  <2>2. ASSUME NEW u \in Threads, Now(u)' \in {"unlist", "forget"}
        PROVE  held'[u] = held[u] /\ Now(u) = Now(u)'
    BY <1>2, <1>h, <1>g, <2>2
  <2>3. Now("event")' = "register" => held'["event"] = held["event"] /\ Now("event") = "register" /\ Arg("event")' = Arg("event")
    BY <1>0, <1>2, <1>5, <1>h
  <2>4. Now("ctl")' # "alloc" /\ Has(todo'["ctl"], "notifiers") =>
          held'["ctl"] = held["ctl"] /\ Now("ctl") # "alloc" /\ Has(todo["ctl"], "notifiers")
    BY <1>0, <1>2, <1>4, <1>h, <1>g DEF Gives
  <2>5. Now("event")' = "register" => held["event"] # held["ctl"] \/ ~Alive(held["event"]) \/ Now(t) # "register"
    <3>1. Now("event")' = "register" => t = "ctl" /\ Arg("event").bss # 0
      BY <1>0, <1>5, <2>3, Here
    <3>2. Now("ctl") = "register" => Has(todo["ctl"], "notifiers")
      BY <1>0, Here
    <3> QED
      BY <2>3, <3>1, <3>2 DEF Struct, InHand
  <2> QED
    BY <1>0, <1>5, <2>1, <2>2, <2>3, <2>4, <2>5 DEF Struct, InHand, Kind, Quarrel
<1>9. Listing'
  <2>1. \A u \in Threads : Now(u) \in {"unlist", "forget"} =>
          held'[u] = held[u] /\ Now(u)' = Now(u) /\ Arg(u)' = Arg(u)
    BY <1>2, <1>h
  <2>2. Now("event")' = "alloc" => Now("event") = "alloc" /\ Arg("event")' = Arg("event")
    BY <1>0, <1>2, <1>5
  <2> QED
    BY <1>0, <1>6, <2>1, <2>2 DEF Struct, Listing, Kind
<1>10. Places'
  <2>1. Now("event")' \in {"register", "quiet", "detach", "unlist", "forget"} =>
          /\ Now("event") \in {"register", "quiet", "detach", "unlist", "forget"}
          /\ Arg("event")'.bss = Arg("event").bss /\ held'["event"] = held["event"]
    BY <1>0, <1>2, <1>5, <1>h, <1>g DEF Gives
  <2>2. Now("ctl")' \in {"quiet", "detach"} =>
          /\ Now("ctl") \in {"quiet", "detach"} /\ held["ctl"] \in Ifs
          /\ Arg("ctl")'.bss = Arg("ctl").bss /\ held'["ctl"] = held["ctl"]
    BY <1>0, <1>2, <1>h, <1>g DEF Gives, Struct, InHand
  <2> QED
    BY <1>0, <2>1, <2>2 DEF Struct, Places
<1>11. Indices'
  <2>1. \A o \in Ifs : (Listed(o)' <=> Listed(o)) /\ (Ending(o)' => Ending(o))
    <3>1. ASSUME NEW o \in Ifs, NEW u \in Threads, held'[u] = o,
                 Now(u)' \in {"quiet", "detach"} \/ (u = "event" /\ Now(u)' = "register")
          PROVE  held[u] = o /\ (Now(u) \in {"quiet", "detach"} \/ (u = "event" /\ Now(u) = "register"))
      <4>1. CASE u # t
        BY <1>2, <1>h, <3>1, <4>1
      <4>2. CASE u = t
        <5>1. held'[t] = held[t]
          BY <1>g, <3>1, <4>2 DEF Gives
        <5>2. Now(t)' = "detach" /\ Now(t) = "quiet"
          BY <1>2, <1>5, <3>1, <4>2
        <5> QED
          BY <3>1, <4>2, <5>1, <5>2
      <4> QED
        BY <4>1, <4>2
    <3> QED
      BY <1>0, <3>1 DEF Listed, Ending
  <2> QED
    BY <1>0, <1>3, <1>6, <2>1 DEF Struct, Indices, Kind
<1>12. Kept'
  <2> SUFFICES ASSUME Smooth' PROVE Kept'
    BY DEF Kept
  <2>0. Smooth
    BY <1>0 DEF Smooth
  <2>1. \A o \in Ifs : Alive(o)' => iflist'[nif'[o].bss] = o
    BY <1>0, <2>0 DEF Struct, Kept, Kind
  <2>2. ASSUME NEW u \in Threads, Now(u)' \in {"quiet", "detach", "unlist", "forget"}
        PROVE  iflist'[Arg(u)'.bss] = held'[u]
    <3>1. held'[u] = held[u] /\ Now(u) \in {"quiet", "detach", "unlist", "forget"} /\ Arg(u)'.bss = Arg(u).bss
      BY <1>2, <1>h, <1>g, <2>2 DEF Gives
    <3> QED
      BY <1>0, <2>0, <3>1 DEF Struct, Kept
  <2>3. ASSUME Has(todo'["ctl"], "silence"), NEW o \in Ifs, Alive(o)'
        PROVE  \/ held'["ctl"] = o /\ Now("ctl")' \in {"quiet", "detach"}
               \/ Pending("hold", nif[o].bss)'
    <3>1. \/ held["ctl"] = o /\ Now("ctl") \in {"quiet", "detach"}
          \/ Pending("hold", nif[o].bss)
      BY <1>0, <1>4, <2>0, <2>3 DEF Struct, Kept
    <3>2. CASE held["ctl"] = o /\ Now("ctl") \in {"quiet", "detach"}
      <4>1. Now("ctl")' \in {"quiet", "detach"}
        BY <1>0, <1>2, <3>2
      <4> QED
        BY <1>0, <1>h, <1>g, <3>2, <4>1 DEF Gives
    <3>3. CASE Pending("hold", nif[o].bss)
      <4>1. nif'[o].bss = nif[o].bss
        BY DEF Kind
      <4> QED
        BY <1>3, <3>3, <4>1, Zenon
    <3> QED
      BY <3>1, <3>2, <3>3, Zenon
  <2>4. ASSUME stage' = "gone", NEW o \in Ifs PROVE ~Alive(o)'
    <3>1. CASE stage = "gone"
      BY <1>0, <2>0, <3>1 DEF Struct, Kept
    <3>2. CASE t = "ctl" /\ Now(t) = "silence"
      <4>1. Has(todo["ctl"], "silence") /\ ~Pending("hold", nif[o].bss)
        BY <1>0, <3>2, Here
      <4> QED
        BY <1>0, <2>0, <3>2, <4>1 DEF Struct, Kept
    <3> QED
      BY <2>4, <3>1, <3>2
  <2> QED
    BY <2>1, <2>2, <2>3, <2>4, Zenon DEF Kept
<1>13. Mapped'
  <2>1. \A x \in Ifidx : if2bss[x] # Invalid => if2bss[x] \in Bss
    BY DEF TypeOK, TableTypes
  <2> QED
    BY <1>0, <1>4, <1>6, <2>1 DEF Struct, Mapped, Kind
<1> QED
  BY <1>3, <1>7, <1>8, <1>9, <1>10, <1>11, <1>12, <1>13 DEF Struct

\* At most one thread deletes, but for a quarrel.
LEMMA Alone ==
  ASSUME TypeOK, Struct
  PROVE  /\ Now("ctl") \in DeleteOps /\ Now("event") # "none" => Quarrel
         /\ Quarrel => ~Smooth
         /\ \A u : u \in Threads <=> u = "ctl" \/ u = "event"
         /\ "ctl" \in Threads /\ "event" \in Threads
         /\ \A b \in Bss : iflist[b] # Null => iflist[b] \in Ifs
         /\ \A t \in Threads : todo[t] # <<>> <=> Now(t) # "none"
<1>1. Now("ctl") \in DeleteOps => Has(todo["ctl"], "silence")
  BY Here DEF TypeOK, Struct
<1>2. \A t \in Threads : todo[t] # <<>> <=> Now(t) # "none"
  BY Here DEF TypeOK, Struct, Now
<1> QED
  BY <1>1, <1>2 DEF Struct, Turns, Quarrel, Smooth, Threads, TypeOK, TableTypes

\* A deletion that finds its interface, or finds none.
LEMMA HoldStep ==
  ASSUME TypeOK, Struct, NEW t \in Threads, Hold(t), fault' = NoFault
  PROVE  Struct'
<1> DEFINE b == Arg(t).bss
<1>0. /\ UNCHANGED <<iflist, if2bss, nif, happened, stage, up>>
      /\ \A o \in Ifs : Alive(o)' <=> Alive(o)
      /\ ThreadTypes /\ Lists
  BY DEF tables, history, Alive, TypeOK, Struct, Hold, Faulty
<1>a. /\ \A u : u \in Threads <=> u = "ctl" \/ u = "event"
      /\ "ctl" \in Threads /\ "event" \in Threads
      /\ \A c \in Bss : iflist[c] # Null => iflist[c] \in Ifs
  BY Alone
<1>1. /\ Now("event") \in DeleteOps \cup {"alloc", "register", "none"}
      /\ Now(t) = "hold" /\ b \in Bss /\ todo[t] # <<>>
      /\ t = "ctl" => ~Has(todo["ctl"], "notifiers")
  <2>1. todo[t] # <<>> /\ Now(t) = "hold"
    BY DEF Hold, Step, Now
  <2> QED
    BY <1>0, <1>a, <2>1, Here DEF DeleteOps
<1>2. /\ \A u \in Threads \ {t} : todo'[u] = todo[u] /\ Now(u)' = Now(u) /\ Arg(u)' = Arg(u)
                                 /\ held'[u] = held[u]
      /\ \A op : Has(todo'[t], op) => Has(todo[t], op)
      /\ \A c : Pending("hold", c) => Pending("hold", c)' \/ (t = "ctl" /\ b = c)
      /\ \A c, x : Adds(c, x)' => Adds(c, x)
      /\ Lists'
      /\ \/ /\ Now(t)' = "quiet" /\ Arg(t)'.bss = b
            /\ iflist[b] \in Ifs /\ Alive(iflist[b]) /\ held'[t] = iflist[b]
         \/ /\ Now(t)' \notin {"quiet", "detach", "unlist", "forget", "alloc"}
            /\ t = "event" => Now(t)' = "none"
            /\ iflist[b] = Null /\ held' = held
  <2>1. CASE iflist[b] = Null
    <3>1. Divert(t, SubSeq(todo[t], Len(DelIf(0)) + 1, Len(todo[t]))) /\ held' = held
      BY <2>1 DEF Hold
    <3> QED
      BY <1>0, <1>1, <2>1, <3>1, Skipped
  <2>2. CASE iflist[b] # Null
    <3>1. Alive(iflist[b]) /\ held' = [held EXCEPT ![t] = iflist[b]] /\ Advance(t)
      <4>1. CASE Alive(iflist[b])
        BY <2>2, <4>1 DEF Hold
      <4>2. CASE ~Alive(iflist[b])
        <5>1. fault' = [who |-> t, nif |-> iflist[b]]
          BY <2>2, <4>2 DEF Hold, Faulty
        <5>2. [who |-> t, nif |-> iflist[b]].who = [who |-> "", nif |-> Null].who
          BY <5>1 DEF NoFault
        <5>3. t # ""
          BY DEF Threads
        <5> QED
          BY <5>2, <5>3
      <4> QED
        BY <4>1, <4>2
    <3>2. held'[t] = iflist[b] /\ \A u \in Threads \ {t} : held'[u] = held[u]
      BY <1>0, <3>1 DEF ThreadTypes
    <3>3. Now(t)' = "quiet" /\ Arg(t)'.bss = b /\ \A u \in Threads \ {t} : todo'[u] = todo[u] /\ Now(u)' = Now(u) /\ Arg(u)' = Arg(u)
      BY <1>0, <1>1, <3>1, Advanced
    <3> QED
      BY <1>0, <1>a, <1>1, <2>2, <3>1, <3>2, <3>3, Advanced, AdvancedRest
  <2> QED
    BY <2>1, <2>2
<1>3. Turns'
  <2>1. /\ Has(todo'["ctl"], "silence") => Has(todo["ctl"], "silence")
        /\ Has(todo'["ctl"], "up") => Has(todo["ctl"], "up")
        /\ Has(todo'["ctl"], "unlist") => Has(todo["ctl"], "unlist")
        /\ Now("event")' # "none" => Now("event") # "none"
        /\ Now("ctl")' = "alloc" => Now("ctl") = "alloc"
    BY <1>a, <1>1, <1>2
  <2> QED
    BY <1>0, <2>1 DEF Struct, Turns, Quarrel, Smooth
<1>4. InHand'
  <2>1. \A u \in Threads \ {t} : /\ Now(u)' = Now(u) /\ Arg(u)' = Arg(u) /\ held'[u] = held[u]
                                 /\ Has(todo'[u], "notifiers") => Has(todo[u], "notifiers")
    BY <1>2
  <2>2. Now(t)' = "quiet" => nif[iflist[b]].bss = b
    BY <1>1, <1>2, Numbers DEF Struct, Listing
  <2>3. ASSUME NEW u \in Threads, Now(u)' \in {"quiet", "detach"}
        PROVE  /\ held'[u] \in Ifs
               /\ Alive(held[u])' => nif'[held'[u]].bss = Arg(u)'.bss
               /\ Alive(held[u])' \/ Quarrel'
    BY <1>0, <1>2, <2>1, <2>2, <2>3 DEF Struct, InHand, Quarrel
  <2>4. ASSUME NEW u \in Threads, Now(u)' \in {"unlist", "forget"}
        PROVE  held'[u] \in Ifs /\ ~Alive(held[u])'
    BY <1>0, <1>2, <2>1, <2>4 DEF Struct, InHand
  <2>5. Now("event")' = "register" => t = "ctl"
    BY <1>a, <1>2
  <2>6. Now("ctl")' # "alloc" /\ Has(todo'["ctl"], "notifiers") =>
          held'["ctl"] = held["ctl"] /\ Now("ctl") # "alloc" /\ Has(todo["ctl"], "notifiers")
    BY <1>a, <1>1, <1>2, <2>1
  <2> QED
    BY <1>0, <1>a, <2>1, <2>3, <2>4, <2>5, <2>6 DEF Struct, InHand, Quarrel
<1>5. Listing'
  <2>1. \A u \in Threads : Now(u) \in {"unlist", "forget"} =>
          held'[u] = held[u] /\ Now(u)' = Now(u) /\ Arg(u)' = Arg(u)
    BY <1>1, <1>2
  <2>2. Now("event")' = "alloc" => Now("event") = "alloc" /\ Arg("event")' = Arg("event")
    BY <1>a, <1>2
  <2> QED
    BY <1>0, <1>a, <2>1, <2>2 DEF Struct, Listing
<1>6. Places'
  <2>1. CASE t = "event"
    <3>1. Now("ctl")' = Now("ctl") /\ Arg("ctl")' = Arg("ctl") /\ held'["ctl"] = held["ctl"]
      BY <1>a, <1>2, <2>1
    <3>2. Now("event")' \in {"register", "quiet", "detach", "unlist", "forget"} =>
            iflist[Arg("event")'.bss] = held'["event"]
      BY <1>2, <2>1
    <3>3. Now("ctl") \in {"quiet", "detach"} => held["ctl"] \in Ifs
      BY <1>a DEF Struct, InHand
    <3> QED
      BY <1>0, <3>1, <3>2, <3>3 DEF Struct, Places
  <2>2. CASE t = "ctl"
    <3>1. Now("event")' = Now("event") /\ Arg("event")' = Arg("event") /\ held'["event"] = held["event"]
      BY <1>a, <1>2, <2>2
    <3>2. Now("ctl")' \in {"quiet", "detach"} => iflist[Arg("ctl")'.bss] = held'["ctl"]
      BY <1>2, <2>2
    <3> QED
      BY <1>0, <3>1, <3>2 DEF Struct, Places
  <2> QED
    BY <1>a, <2>1, <2>2
<1>7. Indices'
  <2>1. \A o \in Ifs : (Listed(o)' <=> Listed(o)) /\ (Ending(o)' => Ending(o) \/ Listed(o))
    <3>1. ASSUME NEW o \in Ifs, NEW u \in Threads, held'[u] = o,
                 Now(u)' \in {"quiet", "detach"} \/ (u = "event" /\ Now(u)' = "register")
          PROVE  Ending(o) \/ Listed(o)
      <4>1. CASE u # t
        BY <1>2, <3>1, <4>1 DEF Ending
      <4>2. CASE u = t
        <5>1. iflist[b] = o
          BY <1>2, <3>1, <4>2
        <5> QED
          BY <1>1, <5>1 DEF Listed
      <4> QED
        BY <4>1, <4>2
    <3> QED
      BY <1>0, <3>1 DEF Listed, Ending
  <2>2. \A o, p \in Ifs : Alive(o)' /\ Alive(p)' /\ o # p /\ nif'[o].idx = nif'[p].idx /\ Listed(o)' =>
          ~Listed(p)' /\ ~Ending(p)'
    BY <1>0, <2>1 DEF Struct, Indices
  <2> QED
    BY <1>0, <1>2, <2>2 DEF Struct, Indices
<1>8. Kept'
  <2> SUFFICES ASSUME Smooth' PROVE Kept'
    BY DEF Kept
  <2>0. Smooth
    BY <1>0 DEF Smooth
  <2>1. \A o \in Ifs : Alive(o)' => iflist'[nif'[o].bss] = o
    BY <1>0, <2>0 DEF Struct, Kept
  <2>2. ASSUME NEW u \in Threads, Now(u)' \in {"quiet", "detach", "unlist", "forget"}
        PROVE  iflist'[Arg(u)'.bss] = held'[u]
    BY <1>0, <1>2, <2>0, <2>2 DEF Struct, Kept
  <2>3. ASSUME Has(todo'["ctl"], "silence"), NEW o \in Ifs, Alive(o)'
        PROVE  \/ held'["ctl"] = o /\ Now("ctl")' \in {"quiet", "detach"}
               \/ Pending("hold", nif[o].bss)'
    <3>0. nif'[o].bss = nif[o].bss
      BY <1>0
    <3>1. \/ held["ctl"] = o /\ Now("ctl") \in {"quiet", "detach"}
          \/ Pending("hold", nif[o].bss)
      BY <1>0, <1>a, <1>2, <2>0, <2>3 DEF Struct, Kept
    <3>2. CASE held["ctl"] = o /\ Now("ctl") \in {"quiet", "detach"}
      BY <1>a, <1>1, <1>2, <3>2
    <3>3. CASE Pending("hold", nif[o].bss) /\ ~(t = "ctl" /\ b = nif[o].bss)
      <4>1. \E c : c = nif[o].bss /\ Pending("hold", c)'
        BY <1>2, <3>3
      <4> QED
        BY <3>0, <4>1, Zenon
    <3>4. CASE t = "ctl" /\ b = nif[o].bss
      <4>1. iflist[b] = o
        BY <1>0, <2>0, <2>3, <3>4 DEF Struct, Kept
      <4> QED
        BY <1>1, <1>2, <3>4, <4>1, Numbers
    <3> QED
      BY <3>1, <3>2, <3>3, <3>4, Zenon
  <2>4. stage' = "gone" => \A o \in Ifs : ~Alive(o)'
    BY <1>0, <2>0 DEF Struct, Kept
  <2> QED
    BY <2>1, <2>2, <2>3, <2>4, Zenon DEF Kept
<1>9. Mapped'
  <2>1. \A x \in Ifidx : if2bss[x] # Invalid => if2bss[x] \in Bss
    BY DEF TypeOK, TableTypes
  <2>2. Has(todo'["event"], "unlist") => Has(todo["event"], "unlist")
    BY <1>a, <1>2
  <2> QED
    BY <1>0, <1>a, <2>1, <2>2 DEF Struct, Mapped
<1> QED
  BY <1>2, <1>3, <1>4, <1>5, <1>6, <1>7, <1>8, <1>9 DEF Struct

\* An interface is detached and freed; it stays in the list for one more step.
LEMMA DetachStep ==
  ASSUME TypeOK, Struct, NEW t \in Threads, NetDetach(t), fault' = NoFault
  PROVE  Struct'
<1> DEFINE b == Arg(t).bss
           d == held[t]
<1>a. /\ \A u : u \in Threads <=> u = "ctl" \/ u = "event"
      /\ "ctl" \in Threads /\ "event" \in Threads
      /\ \A c \in Bss : iflist[c] # Null => iflist[c] \in Ifs
      /\ Now("ctl") \in DeleteOps /\ Now("event") # "none" => Quarrel
      /\ Quarrel => ~Smooth
  BY Alone
<1>b. todo[t] # <<>> /\ Now(t) = "detach" /\ ThreadTypes /\ Lists
  BY DEF NetDetach, Step, Now, TypeOK, Struct
<1>c. Alive(d)
  <2>1. CASE ~Alive(d)
    <3>1. fault' = [who |-> t, nif |-> d]
      BY <2>1 DEF NetDetach, Faulty
    <3>2. [who |-> t, nif |-> d].who = [who |-> "", nif |-> Null].who
      BY <3>1 DEF NoFault
    <3>3. t # ""
      BY <1>a
    <3> QED
      BY <3>2, <3>3
  <2> QED
    BY <2>1
<1>d. d \in Ifs /\ nif[d].bss = b
  BY <1>b, <1>c DEF Struct, InHand
<1>0. /\ UNCHANGED <<iflist, if2bss, held, happened, stage, up>> /\ Advance(t)
      /\ nif' = [nif EXCEPT ![d] = Blank("freed", 0, nif[d].idx)]
  BY <1>c DEF NetDetach, tables
<1>e. /\ \A o \in Ifs : (Alive(o)' <=> Alive(o) /\ o # d) /\ nif'[o].idx = nif[o].idx
                        /\ (o # d => nif'[o] = nif[o])
  <2>1. nif'[d].life = "freed" /\ nif'[d].idx = nif[d].idx
    BY <1>0, <1>d DEF TypeOK, Blank
  <2>2. \A o \in Ifs : o # d => nif'[o] = nif[o]
    BY <1>0, <1>d DEF TypeOK
  <2> QED
    BY <2>1, <2>2 DEF Alive
<1>1. /\ Now("event") \in DeleteOps \cup {"alloc", "register", "none"}
      /\ b \in Bss
      /\ Now("event") # "none" => Arg("event").bss # 0
      /\ t = "ctl" => ~Has(todo["ctl"], "notifiers")
      /\ Now("ctl") # "none" => Arg("ctl").bss \in Bss
      /\ Now("ctl") = "none" => ~Has(todo["ctl"], "notifiers")
  <2>1. \A u \in Threads : Now(u) # "none" => todo[u] # <<>>
    BY DEF Now
  <2> QED
    BY <1>a, <1>b, <2>1, Here DEF DeleteOps
<1>2. /\ \A u \in Threads \ {t} : todo'[u] = todo[u] /\ Now(u)' = Now(u) /\ Arg(u)' = Arg(u)
      /\ \A op : Has(todo'[t], op) => Has(todo[t], op)
      /\ \A c : Pending("hold", c) => Pending("hold", c)'
      /\ \A c, x : Adds(c, x)' => Adds(c, x)
      /\ Lists'
      /\ Now(t)' \in {"unlist", "forget"} /\ Arg(t)'.bss = b
  BY <1>0, <1>b, Advanced, AdvancedRest
<1>3. Turns'
  <2>1. /\ Has(todo'["ctl"], "silence") => Has(todo["ctl"], "silence")
        /\ Has(todo'["ctl"], "up") => Has(todo["ctl"], "up")
        /\ Has(todo'["ctl"], "unlist") => Has(todo["ctl"], "unlist")
        /\ Now("event")' # "none" => Now("event") # "none"
        /\ Now("ctl")' = "alloc" => Now("ctl") = "alloc"
    BY <1>a, <1>b, <1>2
  <2> QED
    BY <1>0, <1>e, <2>1 DEF Struct, Turns, Quarrel, Smooth
<1>4. InHand'
  <2>1. \A u \in Threads \ {t} : /\ Now(u)' = Now(u) /\ Arg(u)' = Arg(u) /\ held'[u] = held[u]
                                 /\ Has(todo'[u], "notifiers") => Has(todo[u], "notifiers")
    BY <1>0, <1>2
  <2>3. ASSUME NEW u \in Threads, Now(u)' \in {"quiet", "detach"}
        PROVE  /\ held'[u] \in Ifs
               /\ Alive(held[u])' => nif'[held'[u]].bss = Arg(u)'.bss
               /\ Alive(held[u])' \/ Quarrel'
    <3>1. u # t /\ Now(u) \in {"quiet", "detach"}
      BY <1>2, <2>1, <2>3
    <3>2. Quarrel
      BY <1>a, <1>b, <3>1 DEF DeleteOps
    <3> QED
      BY <1>0, <1>e, <2>1, <3>1, <3>2 DEF Struct, InHand, Quarrel
  <2>4. ASSUME NEW u \in Threads, Now(u)' \in {"unlist", "forget"}
        PROVE  held'[u] \in Ifs /\ ~Alive(held[u])'
    BY <1>0, <1>d, <1>e, <2>1, <2>4 DEF Struct, InHand
  <2>5. Now("event")' = "register" =>
          /\ held'["event"] \in Ifs
          /\ Alive(held["event"])' => /\ nif'[held'["event"]].life = "made"
                                      /\ nif'[held'["event"]].bss = Arg("event")'.bss
          /\ Alive(held["event"])' \/ Quarrel'
    <3> SUFFICES ASSUME Now("event")' = "register" PROVE
          /\ held'["event"] \in Ifs
          /\ Alive(held["event"])' => /\ nif'[held'["event"]].life = "made"
                                      /\ nif'[held'["event"]].bss = Arg("event")'.bss
          /\ Alive(held["event"])' \/ Quarrel'
      OBVIOUS
    <3>1. t = "ctl" /\ Now("event") = "register"
      BY <1>a, <1>2
    <3>2. Quarrel
      BY <1>a, <1>b, <3>1 DEF DeleteOps
    <3> QED
      BY <1>0, <1>a, <1>e, <2>1, <3>1, <3>2 DEF Struct, InHand, Quarrel
  <2>6. ASSUME Now("ctl")' # "alloc" /\ Has(todo'["ctl"], "notifiers")
        PROVE  held'["ctl"] \in Ifs /\ Alive(held["ctl"])' /\ nif'[held'["ctl"]].bss = 0
    <3>1. t = "event" /\ Now("ctl") # "alloc" /\ Has(todo["ctl"], "notifiers")
      BY <1>a, <1>1, <1>2, <2>1, <2>6
    <3>2. held["ctl"] \in Ifs /\ Alive(held["ctl"]) /\ nif[held["ctl"]].bss = 0
      BY <3>1 DEF Struct, InHand
    <3>3. held["ctl"] # d
      BY <1>1, <1>b, <1>d, <3>1, <3>2
    <3> QED
      BY <1>0, <1>e, <3>2, <3>3
  <2> QED
    BY <2>3, <2>4, <2>5, <2>6, Zenon DEF InHand
<1>5. Listing'
  <2>1. \A u \in Threads : Now(u) \in {"unlist", "forget"} =>
          held'[u] = held[u] /\ Now(u)' = Now(u) /\ Arg(u)' = Arg(u)
    BY <1>0, <1>b, <1>2
  <2>2. Now("event")' = "alloc" => Now("event") = "alloc" /\ Arg("event")' = Arg("event")
    BY <1>a, <1>2
  <2>3. \A c \in Bss : iflist[c] = d => c = b
    BY <1>c, <1>d, Numbers DEF Struct, Listing
  <2>4. ASSUME NEW c \in Bss, iflist'[c] # Null, ~Alive(iflist[c])'
        PROVE  \E u \in Threads : held'[u] = iflist'[c] /\ Now(u)' \in {"unlist", "forget"} /\ Arg(u)'.bss = c
    <3>1. CASE iflist[c] = d
      BY <1>0, <1>2, <2>3, <3>1
    <3>2. CASE iflist[c] # d
      <4>1. iflist[c] # Null /\ ~Alive(iflist[c])
        BY <1>0, <1>a, <1>e, <2>4, <3>2
      <4>2. \E u \in Threads : held[u] = iflist[c] /\ Now(u) \in {"unlist", "forget"} /\ Arg(u).bss = c
        BY <4>1 DEF Struct, Listing
      <4> QED
        BY <1>0, <2>1, <4>2
    <3> QED
      BY <3>1, <3>2
  <2>5. \A c \in Bss : iflist'[c] # Null /\ Alive(iflist[c])' => nif'[iflist'[c]].bss = c
    BY <1>0, <1>a, <1>e DEF Struct, Listing
  <2>6. \A c, f \in Bss : iflist'[c] # Null /\ iflist'[c] = iflist'[f] => c = f
    BY <1>0 DEF Struct, Listing
  <2>7. Now("event")' = "alloc" => iflist'[Arg("event")'.bss] = Null
    BY <1>0, <2>2 DEF Struct, Listing
  <2> QED
    BY <2>4, <2>5, <2>6, <2>7, Zenon DEF Listing
<1>6. Places'
  <2>1. Now("event")' \in {"register", "quiet", "detach", "unlist", "forget"} =>
          /\ Now("event") \in {"register", "quiet", "detach", "unlist", "forget"}
          /\ Arg("event")'.bss = Arg("event").bss
    BY <1>a, <1>b, <1>2
  <2>2. Now("ctl")' \in {"quiet", "detach"} =>
          Now("ctl") \in {"quiet", "detach"} /\ Arg("ctl")' = Arg("ctl") /\ held["ctl"] \in Ifs
    <3>1. Now("ctl")' \in {"quiet", "detach"} => t # "ctl"
      BY <1>2
    <3> QED
      BY <1>a, <1>2, <3>1 DEF Struct, InHand
  <2> QED
    BY <1>0, <1>e, <2>1, <2>2 DEF Struct, Places
<1>7. Indices'
  <2>1. \A o \in Ifs : (Listed(o)' <=> Listed(o)) /\ (Ending(o)' => Ending(o))
    <3>1. ASSUME NEW o \in Ifs, NEW u \in Threads, held'[u] = o,
                 Now(u)' \in {"quiet", "detach"} \/ (u = "event" /\ Now(u)' = "register")
          PROVE  Ending(o)
      <4>1. u # t
        BY <1>2, <3>1
      <4> QED
        BY <1>0, <1>2, <3>1, <4>1 DEF Ending
    <3> QED
      BY <1>0, <3>1 DEF Listed, Ending
  <2>2. \A o, p \in Ifs : Alive(o)' /\ Alive(p)' /\ o # p /\ nif'[o].idx = nif'[p].idx /\ Listed(o)' =>
          ~Listed(p)' /\ ~Ending(p)'
    BY <1>0, <1>e, <2>1 DEF Struct, Indices
  <2>3. \A o \in Ifs : Alive(o)' => (nif'[o].bss = 0 <=> nif'[o].idx = 0)
    BY <1>e DEF Struct, Indices
  <2>4. \A o, p \in Ifs : Alive(o)' /\ Alive(p)' /\ nif'[o].bss = 0 /\ nif'[p].bss = 0 => o = p
    BY <1>e DEF Struct, Indices
  <2>5. \A c, f \in Bss, x \in Ifidx : Adds(c, x)' /\ iflist'[f] # Null /\ f # c => nif'[iflist'[f]].idx # x
    BY <1>0, <1>a, <1>e, <1>2 DEF Struct, Indices
  <2> QED
    BY <2>2, <2>3, <2>4, <2>5, Zenon DEF Indices
<1>8. Kept'
  <2> SUFFICES ASSUME Smooth' PROVE Kept'
    BY DEF Kept
  <2>0. Smooth
    BY <1>0 DEF Smooth
  <2>1. \A o \in Ifs : Alive(o)' => iflist'[nif'[o].bss] = o
    BY <1>0, <1>e, <2>0 DEF Struct, Kept
  <2>2. ASSUME NEW u \in Threads, Now(u)' \in {"quiet", "detach", "unlist", "forget"}
        PROVE  iflist'[Arg(u)'.bss] = held'[u]
    <3>1. Now(u) \in {"quiet", "detach", "unlist", "forget"} /\ Arg(u)'.bss = Arg(u).bss
      BY <1>b, <1>2, <2>2
    <3> QED
      BY <1>0, <2>0, <3>1 DEF Struct, Kept
  <2>3. ASSUME Has(todo'["ctl"], "silence"), NEW o \in Ifs, Alive(o)'
        PROVE  \/ held'["ctl"] = o /\ Now("ctl")' \in {"quiet", "detach"}
               \/ Pending("hold", nif[o].bss)'
    <3>0. nif'[o].bss = nif[o].bss /\ o # d /\ Alive(o)
      BY <1>e, <2>3
    <3>1. \/ held["ctl"] = o /\ Now("ctl") \in {"quiet", "detach"}
          \/ Pending("hold", nif[o].bss)
      BY <1>0, <1>a, <1>2, <2>0, <2>3, <3>0 DEF Struct, Kept
    <3>2. CASE held["ctl"] = o /\ Now("ctl") \in {"quiet", "detach"}
      <4>1. t = "event"
        BY <1>a, <3>0, <3>2
      <4> QED
        BY <1>0, <1>a, <1>2, <3>2, <4>1
    <3>3. CASE Pending("hold", nif[o].bss)
      <4>1. \E c : c = nif[o].bss /\ Pending("hold", c)'
        BY <1>2, <3>3
      <4> QED
        BY <3>0, <4>1, Zenon
    <3> QED
      BY <3>1, <3>2, <3>3, Zenon
  <2>4. stage' = "gone" => \A o \in Ifs : ~Alive(o)'
    BY <1>0, <1>e, <2>0 DEF Struct, Kept
  <2> QED
    BY <2>1, <2>2, <2>3, <2>4, Zenon DEF Kept
<1>9. Mapped'
  <2>1. \A x \in Ifidx : if2bss[x] # Invalid => if2bss[x] \in Bss
    BY DEF TypeOK, TableTypes
  <2>2. Has(todo'["event"], "unlist") => Has(todo["event"], "unlist")
    BY <1>a, <1>2
  <2> QED
    BY <1>0, <1>a, <1>e, <2>1, <2>2 DEF Struct, Mapped
<1> QED
  BY <1>2, <1>3, <1>4, <1>5, <1>6, <1>7, <1>8, <1>9 DEF Struct

\* What is freed leaves the list, and with brcmf_del_if the map.
LEMMA LeaveStep ==
  ASSUME TypeOK, Struct, NEW t \in Threads, Unlist(t) \/ Forget(t)
  PROVE  Struct'
<1> DEFINE b == Arg(t).bss
           d == held[t]
<1>a. /\ \A u : u \in Threads <=> u = "ctl" \/ u = "event"
      /\ "ctl" \in Threads /\ "event" \in Threads
      /\ \A c \in Bss : iflist[c] # Null => iflist[c] \in Ifs
      /\ Now("ctl") \in DeleteOps /\ Now("event") # "none" => Quarrel
      /\ Quarrel => ~Smooth
  BY Alone
<1>b. /\ todo[t] # <<>> /\ Now(t) \in {"unlist", "forget"} /\ ThreadTypes /\ Lists
      /\ Unlist(t) => Now(t) = "unlist"
      /\ Forget(t) => Now(t) = "forget"
  BY DEF Unlist, Forget, Step, Now, TypeOK, Struct
<1>c. d \in Ifs /\ ~Alive(d)
  BY <1>b DEF Struct, InHand
<1>1. /\ Now("event") \in DeleteOps \cup {"alloc", "register", "none"}
      /\ b \in Bss /\ Now(t) \in DeleteOps
      /\ Now("event") # "none" => Arg("event").bss # 0
      /\ t = "ctl" => ~Has(todo["ctl"], "notifiers")
      /\ Has(todo[t], Now(t))
      /\ \A c, x : Adds(c, x) => x # 0
  <2>1. \A u \in Threads : Now(u) # "none" => todo[u] # <<>>
    BY DEF Now
  <2> QED
    BY <1>a, <1>b, <2>1, Here DEF DeleteOps
<1>0. /\ UNCHANGED <<happened, stage, up>> /\ Advance(t)
      /\ nif' = [nif EXCEPT ![d] = Freed]
      /\ iflist' = [iflist EXCEPT ![b] = Null]
      /\ Unlist(t) => held' = held /\ if2bss' = if2bss
      /\ Forget(t) => /\ held' = [held EXCEPT ![t] = Null]
                      /\ if2bss' = [if2bss EXCEPT ![nif[d].idx] = IF if2bss[nif[d].idx] = b THEN Invalid ELSE if2bss[nif[d].idx]]
  BY <1>c DEF Unlist, Forget, history
<1>e. /\ \A o \in Ifs : (Alive(o)' <=> Alive(o)) /\ (o # d => nif'[o] = nif[o])
      /\ nif'[d].idx = 0
      /\ iflist'[b] = Null /\ \A c \in Bss : c # b => iflist'[c] = iflist[c]
      /\ \A u \in Threads \ {t} : held'[u] = held[u]
  <2>1. nif'[d].life = "freed" /\ nif'[d].idx = 0
    BY <1>0, <1>c DEF TypeOK, Blank, Freed
  <2>2. \A o \in Ifs : o # d => nif'[o] = nif[o]
    BY <1>0, <1>c DEF TypeOK
  <2>3. iflist'[b] = Null /\ \A c \in Bss : c # b => iflist'[c] = iflist[c]
    BY <1>0, <1>1 DEF TypeOK, TableTypes
  <2>4. \A u \in Threads \ {t} : held'[u] = held[u]
    BY <1>0 DEF TypeOK, ThreadTypes
  <2>5. \A o \in Ifs : (Alive(o)' <=> Alive(o))
    BY <1>c, <2>1, <2>2 DEF Alive
  <2> QED
    BY <2>1, <2>2, <2>3, <2>4, <2>5
<1>2. /\ \A u \in Threads \ {t} : todo'[u] = todo[u] /\ Now(u)' = Now(u) /\ Arg(u)' = Arg(u)
      /\ \A op : Has(todo'[t], op) => Has(todo[t], op)
      /\ \A c : Pending("hold", c) => Pending("hold", c)'
      /\ \A c, x : Adds(c, x)' => Adds(c, x)
      /\ Lists'
      /\ Now(t)' \notin {"quiet", "detach", "forget"}
      /\ Now(t)' = "unlist" => Now(t) = "unlist"
      /\ t = "event" => /\ Now(t) = "unlist" => Now(t)' = "alloc" /\ Arg(t)'.bss = b
                        /\ Now(t) = "forget" => Now(t)' = "none"
      /\ t = "ctl" => Now(t)' # "alloc"
  BY <1>0, <1>b, Advanced, AdvancedRest
<1>f. Unlist(t) => held'[t] = d
  BY <1>0
<1>3. Turns'
  <2>1. /\ Has(todo'["ctl"], "silence") => Has(todo["ctl"], "silence")
        /\ Has(todo'["ctl"], "up") => Has(todo["ctl"], "up")
        /\ Has(todo'["ctl"], "unlist") => Has(todo["ctl"], "unlist")
        /\ Now("event")' # "none" => Now("event") # "none"
    BY <1>a, <1>b, <1>2
  <2>2. Now("ctl")' = "alloc" => FALSE
    <3>1. Now("ctl")' = "alloc" => t = "event" /\ Now("ctl") = "alloc" /\ Now("event") # "none"
      BY <1>a, <1>b, <1>2
    <3> QED
      BY <3>1 DEF Struct, Turns
  <2> QED
    BY <1>0, <2>1, <2>2 DEF Struct, Turns, Quarrel, Smooth
<1>4. InHand'
  <2>1. \A u \in Threads \ {t} : /\ Now(u)' = Now(u) /\ Arg(u)' = Arg(u) /\ held'[u] = held[u]
                                 /\ Has(todo'[u], "notifiers") => Has(todo[u], "notifiers")
    BY <1>e, <1>2
  <2>2. \A u \in Threads : held[u] \in Ifs /\ Alive(held[u]) => held[u] # d
    BY <1>c
  <2>3. ASSUME NEW u \in Threads, Now(u)' \in {"quiet", "detach"}
        PROVE  /\ held'[u] \in Ifs
               /\ Alive(held[u])' => nif'[held'[u]].bss = Arg(u)'.bss
               /\ Alive(held[u])' \/ Quarrel'
    <3>1. u # t /\ Now(u) \in {"quiet", "detach"}
      BY <1>2, <2>1, <2>3
    <3> QED
      BY <1>0, <1>e, <2>1, <2>2, <3>1 DEF Struct, InHand, Quarrel
  <2>4. ASSUME NEW u \in Threads, Now(u)' \in {"unlist", "forget"}
        PROVE  held'[u] \in Ifs /\ ~Alive(held[u])'
    <3>1. CASE u # t
      BY <1>0, <1>e, <2>1, <2>4, <3>1 DEF Struct, InHand
    <3>2. CASE u = t
      <4>1. Unlist(t)
        BY <1>b, <1>2, <2>4, <3>2
      <4> QED
        BY <1>c, <1>e, <1>f, <3>2, <4>1
    <3> QED
      BY <3>1, <3>2
  <2>5. ASSUME Now("event")' = "register"
        PROVE  /\ held'["event"] \in Ifs
               /\ Alive(held["event"])' => /\ nif'[held'["event"]].life = "made"
                                           /\ nif'[held'["event"]].bss = Arg("event")'.bss
               /\ Alive(held["event"])' \/ Quarrel'
    <3>1. t = "ctl" /\ Now("event") = "register"
      BY <1>a, <1>b, <1>2, <2>5
    <3> QED
      BY <1>0, <1>a, <1>e, <2>1, <2>2, <3>1 DEF Struct, InHand, Quarrel
  <2>6. ASSUME Now("ctl")' # "alloc" /\ Has(todo'["ctl"], "notifiers")
        PROVE  held'["ctl"] \in Ifs /\ Alive(held["ctl"])' /\ nif'[held'["ctl"]].bss = 0
    <3>1. t = "event" /\ Now("ctl") # "alloc" /\ Has(todo["ctl"], "notifiers")
      BY <1>a, <1>1, <1>2, <2>1, <2>6
    <3>2. held["ctl"] \in Ifs /\ Alive(held["ctl"]) /\ nif[held["ctl"]].bss = 0
      BY <3>1 DEF Struct, InHand
    <3> QED
      BY <1>a, <1>e, <2>2, <3>1, <3>2
  <2> QED
    BY <2>3, <2>4, <2>5, <2>6, Zenon DEF InHand
<1>5. Listing'
  <2>1. ASSUME NEW c \in Bss, iflist'[c] # Null
        PROVE  c # b /\ iflist'[c] = iflist[c] /\ iflist[c] \in Ifs
    BY <1>a, <1>e, <2>1
  <2>4. ASSUME NEW c \in Bss, iflist'[c] # Null, ~Alive(iflist[c])'
        PROVE  \E u \in Threads : held'[u] = iflist'[c] /\ Now(u)' \in {"unlist", "forget"} /\ Arg(u)'.bss = c
    <3>1. c # b /\ iflist'[c] = iflist[c] /\ iflist[c] \in Ifs
      BY <2>1, <2>4
    <3>2. iflist[c] # Null /\ ~Alive(iflist[c])
      BY <1>e, <2>4, <3>1
    <3>3. PICK u \in Threads : held[u] = iflist[c] /\ Now(u) \in {"unlist", "forget"} /\ Arg(u).bss = c
      BY <3>2 DEF Struct, Listing
    <3>4. u # t
      BY <3>1, <3>3
    <3> QED
      BY <1>e, <1>2, <3>1, <3>3, <3>4
  <2>5. \A c \in Bss : iflist'[c] # Null /\ Alive(iflist[c])' => nif'[iflist'[c]].bss = c
    <3> SUFFICES ASSUME NEW c \in Bss, iflist'[c] # Null, Alive(iflist[c])' PROVE nif'[iflist'[c]].bss = c
      OBVIOUS
    <3>1. iflist'[c] = iflist[c] /\ iflist[c] \in Ifs /\ iflist[c] # Null
      BY <2>1
    <3>2. Alive(iflist[c]) /\ iflist[c] # d
      BY <1>c, <1>e, <3>1
    <3> QED
      BY <1>e, <3>1, <3>2 DEF Struct, Listing
  <2>6. \A c, f \in Bss : iflist'[c] # Null /\ iflist'[c] = iflist'[f] => c = f
    BY <2>1 DEF Struct, Listing
  <2>7. Now("event")' = "alloc" => iflist'[Arg("event")'.bss] = Null
    <3>1. CASE t = "event"
      BY <1>b, <1>e, <1>2, <3>1
    <3>2. CASE t = "ctl"
      <4>1. Now("event")' = "alloc" => Now("event") = "alloc" /\ Arg("event")' = Arg("event")
        BY <1>a, <1>2, <3>2
      <4>2. Now("event") = "alloc" => Arg("event").bss \in Bss
        BY <1>a, <1>b, Here DEF Now
      <4> QED
        BY <1>e, <4>1, <4>2 DEF Struct, Listing
    <3> QED
      BY <1>a, <3>1, <3>2
  <2> QED
    BY <2>4, <2>5, <2>6, <2>7, Zenon DEF Listing
<1>6. Places'
  <2>1. Now("event")' \in {"register", "quiet", "detach", "unlist", "forget"} =>
          /\ Now("event") \in {"register", "quiet", "detach", "unlist", "forget"}
          /\ Arg("event")' = Arg("event") /\ held'["event"] = held["event"] /\ Arg("event").bss \in Bss
    <3>1. Now("event")' \in {"register", "quiet", "detach", "unlist", "forget"} => t # "event"
      BY <1>b, <1>2
    <3>2. Now("event") \in {"register", "quiet", "detach", "unlist", "forget"} => Arg("event").bss \in Bss
      BY <1>a, <1>b, Here DEF Now
    <3> QED
      BY <1>a, <1>e, <1>2, <3>1, <3>2
  <2>2. ASSUME Now("ctl")' \in {"quiet", "detach"}, Alive(held["ctl"])'
        PROVE  Arg("ctl")'.bss = 0 \/ iflist'[Arg("ctl")'.bss] = held'["ctl"]
    <3>1. t = "event"
      BY <1>a, <1>2, <2>2
    <3>2. /\ Now("ctl") \in {"quiet", "detach"} /\ Arg("ctl")' = Arg("ctl") /\ held'["ctl"] = held["ctl"]
          /\ held["ctl"] \in Ifs /\ Arg("ctl").bss \in Bss
      <4>1. Now("ctl") \in {"quiet", "detach"}
        BY <1>a, <1>2, <2>2, <3>1
      <4> QED
        BY <1>a, <1>b, <1>e, <1>2, <3>1, <4>1, Here DEF Struct, InHand, Now
    <3>3. Alive(held["ctl"])
      BY <1>e, <2>2, <3>2
    <3>4. CASE Arg("ctl").bss # b
      BY <1>e, <3>2, <3>3, <3>4 DEF Struct, Places
    <3>5. CASE Arg("ctl").bss = b
      <4>1. iflist[b] # held["ctl"]
        <5>1. iflist[b] \in {d, Null}
          BY <1>b, <3>1 DEF Struct, Places
        <5> QED
          BY <1>c, <3>2, <3>3, <5>1, Numbers
      <4> QED
        BY <3>2, <3>3, <3>5, <4>1 DEF Struct, Places
    <3> QED
      BY <3>4, <3>5
  <2> QED
    BY <1>e, <2>1, <2>2 DEF Struct, Places
<1>7. Indices'
  <2>0. \A o \in Ifs : Alive(o)' => Alive(o) /\ nif'[o] = nif[o]
    BY <1>c, <1>e
  <2>1. \A o \in Ifs : (Listed(o)' => Listed(o)) /\ (Ending(o)' => Ending(o))
    <3>1. ASSUME NEW o \in Ifs, NEW u \in Threads, held'[u] = o,
                 Now(u)' \in {"quiet", "detach"} \/ (u = "event" /\ Now(u)' = "register")
          PROVE  Ending(o)
      <4>1. u # t
        BY <1>b, <1>2, <3>1
      <4> QED
        BY <1>e, <1>2, <3>1, <4>1 DEF Ending
    <3>2. \A o \in Ifs : Listed(o)' => Listed(o)
      BY <1>e, Numbers DEF Listed
    <3> QED
      BY <3>1, <3>2 DEF Ending
  <2>2. \A o, p \in Ifs : Alive(o)' /\ Alive(p)' /\ o # p /\ nif'[o].idx = nif'[p].idx /\ Listed(o)' =>
          ~Listed(p)' /\ ~Ending(p)'
    BY <2>0, <2>1 DEF Struct, Indices
  <2>3. \A o \in Ifs : Alive(o)' => (nif'[o].bss = 0 <=> nif'[o].idx = 0)
    BY <2>0 DEF Struct, Indices
  <2>4. \A o, p \in Ifs : Alive(o)' /\ Alive(p)' /\ nif'[o].bss = 0 /\ nif'[p].bss = 0 => o = p
    BY <2>0 DEF Struct, Indices
  <2>5. ASSUME NEW c \in Bss, NEW f \in Bss, NEW x \in Ifidx, Adds(c, x)', iflist'[f] # Null, f # c
        PROVE  nif'[iflist'[f]].idx # x
    <3>1. Adds(c, x) /\ x # 0 /\ f # b /\ iflist'[f] = iflist[f] /\ iflist[f] \in Ifs /\ iflist[f] # Null
      BY <1>a, <1>e, <1>1, <1>2, <2>5
    <3>2. CASE iflist[f] = d
      BY <1>e, <3>1, <3>2
    <3>3. CASE iflist[f] # d
      BY <1>e, <2>5, <3>1, <3>3 DEF Struct, Indices
    <3> QED
      BY <3>2, <3>3
  <2> QED
    BY <2>2, <2>3, <2>4, <2>5, Zenon DEF Indices
<1>8. Kept'
  <2> SUFFICES ASSUME Smooth' PROVE Kept'
    BY DEF Kept
  <2>0. Smooth
    BY <1>0 DEF Smooth
  <2>b. iflist[b] = d
    BY <1>b, <2>0 DEF Struct, Kept
  <2>c. ASSUME t = "event" PROVE Now("ctl") \notin DeleteOps /\ ~Has(todo["ctl"], "silence")
    BY <1>a, <1>b, <2>0, <2>c DEF Struct, Turns
  <2>d. ASSUME t = "ctl" PROVE Now("event") = "none"
    BY <1>a, <1>1, <2>0, <2>d
  <2>1. \A o \in Ifs : Alive(o)' => iflist'[nif'[o].bss] = o
    <3> SUFFICES ASSUME NEW o \in Ifs, Alive(o)' PROVE iflist'[nif'[o].bss] = o
      OBVIOUS
    <3>1. Alive(o) /\ o # d /\ nif'[o] = nif[o]
      BY <1>c, <1>e
    <3>2. iflist[nif[o].bss] = o /\ nif[o].bss \in Bss
      BY <2>0, <3>1, Fields DEF Struct, Kept, TypeOK
    <3> QED
      BY <1>e, <2>b, <3>1, <3>2
  <2>2. ASSUME NEW u \in Threads, Now(u)' \in {"quiet", "detach", "unlist", "forget"}
        PROVE  iflist'[Arg(u)'.bss] = held'[u]
    <3>1. u = t
      BY <1>a, <1>2, <2>c, <2>d, <2>2 DEF DeleteOps
    <3>2. t = "ctl" /\ Now(t) = "unlist"
      BY <1>a, <1>b, <1>2, <2>2, <3>1
    <3> QED
      BY <1>1, <2>0, <3>2 DEF Struct, Turns
  <2>3. ASSUME Has(todo'["ctl"], "silence"), NEW o \in Ifs, Alive(o)'
        PROVE  \/ held'["ctl"] = o /\ Now("ctl")' \in {"quiet", "detach"}
               \/ Pending("hold", nif[o].bss)'
    <3>0. nif'[o].bss = nif[o].bss /\ o # d /\ Alive(o)
      BY <1>c, <1>e, <2>3
    <3>1. t = "ctl" /\ Has(todo["ctl"], "silence")
      BY <1>a, <1>2, <2>c, <2>3
    <3>2. Pending("hold", nif[o].bss)
      BY <1>b, <2>0, <3>0, <3>1 DEF Struct, Kept
    <3>3. \E c : c = nif[o].bss /\ Pending("hold", c)'
      BY <1>2, <3>2
    <3> QED
      BY <3>0, <3>3, Zenon
  <2>4. stage' = "gone" => \A o \in Ifs : ~Alive(o)'
    BY <1>0, <1>e, <2>0 DEF Struct, Kept
  <2> QED
    BY <2>1, <2>2, <2>3, <2>4, Zenon DEF Kept
<1>9. Mapped'
  <2> SUFFICES ASSUME happened' = {} PROVE Mapped'
    BY DEF Mapped
  <2>0. happened = {} /\ Smooth
    BY <1>0 DEF Smooth
  <2>1. Forget(t)
    <3>1. CASE Unlist(t)
      <4>1. Has(todo[t], "unlist")
        BY <1>1, <1>b, <3>1
      <4> QED
        BY <1>a, <2>0, <4>1 DEF Struct, Turns, Mapped
    <3> QED
      BY <3>1
  <2>b. iflist[b] = d
    BY <1>b, <2>0 DEF Struct, Kept
  <2>x. nif[d].idx \in Ifidx /\ d # Null
    BY <1>c, Fields, Numbers DEF TypeOK
  <2>2. if2bss[nif[d].idx] = b
    BY <1>1, <2>0, <2>b, <2>x DEF Struct, Mapped
  <2>3. if2bss'[nif[d].idx] = Invalid /\ \A y \in Ifidx : y # nif[d].idx => if2bss'[y] = if2bss[y]
    BY <1>0, <2>1, <2>2, <2>x DEF TypeOK, TableTypes
  <2>4. ASSUME NEW c \in Bss, iflist'[c] # Null PROVE if2bss'[nif'[iflist'[c]].idx] = c
    <3>1. c # b /\ iflist'[c] = iflist[c] /\ iflist[c] \in Ifs /\ iflist[c] # Null
      BY <1>a, <1>e, <2>4
    <3>2. iflist[c] # d
      BY <1>1, <2>b, <3>1 DEF Struct, Listing
    <3>3. if2bss[nif[iflist[c]].idx] = c /\ nif[iflist[c]].idx \in Ifidx
      BY <2>0, <3>1, Fields DEF Struct, Mapped, TypeOK
    <3> QED
      BY <1>e, <2>2, <2>3, <3>1, <3>2, <3>3
  <2>5. ASSUME NEW y \in Ifidx, if2bss'[y] # Invalid
        PROVE  iflist'[if2bss'[y]] # Null /\ nif'[iflist'[if2bss'[y]]].idx = y
    <3>1. y # nif[d].idx /\ if2bss'[y] = if2bss[y] /\ if2bss[y] # Invalid /\ if2bss[y] \in Bss
      BY <2>3, <2>5 DEF TypeOK, TableTypes
    <3>2. iflist[if2bss[y]] # Null /\ nif[iflist[if2bss[y]]].idx = y
      BY <2>0, <3>1 DEF Struct, Mapped
    <3>3. iflist[if2bss[y]] # d /\ if2bss[y] # b /\ iflist[if2bss[y]] \in Ifs
      BY <1>a, <2>b, <3>1, <3>2
    <3> QED
      BY <1>e, <3>1, <3>2, <3>3
  <2>6. ~Has(todo'["event"], "unlist")
    BY <1>a, <1>2, <2>0 DEF Struct, Mapped
  <2> QED
    BY <2>4, <2>5, <2>6, Zenon DEF Mapped
<1> QED
  BY <1>2, <1>3, <1>4, <1>5, <1>6, <1>7, <1>8, <1>9 DEF Struct

\* An interface is made where none stood.
LEMMA AllocStep ==
  ASSUME TypeOK, Struct, stage # "gone", NEW t \in Threads, Step(t, "alloc"), NEW o \in Ifs, Unused(o),
         nif' = [nif EXCEPT ![o] = Blank("made", Arg(t).bss, Arg(t).idx)],
         iflist' = [iflist EXCEPT ![Arg(t).bss] = o],
         if2bss' = [if2bss EXCEPT ![Arg(t).idx] = IF @ = Invalid THEN Arg(t).bss ELSE @],
         held' = [held EXCEPT ![t] = o], Advance(t), UNCHANGED <<happened, stage, up>>
  PROVE  Struct'
<1> DEFINE b == Arg(t).bss
           x == Arg(t).idx
<1>a. /\ \A u : u \in Threads <=> u = "ctl" \/ u = "event"
      /\ "ctl" \in Threads /\ "event" \in Threads
      /\ \A c \in Bss : iflist[c] # Null => iflist[c] \in Ifs
      /\ Now("ctl") \in DeleteOps /\ Now("event") # "none" => Quarrel
      /\ Quarrel => ~Smooth
      /\ \A u \in Threads : todo[u] # <<>> <=> Now(u) # "none"
  BY Alone
<1>b. todo[t] # <<>> /\ Now(t) = "alloc" /\ ThreadTypes /\ Lists
  BY DEF Step, Now, TypeOK, Struct
<1>1. /\ b \in Bss /\ x \in Ifidx
      /\ t = "ctl" => b = 0 /\ x = 0 /\ ~Has(todo["ctl"], "silence")
      /\ t = "event" => b # 0 /\ x # 0 /\ Adds(b, x)
      /\ \A c, y : Adds(c, y) => Now("event") # "none" /\ c = Arg("event").bss
  <2>1. \A c, y : Adds(c, y) => Now("event") # "none"
    BY <1>b, Here
  <2>2. \A c, y : Adds(c, y) => c = Arg("event").bss
    <3> SUFFICES ASSUME NEW c, NEW y, Adds(c, y) PROVE c = Arg("event").bss
      OBVIOUS
    <3>1. todo["event"] # <<>> /\ todo["event"] \in Seq(StepType)
      BY <1>a, <1>b, <2>1 DEF ThreadTypes
    <3>2. 1 \in 1 .. Len(todo["event"]) /\ Arg("event") = todo["event"][1]
      <4>1. Len(todo["event"]) \in Nat \ {0} /\ Head(todo["event"]) = todo["event"][1]
        BY <3>1, Tails
      <4> QED
        BY <4>1 DEF Arg
    <3>3. EventList(todo["event"])
      BY <1>b DEF Lists
    <3> QED
      BY <3>2, <3>3 DEF EventList, Adds
  <2> QED
    BY <1>a, <1>b, <2>1, <2>2, Here
<1>n. t = "ctl" => /\ Now("event") = "none"
                   /\ \A p \in Ifs : ~Alive(p)
                   /\ \A c \in Bss : iflist[c] = Null
                   /\ \A y \in Ifidx : if2bss[y] = Invalid
  BY <1>b DEF Struct, Turns
<1>l. iflist[b] = Null
  BY <1>a, <1>b, <1>1, <1>n DEF Struct, Listing
<1>u. ~Alive(o) /\ (\A c \in Bss : iflist[c] # o) /\ (\A u \in Threads : held[u] # o) /\ o # Null
  BY Numbers DEF Unused, Alive
<1>e. /\ \A p \in Ifs : (Alive(p)' <=> Alive(p) \/ p = o) /\ (p # o => nif'[p] = nif[p])
      /\ nif'[o].idx = x /\ nif'[o].bss = b /\ nif'[o].life = "made"
      /\ iflist'[b] = o /\ \A c \in Bss : c # b => iflist'[c] = iflist[c]
      /\ held'[t] = o /\ \A u \in Threads \ {t} : held'[u] = held[u]
  <2>1. nif'[o].life = "made" /\ nif'[o].idx = x /\ nif'[o].bss = b
    BY DEF TypeOK, Blank
  <2>2. \A p \in Ifs : p # o => nif'[p] = nif[p]
    BY DEF TypeOK
  <2>3. iflist'[b] = o /\ \A c \in Bss : c # b => iflist'[c] = iflist[c]
    BY <1>1 DEF TypeOK, TableTypes
  <2>4. held'[t] = o /\ \A u \in Threads \ {t} : held'[u] = held[u]
    BY DEF TypeOK, ThreadTypes
  <2> QED
    BY <2>1, <2>2, <2>3, <2>4 DEF Alive
<1>2. /\ \A u \in Threads \ {t} : todo'[u] = todo[u] /\ Now(u)' = Now(u) /\ Arg(u)' = Arg(u)
      /\ \A op : Has(todo'[t], op) => Has(todo[t], op)
      /\ \A c, y : Adds(c, y)' => Adds(c, y)
      /\ Lists'
      /\ Now(t)' \notin {"quiet", "detach", "forget", "unlist"}
      /\ t = "event" => Now(t)' = "register" /\ Arg(t)'.bss = b
      /\ t = "ctl" => Now(t)' # "alloc"
  BY <1>b, Advanced, AdvancedRest
<1>3. Turns'
  <2>1. /\ Has(todo'["ctl"], "silence") => Has(todo["ctl"], "silence")
        /\ Has(todo'["ctl"], "up") => Has(todo["ctl"], "up")
        /\ Has(todo'["ctl"], "unlist") => Has(todo["ctl"], "unlist")
        /\ Now("event")' # "none" => Now("event") # "none"
    BY <1>a, <1>b, <1>2
  <2>2. Now("ctl")' = "alloc" => FALSE
    <3>1. Now("ctl")' = "alloc" => t = "event" /\ Now("ctl") = "alloc" /\ Now("event") # "none"
      BY <1>a, <1>b, <1>2
    <3> QED
      BY <3>1 DEF Struct, Turns
  <2> QED
    BY <2>1, <2>2 DEF Struct, Turns, Quarrel, Smooth
<1>4. InHand'
  <2>1. \A u \in Threads \ {t} : /\ Now(u)' = Now(u) /\ Arg(u)' = Arg(u) /\ held'[u] = held[u] /\ held[u] # o
                                 /\ Has(todo'[u], "notifiers") => Has(todo[u], "notifiers")
    BY <1>e, <1>2, <1>u
  <2>3. ASSUME NEW u \in Threads, Now(u)' \in {"quiet", "detach"}
        PROVE  /\ held'[u] \in Ifs
               /\ Alive(held[u])' => nif'[held'[u]].bss = Arg(u)'.bss
               /\ Alive(held[u])' \/ Quarrel'
    BY <1>e, <1>2, <2>1, <2>3 DEF Struct, InHand, Quarrel
  <2>4. ASSUME NEW u \in Threads, Now(u)' \in {"unlist", "forget"}
        PROVE  held'[u] \in Ifs /\ ~Alive(held[u])'
    BY <1>e, <1>2, <2>1, <2>4 DEF Struct, InHand
  <2>5. ASSUME Now("event")' = "register"
        PROVE  /\ held'["event"] \in Ifs
               /\ Alive(held["event"])' => /\ nif'[held'["event"]].life = "made"
                                           /\ nif'[held'["event"]].bss = Arg("event")'.bss
               /\ Alive(held["event"])' \/ Quarrel'
    <3>1. t = "event"
      BY <1>a, <1>n, <1>2, <2>5
    <3> QED
      BY <1>a, <1>e, <1>2, <3>1
  <2>6. ASSUME Now("ctl")' # "alloc" /\ Has(todo'["ctl"], "notifiers")
        PROVE  held'["ctl"] \in Ifs /\ Alive(held["ctl"])' /\ nif'[held'["ctl"]].bss = 0
    <3>1. CASE t = "ctl"
      BY <1>e, <1>1, <3>1
    <3>2. CASE t = "event"
      <4>1. Now("ctl") # "alloc" /\ Has(todo["ctl"], "notifiers")
        BY <1>a, <1>2, <2>6, <3>2
      <4> QED
        BY <1>a, <1>e, <2>1, <3>2, <4>1 DEF Struct, InHand
    <3> QED
      BY <1>a, <3>1, <3>2
  <2> QED
    BY <2>3, <2>4, <2>5, <2>6, Zenon DEF InHand
<1>5. Listing'
  <2>1. ASSUME NEW c \in Bss, iflist'[c] # Null, c # b
        PROVE  iflist'[c] = iflist[c] /\ iflist[c] \in Ifs /\ iflist[c] # o
    BY <1>a, <1>e, <1>u, <2>1
  <2>4. ASSUME NEW c \in Bss, iflist'[c] # Null, ~Alive(iflist[c])'
        PROVE  \E u \in Threads : held'[u] = iflist'[c] /\ Now(u)' \in {"unlist", "forget"} /\ Arg(u)'.bss = c
    <3>1. c # b /\ iflist'[c] = iflist[c] /\ iflist[c] \in Ifs
      BY <1>e, <2>1, <2>4
    <3>2. iflist[c] # Null /\ ~Alive(iflist[c])
      BY <1>e, <2>4, <3>1
    <3>3. PICK u \in Threads : held[u] = iflist[c] /\ Now(u) \in {"unlist", "forget"} /\ Arg(u).bss = c
      BY <3>2 DEF Struct, Listing
    <3>4. u # t
      BY <1>b, <3>3
    <3> QED
      BY <1>e, <1>2, <3>1, <3>3, <3>4
  <2>5. \A c \in Bss : iflist'[c] # Null /\ Alive(iflist[c])' => nif'[iflist'[c]].bss = c
    <3> SUFFICES ASSUME NEW c \in Bss, iflist'[c] # Null, Alive(iflist[c])', c # b PROVE nif'[iflist'[c]].bss = c
      BY <1>e
    <3>1. iflist'[c] = iflist[c] /\ iflist[c] \in Ifs /\ iflist[c] # Null /\ iflist[c] # o
      BY <2>1
    <3>2. Alive(iflist[c])
      BY <1>e, <3>1
    <3> QED
      BY <1>e, <3>1, <3>2 DEF Struct, Listing
  <2>6. \A c, f \in Bss : iflist'[c] # Null /\ iflist'[c] = iflist'[f] => c = f
    BY <1>e, <2>1 DEF Struct, Listing
  <2>7. Now("event")' # "alloc"
    BY <1>a, <1>n, <1>2
  <2> QED
    BY <2>4, <2>5, <2>6, <2>7, Zenon DEF Listing
<1>6. Places'
  <2>1. Now("event")' \in {"register", "quiet", "detach", "unlist", "forget"} =>
          iflist'[Arg("event")'.bss] = held'["event"]
    <3>1. Now("event")' \in {"register", "quiet", "detach", "unlist", "forget"} => t = "event"
      BY <1>a, <1>n, <1>2
    <3> QED
      BY <1>e, <1>2, <3>1
  <2>2. ASSUME Now("ctl")' \in {"quiet", "detach"}, Alive(held["ctl"])'
        PROVE  Arg("ctl")'.bss = 0 \/ iflist'[Arg("ctl")'.bss] = held'["ctl"]
    <3>1. t = "event"
      BY <1>a, <1>2, <2>2
    <3>2. /\ Now("ctl") \in {"quiet", "detach"} /\ Arg("ctl")' = Arg("ctl") /\ held'["ctl"] = held["ctl"]
          /\ held["ctl"] \in Ifs /\ Arg("ctl").bss \in Bss
      <4>1. Now("ctl") \in {"quiet", "detach"}
        BY <1>a, <1>2, <2>2, <3>1
      <4> QED
        BY <1>a, <1>b, <1>e, <1>2, <3>1, <4>1, Here DEF Struct, InHand, Now
    <3>3. Alive(held["ctl"])
      BY <1>a, <1>e, <1>u, <2>2, <3>2
    <3>4. Arg("ctl").bss = 0 \/ iflist[Arg("ctl").bss] = held["ctl"]
      BY <3>2, <3>3 DEF Struct, Places
    <3> QED
      BY <1>e, <1>l, <3>2, <3>4, Numbers
  <2> QED
    BY <2>1, <2>2 DEF Places
<1>7. Indices'
  <2>1. \A p \in Ifs : p # o => (Listed(p)' => Listed(p)) /\ (Ending(p)' => Ending(p))
    <3>1. ASSUME NEW p \in Ifs, p # o, NEW u \in Threads, held'[u] = p,
                 Now(u)' \in {"quiet", "detach"} \/ (u = "event" /\ Now(u)' = "register")
          PROVE  Ending(p)
      <4>1. u # t
        BY <1>e, <3>1
      <4> QED
        BY <1>e, <1>2, <3>1, <4>1 DEF Ending
    <3>2. \A p \in Ifs : p # o /\ Listed(p)' => Listed(p)
      BY <1>e DEF Listed
    <3> QED
      BY <3>1, <3>2 DEF Ending
  <2>n. ASSUME NEW p \in Ifs, p # o, Alive(p), nif[p].idx = x PROVE ~Listed(p) /\ ~Ending(p)'
    <3>1. t = "event"
      BY <1>a, <1>n, <2>n
    <3>2. ASSUME NEW c \in Bss, iflist[c] = p PROVE FALSE
      <4>1. c # b /\ iflist[c] # Null
        BY <1>l, <3>2, Numbers
      <4> QED
        BY <1>1, <2>n, <3>1, <3>2, <4>1 DEF Struct, Indices
    <3>3. ~Listed(p)
      BY <3>2 DEF Listed
    <3>4. ASSUME NEW u \in Threads, held'[u] = p,
                 Now(u)' \in {"quiet", "detach"} \/ (u = "event" /\ Now(u)' = "register")
          PROVE  FALSE
      <4>1. u = "ctl" /\ Now("ctl") \in {"quiet", "detach"} /\ held["ctl"] = p
        BY <1>a, <1>e, <1>2, <2>n, <3>1, <3>4
      <4>2. Arg("ctl").bss = 0
        <5>1. Arg("ctl").bss \in Bss
          BY <1>a, <1>b, <4>1, Here DEF Now
        <5> QED
          BY <2>n, <3>2, <4>1, <5>1 DEF Struct, Places
      <4>3. nif[p].bss = 0
        BY <1>a, <2>n, <4>1, <4>2 DEF Struct, InHand
      <4> QED
        BY <1>1, <2>n, <3>1, <4>3 DEF Struct, Indices
    <3> QED
      BY <3>3, <3>4 DEF Ending
  <2>2. ASSUME NEW p \in Ifs, NEW q \in Ifs, Alive(p)', Alive(q)', p # q, nif'[p].idx = nif'[q].idx, Listed(p)'
        PROVE  ~Listed(q)' /\ ~Ending(q)'
    <3>1. CASE p = o
      <4>1. Alive(q) /\ nif[q].idx = x
        BY <1>e, <2>2, <3>1
      <4> QED
        BY <2>1, <2>2, <2>n, <3>1, <4>1
    <3>2. CASE q = o
      <4>1. Alive(p) /\ nif[p].idx = x /\ Listed(p)
        BY <1>e, <2>1, <2>2, <3>2
      <4> QED
        BY <2>2, <2>n, <3>2, <4>1
    <3>3. CASE p # o /\ q # o
      <4>1. Alive(p) /\ Alive(q) /\ nif[p].idx = nif[q].idx /\ Listed(p)
        BY <1>e, <2>1, <2>2, <3>3
      <4>2. ~Listed(q) /\ ~Ending(q)
        BY <2>2, <4>1 DEF Struct, Indices
      <4> QED
        BY <2>1, <3>3, <4>2
    <3> QED
      BY <3>1, <3>2, <3>3
  <2>3. \A p \in Ifs : Alive(p)' => (nif'[p].bss = 0 <=> nif'[p].idx = 0)
    BY <1>a, <1>1, <1>e DEF Struct, Indices
  <2>4. \A p, q \in Ifs : Alive(p)' /\ Alive(q)' /\ nif'[p].bss = 0 /\ nif'[q].bss = 0 => p = q
    BY <1>a, <1>1, <1>e, <1>n DEF Struct, Indices
  <2>5. ASSUME NEW c \in Bss, NEW f \in Bss, NEW y \in Ifidx, Adds(c, y)', iflist'[f] # Null, f # c
        PROVE  nif'[iflist'[f]].idx # y
    <3>1. Adds(c, y) /\ t = "event" /\ c = b
      BY <1>a, <1>1, <1>n, <1>2, <2>5
    <3>2. iflist'[f] = iflist[f] /\ iflist[f] \in Ifs /\ iflist[f] # o /\ iflist[f] # Null
      BY <1>a, <1>e, <1>u, <2>5, <3>1
    <3> QED
      BY <1>e, <2>5, <3>1, <3>2 DEF Struct, Indices
  <2> QED
    BY <2>2, <2>3, <2>4, <2>5, Zenon DEF Indices
<1>8. Kept'
  <2> SUFFICES ASSUME Smooth' PROVE Kept'
    BY DEF Kept
  <2>0. Smooth
    BY DEF Smooth
  <2>c. ~Has(todo["ctl"], "silence")
    BY <1>a, <1>b, <1>1, <2>0 DEF Struct, Turns
  <2>1. \A p \in Ifs : Alive(p)' => iflist'[nif'[p].bss] = p
    <3> SUFFICES ASSUME NEW p \in Ifs, Alive(p)', p # o PROVE iflist'[nif'[p].bss] = p
      BY <1>e
    <3>1. Alive(p) /\ nif'[p] = nif[p]
      BY <1>e
    <3>2. iflist[nif[p].bss] = p /\ nif[p].bss \in Bss
      BY <2>0, <3>1, Fields DEF Struct, Kept, TypeOK
    <3> QED
      BY <1>e, <1>l, <3>1, <3>2, Numbers
  <2>2. ASSUME NEW u \in Threads, Now(u)' \in {"quiet", "detach", "unlist", "forget"}
        PROVE  iflist'[Arg(u)'.bss] = held'[u]
    <3>1. u # t /\ Now(u) \in {"quiet", "detach", "unlist", "forget"}
      BY <1>2, <2>2
    <3>2. u = "event"
      BY <1>a, <1>b, <2>0, <3>1 DEF DeleteOps
    <3> QED
      BY <1>a, <1>n, <3>1, <3>2
  <2>3. ~Has(todo'["ctl"], "silence")
    BY <1>a, <1>2, <2>c
  <2>4. stage' # "gone"
    OBVIOUS
  <2> QED
    BY <2>1, <2>2, <2>3, <2>4, Zenon DEF Kept
<1>9. Mapped'
  <2> SUFFICES ASSUME happened' = {} PROVE Mapped'
    BY DEF Mapped
  <2>0. happened = {}
    OBVIOUS
  <2>2. if2bss[x] = Invalid
    <3> SUFFICES ASSUME if2bss[x] # Invalid PROVE FALSE
      OBVIOUS
    <3>1. if2bss[x] \in Bss /\ iflist[if2bss[x]] # Null /\ nif[iflist[if2bss[x]]].idx = x
      BY <1>1, <2>0 DEF Struct, Mapped, TypeOK, TableTypes
    <3> QED
      BY <1>a, <1>1, <1>l, <1>n, <3>1 DEF Struct, Indices
  <2>3. if2bss'[x] = b /\ \A y \in Ifidx : y # x => if2bss'[y] = if2bss[y]
    BY <1>1, <2>2 DEF TypeOK, TableTypes
  <2>4. ASSUME NEW c \in Bss, iflist'[c] # Null PROVE if2bss'[nif'[iflist'[c]].idx] = c
    <3>1. CASE c = b
      BY <1>e, <2>3, <3>1
    <3>2. CASE c # b
      <4>1. iflist'[c] = iflist[c] /\ iflist[c] \in Ifs /\ iflist[c] # Null /\ iflist[c] # o
        BY <1>a, <1>e, <1>u, <2>4, <3>2
      <4>2. if2bss[nif[iflist[c]].idx] = c /\ nif[iflist[c]].idx \in Ifidx
        BY <2>0, <4>1, Fields DEF Struct, Mapped, TypeOK
      <4> QED
        BY <1>e, <2>2, <2>3, <4>1, <4>2, Numbers
    <3> QED
      BY <3>1, <3>2
  <2>5. ASSUME NEW y \in Ifidx, if2bss'[y] # Invalid
        PROVE  iflist'[if2bss'[y]] # Null /\ nif'[iflist'[if2bss'[y]]].idx = y
    <3>1. CASE y = x
      BY <1>e, <1>u, <2>3, <3>1
    <3>2. CASE y # x
      <4>1. if2bss'[y] = if2bss[y] /\ if2bss[y] # Invalid /\ if2bss[y] \in Bss
        BY <2>3, <2>5, <3>2 DEF TypeOK, TableTypes
      <4>2. iflist[if2bss[y]] # Null /\ nif[iflist[if2bss[y]]].idx = y
        BY <2>0, <4>1 DEF Struct, Mapped
      <4>3. iflist[if2bss[y]] # o /\ if2bss[y] # b /\ iflist[if2bss[y]] \in Ifs
        BY <1>a, <1>l, <1>u, <4>1, <4>2
      <4> QED
        BY <1>e, <4>1, <4>2, <4>3
    <3> QED
      BY <3>1, <3>2
  <2>6. ~Has(todo'["event"], "unlist")
    BY <1>a, <1>2, <2>0 DEF Struct, Mapped
  <2> QED
    BY <2>4, <2>5, <2>6, Zenon DEF Mapped
<1> QED
  BY <1>2, <1>3, <1>4, <1>5, <1>6, <1>7, <1>8, <1>9 DEF Struct

\* The event worker gives up: what it has made is freed, or was not made at all.
LEMMA GiveUpStep ==
  ASSUME TypeOK, Struct, Divert("event", <<>>), happened' = happened \cup {"stale"},
         UNCHANGED <<if2bss, stage, up>>,
         \/ Now("event") = "alloc" /\ UNCHANGED <<held, iflist, nif>>
         \/ /\ Now("event") = "register" /\ Alive(held["event"])
            /\ held' = [held EXCEPT !["event"] = Null] /\ nif' = [nif EXCEPT ![held["event"]] = Freed]
            /\ iflist' = [iflist EXCEPT ![nif[held["event"]].bss] = Null]
  PROVE  Struct'
<1> DEFINE d == held["event"]
           b == nif[d].bss
<1>a. /\ \A u : u \in Threads <=> u = "ctl" \/ u = "event"
      /\ "ctl" \in Threads /\ "event" \in Threads
      /\ \A c \in Bss : iflist[c] # Null => iflist[c] \in Ifs
      /\ Now("ctl") \in DeleteOps /\ Now("event") # "none" => Quarrel
      /\ Quarrel => ~Smooth
      /\ Now("event") # "none"
      /\ ThreadTypes /\ Lists
  BY Alone DEF TypeOK, Struct
<1>2. /\ todo'["ctl"] = todo["ctl"] /\ Now("ctl")' = Now("ctl") /\ Arg("ctl")' = Arg("ctl")
      /\ todo'["event"] = <<>> /\ Now("event")' = "none"
      /\ \A c : Pending("hold", c)' <=> Pending("hold", c)
      /\ Lists'
  <2>1. <<>> \in Seq(StepType) /\ Chained(<<>>) /\ Rear(<<>>) /\ EventList(<<>>)
    BY DEF Chained, Rear, EventList
  <2> QED
    BY <1>a, <2>1, Diverted
<1>n. \A c, y : ~Adds(c, y)'
  BY <1>2 DEF Adds
<1>s. /\ Quarrel' <=> Quarrel
      /\ Smooth' <=> Smooth
      /\ happened' # {}
  BY DEF Quarrel, Smooth
<1>e. /\ \A o \in Ifs : Alive(o)' => Alive(o) /\ nif'[o] = nif[o]
      /\ \A o \in Ifs : Alive(o) => Alive(o)' \/ (Now("event") = "register" /\ o = d)
      /\ \A c \in Bss : iflist'[c] # Null => iflist'[c] = iflist[c]
      /\ \A c \in Bss : iflist'[c] # Null => iflist'[c] # d \/ ~(Now("event") = "register")
      /\ \A c \in Bss : iflist'[c] # iflist[c] => Now("event") = "register" /\ c = b /\ iflist[c] \in {d, Null}
      /\ held'["ctl"] = held["ctl"]
  <2>1. CASE Now("event") = "alloc" /\ UNCHANGED <<held, iflist, nif>>
    BY <2>1 DEF Alive
  <2>2. CASE /\ Now("event") = "register" /\ Alive(held["event"])
             /\ held' = [held EXCEPT !["event"] = Null] /\ nif' = [nif EXCEPT ![held["event"]] = Freed]
             /\ iflist' = [iflist EXCEPT ![nif[held["event"]].bss] = Null]
    <3>1. d \in Ifs /\ b = Arg("event").bss /\ b \in Bss /\ iflist[b] \in {d, Null}
      <4>1. d \in Ifs /\ b = Arg("event").bss /\ iflist[Arg("event").bss] \in {d, Null}
        BY <2>2 DEF Struct, InHand, Places
      <4> QED
        BY <4>1, Fields DEF TypeOK
    <3>2. nif'[d].life = "freed" /\ \A o \in Ifs : o # d => nif'[o] = nif[o]
      BY <2>2, <3>1 DEF TypeOK, Freed, Blank
    <3>3. \A c \in Bss : (c # b => iflist'[c] = iflist[c]) /\ iflist'[b] = Null
      BY <2>2, <3>1 DEF TypeOK, TableTypes
    <3>4. \A c \in Bss : iflist[c] = d => c = b
      BY <2>2, <3>1, Numbers DEF Struct, Listing
    <3>5. held'["ctl"] = held["ctl"]
      BY <1>a, <2>2 DEF TypeOK, ThreadTypes
    <3> QED
      BY <2>2, <3>1, <3>2, <3>3, <3>4, <3>5 DEF Alive
  <2> QED
    BY <2>1, <2>2
<1>h. /\ held["ctl"] \in Ifs /\ Alive(held["ctl"]) /\ Now("event") = "register" /\ nif[held["ctl"]].bss = 0
         => held["ctl"] # d
      /\ \A o \in Ifs : Alive(o) /\ o # d => Alive(o)'
  <2>1. Now("event") = "register" /\ Alive(d) => b # 0
    BY <1>a, Here DEF Struct, InHand, Now
  <2> QED
    BY <1>e, <2>1
<1>3. Turns'
  BY <1>2, <1>s, <1>a, <1>e DEF Struct, Turns
<1>4. InHand'
  <2>3. ASSUME NEW u \in Threads, Now(u)' \in {"quiet", "detach"}
        PROVE  /\ held'[u] \in Ifs
               /\ Alive(held[u])' => nif'[held'[u]].bss = Arg(u)'.bss
               /\ Alive(held[u])' \/ Quarrel'
    <3>1. u = "ctl" /\ Now(u) \in {"quiet", "detach"} /\ Arg(u)' = Arg(u)
      BY <1>a, <1>2, <2>3
    <3>2. Quarrel
      BY <1>a, <3>1 DEF DeleteOps
    <3> QED
      BY <1>e, <1>s, <3>1, <3>2 DEF Struct, InHand
  <2>4. ASSUME NEW u \in Threads, Now(u)' \in {"unlist", "forget"}
        PROVE  held'[u] \in Ifs /\ ~Alive(held[u])'
    <3>1. u = "ctl" /\ Now(u) \in {"unlist", "forget"}
      BY <1>a, <1>2, <2>4
    <3> QED
      BY <1>e, <3>1 DEF Struct, InHand
  <2>6. ASSUME Now("ctl")' # "alloc" /\ Has(todo'["ctl"], "notifiers")
        PROVE  held'["ctl"] \in Ifs /\ Alive(held["ctl"])' /\ nif'[held'["ctl"]].bss = 0
    <3>1. held["ctl"] \in Ifs /\ Alive(held["ctl"]) /\ nif[held["ctl"]].bss = 0
      BY <1>2, <2>6 DEF Struct, InHand
    <3> QED
      BY <1>e, <1>h, <3>1
  <2> QED
    BY <1>2, <2>3, <2>4, <2>6, Zenon DEF InHand
<1>5. Listing'
  <2>4. ASSUME NEW c \in Bss, iflist'[c] # Null, ~Alive(iflist[c])'
        PROVE  \E u \in Threads : held'[u] = iflist'[c] /\ Now(u)' \in {"unlist", "forget"} /\ Arg(u)'.bss = c
    <3>1. iflist'[c] = iflist[c] /\ iflist[c] \in Ifs /\ iflist[c] # Null /\ ~Alive(iflist[c])
      BY <1>a, <1>e, <2>4
    <3>3. PICK u \in Threads : held[u] = iflist[c] /\ Now(u) \in {"unlist", "forget"} /\ Arg(u).bss = c
      BY <3>1 DEF Struct, Listing
    <3>4. u = "ctl"
      BY <1>a, <3>3
    <3> QED
      BY <1>e, <1>2, <3>1, <3>3, <3>4
  <2>5. \A c \in Bss : iflist'[c] # Null /\ Alive(iflist[c])' => nif'[iflist'[c]].bss = c
    BY <1>a, <1>e DEF Struct, Listing
  <2>6. \A c, f \in Bss : iflist'[c] # Null /\ iflist'[c] = iflist'[f] => c = f
    BY <1>e DEF Struct, Listing
  <2> QED
    BY <1>2, <2>4, <2>5, <2>6, Zenon DEF Listing
<1>6. Places'
  <2>2. ASSUME Now("ctl")' \in {"quiet", "detach"}, Alive(held["ctl"])'
        PROVE  Arg("ctl")'.bss = 0 \/ iflist'[Arg("ctl")'.bss] = held'["ctl"]
    <3>1. held["ctl"] \in Ifs /\ Now("ctl") \in {"quiet", "detach"} /\ Arg("ctl").bss \in Bss
      <4>1. Now("ctl") \in {"quiet", "detach"}
        BY <1>2, <2>2
      <4> QED
        BY <1>a, <4>1, Here DEF Struct, InHand, Now
    <3>2. Alive(held["ctl"])
      BY <1>e, <2>2, <3>1
    <3>3. Arg("ctl").bss = 0 \/ iflist[Arg("ctl").bss] = held["ctl"]
      BY <3>1, <3>2 DEF Struct, Places
    <3>4. CASE iflist'[Arg("ctl").bss] = iflist[Arg("ctl").bss]
      BY <1>2, <1>e, <3>3, <3>4
    <3>5. CASE iflist'[Arg("ctl").bss] # iflist[Arg("ctl").bss]
      <4>1. Now("event") = "register" /\ iflist[Arg("ctl").bss] \in {d, Null}
        BY <1>e, <3>1, <3>5
      <4>2. iflist[Arg("ctl").bss] = held["ctl"] => held["ctl"] = d
        BY <3>1, <4>1, Numbers
      <4>3. held["ctl"] # d
        <5> SUFFICES ASSUME held["ctl"] = d PROVE FALSE
          OBVIOUS
        <5>1. \/ UNCHANGED <<held, iflist, nif>>
              \/ nif' = [nif EXCEPT ![d] = Freed]
          OBVIOUS
        <5>2. nif' = [nif EXCEPT ![d] = Freed] => nif'[d].life = "freed"
          BY <3>1 DEF TypeOK, Freed, Blank
        <5>3. nif'[d].life # "freed"
          BY <1>e, <2>2 DEF Alive
        <5>4. UNCHANGED <<held, iflist, nif>> => iflist' = iflist
          OBVIOUS
        <5> QED
          BY <3>5, <5>1, <5>2, <5>3, <5>4
      <4> QED
        BY <1>2, <3>3, <4>2, <4>3
    <3> QED
      BY <3>4, <3>5
  <2> QED
    BY <1>2, <2>2 DEF Places
<1>7. Indices'
  <2>1. \A p \in Ifs : (Listed(p)' => Listed(p)) /\ (Ending(p)' => Ending(p))
    <3>1. ASSUME NEW p \in Ifs, NEW u \in Threads, held'[u] = p,
                 Now(u)' \in {"quiet", "detach"} \/ (u = "event" /\ Now(u)' = "register")
          PROVE  Ending(p)
      <4>1. u = "ctl"
        BY <1>a, <1>2, <3>1
      <4> QED
        BY <1>e, <1>2, <3>1, <4>1 DEF Ending
    <3>2. \A p \in Ifs : Listed(p)' => Listed(p)
      BY <1>e, Numbers DEF Listed
    <3> QED
      BY <3>1, <3>2 DEF Ending
  <2>2. \A o, p \in Ifs : Alive(o)' /\ Alive(p)' /\ o # p /\ nif'[o].idx = nif'[p].idx /\ Listed(o)' =>
          ~Listed(p)' /\ ~Ending(p)'
    BY <1>e, <2>1 DEF Struct, Indices
  <2>3. \A o \in Ifs : Alive(o)' => (nif'[o].bss = 0 <=> nif'[o].idx = 0)
    BY <1>e DEF Struct, Indices
  <2>4. \A o, p \in Ifs : Alive(o)' /\ Alive(p)' /\ nif'[o].bss = 0 /\ nif'[p].bss = 0 => o = p
    BY <1>e DEF Struct, Indices
  <2> QED
    BY <1>n, <2>2, <2>3, <2>4, Zenon DEF Indices
<1>8. Kept'
  <2> SUFFICES ASSUME Smooth' PROVE Kept'
    BY DEF Kept
  <2>0. Smooth
    BY <1>s
  <2>c. Now("ctl") \notin DeleteOps /\ ~Has(todo["ctl"], "silence")
    BY <1>a, <2>0 DEF Struct, Turns
  <2>1. \A o \in Ifs : Alive(o)' => iflist'[nif'[o].bss] = o
    <3> SUFFICES ASSUME NEW o \in Ifs, Alive(o)' PROVE iflist'[nif'[o].bss] = o
      OBVIOUS
    <3>1. Alive(o) /\ nif'[o] = nif[o]
      BY <1>e
    <3>2. iflist[nif[o].bss] = o /\ nif[o].bss \in Bss /\ o # Null
      BY <2>0, <3>1, Fields, Numbers DEF Struct, Kept, TypeOK
    <3>3. CASE iflist'[nif[o].bss] # iflist[nif[o].bss]
      <4>1. Now("event") = "register" /\ o = d
        BY <1>e, <3>2, <3>3
      <4>2. nif' = [nif EXCEPT ![d] = Freed]
        BY <4>1
      <4>3. nif'[d].life = "freed"
        BY <4>1, <4>2 DEF TypeOK, Freed, Blank
      <4> QED
        BY <4>1, <4>3 DEF Alive
    <3> QED
      BY <3>1, <3>2, <3>3
  <2>2. \A u \in Threads : Now(u)' \notin {"quiet", "detach", "unlist", "forget"}
    BY <1>a, <1>2, <2>c DEF DeleteOps
  <2>3. ~Has(todo'["ctl"], "silence")
    BY <1>2, <2>c
  <2>4. stage' = "gone" => \A o \in Ifs : ~Alive(o)'
    BY <1>e, <2>0 DEF Struct, Kept
  <2> QED
    BY <2>1, <2>2, <2>3, <2>4, Zenon DEF Kept
<1>9. Mapped'
  BY <1>s DEF Mapped
<1> QED
  BY <1>2, <1>3, <1>4, <1>5, <1>6, <1>7, <1>8, <1>9 DEF Struct

\* Attach gives up: on the way out everything is deleted, and nothing is smooth any more.
LEMMA FailStep ==
  ASSUME TypeOK, Struct, Now("ctl") \in {"alloc", "preinit", "register", "notifiers"},
         NEW s \in {Detach, FailStarted}, Divert("ctl", s), s = Detach <=> Now("ctl") = "alloc",
         happened' = happened \cup ({"unstarted"} \cup Overlap),
         UNCHANGED <<if2bss, nif, held, up>>, stage' \in {stage, "attached"}, Now("ctl") = "alloc" => stage' = stage,
         iflist' = iflist \/ (Now("ctl") = "register" /\ iflist' = [iflist EXCEPT ![nif[held["ctl"]].bss] = Null])
  PROVE  Struct'
<1>a. /\ \A u : u \in Threads <=> u = "ctl" \/ u = "event"
      /\ "ctl" \in Threads /\ "event" \in Threads
      /\ \A c \in Bss : iflist[c] # Null => iflist[c] \in Ifs
      /\ todo["event"] # <<>> <=> Now("event") # "none"
      /\ ThreadTypes /\ Lists
  BY Alone DEF TypeOK, Struct
<1>1. /\ OutList(s)
      /\ s[1] = IF s = Detach THEN Do("down", 0, 0) ELSE Do("detach", 0, 0)
  <2>1. s = Detach => OutList(s) /\ s[1] = Do("down", 0, 0)
    BY DetachList
  <2>2. s # Detach => OutList(s) /\ s[1] = Do("detach", 0, 0)
    BY FailStartedList
  <2> QED
    BY <2>1, <2>2
<1>2. /\ todo'["event"] = todo["event"] /\ Now("event")' = Now("event") /\ Arg("event")' = Arg("event")
      /\ todo'["ctl"] = s
      /\ Now("ctl") = "alloc" => Now("ctl")' = "down"
      /\ Now("ctl") # "alloc" => Now("ctl")' = "detach" /\ Arg("ctl")'.bss = 0
      /\ \A c, x : Adds(c, x)' <=> Adds(c, x)
      /\ Lists'
  BY <1>a, <1>1, Diverted DEF OutList, Do
<1>s. /\ Quarrel => Quarrel'
      /\ ~Smooth' /\ happened' # {}
      /\ Now("event") # "none" => Quarrel'
  BY <1>a DEF Quarrel, Smooth, Overlap
<1>o. /\ ~Has(todo'["ctl"], "up") /\ ~Has(todo'["ctl"], "notifiers")
  BY <1>1, <1>2 DEF OutList
<1>p. /\ Now("ctl") # "alloc" => held["ctl"] \in Ifs /\ Alive(held["ctl"]) /\ nif[held["ctl"]].bss = 0
      /\ Now("event") # "none" => Arg("event").bss # 0 /\ Arg("event").bss \in Bss
  <2>1. Now("ctl") # "alloc" => Has(todo["ctl"], "notifiers")
    BY <1>a, Here
  <2> QED
    BY <1>a, <2>1, Here DEF Struct, InHand
<1>i. /\ \A c \in Bss : iflist'[c] \in {iflist[c], Null}
      /\ \A c \in Bss \ {0} : iflist'[c] = iflist[c]
      /\ \A o \in Ifs : Alive(o)' <=> Alive(o)
  <2>1. Now("ctl") = "register" => nif[held["ctl"]].bss = 0
    BY <1>p
  <2> QED
    BY <2>1 DEF TypeOK, TableTypes, Alive
<1>3. Turns'
  BY <1>2, <1>s, <1>o DEF Struct, Turns
<1>4. InHand'
  <2>3. ASSUME NEW u \in Threads, Now(u)' \in {"quiet", "detach"}
        PROVE  /\ held'[u] \in Ifs
               /\ Alive(held[u])' => nif'[held'[u]].bss = Arg(u)'.bss
               /\ Alive(held[u])' \/ Quarrel'
    <3>1. CASE u = "ctl"
      BY <1>i, <1>2, <1>p, <2>3, <3>1
    <3>2. CASE u = "event"
      BY <1>i, <1>2, <1>s, <2>3, <3>2 DEF Struct, InHand
    <3> QED
      BY <1>a, <3>1, <3>2
  <2>4. ASSUME NEW u \in Threads, Now(u)' \in {"unlist", "forget"}
        PROVE  held'[u] \in Ifs /\ ~Alive(held[u])'
    BY <1>a, <1>i, <1>2, <2>4 DEF Struct, InHand
  <2>5. ASSUME Now("event")' = "register"
        PROVE  /\ held'["event"] \in Ifs
               /\ Alive(held["event"])' => /\ nif'[held'["event"]].life = "made"
                                           /\ nif'[held'["event"]].bss = Arg("event")'.bss
               /\ Alive(held["event"])' \/ Quarrel'
    BY <1>i, <1>2, <1>s, <2>5 DEF Struct, InHand
  <2> QED
    BY <1>o, <2>3, <2>4, <2>5, Zenon DEF InHand
<1>5. Listing'
  <2>1. \A u \in Threads : Now(u) \in {"unlist", "forget"} => u = "event"
    BY <1>a
  <2>2. Now("event") = "alloc" => Arg("event").bss \in Bss
    BY <1>p
  <2>4. ASSUME NEW c \in Bss, iflist'[c] # Null, ~Alive(iflist[c])'
        PROVE  \E u \in Threads : held'[u] = iflist'[c] /\ Now(u)' \in {"unlist", "forget"} /\ Arg(u)'.bss = c
    <3>1. iflist'[c] = iflist[c] /\ iflist[c] \in Ifs /\ iflist[c] # Null /\ ~Alive(iflist[c])
      BY <1>a, <1>i, <2>4
    <3>3. PICK u \in Threads : held[u] = iflist[c] /\ Now(u) \in {"unlist", "forget"} /\ Arg(u).bss = c
      BY <3>1 DEF Struct, Listing
    <3> QED
      BY <1>2, <2>1, <3>1, <3>3
  <2>5. \A c \in Bss : iflist'[c] # Null /\ Alive(iflist[c])' => nif'[iflist'[c]].bss = c
    BY <1>a, <1>i DEF Struct, Listing
  <2>6. \A c, f \in Bss : iflist'[c] # Null /\ iflist'[c] = iflist'[f] => c = f
    BY <1>i DEF Struct, Listing
  <2>7. Now("event")' = "alloc" => iflist'[Arg("event")'.bss] = Null
    BY <1>i, <1>2, <2>2 DEF Struct, Listing
  <2> QED
    BY <2>4, <2>5, <2>6, <2>7, Zenon DEF Listing
<1>6. Places'
  <2>1. Now("ctl")' \in {"quiet", "detach"} => Arg("ctl")'.bss = 0
    BY <1>2
  <2>2. Now("event")' \in {"register", "quiet", "detach", "unlist", "forget"} =>
          iflist'[Arg("event")'.bss] \in {held'["event"], Null}
    BY <1>i, <1>2, <1>p DEF Struct, Places
  <2> QED
    BY <2>1, <2>2 DEF Places
<1>7. Indices'
  <2>1. \A p \in Ifs : (Listed(p)' => Listed(p)) /\ (Ending(p)' => Ending(p) \/ (Alive(p) /\ nif[p].bss = 0))
    <3>1. ASSUME NEW p \in Ifs, NEW u \in Threads, held'[u] = p,
                 Now(u)' \in {"quiet", "detach"} \/ (u = "event" /\ Now(u)' = "register")
          PROVE  Ending(p) \/ (Alive(p) /\ nif[p].bss = 0)
      <4>1. CASE u = "ctl"
        BY <1>2, <1>p, <3>1, <4>1
      <4>2. CASE u = "event"
        BY <1>2, <3>1, <4>2 DEF Ending
      <4> QED
        BY <1>a, <4>1, <4>2
    <3>2. \A p \in Ifs : Listed(p)' => Listed(p)
      BY <1>i, Numbers DEF Listed
    <3> QED
      BY <3>1, <3>2 DEF Ending
  <2>3. \A o \in Ifs : Alive(o)' => (nif'[o].bss = 0 <=> nif'[o].idx = 0)
    BY <1>i DEF Struct, Indices
  <2>4. \A o, p \in Ifs : Alive(o)' /\ Alive(p)' /\ nif'[o].bss = 0 /\ nif'[p].bss = 0 => o = p
    BY <1>i DEF Struct, Indices
  <2>2. ASSUME NEW o \in Ifs, NEW p \in Ifs, Alive(o)', Alive(p)', o # p, nif'[o].idx = nif'[p].idx, Listed(o)'
        PROVE  ~Listed(p)' /\ ~Ending(p)'
    <3>1. ~Listed(p) /\ ~Ending(p)
      BY <1>i, <2>1, <2>2 DEF Struct, Indices
    <3>2. nif[p].bss # 0
      BY <2>2, <2>3, <2>4
    <3> QED
      BY <2>1, <3>1, <3>2
  <2>5. \A c, f \in Bss, x \in Ifidx : Adds(c, x)' /\ iflist'[f] # Null /\ f # c => nif'[iflist'[f]].idx # x
    BY <1>i, <1>2 DEF Struct, Indices
  <2> QED
    BY <2>2, <2>3, <2>4, <2>5, Zenon DEF Indices
<1>8. Kept'
  BY <1>s DEF Kept
<1>9. Mapped'
  BY <1>s DEF Mapped
<1> QED
  BY <1>2, <1>3, <1>4, <1>5, <1>6, <1>7, <1>8, <1>9 DEF Struct

\* The control thread is given work.
LEMMA ControlStep ==
  ASSUME TypeOK, Struct, NEW s, s = Detach \/ (s = BusUp /\ ~up) \/ s = <<Do("down", 0, 0)>>, Control(s)
  PROVE  Struct'
<1>a. /\ \A u : u \in Threads <=> u = "ctl" \/ u = "event"
      /\ "ctl" \in Threads /\ "event" \in Threads
      /\ \A c \in Bss : iflist[c] # Null => iflist[c] \in Ifs
      /\ todo["event"] # <<>> <=> Now("event") # "none"
      /\ todo["ctl"] # <<>> <=> Now("ctl") # "none"
      /\ ThreadTypes /\ Lists
  BY Alone DEF TypeOK, Struct
<1>0. /\ Divert("ctl", s) /\ held' = [held EXCEPT !["ctl"] = Null] /\ UNCHANGED <<stage, up, iflist, if2bss, nif>>
      /\ stage = "attached" /\ Now("ctl") = "none"
      /\ happened' = happened \cup (IF s = Detach THEN Overlap ELSE {})
  BY <1>a DEF Control, Begin, tables
<1>1. /\ s \in Seq(StepType) /\ s # <<>> /\ Chained(s) /\ Rear(s) /\ CtlList(s)
      /\ s[1].op \in {"up", "down"}
      /\ ~Has(s, "notifiers") /\ ~Has(s, "unlist")
      /\ Has(s, "up") => ~up
      /\ Has(s, "silence") => s = Detach /\ Goes(s)
  <2>1. CASE s = Detach
    <3>1. OutList(s) /\ s[1] = Do("down", 0, 0) /\ ~Has(s, "unlist")
      BY <2>1, DetachList
    <3> QED
      BY <2>1, <3>1 DEF OutList, Do
  <2>2. CASE s = BusUp /\ ~up
    <3>1. \A i \in 1 .. Len(s) : s[i].op \in {"up", "visit"}
      <4>1. \A i \in 1 .. Len(s) : i = 1 \/ i \in 2 .. Len(s)
        BY <2>2, BusUpList
      <4> QED
        BY <2>2, <4>1, BusUpList DEF Do
    <3>2. s[1].op = "up"
      BY <2>2, BusUpList DEF Do
    <3>3. ~Has(s, "notifiers") /\ ~Has(s, "unlist") /\ ~Has(s, "silence")
      BY <3>1 DEF Has
    <3> QED
      BY <2>2, <3>2, <3>3, BusUpList
  <2>3. CASE s = <<Do("down", 0, 0)>>
    <3>1. s[1] = Do("down", 0, 0) /\ \A i \in 1 .. Len(s) : i = 1
      BY <2>3, DownList
    <3>2. ~Has(s, "unlist")
      BY <3>1 DEF Has, Do
    <3> QED
      BY <2>3, <3>1, <3>2, DownList DEF Do
  <2> QED
    BY <2>1, <2>2, <2>3
<1>2. /\ todo'["event"] = todo["event"] /\ Now("event")' = Now("event") /\ Arg("event")' = Arg("event")
      /\ todo'["ctl"] = s /\ Now("ctl")' \in {"up", "down"}
      /\ \A c, x : Adds(c, x)' <=> Adds(c, x)
      /\ Lists'
  BY <1>0, <1>a, <1>1, Diverted
<1>s. /\ Quarrel => Quarrel'
      /\ Smooth' => Smooth /\ (happened' = {} => happened = {})
      /\ Has(s, "silence") /\ Now("event") # "none" => Quarrel'
  BY <1>0, <1>1, <1>a DEF Quarrel, Smooth, Overlap
<1>e. /\ \A o \in Ifs : Alive(o)' <=> Alive(o)
      /\ held'["event"] = held["event"]
  BY <1>0, <1>a DEF Alive, TypeOK, ThreadTypes
<1>3. Turns'
  BY <1>0, <1>1, <1>2, <1>s DEF Struct, Turns
<1>4. InHand'
  BY <1>0, <1>a, <1>1, <1>2, <1>s, <1>e DEF Struct, InHand
<1>5. Listing'
  BY <1>0, <1>a, <1>2, <1>e DEF Struct, Listing
<1>6. Places'
  BY <1>0, <1>2, <1>e DEF Struct, Places
<1>7. Indices'
  <2>1. \A p \in Ifs : (Listed(p)' <=> Listed(p)) /\ (Ending(p)' => Ending(p))
    <3>1. ASSUME NEW p \in Ifs, NEW u \in Threads, held'[u] = p,
                 Now(u)' \in {"quiet", "detach"} \/ (u = "event" /\ Now(u)' = "register")
          PROVE  Ending(p)
      <4>1. u = "event"
        BY <1>a, <1>2, <3>1
      <4> QED
        BY <1>e, <1>2, <3>1, <4>1 DEF Ending
    <3> QED
      BY <1>0, <3>1 DEF Ending, Listed
  <2> QED
    BY <1>0, <1>2, <1>e, <2>1 DEF Struct, Indices
<1>8. Kept'
  <2> SUFFICES ASSUME Smooth' PROVE Kept'
    BY DEF Kept
  <2>0. Smooth
    BY <1>s
  <2>1. \A o \in Ifs : Alive(o)' => iflist'[nif'[o].bss] = o
    BY <1>0, <1>e, <2>0 DEF Struct, Kept
  <2>2. ASSUME NEW u \in Threads, Now(u)' \in {"quiet", "detach", "unlist", "forget"}
        PROVE  iflist'[Arg(u)'.bss] = held'[u]
    <3>1. u = "event"
      BY <1>a, <1>2, <2>2
    <3> QED
      BY <1>0, <1>e, <1>2, <2>0, <2>2, <3>1 DEF Struct, Kept
  <2>3. ASSUME Has(todo'["ctl"], "silence"), NEW o \in Ifs, Alive(o)'
        PROVE  \/ held'["ctl"] = o /\ Now("ctl")' \in {"quiet", "detach"}
               \/ Pending("hold", nif[o].bss)'
    <3>1. Goes(s) /\ nif[o].bss \in Bss /\ nif'[o].bss = nif[o].bss
      BY <1>0, <1>1, <1>2, <2>3, Fields DEF TypeOK
    <3>2. \E i \in 1 .. Len(s) : s[i].op = "hold" /\ s[i].bss = nif'[o].bss
      BY <3>1 DEF Goes
    <3> QED
      BY <1>2, <3>2 DEF Pending
  <2>4. stage' # "gone"
    BY <1>0
  <2> QED
    BY <2>1, <2>2, <2>3, <2>4, Zenon DEF Kept
<1>9. Mapped'
  BY <1>0, <1>2, <1>s DEF Struct, Mapped
<1> QED
  BY <1>2, <1>3, <1>4, <1>5, <1>6, <1>7, <1>8, <1>9 DEF Struct

\* The work of the event worker, s, and the interface it starts with, o.
Gets(b, s, o) ==
  /\ b # 0 /\ stage = "attached" /\ Now("event") = "none"
  /\ UNCHANGED <<stage, up, iflist, if2bss, nif>> /\ happened \subseteq happened'
  /\ Leaving => Quarrel'
  /\ Divert("event", s) /\ held' = [held EXCEPT !["event"] = o]
  /\ s \in Seq(StepType) /\ s # <<>> /\ Chained(s) /\ Rear(s) /\ EventList(s)
  /\ ~Has(s, "unlist") \/ happened' # {}
  /\ \A i \in 1 .. Len(s) : s[i].op = "alloc" => s[i].bss = b /\
       \A c \in Bss \ {b} : iflist[c] # Null => nif[iflist[c]].idx # s[i].idx
  /\ s[1].bss = b
  /\ \/ s[1].op = "hold"
     \/ s[1].op = "alloc" /\ iflist[b] = Null
     \/ s[1].op = "quiet" /\ iflist[b] = o /\ o \in Ifs /\ Alive(o)
\* The event worker is given work.
LEMMA EventStep ==
  ASSUME TypeOK, Struct, NEW b \in Bss, fault' = NoFault,
         IfDeleted(b) \/ \E x \in Ifidx : IfAdded(b, x)
  PROVE  Struct'
<1>a. /\ \A u : u \in Threads <=> u = "ctl" \/ u = "event"
      /\ "ctl" \in Threads /\ "event" \in Threads
      /\ \A c \in Bss : iflist[c] # Null => iflist[c] \in Ifs
      /\ todo["event"] # <<>> <=> Now("event") # "none"
      /\ Now("ctl") \in DeleteOps => Has(todo["ctl"], "silence")
      /\ ThreadTypes /\ Lists
  BY Alone, Here DEF TypeOK, Struct
<1>g. PICK s, o : Gets(b, s, o)
  <2>1. CASE IfDeleted(b)
    <3>1. /\ b # 0 /\ stage = "attached" /\ Now("event") = "none"
          /\ UNCHANGED <<stage, up, iflist, if2bss, nif>> /\ happened \subseteq happened'
          /\ Leaving => Quarrel'
          /\ Divert("event", DelIf(b)) /\ held' = [held EXCEPT !["event"] = Null]
      BY <1>a, <2>1 DEF IfDeleted, Begin, tables, Quarrel
    <3>2. /\ DelIf(b) \in Seq(StepType) /\ DelIf(b) # <<>> /\ Chained(DelIf(b)) /\ Rear(DelIf(b)) /\ EventList(DelIf(b))
          /\ DelIf(b)[1] = Do("hold", b, 0) /\ ~Has(DelIf(b), "unlist")
      BY <3>1, DeleteList
    <3>3. \A i \in 1 .. Len(DelIf(b)) : DelIf(b)[i].op # "alloc"
      BY DEF DelIf, Do
    <3>4. DelIf(b)[1].bss = b /\ DelIf(b)[1].op = "hold"
      BY <3>2 DEF Do
    <3> QED
      BY <3>1, <3>2, <3>3, <3>4 DEF Gets
  <2>2. CASE \E x \in Ifidx : IfAdded(b, x)
    <3>1. PICK x \in Ifidx : IfAdded(b, x)
      BY <2>2
    <3>2. /\ b # 0 /\ x # 0 /\ stage = "attached" /\ Now("event") = "none"
          /\ UNCHANGED <<stage, up, iflist, if2bss, nif>> /\ happened \subseteq happened'
          /\ Leaving => Quarrel'
          /\ iflist[b] # Null => happened' # {}
          /\ \A c \in Bss \ {b} : iflist[c] # Null => nif[iflist[c]].idx # x
      BY <1>a, <3>1 DEF IfAdded, tables, Quarrel
    <3>3. /\ \A s \in {AddIf(b, x), Replace(b) \o AddIf(b, x)} :
               s \in Seq(StepType) /\ s # <<>> /\ Chained(s) /\ Rear(s) /\ EventList(s)
          /\ AddIf(b, x)[1] = Do("alloc", b, x) /\ (Replace(b) \o AddIf(b, x))[1] = Do("quiet", b, 0)
          /\ ~Has(AddIf(b, x), "unlist")
          /\ \A s \in {AddIf(b, x), Replace(b) \o AddIf(b, x)} :
               \A i \in 1 .. Len(s) : s[i].op = "alloc" => s[i] = Do("alloc", b, x)
      BY <3>2, EventLists
    <3>4. Do("alloc", b, x).bss = b /\ Do("alloc", b, x).idx = x /\ Do("alloc", b, x).op = "alloc"
          /\ Do("quiet", b, 0).op = "quiet" /\ Do("quiet", b, 0).bss = b
      BY DEF Do
    <3>5. CASE iflist[b] = Null
      <4>1. Divert("event", AddIf(b, x)) /\ held' = [held EXCEPT !["event"] = Null]
        BY <3>1, <3>5 DEF IfAdded, Begin
      <4>2. \A i \in 1 .. Len(AddIf(b, x)) : AddIf(b, x)[i].op = "alloc" =>
              AddIf(b, x)[i].bss = b /\ AddIf(b, x)[i].idx = x
        BY <3>3, <3>4
      <4> QED
        BY <3>2, <3>3, <3>4, <3>5, <4>1, <4>2 DEF Gets
    <3>6. CASE iflist[b] # Null
      <4>1. Alive(iflist[b]) /\ iflist[b] \in Ifs
        <5>1. CASE ~Alive(iflist[b])
          <6>1. fault' = [who |-> "event", nif |-> iflist[b]]
            BY <3>1, <3>6, <5>1 DEF IfAdded
          <6>2. [who |-> "event", nif |-> iflist[b]].who = [who |-> "", nif |-> Null].who
            BY <6>1 DEF NoFault
          <6> QED
            BY <6>2
        <5> QED
          BY <1>a, <3>6, <5>1
      <4>2. Divert("event", Replace(b) \o AddIf(b, x)) /\ held' = [held EXCEPT !["event"] = iflist[b]]
        BY <3>1, <3>6, <4>1 DEF IfAdded, Begin
      <4> DEFINE r == Replace(b) \o AddIf(b, x)
      <4>3. /\ r \in Seq(StepType) /\ r # <<>> /\ Chained(r) /\ Rear(r) /\ EventList(r)
            /\ r[1] = Do("quiet", b, 0)
            /\ \A i \in 1 .. Len(r) : r[i].op = "alloc" => r[i] = Do("alloc", b, x)
        BY <3>3
      <4>4. Divert("event", r)
        BY <4>2
      <4> HIDE DEF r
      <4>5. \A i \in 1 .. Len(r) : r[i].op = "alloc" => r[i].bss = b /\ r[i].idx = x
        BY <3>4, <4>3
      <4>6. Gets(b, r, iflist[b])
        BY <3>2, <3>4, <3>6, <4>1, <4>2, <4>3, <4>4, <4>5 DEF Gets
      <4> QED
        BY <4>6
    <3> QED
      BY <3>5, <3>6
  <2> QED
    BY <2>1, <2>2
<1>0. /\ b # 0 /\ stage = "attached" /\ Now("event") = "none"
      /\ UNCHANGED <<stage, up, iflist, if2bss, nif>> /\ happened \subseteq happened'
      /\ Leaving => Quarrel'
      /\ Divert("event", s) /\ held' = [held EXCEPT !["event"] = o]
      /\ s \in Seq(StepType) /\ s # <<>> /\ Chained(s) /\ Rear(s) /\ EventList(s)
      /\ ~Has(s, "unlist") \/ happened' # {}
      /\ \A i \in 1 .. Len(s) : s[i].op = "alloc" => s[i].bss = b /\
           \A c \in Bss \ {b} : iflist[c] # Null => nif[iflist[c]].idx # s[i].idx
      /\ s[1].bss = b
      /\ \/ s[1].op = "hold"
         \/ s[1].op = "alloc" /\ iflist[b] = Null
         \/ s[1].op = "quiet" /\ iflist[b] = o /\ o \in Ifs /\ Alive(o)
  BY <1>g DEF Gets
<1>2. /\ todo'["ctl"] = todo["ctl"] /\ Now("ctl")' = Now("ctl") /\ Arg("ctl")' = Arg("ctl")
      /\ todo'["event"] = s /\ Now("event")' = s[1].op /\ Arg("event")' = s[1]
      /\ \A c : Pending("hold", c)' <=> Pending("hold", c)
      /\ Lists'
  BY <1>0, <1>a, Diverted
<1>s. /\ Quarrel => Quarrel'
      /\ Smooth' => Smooth /\ (happened' = {} => happened = {})
      /\ Has(todo["ctl"], "silence") => Quarrel'
      /\ Quarrel' => ~Smooth'
  <2>1. Has(todo["ctl"], "silence") => Leaving
    <3>1. todo["ctl"] \in Seq(StepType)
      BY <1>a DEF ThreadTypes
    <3> QED
      BY <3>1 DEF Has, Leaving
  <2> QED
    BY <1>0, <2>1 DEF Quarrel, Smooth
<1>e. /\ \A p \in Ifs : Alive(p)' <=> Alive(p)
      /\ held'["ctl"] = held["ctl"] /\ held'["event"] = o
      /\ s[1].op = "quiet" => o \in Ifs /\ Alive(o) /\ iflist[b] = o /\ nif[o].bss = b
      /\ s[1].op = "alloc" => iflist[b] = Null
      /\ s[1].op \in {"hold", "alloc", "quiet"}
  BY <1>0, <1>a, Numbers DEF Alive, TypeOK, ThreadTypes, Struct, Listing
<1>3. Turns'
  <2>1. Now("ctl") # "alloc"
    BY <1>0 DEF Struct, Turns
  <2> QED
    BY <1>0, <1>2, <1>s, <2>1 DEF Struct, Turns
<1>4. InHand'
  BY <1>0, <1>a, <1>2, <1>s, <1>e DEF Struct, InHand
<1>5. Listing'
  BY <1>0, <1>a, <1>2, <1>e DEF Struct, Listing
<1>6. Places'
  <2>1. Now("event")' \in {"register", "quiet", "detach", "unlist", "forget"} =>
          iflist'[Arg("event")'.bss] = held'["event"]
    BY <1>0, <1>2, <1>e
  <2>2. Now("ctl")' \in {"quiet", "detach"} /\ Alive(held["ctl"])' =>
          Arg("ctl")'.bss = 0 \/ iflist'[Arg("ctl")'.bss] = held'["ctl"]
    <3>1. Now("ctl") \in {"quiet", "detach"} => held["ctl"] \in Ifs
      BY <1>a DEF Struct, InHand
    <3> QED
      BY <1>0, <1>2, <1>e, <3>1 DEF Struct, Places
  <2> QED
    BY <2>1, <2>2 DEF Places
<1>7. Indices'
  <2>1. \A p \in Ifs : (Listed(p)' <=> Listed(p)) /\ (Ending(p)' => Ending(p) \/ Listed(p))
    <3>1. ASSUME NEW p \in Ifs, NEW u \in Threads, held'[u] = p,
                 Now(u)' \in {"quiet", "detach"} \/ (u = "event" /\ Now(u)' = "register")
          PROVE  Ending(p) \/ Listed(p)
      <4>1. CASE u = "event"
        BY <1>2, <1>e, <3>1, <4>1 DEF Listed
      <4>2. CASE u = "ctl"
        BY <1>2, <1>e, <3>1, <4>2 DEF Ending
      <4> QED
        BY <1>a, <4>1, <4>2
    <3> QED
      BY <1>0, <3>1 DEF Ending, Listed
  <2>2. \A p, q \in Ifs : Alive(p)' /\ Alive(q)' /\ p # q /\ nif'[p].idx = nif'[q].idx /\ Listed(p)' =>
          ~Listed(q)' /\ ~Ending(q)'
    BY <1>0, <1>e, <2>1 DEF Struct, Indices
  <2>3. \A p \in Ifs : Alive(p)' => (nif'[p].bss = 0 <=> nif'[p].idx = 0)
    BY <1>0, <1>e DEF Struct, Indices
  <2>4. \A p, q \in Ifs : Alive(p)' /\ Alive(q)' /\ nif'[p].bss = 0 /\ nif'[q].bss = 0 => p = q
    BY <1>0, <1>e DEF Struct, Indices
  <2>5. ASSUME NEW c \in Bss, NEW f \in Bss, NEW y \in Ifidx, Adds(c, y)', iflist'[f] # Null, f # c
        PROVE  nif'[iflist'[f]].idx # y
    <3>1. PICK i \in 1 .. Len(s) : s[i].op = "alloc" /\ s[i].bss = c /\ s[i].idx = y
      BY <1>2, <2>5 DEF Adds
    <3> QED
      BY <1>0, <2>5, <3>1
  <2> QED
    BY <2>2, <2>3, <2>4, <2>5, Zenon DEF Indices
<1>8. Kept'
  <2> SUFFICES ASSUME Smooth' PROVE Kept'
    BY DEF Kept
  <2>0. Smooth /\ ~Has(todo["ctl"], "silence")
    BY <1>s
  <2>1. \A p \in Ifs : Alive(p)' => iflist'[nif'[p].bss] = p
    BY <1>0, <1>e, <2>0 DEF Struct, Kept
  <2>2. ASSUME NEW u \in Threads, Now(u)' \in {"quiet", "detach", "unlist", "forget"}
        PROVE  iflist'[Arg(u)'.bss] = held'[u]
    <3>1. u = "event"
      BY <1>a, <1>2, <2>0, <2>2 DEF DeleteOps
    <3> QED
      BY <1>0, <1>e, <1>2, <2>2, <3>1
  <2>3. ~Has(todo'["ctl"], "silence") /\ stage' # "gone"
    BY <1>0, <1>2, <2>0
  <2> QED
    BY <2>1, <2>2, <2>3, Zenon DEF Kept
<1>9. Mapped'
  BY <1>0, <1>2, <1>s DEF Struct, Mapped
<1> QED
  BY <1>2, <1>3, <1>4, <1>5, <1>6, <1>7, <1>8, <1>9 DEF Struct

\* Queues and counts leave all of it alone.
LEMMA StackFrame ==
  ASSUME TypeOK, Stack
  PROVE  Frame /\ Kin
<1>n. nif \in [Ifs -> NifType] /\ \A p \in Ifs : nif[p] \in NifType
  BY DEF TypeOK
<1>1. Frame
  BY DEF Stack, Open, Stop, StartXmit, StopQueue, QueueData, WaitBegin, TxFlowBlock, Complete, WaitDone, WaitReset,
         Faulty, Frame, tables, history
<1>u. ASSUME nif' = nif PROVE Kin
  BY <1>u DEF Kin
<1>k. ASSUME NEW o, NEW n, nif' = [nif EXCEPT ![o] = n],
             o \in Ifs => n.life = nif[o].life /\ n.bss = nif[o].bss /\ n.idx = nif[o].idx
      PROVE  Kin
  BY <1>n, <1>k DEF Kin
<1>f. ASSUME NEW n \in NifType
      PROVE  /\ \A k : LET m == [n EXCEPT !.pend = k] IN m.life = n.life /\ m.bss = n.bss /\ m.idx = n.idx
             /\ \A k : LET m == [n EXCEPT !.stopped = k] IN m.life = n.life /\ m.bss = n.bss /\ m.idx = n.idx
             /\ \A k : LET m == [n EXCEPT !.open = k] IN m.life = n.life /\ m.bss = n.bss /\ m.idx = n.idx
             /\ \A j, k : LET m == [n EXCEPT !.pend = j, !.open = k] IN m.life = n.life /\ m.bss = n.bss /\ m.idx = n.idx
  BY DEF NifType
<1>b. ASSUME NEW n \in NifType, NEW r \in Reasons
      PROVE  /\ Block(n, r) \in NifType
             /\ LET m == Block(n, r) IN m.life = n.life /\ m.bss = n.bss /\ m.idx = n.idx
             /\ LET m == Unblock(n, r) IN m.life = n.life /\ m.bss = n.bss /\ m.idx = n.idx
  BY BlockType, BlockFields
<1>2. ASSUME NEW o \in Ifs, Open(o) PROVE Kin
  <2>1. PICK ok \in BOOLEAN : nif' = [nif EXCEPT ![o].pend = 0, ![o].open = ok]
    BY <1>2 DEF Open
  <2>2. nif' = [nif EXCEPT ![o] = [nif[o] EXCEPT !.pend = 0, !.open = ok]]
    BY <1>n, <2>1
  <2> DEFINE m == [nif[o] EXCEPT !.pend = 0, !.open = ok]
  <2>3. m.life = nif[o].life /\ m.bss = nif[o].bss /\ m.idx = nif[o].idx
    BY <1>f, <1>n
  <2>4. nif' = [nif EXCEPT ![o] = m]
    BY <2>2
  <2> HIDE DEF m
  <2> QED
    BY <1>k, <2>3, <2>4
<1>3. ASSUME NEW o \in Ifs, Stop(o) PROVE Kin
  <2>1. nif' = [nif EXCEPT ![o] = [Block(nif[o], "disconnected") EXCEPT !.open = FALSE]]
    BY <1>3 DEF Stop
  <2>2. "disconnected" \in Reasons
    BY DEF Reasons
  <2> DEFINE k == Block(nif[o], "disconnected")
             m == [k EXCEPT !.open = FALSE]
  <2>3. k \in NifType /\ k.life = nif[o].life /\ k.bss = nif[o].bss /\ k.idx = nif[o].idx
    BY <1>b, <1>n, <2>2
  <2> HIDE DEF k
  <2>4. m.life = nif[o].life /\ m.bss = nif[o].bss /\ m.idx = nif[o].idx
    BY <1>f, <2>3
  <2>5. nif' = [nif EXCEPT ![o] = m]
    BY <2>1 DEF k
  <2> HIDE DEF m
  <2> QED
    BY <1>k, <2>4, <2>5
<1>4. ASSUME NEW o \in Ifs, StartXmit(o) PROVE Kin
  <2>1. nif' = nif \/ nif' = [nif EXCEPT ![o].pend = @ + 1]
    BY <1>4 DEF StartXmit
  <2>2. nif' = [nif EXCEPT ![o].pend = @ + 1] => nif' = [nif EXCEPT ![o] = [nif[o] EXCEPT !.pend = nif[o].pend + 1]]
    BY <1>n
  <2> QED
    BY <1>f, <1>k, <1>n, <1>u, <2>1, <2>2
<1>5. ASSUME NEW o \in Ifs, StopQueue(o) PROVE Kin
  <2>1. nif' = [nif EXCEPT ![o].stopped = TRUE]
    BY <1>5 DEF StopQueue
  <2>2. nif' = [nif EXCEPT ![o] = [nif[o] EXCEPT !.stopped = TRUE]]
    BY <1>n, <2>1
  <2> QED
    BY <1>f, <1>k, <1>n, <2>2
<1>6. ASSUME NEW o \in Ifs, QueueData(o) PROVE Kin
  <2>1. nif' = nif \/ nif' = [nif EXCEPT ![o].pend = @ - 1]
    BY <1>6 DEF QueueData
  <2>2. nif' = [nif EXCEPT ![o].pend = @ - 1] => nif' = [nif EXCEPT ![o] = [nif[o] EXCEPT !.pend = nif[o].pend - 1]]
    BY <1>n
  <2> QED
    BY <1>f, <1>k, <1>n, <1>u, <2>1, <2>2
<1>7. ASSUME NEW o \in Ifs, NEW r \in Reasons, NEW state \in BOOLEAN, TxFlowBlock(o, r, state) PROVE Kin
  <2>1. \E n \in {Block(nif[o], r), Unblock(nif[o], r)} : nif' = [nif EXCEPT ![o] = n]
    <3>1. CASE state
      BY <1>7, <3>1 DEF TxFlowBlock
    <3>2. CASE ~state
      BY <1>7, <3>2 DEF TxFlowBlock
    <3> QED
      BY <3>1, <3>2
  <2> QED
    BY <1>b, <1>k, <1>n, <2>1
<1>8. ASSUME NEW x, Complete(x) PROVE Kin
  <2>1. nif' = nif \/ \E o : nif' = [nif EXCEPT ![o].pend = @ - 1]
    BY <1>8 DEF Complete, Faulty
  <2>2. ASSUME NEW o, nif' = [nif EXCEPT ![o].pend = @ - 1] PROVE Kin
    <3>1. nif' = [nif EXCEPT ![o] = [nif[o] EXCEPT !.pend = nif[o].pend - 1]]
      BY <1>n, <2>2
    <3> QED
      BY <1>f, <1>k, <1>n, <3>1
  <2> QED
    BY <1>u, <2>1, <2>2
<1>9. ASSUME WaitReset PROVE Kin
  <2>1. nif' = [nif EXCEPT ![waiter.nif].pend = 0]
    BY <1>9 DEF WaitReset
  <2>2. nif' = [nif EXCEPT ![waiter.nif] = [nif[waiter.nif] EXCEPT !.pend = 0]]
    BY <1>n, <2>1
  <2> QED
    BY <1>f, <1>k, <1>n, <2>2
<1>10. (\E o \in Ifs : WaitBegin(o)) \/ WaitDone => nif' = nif
  BY DEF WaitBegin, WaitDone
<1> QED
  BY <1>1, <1>2, <1>3, <1>4, <1>5, <1>6, <1>7, <1>8, <1>9, <1>10, <1>u DEF Stack

\* Every step keeps the lists, the hands and the tables.
LEMMA StructStep ==
  TypeOK /\ Struct /\ [Next]_vars => Struct'
<1> SUFFICES ASSUME TypeOK, Struct, [Next]_vars PROVE Struct'
  OBVIOUS
<1>n. nif \in [Ifs -> NifType] /\ \A p \in Ifs : nif[p] \in NifType
  BY DEF TypeOK
<1>a. /\ \A u : u \in Threads <=> u = "ctl" \/ u = "event"
      /\ "ctl" \in Threads /\ "event" \in Threads
      /\ \A c \in Bss : iflist[c] # Null => iflist[c] \in Ifs
      /\ ThreadTypes /\ Lists
  BY Alone DEF TypeOK, Struct
<1>k. ASSUME Kin PROVE Kind /\ \A o \in Ifs : nif'[o].life = nif[o].life
  BY <1>k DEF Kin, Kind, Alive
<1>u. ASSUME nif' = nif PROVE Kin
  BY <1>u DEF Kin
<1>1. CASE UNCHANGED vars
  BY <1>1, <1>u, StillStep DEF vars, Frame, history, tables
<1>f. ASSUME NEW who, NEW o, Faulty(who, o) PROVE Struct'
  BY <1>f, <1>u, StillStep DEF Faulty, Frame, history
<1>2. ASSUME fault' = NoFault, fault = NoFault, stage # "gone", ThreadStep PROVE Struct'
  <2>s. ASSUME NEW t, NEW op, Step(t, op) PROVE todo[t] # <<>> /\ Now(t) = op
    BY <2>s DEF Step, Now
  <2>1. ASSUME NEW t \in Threads, Alloc(t) PROVE Struct'
    <3>0. /\ Step(t, "alloc") /\ todo[t] # <<>> /\ Now(t) = "alloc" /\ UNCHANGED <<stage, up>>
      BY <2>1, <2>s DEF Alloc
    <3>1. CASE \E o \in Ifs :
                 /\ Unused(o)
                 /\ nif' = [nif EXCEPT ![o] = Blank("made", Arg(t).bss, Arg(t).idx)]
                 /\ iflist' = [iflist EXCEPT ![Arg(t).bss] = o]
                 /\ if2bss' = [if2bss EXCEPT ![Arg(t).idx] = IF @ = Invalid THEN Arg(t).bss ELSE @]
                 /\ held' = [held EXCEPT ![t] = o] /\ Advance(t) /\ UNCHANGED happened
      BY <1>2, <3>0, <3>1, AllocStep
    <3>2. CASE /\ Fails(t) /\ Divert(t, IF t = "ctl" THEN Detach ELSE <<>>)
               /\ UNCHANGED <<held, iflist, if2bss, nif>>
      <4>1. CASE t = "ctl"
        <5>1. Divert("ctl", Detach) /\ happened' = happened \cup ({"unstarted"} \cup Overlap)
          BY <3>2, <4>1 DEF Fails
        <5> QED
          BY <3>0, <3>2, <4>1, <5>1, FailStep
      <4>2. CASE t = "event"
        <5>1. Divert("event", <<>>) /\ happened' = happened \cup {"stale"}
          BY <3>2, <4>2 DEF Fails
        <5> QED
          BY <3>0, <3>2, <4>2, <5>1, GiveUpStep
      <4> QED
        BY <1>a, <4>1, <4>2
    <3> QED
      BY <2>1, <3>1, <3>2 DEF Alloc, tables
  <2>2. ASSUME NEW t \in Threads, Register(t) PROVE Struct'
    <3>0. /\ todo[t] # <<>> /\ Now(t) = "register" /\ UNCHANGED <<stage, up>>
      <4>1. Step(t, "register") /\ UNCHANGED <<stage, up>>
        BY <2>2 DEF Register, Faulty
      <4> QED
        BY <2>s, <4>1
    <3>1. CASE /\ Alive(held[t]) /\ nif' = [nif EXCEPT ![held[t]].life = "registered"]
               /\ held' = IF t = "ctl" THEN held ELSE [held EXCEPT ![t] = Null]
               /\ Advance(t) /\ UNCHANGED <<iflist, if2bss, happened>>
      <4>1. Kind /\ \A o \in Ifs : nif'[o].life = nif[o].life \/ o = held[t]
        <5>1. \A o \in Ifs : o # held[t] => nif'[o] = nif[o]
          BY <1>n, <3>1
        <5>2. held[t] \in Ifs => /\ nif'[held[t]].life = "registered"
                                 /\ nif'[held[t]].bss = nif[held[t]].bss /\ nif'[held[t]].idx = nif[held[t]].idx
          BY <1>n, <3>1 DEF NifType
        <5>3. \A o \in Ifs : nif'[o].bss = nif[o].bss /\ nif'[o].idx = nif[o].idx
                             /\ (o = held[t] => nif'[o].life = "registered")
          BY <5>1, <5>2
        <5> QED
          BY <3>1, <5>1, <5>3 DEF Kind, Alive
      <4>2. held' = held \/ (Gives(t) /\ held' = [held EXCEPT ![t] = Null])
        <5>1. t = "event" => Now(t)' = "none"
          BY <1>a, <3>0, <3>1, Advanced
        <5> QED
          BY <1>a, <3>1, <5>1 DEF Gives
      <4> QED
        BY <1>2, <3>0, <3>1, <4>1, <4>2, PlainStep DEF tables
    <3>2. CASE /\ Alive(held[t]) /\ Fails(t)
               /\ iflist' = [iflist EXCEPT ![nif[held[t]].bss] = Null]
               /\ Divert(t, IF t = "ctl" THEN FailStarted ELSE <<>>)
               /\ nif' = (IF t = "ctl" THEN nif ELSE [nif EXCEPT ![held[t]] = Freed])
               /\ held' = (IF t = "ctl" THEN held ELSE [held EXCEPT ![t] = Null])
               /\ UNCHANGED if2bss
      <4>1. CASE t = "ctl"
        <5>1. Divert("ctl", FailStarted) /\ happened' = happened \cup ({"unstarted"} \cup Overlap)
          BY <3>2, <4>1 DEF Fails
        <5>2. FailStarted # Detach
          BY DetachList, FailStartedList DEF Do
        <5> QED
          BY <3>0, <3>2, <4>1, <5>1, <5>2, FailStep
      <4>2. CASE t = "event"
        <5>1. Divert("event", <<>>) /\ happened' = happened \cup {"stale"}
          BY <3>2, <4>2 DEF Fails
        <5> QED
          BY <3>0, <3>2, <4>2, <5>1, GiveUpStep
      <4> QED
        BY <1>a, <4>1, <4>2
    <3>3. CASE Faulty(t, held[t])
      BY <1>f, <3>3
    <3> QED
      BY <2>2, <3>1, <3>2, <3>3 DEF Register, tables, history
  <2>3. ASSUME NEW t \in Threads, Hold(t) PROVE Struct'
    BY <1>2, <2>3, HoldStep
  <2>4. ASSUME NEW t \in Threads, Quiet(t) PROVE Struct'
    <3>0. /\ todo[t] # <<>> /\ Now(t) = "quiet"
      BY <2>4, <2>s DEF Quiet
    <3>1. CASE Faulty(t, held[t])
      BY <1>f, <3>1
    <3>2. CASE /\ Advance(t) /\ UNCHANGED <<held, stage, up, iflist, if2bss, happened>>
               /\ nif' \in {[nif EXCEPT ![held[t]] = Block(@, "disconnected")], [nif EXCEPT ![held[t]].stopped = TRUE]}
      <4>1. Kin
        <5>1. CASE nif' = [nif EXCEPT ![held[t]] = Block(@, "disconnected")]
          BY <1>n, <5>1, BlockFields DEF Kin
        <5>2. CASE nif' = [nif EXCEPT ![held[t]].stopped = TRUE]
          BY <1>n, <5>2 DEF Kin, NifType
        <5> QED
          BY <3>2, <5>1, <5>2
      <4> QED
        BY <1>2, <1>k, <3>0, <3>2, <4>1, PlainStep DEF tables
    <3> QED
      BY <2>4, <3>1, <3>2 DEF Quiet, tables, history
  <2>5. ASSUME NEW t \in Threads, NetDetach(t) PROVE Struct'
    BY <1>2, <2>5, DetachStep
  <2>6. ASSUME NEW t \in Threads, Unlist(t) \/ Forget(t) PROVE Struct'
    BY <2>6, LeaveStep
  <2>7. ASSUME NEW op \in {"preinit", "notifiers"}, Started(op) PROVE Struct'
    <3>0. todo["ctl"] # <<>> /\ Now("ctl") = op /\ UNCHANGED <<up, iflist, if2bss, nif>>
      BY <2>7, <2>s DEF Started, tables
    <3>1. CASE /\ Advance("ctl")
               /\ held' = IF op = "notifiers" THEN [held EXCEPT !["ctl"] = Null] ELSE held
               /\ stage' = "attached" /\ UNCHANGED happened
      <4>1. op = "notifiers" => Gives("ctl")
        <5>1. op = "notifiers" => Now("ctl")' = "none"
          BY <1>a, <3>0, <3>1, Advanced
        <5>2. Now("ctl")' = "none" => ~Has(todo'["ctl"], "notifiers")
          <6>1. todo'["ctl"] \in Seq(StepType)
            BY <1>a, <3>0, <3>1, ArgTypes DEF Advance, ThreadTypes
          <6>2. todo'["ctl"] # <<>> => Now("ctl")' # "none"
            BY <6>1, Tails DEF Now, StepType, Ops
          <6> QED
            BY <6>2 DEF Has
        <5> QED
          BY <5>1, <5>2 DEF Gives
      <4> QED
        BY <1>2, <1>a, <1>k, <1>u, <3>0, <3>1, <4>1, PlainStep DEF tables
    <3>2. CASE /\ Fails("ctl") /\ Divert("ctl", FailStarted)
               /\ stage' \in {stage, "attached"} /\ UNCHANGED held
      <4>1. happened' = happened \cup ({"unstarted"} \cup Overlap)
        BY <3>2 DEF Fails
      <4>2. FailStarted # Detach
        BY DetachList, FailStartedList DEF Do
      <4> QED
        BY <3>0, <3>2, <4>1, <4>2, FailStep
    <3> QED
      BY <2>7, <3>1, <3>2 DEF Started
  <2>8. ASSUME NEW op \in {"up", "down"}, SetState(op) PROVE Struct'
    <3>1. /\ todo["ctl"] # <<>> /\ Now("ctl") = op /\ Advance("ctl") /\ up' = (op = "up")
          /\ UNCHANGED <<held, stage, iflist, if2bss, nif, happened>>
      BY <2>8, <2>s DEF SetState, tables, history
    <3>2. up' => ~Has(todo'["ctl"], "up")
      BY <1>a, <3>1, Advanced
    <3> QED
      BY <1>2, <1>a, <1>k, <1>u, <3>1, <3>2, PlainStep DEF tables
  <2>9. ASSUME Visit PROVE Struct'
    <3>0. todo["ctl"] # <<>> /\ Now("ctl") = "visit"
      BY <2>9, <2>s DEF Visit
    <3> DEFINE o == iflist[Arg("ctl").bss]
    <3>1. CASE Faulty("ctl", o)
      BY <1>f, <3>1
    <3>2. CASE /\ Advance("ctl") /\ UNCHANGED <<held, stage, up, iflist, if2bss, happened>>
               /\ nif' \in {nif, [nif EXCEPT ![o].stopped = FALSE]}
      <4>1. Kin
        <5>1. CASE nif' = nif
          BY <1>u, <5>1
        <5>2. CASE nif' = [nif EXCEPT ![o].stopped = FALSE]
          BY <1>n, <5>2 DEF Kin, NifType
        <5> QED
          BY <3>2, <5>1, <5>2
      <4> QED
        BY <1>2, <1>a, <1>k, <3>0, <3>2, <4>1, PlainStep DEF tables
    <3> QED
      BY <2>9, <3>1, <3>2 DEF Visit, tables
  <2>10. ASSUME Silence PROVE Struct'
    <3>1. /\ todo["ctl"] # <<>> /\ Now("ctl") = "silence" /\ Advance("ctl") /\ stage' = "gone"
          /\ UNCHANGED <<held, up, iflist, if2bss, nif, happened>>
      BY <2>10, <2>s DEF Silence, tables, history
    <3> QED
      BY <1>a, <1>k, <1>u, <3>1, PlainStep DEF tables
  <2> QED
    BY <1>2, <2>1, <2>2, <2>3, <2>4, <2>5, <2>6, <2>7, <2>8, <2>9, <2>10 DEF ThreadStep
<1>3. ASSUME fault' = NoFault, Work PROVE Struct'
  <2>1. ASSUME NEW b \in Bss, IfDeleted(b) \/ \E x \in Ifidx : IfAdded(b, x) PROVE Struct'
    BY <1>3, <2>1, EventStep
  <2>2. ASSUME NEW s \in {Detach, BusUp, <<Do("down", 0, 0)>>}, s = BusUp => ~up, Control(s) PROVE Struct'
    BY <2>2, ControlStep
  <2>3. (up /\ Control(<<Do("down", 0, 0)>>)) \/ (~up /\ Control(BusUp)) \/ Control(Detach) => Struct'
    <3>1. BusUp # Detach /\ BusUp # <<Do("down", 0, 0)>>
      <4>1. BusUp[1] = Do("up", 0, 0) /\ Detach[1] = Do("down", 0, 0)
        BY BusUpList, DetachList
      <4> QED
        BY <4>1 DEF Do
    <3> QED
      BY <2>2, <3>1
  <2> QED
    BY <1>3, <2>1, <2>3 DEF Work
<1>4. ASSUME Stack PROVE Struct'
  BY <1>4, StackFrame, StillStep
<1>5. ASSUME Next, fault' # NoFault PROVE Struct'
  <2>1. fault = NoFault
    BY <1>5 DEF Next
  <2>2. (\E who, o : Faulty(who, o)) \/ (Frame /\ Kin)
    <3>1. CASE ThreadStep
      <4>1. \E who, o : Faulty(who, o)
        BY <1>5, <2>1, <3>1 DEF ThreadStep, Alloc, Register, Hold, Quiet, NetDetach, Unlist, Forget, Started, SetState,
                                Visit, Silence
      <4> QED
        BY <4>1
    <3>2. CASE Work
      <4>1. UNCHANGED <<todo, held, stage, up, iflist, if2bss, nif>> /\ happened \subseteq happened'
        BY <1>5, <2>1, <3>2 DEF Work, IfAdded, IfDeleted, Control, tables
      <4> QED
        BY <1>u, <4>1 DEF Frame, tables
    <3>3. CASE Stack
      BY <3>3, StackFrame
    <3> QED
      BY <1>5, <3>1, <3>2, <3>3 DEF Next
  <2> QED
    BY <1>f, <2>2, StillStep
<1> QED
  BY <1>1, <1>2, <1>3, <1>4, <1>5 DEF Next
LEMMA StructInit ==
  Init => Struct
<1> SUFFICES ASSUME Init PROVE Struct
  OBVIOUS
<1>1. /\ todo["ctl"] = BusStarted /\ todo["event"] = <<>> /\ stage = "attaching" /\ ~up
      /\ happened = {} /\ \A t \in Threads : held[t] = Null
      /\ \A b \in Bss : iflist[b] = Null
      /\ \A x \in Ifidx : if2bss[x] = Invalid
  BY DEF Init, Threads
<1>2. \A o \in Ifs : ~Alive(o)
  BY DEF Init, Freed, Blank, Alive
<1>3. /\ BusStarted \in Seq(StepType) /\ BusStarted # <<>> /\ Chained(BusStarted) /\ Rear(BusStarted)
      /\ CtlList(BusStarted)
      /\ BusStarted[1] = Do("alloc", 0, 0) /\ ~Has(BusStarted, "silence")
      /\ Head(BusStarted) = BusStarted[1]
  BY BusStartedList, Tails
<1>4. ~Has(BusStarted, "unlist")
  <2> SUFFICES ASSUME NEW i \in 1 .. Len(BusStarted), BusStarted[i].op = "unlist" PROVE FALSE
    BY DEF Has
  <2>1. Len(BusStarted) \in 1 .. Len(BusStarted)
    <3>1. Len(BusStarted) \in Nat \ {0}
      BY <1>3, Tails
    <3> QED
      BY <3>1
  <2>2. BusStarted[Len(BusStarted)].op = "silence"
    BY <1>3 DEF CtlList, DeleteOps
  <2> QED
    BY <1>3, <2>1, <2>2 DEF Has
<1>5. /\ Now("ctl") = "alloc" /\ Now("event") = "none" /\ \A op : ~Has(todo["event"], op)
      /\ \A c, x : ~Adds(c, x)
  BY <1>1, <1>3 DEF Now, Has, Do, Adds
<1>6. Lists
  BY <1>1, <1>3 DEF Lists, Threads, Chained, Rear, EventList
<1>7. Turns
  BY <1>1, <1>2, <1>3, <1>4, <1>5 DEF Turns
<1>8. InHand /\ Listing /\ Places
  BY <1>1, <1>2, <1>5 DEF InHand, Listing, Places, Threads
<1>9. Indices
  BY <1>1, <1>2, <1>5 DEF Indices
<1>10. Kept
  BY <1>1, <1>2, <1>3, <1>5 DEF Kept, Threads
<1>11. Mapped
  BY <1>1, <1>5 DEF Mapped
<1> QED
  BY <1>6, <1>7, <1>8, <1>9, <1>10, <1>11 DEF Struct

\* The step lists, what the threads have in hand and the two tables stay as described.
THEOREM StructHolds == Spec => []Struct
<1>1. Init => Struct
  BY StructInit
<1>2. TypeOK /\ Struct /\ [Next]_vars => Struct'
  BY StructStep
<1> QED
  BY <1>1, <1>2, NetdevTypes, PTL DEF Spec

-----------------------------------------------------------------------------
(***************************************************************************)
(* What follows for the tables, for detach and for freed interfaces.       *)
(***************************************************************************)
\* Until an add fails or goes over a live interface, the two tables of core.c agree.
THEOREM TablesAgree == Spec => []MapAgrees
<1>1. TypeOK /\ Struct => MapAgrees
  <2> SUFFICES ASSUME TypeOK, Struct, happened = {}
      PROVE  /\ \A x \in Ifidx : if2bss[x] # Invalid => GetIfp(x) # Null /\ nif[GetIfp(x)].idx = x
             /\ \A b \in Bss : iflist[b] # Null => GetIfp(nif[iflist[b]].idx) = iflist[b]
    BY DEF MapAgrees
  <2>1. \A b \in Bss : b # Invalid
    BY Numbers
  <2> QED
    BY <2>1 DEF Struct, Mapped, GetIfp
<1> QED
  BY <1>1, NetdevTypes, StructHolds, PTL

\* brcmf_detach leaves no interface behind, if the start did not fail and the event
\* worker was idle.
THEOREM DetachIsThorough == Spec => []DetachFreesAll
<1>1. Struct => DetachFreesAll
  BY DEF Struct, Kept, Smooth, DetachFreesAll
<1> QED
  BY <1>1, StructHolds, PTL

\* A freed interface is met only while its thread is taking it from the list, and by
\* the event worker only if detach did not wait for it.
LEMMA FaultStep ==
  TypeOK /\ Struct /\ FaultInv /\ [Next]_vars => FaultInv'
<1> SUFFICES ASSUME TypeOK, Struct, FaultInv, [Next]_vars, fault' # NoFault
             PROVE  Quarrel' \/ (fault'.who # "event" /\ \E t \in Threads : Deleting(t, fault.nif)')
  BY DEF FaultInv
<1>a. /\ \A u : u \in Threads <=> u = "ctl" \/ u = "event"
      /\ "ctl" \in Threads /\ "event" \in Threads
      /\ Now("ctl") \in DeleteOps /\ Now("event") # "none" => Quarrel
      /\ \A t \in Threads : todo[t] # <<>> <=> Now(t) # "none"
      /\ ThreadTypes /\ Lists
  BY Alone DEF TypeOK, Struct
<1>s. \A t, op : Step(t, op) => Now(t) = op
  BY DEF Step, Now
<1>l. ASSUME NEW b \in Bss, iflist[b] # Null, ~Alive(iflist[b])
      PROVE  \E t \in Threads : Deleting(t, iflist[b]) /\ Now(t) \in {"unlist", "forget"}
  <2>1. PICK t \in Threads : held[t] = iflist[b] /\ Now(t) \in {"unlist", "forget"}
    BY <1>l DEF Struct, Listing
  <2>2. todo[t] # <<>> /\ Head(todo[t]).op = Now(t)
    BY <1>a, <2>1 DEF Now
  <2> QED
    BY <2>1, <2>2 DEF Deleting
<1>1. CASE UNCHANGED vars
  <2>1. fault' = fault /\ todo' = todo /\ held' = held /\ happened' = happened
    BY <1>1 DEF vars, history
  <2> QED
    BY <2>1 DEF FaultInv, Deleting, Quarrel
<1>f. ASSUME NEW who, NEW o, Faulty(who, o)
      PROVE  /\ fault'.who = who /\ fault'.nif = o /\ (Quarrel' <=> Quarrel)
             /\ \A t : Deleting(t, o) => Deleting(t, fault.nif)'
  BY <1>f DEF Faulty, Quarrel, history, Deleting
<1>2. CASE Next
  <2>0. fault = NoFault
    BY <1>2 DEF Next
  <2>1. ASSUME NEW t \in Threads, Register(t) PROVE Quarrel'
    <3>1. Faulty(t, held[t]) /\ ~Alive(held[t]) /\ Now(t) = "register"
      BY <1>s, <2>0, <2>1 DEF Register
    <3>2. t = "ctl" => Has(todo["ctl"], "notifiers") /\ Now("ctl") # "alloc"
      BY <1>a, <3>1, Here
    <3> QED
      BY <1>a, <1>f, <3>1, <3>2 DEF Struct, InHand
  <2>2. ASSUME NEW t \in Threads, Hold(t) PROVE Quarrel'
    <3> DEFINE b == Arg(t).bss
    <3>1. Faulty(t, iflist[b]) /\ iflist[b] # Null /\ ~Alive(iflist[b]) /\ Now(t) = "hold"
      BY <1>s, <2>0, <2>2 DEF Hold
    <3>2. b \in Bss
      BY <1>a, <3>1, Here
    <3>3. \E u \in Threads : Now(u) \in {"unlist", "forget"} /\ u # t
      BY <1>l, <3>1, <3>2
    <3>4. Quarrel
      BY <1>a, <3>1, <3>3 DEF DeleteOps
    <3> QED
      BY <1>f, <3>1, <3>4
  <2>3. ASSUME NEW t \in Threads, Quiet(t) \/ NetDetach(t) PROVE Quarrel'
    <3>1. Faulty(t, held[t]) /\ ~Alive(held[t]) /\ Now(t) \in {"quiet", "detach"}
      BY <1>s, <2>0, <2>3 DEF Quiet, NetDetach
    <3> QED
      BY <1>f, <3>1 DEF Struct, InHand
  <2>4. ASSUME Visit PROVE fault'.who # "event" /\ \E t \in Threads : Deleting(t, fault.nif)'
    <3> DEFINE b == Arg("ctl").bss
    <3>1. Faulty("ctl", iflist[b]) /\ iflist[b] # Null /\ ~Alive(iflist[b]) /\ Now("ctl") = "visit"
      BY <1>s, <2>0, <2>4 DEF Visit
    <3>2. b \in Bss
      BY <1>a, <3>1, Here
    <3> QED
      BY <1>f, <1>l, <3>1, <3>2
  <2>5. ASSUME NEW b \in Bss, NEW x \in Ifidx, IfAdded(b, x) PROVE Quarrel'
    <3>1. /\ iflist[b] # Null /\ ~Alive(iflist[b]) /\ Now("event") = "none"
          /\ Leaving => Quarrel'
      BY <1>a, <2>0, <2>5 DEF IfAdded, Quarrel
    <3>2. Now("ctl") \in DeleteOps
      BY <1>a, <1>l, <3>1 DEF DeleteOps
    <3>3. Has(todo["ctl"], "silence") /\ todo["ctl"] \in Seq(StepType)
      BY <1>a, <3>2, Here DEF ThreadTypes
    <3> QED
      BY <3>1, <3>3 DEF Has, Leaving
  <2>6. ASSUME NEW x \in Ifidx, Complete(x)
        PROVE  fault'.who # "event" /\ \E t \in Threads : Deleting(t, fault.nif)'
    <3>1. Faulty("completion", GetIfp(x)) /\ GetIfp(x) # Null /\ ~Alive(GetIfp(x))
      BY <2>0, <2>6 DEF Complete
    <3>2. if2bss[x] \in Bss /\ GetIfp(x) = iflist[if2bss[x]]
      BY <3>1 DEF GetIfp, TypeOK, TableTypes
    <3> QED
      BY <1>f, <1>l, <3>1, <3>2
  <2>7. CASE ThreadStep
    <3>1. \/ \E t \in Threads : Register(t) \/ Hold(t) \/ Quiet(t) \/ NetDetach(t)
          \/ Visit
      BY <2>0, <2>7 DEF ThreadStep, Alloc, Unlist, Forget, Started, SetState, Silence
    <3> QED
      BY <2>1, <2>2, <2>3, <2>4, <3>1
  <2>8. CASE Work
    BY <2>0, <2>5, <2>8 DEF Work, IfDeleted, Control
  <2>9. CASE Stack
    <3>1. \E x \in Ifidx : Complete(x)
      BY <2>0, <2>9 DEF Stack, Open, Stop, StartXmit, StopQueue, QueueData, WaitBegin, TxFlowBlock, WaitDone, WaitReset
    <3> QED
      BY <2>6, <3>1
  <2> QED
    BY <1>2, <2>7, <2>8, <2>9 DEF Next
<1> QED
  BY <1>1, <1>2

\* Every use of a freed interface has one of the two causes FaultsHaveCause names.
THEOREM EveryFaultHasItsCause == Spec => []FaultsHaveCause
<1>1. Init => FaultInv
  BY DEF Init, FaultInv
<1>2. TypeOK /\ Struct /\ FaultInv /\ [Next]_vars => FaultInv'
  BY FaultStep
<1>3. TypeOK /\ Struct /\ FaultInv => FaultsHaveCause
  <2> SUFFICES ASSUME TypeOK, Struct, FaultInv PROVE FaultsHaveCause
    OBVIOUS
  <2>1. ASSUME NEW b \in Bss, iflist[b] # Null, ~Alive(iflist[b])
        PROVE  \E t \in Threads : Deleting(t, iflist[b])
    <3>1. PICK t \in Threads : held[t] = iflist[b] /\ Now(t) \in {"unlist", "forget"}
      BY <2>1 DEF Struct, Listing
    <3>2. todo[t] # <<>> /\ Head(todo[t]).op = Now(t)
      BY <3>1 DEF Now
    <3> QED
      BY <3>1, <3>2 DEF Deleting
  <2> QED
    BY <2>1 DEF FaultInv, FaultsHaveCause, Quarrel
<1> QED
  BY <1>1, <1>2, <1>3, NetdevTypes, StructHolds, PTL DEF Spec

-----------------------------------------------------------------------------
(***************************************************************************)
(* Waking.                                                                 *)
(***************************************************************************)
\* What a step of a thread leaves of the visits and the deletions.
LEMMA Resting ==
  ASSUME TypeOK, Struct, NEW t \in Threads, todo[t] # <<>>, \A u \in Threads \ {t} : held'[u] = held[u],
         Advance(t) \/ (Now(t) = "hold" /\ Divert(t, SubSeq(todo[t], Len(DelIf(0)) + 1, Len(todo[t]))))
  PROVE  /\ \A b : Pending("visit", b) => Pending("visit", b)' \/ (t = "ctl" /\ Now(t) = "visit" /\ Arg(t).bss = b)
         /\ Now(t) \notin {"quiet", "detach"} =>
              \A u \in Threads : Now(u) \in {"quiet", "detach"} => held'[u] = held[u] /\ Now(u)' = Now(u)
         /\ Now(t) = "quiet" => Now(t)' = "detach"
         /\ \A u \in Threads \ {t} : Now(u)' = Now(u)
<1>1. CASE Advance(t)
  BY <1>1, Advanced, AdvancedRest DEF TypeOK, Struct
<1>2. CASE Now(t) = "hold" /\ Divert(t, SubSeq(todo[t], Len(DelIf(0)) + 1, Len(todo[t])))
  BY <1>2, Skipped DEF TypeOK, Struct
<1> QED
  BY <1>1, <1>2

\* On a bus that is up, a queue nobody stops is about to be visited or deleted.
LEMMA WakeStep ==
  TypeOK /\ Struct /\ Waking /\ [Next]_vars => Waking'
<1> SUFFICES ASSUME TypeOK, Struct, Waking, [Next]_vars, NEW b \in Bss,
                    iflist'[b] # Null, iflist'[b] \notin late', up', Alive(iflist[b])',
                    nif'[iflist'[b]].stops = {}, nif'[iflist'[b]].stopped
             PROVE  \/ \E t \in Threads : held'[t] = iflist'[b] /\ Now(t)' \in {"quiet", "detach"}
                    \/ Pending("visit", b)'
  BY DEF Waking
<1> DEFINE o == iflist[b]
           Goal == \/ \E t \in Threads : held'[t] = iflist'[b] /\ Now(t)' \in {"quiet", "detach"}
                   \/ Pending("visit", b)'
<1>n. nif \in [Ifs -> NifType] /\ \A p \in Ifs : nif[p] \in NifType
  BY DEF TypeOK
<1>a. /\ \A u : u \in Threads <=> u = "ctl" \/ u = "event"
      /\ "ctl" \in Threads /\ "event" \in Threads
      /\ \A c \in Bss : iflist[c] # Null => iflist[c] \in Ifs
      /\ ThreadTypes /\ Lists /\ Null \notin Ifs
  BY Alone, Numbers DEF TypeOK, Struct
\* the same queue as before, with everybody who would wake it
<1>k. ASSUME iflist'[b] = o, up, Alive(o), nif[o].stops = {}, nif[o].stopped, o \notin late,
             \A t \in Threads : held[t] = o /\ Now(t) \in {"quiet", "detach"} =>
                                held'[t] = o /\ Now(t)' \in {"quiet", "detach"},
             Pending("visit", b) => Pending("visit", b)'
      PROVE  Goal
  <2>1. o # Null
    BY <1>k
  <2>2. \/ \E t \in Threads : held[t] = o /\ Now(t) \in {"quiet", "detach"}
        \/ Pending("visit", b)
    BY <1>k, <2>1 DEF Waking
  <2> QED
    BY <1>k, <2>2, Zenon
<1>m. ASSUME iflist' = iflist, nif' = nif, late' = late, up' => up,
             \A t \in Threads : Now(t) \in {"quiet", "detach"} => held'[t] = held[t] /\ Now(t)' = Now(t),
             Pending("visit", b) => Pending("visit", b)'
      PROVE  Goal
  <2>1. Alive(o)
    BY <1>m DEF Alive
  <2> QED
    BY <1>k, <1>m, <2>1
<1>w. \A t, op : Step(t, op) => todo[t] # <<>> /\ Now(t) = op
  BY DEF Step, Now
<1>f. ASSUME NEW who, NEW p, Faulty(who, p) PROVE Goal
  <2>1. UNCHANGED <<todo, held, iflist, nif, late, up>>
    BY <1>f DEF Faulty, tables, history
  <2> QED
    BY <1>m, <2>1, Unmoved
<1>1. CASE UNCHANGED vars
  <2>1. UNCHANGED <<todo, held, iflist, nif, late, up>>
    BY <1>1 DEF vars, tables, history
  <2> QED
    BY <1>m, <2>1, Unmoved
<1>2. ASSUME ThreadStep PROVE Goal
  <2>1. ASSUME NEW t \in Threads, Alloc(t) PROVE Goal
    <3>0. Now(t) = "alloc" /\ todo[t] # <<>> /\ up' = up
      BY <1>w, <2>1 DEF Alloc
    <3>1. ASSUME NEW q \in Ifs, Unused(q), nif' = [nif EXCEPT ![q] = Blank("made", Arg(t).bss, Arg(t).idx)],
                 iflist' = [iflist EXCEPT ![Arg(t).bss] = q], held' = [held EXCEPT ![t] = q],
                 late' = late \ {q}, Advance(t)
          PROVE  Goal
      <4>1. iflist'[b] # q
        <5>1. ~nif'[q].stopped
          BY <1>n, <3>1 DEF Blank
        <5> QED
          BY <5>1
      <4>2. iflist'[b] = o /\ nif'[o] = nif[o] /\ \A u \in Threads \ {t} : held'[u] = held[u]
        BY <1>a, <1>n, <3>1, <4>1 DEF TypeOK, TableTypes, ThreadTypes
      <4>3. Alive(o) /\ o \notin late
        BY <3>1, <4>1, <4>2 DEF Alive
      <4> QED
        BY <1>k, <3>0, <3>1, <4>2, <4>3, Resting
    <3>2. ASSUME UNCHANGED <<held, iflist, nif, late>>, Divert(t, IF t = "ctl" THEN Detach ELSE <<>>) PROVE Goal
      <4>1. CASE t = "ctl"
        BY <3>0, <3>2, <4>1 DEF Struct, Turns
      <4>2. CASE t = "event"
        <5>1. todo'["ctl"] = todo["ctl"]
          BY <1>a, <3>2, <4>2 DEF Divert, ThreadTypes
        <5>2. (Pending("visit", b)' <=> Pending("visit", b)) /\ Now("ctl")' = Now("ctl")
          BY <5>1 DEF Pending, Now
        <5> QED
          BY <1>a, <1>m, <3>0, <3>2, <4>2, <5>2
      <4> QED
        BY <1>a, <4>1, <4>2
    <3> QED
      BY <2>1, <3>1, <3>2 DEF Alloc, tables
  <2>2. ASSUME NEW t \in Threads, Register(t) PROVE Goal
    <3> DEFINE d == held[t]
    <3>0. Now(t) = "register" /\ todo[t] # <<>> /\ up' = up /\ late' = late
      <4>1. Step(t, "register") /\ up' = up /\ late' = late
        BY <2>2 DEF Register, Faulty, history
      <4> QED
        BY <1>w, <4>1
    <3>1. ASSUME Alive(d), nif' = [nif EXCEPT ![d].life = "registered"], Advance(t), UNCHANGED iflist,
                 held' = IF t = "ctl" THEN held ELSE [held EXCEPT ![t] = Null]
          PROVE  Goal
      <4>1. \A p \in Ifs : nif'[p].stops = nif[p].stops /\ nif'[p].stopped = nif[p].stopped
                           /\ (Alive(p)' => Alive(p))
        <5>1. \A p \in Ifs : p # d => nif'[p] = nif[p]
          BY <1>n, <3>1
        <5>2. d \in Ifs => nif'[d].stops = nif[d].stops /\ nif'[d].stopped = nif[d].stopped
          BY <1>n, <3>1 DEF NifType
        <5> QED
          BY <3>1, <5>1, <5>2 DEF Alive
      <4>2. \A u \in Threads \ {t} : held'[u] = held[u]
        BY <1>a, <3>1 DEF ThreadTypes
      <4> QED
        BY <1>a, <1>k, <3>0, <3>1, <4>1, <4>2, Resting
    <3>2. ASSUME iflist' = [iflist EXCEPT ![nif[d].bss] = Null],
                 Divert(t, IF t = "ctl" THEN FailStarted ELSE <<>>),
                 nif' = IF t = "ctl" THEN nif ELSE [nif EXCEPT ![d] = Freed],
                 held' = IF t = "ctl" THEN held ELSE [held EXCEPT ![t] = Null]
          PROVE  Goal
      <4>1. iflist'[b] = o /\ o \in Ifs
        BY <1>a, <3>2 DEF TypeOK, TableTypes
      <4>2. nif'[o] = nif[o]
        <5>1. nif'[o].life # "freed"
          BY <4>1 DEF Alive
        <5>2. t = "event" => o # d
          BY <1>n, <3>2, <4>1, <5>1 DEF Freed, Blank
        <5> QED
          BY <1>a, <1>n, <3>2, <4>1, <5>2
      <4>3. Alive(o)
        BY <4>1, <4>2 DEF Alive
      <4>4. \A u \in Threads \ {t} : held'[u] = held[u] /\ Now(u)' = Now(u)
        BY <1>a, <3>2 DEF Divert, ThreadTypes, Now
      <4>5. Pending("visit", b) => Pending("visit", b)'
        <5>1. CASE t = "ctl"
          BY <1>a, <3>0, <5>1, Here
        <5>2. CASE t = "event"
          <6>1. todo'["ctl"] = todo["ctl"]
            BY <1>a, <3>2, <5>2 DEF Divert, ThreadTypes
          <6> QED
            BY <6>1 DEF Pending
        <5> QED
          BY <1>a, <5>1, <5>2
      <4> QED
        BY <1>k, <3>0, <4>1, <4>2, <4>3, <4>4, <4>5
    <3> QED
      BY <1>f, <2>2, <3>1, <3>2 DEF Register, tables
  <2>3. ASSUME NEW t \in Threads, Hold(t) PROVE Goal
    <3>0. Now(t) = "hold" /\ todo[t] # <<>>
      BY <1>w, <2>3 DEF Hold
    <3>1. CASE Faulty(t, iflist[Arg(t).bss])
      BY <1>f, <3>1
    <3>2. CASE /\ UNCHANGED <<up, iflist, nif, late>>
               /\ held' = held \/ held' = [held EXCEPT ![t] = iflist[Arg(t).bss]]
               /\ Advance(t) \/ Divert(t, SubSeq(todo[t], Len(DelIf(0)) + 1, Len(todo[t])))
      <4>1. \A u \in Threads \ {t} : held'[u] = held[u]
        BY <1>a, <3>2 DEF ThreadTypes
      <4> QED
        BY <1>m, <3>0, <3>2, <4>1, Resting
    <3> QED
      BY <2>3, <3>1, <3>2 DEF Hold, tables, history
  <2>4. ASSUME NEW t \in Threads, Quiet(t) PROVE Goal
    <3> DEFINE d == held[t]
    <3>0. Now(t) = "quiet" /\ todo[t] # <<>>
      BY <1>w, <2>4 DEF Quiet
    <3>1. CASE Faulty(t, d)
      BY <1>f, <3>1
    <3>2. CASE /\ Advance(t) /\ UNCHANGED <<held, up, iflist, late>>
               /\ nif' \in {[nif EXCEPT ![d] = Block(@, "disconnected")], [nif EXCEPT ![d].stopped = TRUE]}
      <4>1. CASE o = d
        BY <3>0, <3>2, <4>1, Resting
      <4>2. CASE o # d
        <5>1. nif'[o] = nif[o]
          BY <1>a, <1>n, <3>2, <4>2
        <5>2. Alive(o)
          BY <3>2, <5>1 DEF Alive
        <5>3. \A u \in Threads : held[u] = o /\ Now(u) \in {"quiet", "detach"} => Now(u)' \in {"quiet", "detach"}
          BY <3>0, <3>2, <4>2, Resting
        <5> QED
          BY <1>k, <3>0, <3>2, <5>1, <5>2, <5>3, Resting
      <4> QED
        BY <4>1, <4>2
    <3> QED
      BY <2>4, <3>1, <3>2 DEF Quiet, tables, history
  <2>5. ASSUME NEW t \in Threads, NetDetach(t) PROVE Goal
    <3> DEFINE d == held[t]
    <3>0. Now(t) = "detach" /\ todo[t] # <<>>
      BY <1>w, <2>5 DEF NetDetach
    <3>1. CASE Faulty(t, d)
      BY <1>f, <3>1
    <3>2. CASE /\ Advance(t) /\ UNCHANGED <<held, up, iflist>> /\ late' = late \ {d}
               /\ nif' = [nif EXCEPT ![d] = Blank("freed", 0, @.idx)]
      <4>1. o # d
        <5>1. o \in Ifs /\ nif'[o].life # "freed"
          BY <1>a, <3>2 DEF Alive
        <5>2. d \in Ifs => nif'[d].life = "freed"
          BY <1>n, <3>2 DEF Blank
        <5> QED
          BY <5>1, <5>2
      <4>2. nif'[o] = nif[o]
        BY <1>a, <1>n, <3>2, <4>1
      <4>3. Alive(o) /\ o \notin late
        BY <3>2, <4>1, <4>2 DEF Alive
      <4>4. \A u \in Threads : held[u] = o /\ Now(u) \in {"quiet", "detach"} => Now(u)' \in {"quiet", "detach"}
        BY <3>0, <3>2, <4>1, Resting
      <4> QED
        BY <1>k, <3>0, <3>2, <4>2, <4>3, <4>4, Resting
    <3> QED
      BY <2>5, <3>1, <3>2 DEF NetDetach, tables
  <2>6. ASSUME NEW t \in Threads, Unlist(t) \/ Forget(t) PROVE Goal
    <3> DEFINE d == held[t]
    <3>0. Now(t) \in {"unlist", "forget"} /\ todo[t] # <<>>
      BY <1>w, <2>6 DEF Unlist, Forget
    <3>1. /\ Advance(t) /\ UNCHANGED <<up, late>> /\ iflist' = [iflist EXCEPT ![Arg(t).bss] = Null]
          /\ nif' = nif \/ nif' = [nif EXCEPT ![d] = Freed]
          /\ held' = held \/ held' = [held EXCEPT ![t] = Null]
      BY <2>6 DEF Unlist, Forget, history
    <3>2. iflist'[b] = o /\ o \in Ifs
      BY <1>a, <3>1 DEF TypeOK, TableTypes
    <3>3. nif'[o] = nif[o]
      <4>1. nif' = [nif EXCEPT ![d] = Freed] => o # d
        BY <1>n, <3>2 DEF Freed, Blank, Alive
      <4> QED
        BY <1>n, <3>1, <3>2, <4>1
    <3>4. Alive(o)
      BY <3>2, <3>3 DEF Alive
    <3>5. \A u \in Threads \ {t} : held'[u] = held[u]
      BY <1>a, <3>1 DEF ThreadTypes
    <3> QED
      BY <1>k, <3>0, <3>1, <3>2, <3>3, <3>4, <3>5, Resting
  <2>7. ASSUME NEW op \in {"preinit", "notifiers"}, Started(op) PROVE Goal
    <3>0. Now("ctl") \in {"preinit", "notifiers"} /\ todo["ctl"] # <<>> /\ UNCHANGED <<up, iflist, nif, late>>
      BY <1>w, <2>7 DEF Started, tables
    <3>1. CASE Advance("ctl") /\ held' = IF op = "notifiers" THEN [held EXCEPT !["ctl"] = Null] ELSE held
      <4>1. \A u \in Threads \ {"ctl"} : held'[u] = held[u]
        BY <1>a, <3>1 DEF ThreadTypes
      <4> QED
        BY <1>a, <1>m, <3>0, <3>1, <4>1, Resting
    <3>2. CASE Divert("ctl", FailStarted) /\ UNCHANGED held
      <4>1. ~Pending("visit", b)
        BY <1>a, <3>0, Here
      <4>2. \A u \in Threads \ {"ctl"} : Now(u)' = Now(u)
        BY <1>a, <3>2 DEF Divert, ThreadTypes, Now
      <4> QED
        BY <1>a, <1>m, <3>0, <3>2, <4>1, <4>2
    <3> QED
      BY <2>7, <3>1, <3>2 DEF Started
  <2>8. ASSUME NEW op \in {"up", "down"}, SetState(op) PROVE Goal
    <3>1. /\ Now("ctl") = op /\ todo["ctl"] # <<>> /\ Advance("ctl") /\ up' = (op = "up")
          /\ UNCHANGED <<held, iflist, nif, late>>
      BY <1>w, <2>8 DEF SetState, tables, history
    <3>2. op = "up"
      BY <3>1
    <3>3. Pending("visit", b)
      BY <1>a, <3>1, <3>2, Here
    <3> QED
      BY <1>a, <3>1, <3>2, <3>3, Resting
  <2>9. ASSUME Visit PROVE Goal
    <3> DEFINE c == Arg("ctl").bss
               v == iflist[c]
    <3>0. Now("ctl") = "visit" /\ todo["ctl"] # <<>> /\ c \in Bss
      BY <1>a, <1>w, <2>9, Here DEF Visit
    <3>1. CASE Faulty("ctl", v)
      BY <1>f, <3>1
    <3>2. ASSUME Advance("ctl"), UNCHANGED <<held, up, iflist>>,
                 IF v # Null /\ nif[v].stopped
                   THEN nif' = [nif EXCEPT ![v].stopped = FALSE] /\ late' = late \ {v}
                   ELSE UNCHANGED <<nif, late>>
          PROVE  Goal
      <4>1. CASE c = b
        <5>1. v \in Ifs /\ v = o
          BY <1>a, <3>2, <4>1
        <5>2. ~nif'[o].stopped
          <6>1. CASE nif[v].stopped
            <7>1. nif' = [nif EXCEPT ![v].stopped = FALSE]
              BY <1>a, <3>2, <5>1, <6>1
            <7> QED
              BY <1>n, <5>1, <7>1 DEF NifType
          <6>2. CASE ~nif[v].stopped
            BY <3>2, <5>1, <6>2
          <6> QED
            BY <6>1, <6>2
        <5> QED
          BY <3>2, <5>2
      <4>2. CASE c # b
        <5>1. v # o
          BY <3>0, <3>2, <4>2 DEF Struct, Listing
        <5>2. nif'[o] = nif[o] /\ (o \in late => o \in late')
          BY <1>a, <1>n, <3>2, <5>1
        <5>3. Alive(o)
          BY <3>2, <5>2 DEF Alive
        <5> QED
          BY <1>a, <1>k, <3>0, <3>2, <4>2, <5>2, <5>3, Resting
      <4> QED
        BY <4>1, <4>2
    <3> QED
      BY <2>9, <3>1, <3>2 DEF Visit, tables
  <2>10. ASSUME Silence PROVE Goal
    <3>1. /\ Now("ctl") = "silence" /\ todo["ctl"] # <<>> /\ Advance("ctl")
          /\ UNCHANGED <<held, up, iflist, nif, late>>
      BY <1>w, <2>10 DEF Silence, tables, history
    <3> QED
      BY <1>a, <1>m, <3>1, Resting
  <2> QED
    BY <1>2, <2>1, <2>2, <2>3, <2>4, <2>5, <2>6, <2>7, <2>8, <2>9, <2>10 DEF ThreadStep
<1>3. ASSUME Work PROVE Goal
  <2>1. ASSUME NEW t \in Threads, NEW s, NEW q, Now(t) = "none", Divert(t, s), held' = [held EXCEPT ![t] = q],
               UNCHANGED <<up, iflist, nif, late>>
        PROVE  Goal
    <3>1. \A u \in Threads \ {t} : held'[u] = held[u] /\ Now(u)' = Now(u) /\ todo'[u] = todo[u]
      BY <1>a, <2>1 DEF Divert, ThreadTypes, Now
    <3>2. Pending("visit", b) => Pending("visit", b)'
      <4>1. CASE t = "ctl"
        BY <1>a, <2>1, <4>1, Here
      <4>2. CASE t = "event"
        BY <1>a, <3>1, <4>2 DEF Pending
      <4> QED
        BY <1>a, <4>1, <4>2
    <3> QED
      BY <1>m, <2>1, <3>1, <3>2
  <2>2. ASSUME NEW c \in Bss, IfDeleted(c) PROVE Goal
    <3>1. Now("event") = "none"
      BY <2>2 DEF IfDeleted, Now
    <3> QED
      BY <1>a, <2>1, <2>2, <3>1 DEF IfDeleted, Begin, tables
  <2>3. ASSUME NEW c \in Bss, NEW x \in Ifidx, IfAdded(c, x) PROVE Goal
    <3>1. Now("event") = "none" /\ UNCHANGED <<up, iflist, nif, late>>
      BY <2>3 DEF IfAdded, Now, tables
    <3>2. UNCHANGED <<todo, held>> \/ \E s, q : Divert("event", s) /\ held' = [held EXCEPT !["event"] = q]
      BY <2>3 DEF IfAdded, Begin
    <3>3. UNCHANGED <<todo, held>> => Goal
      BY <1>m, <3>1, Unmoved
    <3> QED
      BY <1>a, <2>1, <3>1, <3>2, <3>3
  <2>4. ASSUME NEW s, Control(s) PROVE Goal
    <3>1. Now("ctl") = "none"
      BY <2>4 DEF Control, Now
    <3> QED
      BY <1>a, <2>1, <2>4, <3>1 DEF Control, Begin, tables
  <2> QED
    BY <1>3, <2>2, <2>3, <2>4 DEF Work
<1>4. ASSUME Stack PROVE Goal
  <2>0. Frame /\ Kin
    BY <1>4, StackFrame
  <2>a. /\ iflist' = iflist /\ up' = up /\ o \in Ifs /\ Alive(o)
        /\ \A t \in Threads : held'[t] = held[t] /\ Now(t)' = Now(t)
        /\ Pending("visit", b) => Pending("visit", b)'
    BY <1>a, <2>0, Unmoved DEF Frame, tables, Kin, Alive
  <2>k. ASSUME nif[o].stops = {}, nif[o].stopped, o \notin late PROVE Goal
    BY <1>k, <2>a, <2>k
  <2>m. ASSUME nif'[o].stops = nif[o].stops, nif'[o].stopped = nif[o].stopped, late' = late PROVE Goal
    BY <2>a, <2>k, <2>m
  <2>s. ASSUME NEW p, NEW n, nif' = [nif EXCEPT ![p] = n], late' = late,
               p \in Ifs => n.stops = nif[p].stops /\ n.stopped = nif[p].stopped
        PROVE  Goal
    BY <1>n, <2>a, <2>m, <2>s
  <2>1. ASSUME NEW p \in Ifs, Open(p) PROVE Goal
    <3>1. PICK ok \in BOOLEAN : nif' = [nif EXCEPT ![p].pend = 0, ![p].open = ok]
      BY <2>1 DEF Open
    <3>2. nif'[o].stops = nif[o].stops /\ nif'[o].stopped = nif[o].stopped /\ late' = late
      BY <1>n, <2>1, <2>a, <3>1 DEF NifType, Open
    <3> QED
      BY <2>m, <3>2
  <2>2. ASSUME NEW p \in Ifs, Stop(p) PROVE Goal
    <3>1. nif' = [nif EXCEPT ![p] = [Block(nif[p], "disconnected") EXCEPT !.open = FALSE]] /\ late' = late
      BY <2>2 DEF Stop, history
    <3>2. CASE p = o
      <4> DEFINE k == Block(nif[p], "disconnected")
      <4>1. k \in NifType /\ k.stops = nif[p].stops \cup {"disconnected"}
        BY <1>n, BlockType, BlockFields DEF Reasons
      <4>2. nif'[p] = [k EXCEPT !.open = FALSE]
        BY <1>n, <3>1
      <4> HIDE DEF k
      <4>3. nif'[p].stops = k.stops
        BY <4>1, <4>2 DEF NifType
      <4> QED
        BY <2>a, <3>2, <4>1, <4>3
    <3>3. CASE p # o
      BY <1>n, <2>a, <2>m, <3>1, <3>3
    <3> QED
      BY <3>2, <3>3
  <2>3. ASSUME NEW p \in Ifs, StartXmit(p) PROVE Goal
    <3>1. /\ late' = late
          /\ nif' = nif \/ nif' = [nif EXCEPT ![p].pend = @ + 1]
      BY <2>3 DEF StartXmit, history
    <3>2. nif'[o].stops = nif[o].stops /\ nif'[o].stopped = nif[o].stopped
      BY <1>n, <2>a, <3>1 DEF NifType
    <3> QED
      BY <2>m, <3>1, <3>2
  <2>4. ASSUME NEW p \in Ifs, StopQueue(p) PROVE Goal
    <3>1. late' = (IF up THEN late \cup {p} ELSE late) /\ nif' = [nif EXCEPT ![p].stopped = TRUE]
      BY <2>4 DEF StopQueue
    <3>2. p # o
      BY <2>a, <3>1
    <3> QED
      BY <1>n, <2>a, <2>k, <3>1, <3>2
  <2>5. ASSUME NEW p \in Ifs, QueueData(p) PROVE Goal
    <3>1. /\ late' = late
          /\ nif' = nif \/ nif' = [nif EXCEPT ![p].pend = @ - 1]
      BY <2>5 DEF QueueData, history
    <3>2. nif'[o].stops = nif[o].stops /\ nif'[o].stopped = nif[o].stopped
      BY <1>n, <2>a, <3>1 DEF NifType
    <3> QED
      BY <2>m, <3>1, <3>2
  <2>6. ASSUME NEW p \in Ifs, NEW r \in Reasons, NEW state \in BOOLEAN, TxFlowBlock(p, r, state) PROVE Goal
    <3>1. /\ nif' = [nif EXCEPT ![p] = IF state THEN Block(nif[p], r) ELSE Unblock(nif[p], r)]
          /\ late' = late \/ (late' = late \ {p})
          /\ late' # late => ~state /\ nif[p].stops \subseteq {r}
      BY <2>6 DEF TxFlowBlock
    <3>2. CASE p = o
      <4>1. nif'[p] = IF state THEN Block(nif[p], r) ELSE Unblock(nif[p], r)
        BY <1>n, <3>1
      <4>2. /\ Block(nif[p], r).stops = nif[p].stops \cup {r}
            /\ Unblock(nif[p], r).stops = nif[p].stops \ {r}
            /\ (Unblock(nif[p], r).stopped <=> nif[p].stopped /\ nif[p].stops \ {r} # {})
        BY <1>n, BlockFields
      <4> QED
        BY <2>a, <3>2, <4>1, <4>2
    <3>3. CASE p # o
      <4>1. nif'[o] = nif[o] /\ (o \in late => o \in late')
        BY <1>n, <2>a, <3>1, <3>3
      <4> QED
        BY <2>a, <2>k, <4>1
    <3> QED
      BY <3>2, <3>3
  <2>7. ASSUME NEW x, Complete(x) PROVE Goal
    <3>1. /\ late' = late
          /\ nif' = nif \/ \E p : nif' = [nif EXCEPT ![p].pend = @ - 1]
      BY <2>7 DEF Complete, Faulty, history
    <3>2. nif'[o].stops = nif[o].stops /\ nif'[o].stopped = nif[o].stopped
      BY <1>n, <2>a, <3>1 DEF NifType
    <3> QED
      BY <2>m, <3>1, <3>2
  <2>8. ASSUME WaitReset PROVE Goal
    <3>1. nif' = [nif EXCEPT ![waiter.nif].pend = 0] /\ late' = late
      BY <2>8 DEF WaitReset
    <3>2. nif'[o].stops = nif[o].stops /\ nif'[o].stopped = nif[o].stopped
      BY <1>n, <2>a, <3>1 DEF NifType
    <3> QED
      BY <2>m, <3>1, <3>2
  <2>9. (\E p \in Ifs : WaitBegin(p)) \/ WaitDone => nif' = nif /\ late' = late
    BY DEF WaitBegin, WaitDone, history
  <2> QED
    BY <1>4, <2>1, <2>2, <2>3, <2>4, <2>5, <2>6, <2>7, <2>8, <2>9, <2>m DEF Stack
<1> QED
  BY <1>1, <1>2, <1>3, <1>4 DEF Next

\* On a bus that is up no queue stays stopped without a reason, but for the one that a
\* late transmit function stopped.
THEOREM QueuesRunAgain == Spec => []NoStrandedQueue
<1>1. Init => Waking
  BY DEF Init, Waking
<1>2. TypeOK /\ Struct /\ Waking /\ [Next]_vars => Waking'
  BY WakeStep
<1>3. TypeOK /\ Struct /\ Waking => NoStrandedQueue
  <2> SUFFICES ASSUME TypeOK, Struct, Waking, NEW o \in Ifs, Usable(o), up, nif[o].stops = {}, nif[o].stopped,
                      \A t \in Threads : ~Deleting(t, o),
                      ~\E i \in DOMAIN todo["ctl"] : todo["ctl"][i].op = "visit", o \notin late
               PROVE  FALSE
    BY DEF NoStrandedQueue
  <2>1. PICK b \in Bss : iflist[b] = o
    BY DEF Usable
  <2>2. Alive(o) /\ o # Null
    BY Numbers DEF Usable, Alive
  <2>3. ~Pending("visit", b)
    <3>1. todo["ctl"] \in Seq(StepType)
      BY DEF TypeOK, ThreadTypes, Threads
    <3> QED
      BY <3>1 DEF Pending
  <2>4. PICK t \in Threads : held[t] = o /\ Now(t) \in {"quiet", "detach"}
    BY <2>1, <2>2, <2>3 DEF Waking
  <2>5. todo[t] # <<>> /\ Head(todo[t]).op \in {"quiet", "detach"}
    BY <2>4 DEF Now
  <2> QED
    BY <2>4, <2>5 DEF Deleting
<1> QED
  BY <1>1, <1>2, <1>3, NetdevTypes, StructHolds, PTL DEF Spec

-----------------------------------------------------------------------------
(***************************************************************************)
(* Counting.                                                               *)
(***************************************************************************)
\* The transmit function runs on registered interfaces only.
LEMMA IdleStep ==
  ASSUME TypeOK, Struct, \A o \in Ifs : nif[o].life # "registered" => xmit[o] = "idle", [Next]_vars
  PROVE  \A o \in Ifs : nif'[o].life # "registered" => xmit'[o] = "idle"
<1> SUFFICES ASSUME NEW o \in Ifs, nif'[o].life # "registered" PROVE xmit'[o] = "idle"
  OBVIOUS
<1>n. nif \in [Ifs -> NifType] /\ \A p \in Ifs : nif[p] \in NifType
  BY DEF TypeOK
<1>x. xmit \in [Ifs -> {"idle", "stopping", "counted"}]
  BY DEF TypeOK, FrameTypes
<1>k. ASSUME xmit'[o] = xmit[o], nif'[o].life = nif[o].life PROVE xmit'[o] = "idle"
  BY <1>k
<1>f. ASSUME NEW who, NEW p, Faulty(who, p) PROVE xmit'[o] = "idle"
  BY <1>f, <1>k DEF Faulty, frames
<1>d. ASSUME NEW d, NEW n, xmit' = xmit, nif' = [nif EXCEPT ![d] = n],
             d \in Ifs => n.life = nif[d].life \/ n.life = "registered" \/ xmit[d] = "idle"
      PROVE  xmit'[o] = "idle"
  <2>1. CASE o = d
    BY <1>d, <1>n, <2>1
  <2>2. CASE o # d
    BY <1>d, <1>k, <1>n, <2>2
  <2> QED
    BY <2>1, <2>2
<1>1. CASE UNCHANGED vars
  BY <1>1, <1>k DEF vars, frames
<1>2. ASSUME ThreadStep PROVE xmit'[o] = "idle"
  <2>1. ASSUME NEW t \in Threads, Alloc(t) PROVE xmit'[o] = "idle"
    <3>1. /\ xmit' = xmit
          /\ nif' = nif \/ \E q \in Ifs : \E n : Unused(q) /\ nif' = [nif EXCEPT ![q] = n]
      BY <2>1 DEF Alloc, frames
    <3> QED
      BY <1>d, <1>k, <3>1 DEF Unused
  <2>2. ASSUME NEW t \in Threads, Register(t) PROVE xmit'[o] = "idle"
    <3> DEFINE d == held[t]
    <3>1. CASE xmit' = xmit /\ nif' = [nif EXCEPT ![d].life = "registered"]
      <4>1. CASE o = d
        BY <1>n, <3>1, <4>1
      <4>2. CASE o # d
        BY <1>k, <1>n, <3>1, <4>2
      <4> QED
        BY <4>1, <4>2
    <3>2. CASE Alive(d) /\ xmit' = xmit /\ nif' = IF t = "ctl" THEN nif ELSE [nif EXCEPT ![d] = Freed]
      <4>1. CASE t = "ctl"
        BY <1>k, <3>2, <4>1
      <4>2. CASE t = "event"
        <5>1. Now("event") = "register"
          BY <2>2, <4>2 DEF Register, Step, Now
        <5>2. d \in Ifs /\ nif[d].life = "made"
          BY <3>2, <4>2, <5>1 DEF Struct, InHand
        <5> QED
          BY <1>d, <3>2, <4>2, <5>2
      <4> QED
        BY <4>1, <4>2 DEF Threads
    <3> QED
      BY <1>f, <2>2, <3>1, <3>2 DEF Register, frames
  <2>3. ASSUME NEW t \in Threads, Quiet(t) PROVE xmit'[o] = "idle"
    <3> DEFINE d == held[t]
    <3>1. CASE nif' = [nif EXCEPT ![d] = Block(nif[d], "disconnected")] /\ xmit' = xmit
      BY <1>d, <1>n, <3>1, BlockFields
    <3>2. CASE nif' = [nif EXCEPT ![d].stopped = TRUE] /\ xmit' = xmit
      BY <1>k, <1>n, <3>2 DEF NifType
    <3> QED
      BY <1>f, <2>3, <3>1, <3>2 DEF Quiet, frames
  <2>4. ASSUME NEW t \in Threads, NetDetach(t) PROVE xmit'[o] = "idle"
    <3> DEFINE d == held[t]
    <3>1. CASE /\ nif[d].life = "registered" => xmit[d] = "idle"
               /\ xmit' = xmit /\ nif' = [nif EXCEPT ![d] = Blank("freed", 0, nif[d].idx)]
      BY <1>d, <3>1
    <3> QED
      BY <1>f, <2>4, <3>1 DEF NetDetach, frames
  <2>5. ASSUME NEW t \in Threads, Unlist(t) \/ Forget(t) PROVE xmit'[o] = "idle"
    <3>1. held[t] \in Ifs /\ ~Alive(held[t])
      BY <2>5 DEF Unlist, Forget, Step, Now, Struct, InHand
    <3>2. xmit' = xmit /\ nif' = [nif EXCEPT ![held[t]] = Freed]
      BY <2>5, <3>1 DEF Unlist, Forget, frames
    <3> QED
      BY <1>d, <3>1, <3>2 DEF Alive
  <2>6. ASSUME Visit PROVE xmit'[o] = "idle"
    <3>1. xmit' = xmit /\ (nif' = nif \/ \E v : nif' = [nif EXCEPT ![v].stopped = FALSE])
      BY <2>6 DEF Visit, Faulty, frames
    <3>2. nif'[o].life = nif[o].life
      BY <1>n, <3>1 DEF NifType
    <3> QED
      BY <1>k, <3>1, <3>2
  <2>7. ASSUME UNCHANGED <<nif, xmit>> PROVE xmit'[o] = "idle"
    BY <1>k, <2>7
  <2>8. /\ \A t \in Threads : Hold(t) => UNCHANGED <<nif, xmit>>
        /\ \A op : Started(op) \/ SetState(op) => UNCHANGED <<nif, xmit>>
        /\ Silence => UNCHANGED <<nif, xmit>>
    BY DEF Hold, Started, SetState, Silence, Faulty, frames
  <2> QED
    BY <1>2, <2>1, <2>2, <2>3, <2>4, <2>5, <2>6, <2>7, <2>8 DEF ThreadStep
<1>3. ASSUME Work PROVE xmit'[o] = "idle"
  <2>1. UNCHANGED <<nif, xmit>>
    BY <1>3 DEF Work, IfAdded, IfDeleted, Control, frames
  <2> QED
    BY <1>k, <2>1
<1>4. ASSUME Stack PROVE xmit'[o] = "idle"
  <2>1. nif'[o].life = nif[o].life
    BY <1>4, StackFrame DEF Kin
  <2>2. xmit[o] = "idle"
    BY <2>1
  <2>3. ASSUME NEW p \in Ifs, StartXmit(p) PROVE xmit'[o] = "idle"
    <3>1. p # o /\ \E s : xmit' = [xmit EXCEPT ![p] = s]
      BY <2>1, <2>3 DEF StartXmit, Usable
    <3> QED
      BY <1>x, <2>2, <3>1
  <2>4. ASSUME NEW p \in Ifs, StopQueue(p) \/ QueueData(p) PROVE xmit'[o] = "idle"
    <3>1. xmit' = [xmit EXCEPT ![p] = "idle"]
      BY <2>4 DEF StopQueue, QueueData
    <3> QED
      BY <1>x, <2>2, <3>1
  <2>5. xmit' = xmit \/ \E p \in Ifs : StartXmit(p) \/ StopQueue(p) \/ QueueData(p)
    BY <1>4 DEF Stack, Open, Stop, WaitBegin, TxFlowBlock, Complete, WaitDone, WaitReset, Faulty, frames
  <2> QED
    BY <2>2, <2>3, <2>4, <2>5
<1> QED
  BY <1>1, <1>2, <1>3, <1>4 DEF Next

\* The count of a listed interface follows its frames, if its index is its own and
\* nobody resets it under way.
LEMMA CountStep ==
  TypeOK /\ Struct /\ Counting /\ [Next]_vars => Counting'
<1> SUFFICES ASSUME TypeOK, Struct, Counting, [Next]_vars PROVE Counting'
  OBVIOUS
<1>i. \A o \in Ifs : nif'[o].life # "registered" => xmit'[o] = "idle"
  BY IdleStep DEF Counting
<1> SUFFICES ASSUME NEW o \in Ifs, Alive(o)', Listed(o)', o \notin slipped',
                    \A p \in Ifs \ {o} : Alive(p)' => nif'[p].idx # nif'[o].idx
             PROVE  nif'[o].pend = Owed(o)'
  BY <1>i DEF Counting
<1> DEFINE Frames(f, x, s) == f[x] + IF s[o] = "counted" THEN 1 ELSE 0
           Goal == nif'[o].pend = Frames(flight', nif'[o].idx, xmit')
<1>g. Goal => nif'[o].pend = Owed(o)'
  BY DEF Owed
<1>n. /\ nif \in [Ifs -> NifType] /\ \A p \in Ifs : nif[p] \in NifType /\ nif[p].idx \in Ifidx /\ nif[p].pend \in Int
      /\ xmit \in [Ifs -> {"idle", "stopping", "counted"}] /\ flight \in [Ifidx -> Int]
      /\ \A x \in Ifidx : flight[x] \in Int
  BY DEF TypeOK, FrameTypes, NifType
<1>a. /\ \A u : u \in Threads <=> u = "ctl" \/ u = "event"
      /\ \A c \in Bss : iflist[c] # Null => iflist[c] \in Ifs
      /\ Null \notin Ifs
  BY Alone, Numbers
<1>t. ASSUME Alive(o), Listed(o), o \notin slipped, nif'[o].idx = nif[o].idx,
             \A p \in Ifs \ {o} : Alive(p) /\ nif[p].idx = nif[o].idx => Alive(p)' /\ nif'[p].idx = nif[p].idx
      PROVE  nif[o].pend = Frames(flight, nif[o].idx, xmit)
  <2>1. \A p \in Ifs \ {o} : Alive(p) => nif[p].idx # nif[o].idx
    BY <1>t
  <2>2. nif[o].pend = Owed(o)
    BY <1>t, <2>1 DEF Counting
  <2> QED
    BY <2>2 DEF Owed
\* nothing about the count and those who share its index changes
<1>k. ASSUME Alive(o), Listed(o), o \notin slipped, flight' = flight, xmit'[o] = xmit[o],
             nif'[o].idx = nif[o].idx, nif'[o].pend = nif[o].pend,
             \A p \in Ifs \ {o} : Alive(p) /\ nif[p].idx = nif[o].idx => Alive(p)' /\ nif'[p].idx = nif[p].idx
      PROVE  Goal
  BY <1>k, <1>t
<1>m. ASSUME Listed(o), slipped' = slipped, flight' = flight, xmit' = xmit, nif'[o].pend = nif[o].pend,
             \A p \in Ifs : (Alive(p)' <=> Alive(p)) /\ nif'[p].idx = nif[p].idx
      PROVE  Goal
  BY <1>k, <1>m
<1>u. ASSUME iflist' = iflist, slipped' = slipped, flight' = flight, xmit' = xmit, nif' = nif PROVE Goal
  <2>1. Listed(o) /\ \A p \in Ifs : (Alive(p)' <=> Alive(p)) /\ nif'[p].idx = nif[p].idx
    BY <1>u DEF Listed, Alive
  <2> QED
    BY <1>m, <1>u, <2>1
<1>f. ASSUME NEW who, NEW p, Faulty(who, p) PROVE Goal
  BY <1>f, <1>u DEF Faulty, tables, frames, history
<1>h. /\ iflist' = iflist => Listed(o)
      /\ \A c \in Bss : iflist' = [iflist EXCEPT ![c] = Null] => Listed(o)
  BY <1>a DEF Listed, TypeOK, TableTypes
<1> HIDE DEF Goal
<1>w. \A t, op : Step(t, op) => Now(t) = op
  BY DEF Step, Now
\* who is freed while somebody else is listed under its index is not on its way out
<1>e. ASSUME NEW d \in Ifs, Ending(d), Alive(d), Listed(o), slipped' \in {slipped, slipped \ {d}},
             flight' = flight, xmit' = xmit,
             nif'[d].life = "freed", \A p \in Ifs : p # d => nif'[p] = nif[p]
      PROVE  Goal
  <2>1. o # d
    BY <1>e DEF Alive
  <2>2. Alive(o) /\ o \notin slipped /\ nif'[o] = nif[o]
    BY <1>e, <2>1 DEF Alive
  <2>3. nif[d].idx # nif[o].idx
    BY <1>e, <2>1, <2>2 DEF Struct, Indices
  <2>4. \A p \in Ifs \ {o} : Alive(p) /\ nif[p].idx = nif[o].idx => Alive(p)' /\ nif'[p].idx = nif[p].idx
    BY <1>e, <2>3 DEF Alive
  <2> QED
    BY <1>e, <1>k, <2>2, <2>4
<1>1. ASSUME UNCHANGED vars PROVE Goal
  BY <1>1, <1>u DEF vars, tables, frames, history
<1>2. ASSUME ThreadStep PROVE Goal
  <2>1. ASSUME NEW t \in Threads, Alloc(t) PROVE Goal
    <3> DEFINE b == Arg(t).bss
               x == Arg(t).idx
    <3>1. ASSUME NEW q \in Ifs, Unused(q), nif' = [nif EXCEPT ![q] = Blank("made", b, x)],
                 iflist' = [iflist EXCEPT ![b] = q], UNCHANGED <<xmit, flight>>,
                 slipped' = IF flight[x] = 0 THEN slipped \ {q} ELSE slipped \union {q}
          PROVE  Goal
      <4>1. CASE o = q
        <5>1. nif'[o].pend = 0 /\ nif'[o].idx = x
          BY <1>n, <3>1, <4>1 DEF Blank
        <5>2. flight[x] = 0
          BY <3>1, <4>1
        <5>3. xmit[o] = "idle"
          BY <3>1, <4>1 DEF Unused, Counting
        <5> QED
          BY <3>1, <5>1, <5>2, <5>3 DEF Goal
      <4>2. CASE o # q
        <5>1. nif'[o] = nif[o] /\ \A p \in Ifs : Alive(p) => p # q /\ nif'[p] = nif[p]
          BY <1>n, <3>1, <4>2 DEF Unused, Alive
        <5>2. Alive(o) /\ \A p \in Ifs : Alive(p) => Alive(p)'
          BY <5>1 DEF Alive
        <5>3. Listed(o)
          BY <3>1, <4>2 DEF Listed, TypeOK, TableTypes
        <5>4. o \notin slipped
          BY <3>1, <4>2
        <5> QED
          BY <1>k, <3>1, <5>1, <5>2, <5>3, <5>4
      <4> QED
        BY <4>1, <4>2
    <3>2. ASSUME UNCHANGED <<iflist, nif, slipped, xmit, flight>> PROVE Goal
      BY <1>u, <3>2
    <3> QED
      BY <2>1, <3>1, <3>2 DEF Alloc, tables, frames
  <2>2. ASSUME NEW t \in Threads, Register(t) PROVE Goal
    <3> DEFINE d == held[t]
    <3>1. CASE Alive(d) /\ nif' = [nif EXCEPT ![d].life = "registered"] /\ UNCHANGED <<iflist, slipped, xmit, flight>>
      <4>1. \A p \in Ifs : (Alive(p)' <=> Alive(p)) /\ nif'[p].idx = nif[p].idx /\ nif'[p].pend = nif[p].pend
        <5>1. \A p \in Ifs : p # d => nif'[p] = nif[p]
          BY <1>n, <3>1
        <5>2. d \in Ifs => nif'[d].idx = nif[d].idx /\ nif'[d].pend = nif[d].pend /\ nif'[d].life = "registered"
          BY <1>n, <3>1 DEF NifType
        <5> QED
          BY <3>1, <5>1, <5>2 DEF Alive
      <4> QED
        BY <1>h, <1>m, <3>1, <4>1
    <3>2. ASSUME Alive(d), iflist' = [iflist EXCEPT ![nif[d].bss] = Null], UNCHANGED <<slipped, xmit, flight>>,
                 nif' = IF t = "ctl" THEN nif ELSE [nif EXCEPT ![d] = Freed]
          PROVE  Goal
      <4>0. Listed(o)
        BY <3>2, <1>a DEF Listed, TypeOK, TableTypes
      <4>1. CASE t = "ctl"
        <5>1. nif' = nif
          BY <3>2, <4>1
        <5> QED
          BY <1>m, <3>2, <4>0, <5>1 DEF Alive
      <4>2. CASE t = "event"
        <5>1. Now("event") = "register"
          BY <1>w, <2>2, <4>2 DEF Register, Faulty
        <5>2. d \in Ifs /\ Ending(d)
          BY <1>a, <4>2, <5>1 DEF Ending, Struct, InHand
        <5>3. nif'[d].life = "freed" /\ \A p \in Ifs : p # d => nif'[p] = nif[p]
          BY <1>n, <3>2, <4>2, <5>2 DEF Freed, Blank
        <5> QED
          BY <1>e, <3>2, <4>0, <5>2, <5>3
      <4> QED
        BY <1>a, <4>1, <4>2
    <3> QED
      BY <1>f, <2>2, <3>1, <3>2 DEF Register, tables, frames, history
  <2>3. ASSUME NEW t \in Threads, Quiet(t) PROVE Goal
    <3> DEFINE d == held[t]
    <3>1. CASE /\ UNCHANGED <<iflist, slipped, xmit, flight>>
               /\ nif' \in {[nif EXCEPT ![d] = Block(@, "disconnected")], [nif EXCEPT ![d].stopped = TRUE]}
      <4>1. \A p \in Ifs : nif'[p].life = nif[p].life /\ nif'[p].idx = nif[p].idx /\ nif'[p].pend = nif[p].pend
        <5>1. CASE nif' = [nif EXCEPT ![d] = Block(@, "disconnected")]
          BY <1>n, <5>1, BlockFields
        <5>2. CASE nif' = [nif EXCEPT ![d].stopped = TRUE]
          BY <1>n, <5>2 DEF NifType
        <5> QED
          BY <3>1, <5>1, <5>2
      <4> QED
        BY <1>h, <1>m, <3>1, <4>1 DEF Alive
    <3> QED
      BY <1>f, <2>3, <3>1 DEF Quiet, tables, frames, history
  <2>4. ASSUME NEW t \in Threads, NetDetach(t) PROVE Goal
    <3> DEFINE d == held[t]
    <3>1. CASE /\ Alive(d) /\ UNCHANGED <<iflist, xmit, flight>> /\ slipped' = slipped \ {d}
               /\ nif' = [nif EXCEPT ![d] = Blank("freed", 0, nif[d].idx)]
      <4>1. Now(t) = "detach"
        BY <1>w, <2>4 DEF NetDetach
      <4>2. d \in Ifs /\ Ending(d)
        BY <4>1 DEF Ending, Struct, InHand
      <4>3. nif'[d].life = "freed" /\ \A p \in Ifs : p # d => nif'[p] = nif[p]
        BY <1>n, <3>1, <4>2 DEF Blank
      <4> QED
        BY <1>e, <1>h, <3>1, <4>2, <4>3
    <3> QED
      BY <1>f, <2>4, <3>1 DEF NetDetach, tables, frames
  <2>5. ASSUME NEW t \in Threads, Unlist(t) \/ Forget(t) PROVE Goal
    <3> DEFINE d == held[t]
    <3>1. Now(t) \in {"unlist", "forget"}
      BY <1>w, <2>5 DEF Unlist, Forget
    <3>2. d \in Ifs /\ ~Alive(d)
      BY <3>1 DEF Struct, InHand
    <3>3. /\ nif' = [nif EXCEPT ![d] = Freed] /\ UNCHANGED <<slipped, xmit, flight>>
          /\ iflist' = [iflist EXCEPT ![Arg(t).bss] = Null]
      BY <2>5, <3>2 DEF Unlist, Forget, frames, history
    <3>4. Listed(o)
      BY <1>a, <3>3 DEF Listed, TypeOK, TableTypes
    <3>5. o # d /\ \A p \in Ifs : p # d => nif'[p] = nif[p]
      BY <1>n, <3>2, <3>3 DEF Freed, Blank, Alive
    <3>6. /\ Alive(o) /\ nif'[o] = nif[o]
          /\ \A p \in Ifs \ {o} : Alive(p) => Alive(p)' /\ nif'[p].idx = nif[p].idx
      BY <3>2, <3>5 DEF Alive
    <3> QED
      BY <1>k, <3>3, <3>4, <3>6
  <2>6. ASSUME Visit PROVE Goal
    <3>1. CASE /\ UNCHANGED <<iflist, slipped, xmit, flight>>
               /\ nif' = nif \/ \E v : nif' = [nif EXCEPT ![v].stopped = FALSE]
      <4>1. \A p \in Ifs : nif'[p].life = nif[p].life /\ nif'[p].idx = nif[p].idx /\ nif'[p].pend = nif[p].pend
        BY <1>n, <3>1 DEF NifType
      <4> QED
        BY <1>h, <1>m, <3>1, <4>1 DEF Alive
    <3> QED
      BY <1>f, <2>6, <3>1 DEF Visit, tables, frames
  <2>7. ASSUME UNCHANGED <<iflist, slipped, xmit, flight, nif>> PROVE Goal
    BY <1>u, <2>7
  <2>8. /\ \A t \in Threads : Hold(t) => UNCHANGED <<iflist, slipped, xmit, flight, nif>>
        /\ \A op : Started(op) \/ SetState(op) => UNCHANGED <<iflist, slipped, xmit, flight, nif>>
        /\ Silence => UNCHANGED <<iflist, slipped, xmit, flight, nif>>
    BY DEF Hold, Started, SetState, Silence, Faulty, tables, frames, history
  <2> QED
    BY <1>2, <2>1, <2>2, <2>3, <2>4, <2>5, <2>6, <2>7, <2>8 DEF ThreadStep
<1>3. ASSUME Work PROVE Goal
  <2>1. UNCHANGED <<iflist, slipped, xmit, flight, nif>>
    BY <1>3 DEF Work, IfAdded, IfDeleted, Control, tables, frames
  <2> QED
    BY <1>u, <2>1
<1>4. ASSUME Stack PROVE Goal
  <2>0. /\ iflist' = iflist /\ nif'[o].idx = nif[o].idx
        /\ \A p \in Ifs : (Alive(p)' <=> Alive(p)) /\ nif'[p].idx = nif[p].idx
    BY <1>4, StackFrame DEF Frame, tables, Kin, Alive
  <2>1. Alive(o) /\ Listed(o)
    BY <1>h, <2>0
  <2>t. o \notin slipped => nif[o].pend = Frames(flight, nif[o].idx, xmit)
    BY <1>t, <2>0, <2>1
  <2>o. Owed(o) = Frames(flight, nif[o].idx, xmit)
    BY DEF Owed
  <2>k. ASSUME slipped' = slipped, flight' = flight, xmit' = xmit, nif'[o].pend = nif[o].pend PROVE Goal
    BY <1>m, <2>0, <2>1, <2>k
  \* reset to zero
  <2>z. ASSUME NEW p, Recount(p), flight' = flight, xmit' = xmit, p = o => nif'[o].pend = 0,
               p # o => nif'[o].pend = nif[o].pend
        PROVE  Goal
    <3>1. CASE p = o
      <4>1. Owed(o) = 0
        BY <2>z, <3>1 DEF Recount
      <4> QED
        BY <2>0, <2>o, <2>z, <3>1, <4>1 DEF Goal
    <3>2. CASE p # o
      <4>1. o \notin slipped
        BY <2>z, <3>2 DEF Recount
      <4> QED
        BY <2>0, <2>t, <2>z, <3>2, <4>1 DEF Goal
    <3> QED
      BY <3>1, <3>2
  <2>2. ASSUME NEW p \in Ifs, Open(p) PROVE Goal
    <3>1. PICK ok \in BOOLEAN : nif' = [nif EXCEPT ![p].pend = 0, ![p].open = ok]
      BY <2>2 DEF Open
    <3>2. (p = o => nif'[o].pend = 0) /\ (p # o => nif'[o].pend = nif[o].pend)
      BY <1>n, <3>1 DEF NifType
    <3> QED
      BY <2>2, <2>z, <3>2 DEF Open, frames
  <2>3. ASSUME NEW p \in Ifs, Stop(p) PROVE Goal
    <3>1. nif' = [nif EXCEPT ![p] = [Block(nif[p], "disconnected") EXCEPT !.open = FALSE]]
      BY <2>3 DEF Stop
    <3>2. nif'[o].pend = nif[o].pend
      <4> DEFINE k == Block(nif[p], "disconnected")
      <4>1. k \in NifType /\ k.pend = nif[p].pend
        BY <1>n, BlockType, BlockFields DEF Reasons
      <4> HIDE DEF k
      <4>2. [k EXCEPT !.open = FALSE].pend = k.pend
        BY <4>1 DEF NifType
      <4> QED
        BY <1>n, <3>1, <4>1, <4>2 DEF k
    <3> QED
      BY <2>3, <2>k, <3>2 DEF Stop, frames, history
  <2>4. ASSUME NEW p \in Ifs, StartXmit(p) PROVE Goal
    <3>0. slipped' = slipped /\ flight' = flight /\ xmit[p] = "idle"
      BY <2>4 DEF StartXmit, history
    <3>1. CASE xmit' = [xmit EXCEPT ![p] = "stopping"] /\ nif' = nif
      <4>1. xmit'[o] = "counted" <=> xmit[o] = "counted"
        BY <1>n, <3>0, <3>1
      <4> QED
        BY <2>0, <2>t, <3>0, <3>1, <4>1 DEF Goal
    <3>2. CASE xmit' = [xmit EXCEPT ![p] = "counted"] /\ nif' = [nif EXCEPT ![p].pend = @ + 1]
      <4>1. CASE p = o
        <5>1. xmit'[o] = "counted" /\ nif'[o].pend = nif[o].pend + 1
          BY <1>n, <3>2, <4>1 DEF NifType
        <5>2. nif[o].pend = flight[nif[o].idx]
          BY <1>n, <2>t, <3>0, <4>1
        <5> QED
          BY <2>0, <3>0, <5>1, <5>2 DEF Goal
      <4>2. CASE p # o
        <5>1. xmit'[o] = xmit[o] /\ nif'[o] = nif[o]
          BY <1>n, <3>2, <4>2
        <5> QED
          BY <2>t, <3>0, <5>1 DEF Goal
      <4> QED
        BY <4>1, <4>2
    <3> QED
      BY <2>4, <3>1, <3>2 DEF StartXmit
  <2>5. ASSUME NEW p \in Ifs, StopQueue(p) PROVE Goal
    <3>1. /\ slipped' = slipped /\ flight' = flight /\ xmit[p] = "stopping"
          /\ xmit' = [xmit EXCEPT ![p] = "idle"] /\ nif' = [nif EXCEPT ![p].stopped = TRUE]
      BY <2>5 DEF StopQueue
    <3>2. (xmit'[o] = "counted" <=> xmit[o] = "counted") /\ nif'[o].pend = nif[o].pend
      BY <1>n, <3>1 DEF NifType
    <3> QED
      BY <2>0, <2>t, <3>1, <3>2 DEF Goal
  <2>6. ASSUME NEW p \in Ifs, QueueData(p) PROVE Goal
    <3>0. slipped' = slipped /\ xmit[p] = "counted" /\ xmit' = [xmit EXCEPT ![p] = "idle"]
      BY <2>6 DEF QueueData, history
    <3>1. Alive(p)
      BY <3>0 DEF Counting, Alive
    <3>2. p # o => nif[p].idx # nif[o].idx
      BY <2>0, <3>1
    <3>3. nif[o].pend = flight[nif[o].idx] + IF xmit[o] = "counted" THEN 1 ELSE 0
      BY <2>t, <3>0
    <3>4. CASE p = o
      <4>1. nif[o].pend = flight[nif[o].idx] + 1 /\ xmit'[o] = "idle"
        BY <1>n, <3>0, <3>3, <3>4
      <4>2. CASE flight' = [flight EXCEPT ![nif[p].idx] = @ + 1] /\ nif' = nif
        <5>1. flight'[nif[o].idx] = flight[nif[o].idx] + 1
          BY <1>n, <3>4, <4>2
        <5> QED
          BY <2>0, <4>1, <4>2, <5>1, <1>n DEF Goal
      <4>3. CASE nif' = [nif EXCEPT ![p].pend = @ - 1] /\ flight' = flight
        <5>1. nif'[o].pend = nif[o].pend - 1
          BY <1>n, <3>4, <4>3 DEF NifType
        <5> QED
          BY <2>0, <4>1, <4>3, <5>1, <1>n DEF Goal
      <4> QED
        BY <2>6, <4>2, <4>3 DEF QueueData
    <3>5. CASE p # o
      <4>1. xmit'[o] = xmit[o]
        BY <1>n, <3>0, <3>5
      <4>2. flight'[nif[o].idx] = flight[nif[o].idx] /\ nif'[o].pend = nif[o].pend
        BY <1>n, <2>6, <3>2, <3>5 DEF QueueData
      <4> QED
        BY <2>0, <3>3, <4>1, <4>2 DEF Goal
    <3> QED
      BY <3>4, <3>5
  <2>7. ASSUME NEW p \in Ifs, NEW r \in Reasons, NEW state \in BOOLEAN, TxFlowBlock(p, r, state) PROVE Goal
    <3>1. nif' = [nif EXCEPT ![p] = IF state THEN Block(nif[p], r) ELSE Unblock(nif[p], r)]
      BY <2>7 DEF TxFlowBlock
    <3>2. Block(nif[p], r).pend = nif[p].pend /\ Unblock(nif[p], r).pend = nif[p].pend
      BY <1>n, BlockFields
    <3>3. nif'[o].pend = nif[o].pend
      BY <1>n, <3>1, <3>2
    <3> QED
      BY <2>7, <2>k, <3>3 DEF TxFlowBlock, frames
  <2>8. ASSUME NEW x \in Ifidx, Complete(x) PROVE Goal
    <3> DEFINE q == GetIfp(x)
    <3>1. CASE Faulty("completion", q)
      BY <1>f, <3>1
    <3>2. CASE /\ flight' = [flight EXCEPT ![x] = @ - 1] /\ xmit' = xmit
               /\ nif' = IF q = Null THEN nif ELSE [nif EXCEPT ![q].pend = @ - 1]
               /\ slipped' = slipped \union {p \in Ifs : Alive(p) /\ (nif[p].idx = x) # (p = q)}
      <4>1. o \notin slipped /\ (nif[o].idx = x <=> o = q)
        BY <2>1, <3>2
      <4>2. CASE o = q
        <5>1. nif' = [nif EXCEPT ![o].pend = @ - 1]
          BY <1>a, <3>2, <4>2
        <5>2. nif'[o].pend = nif[o].pend - 1
          BY <1>n, <5>1 DEF NifType
        <5>3. flight'[nif[o].idx] = flight[nif[o].idx] - 1
          BY <1>n, <3>2, <4>1, <4>2
        <5> QED
          BY <1>n, <2>0, <2>t, <3>2, <4>1, <5>2, <5>3 DEF Goal
      <4>3. CASE o # q
        <5>1. nif'[o] = nif[o] /\ flight'[nif[o].idx] = flight[nif[o].idx]
          BY <1>n, <3>2, <4>1, <4>3
        <5> QED
          BY <2>t, <3>2, <4>1, <5>1 DEF Goal
      <4> QED
        BY <4>2, <4>3
    <3> QED
      BY <2>8, <3>1, <3>2 DEF Complete
  <2>9. ASSUME WaitReset PROVE Goal
    <3>1. nif' = [nif EXCEPT ![waiter.nif].pend = 0]
      BY <2>9 DEF WaitReset
    <3>2. (waiter.nif = o => nif'[o].pend = 0) /\ (waiter.nif # o => nif'[o].pend = nif[o].pend)
      BY <1>n, <3>1 DEF NifType
    <3> QED
      BY <2>9, <2>z, <3>2 DEF WaitReset
  <2>10. (\E p \in Ifs : WaitBegin(p)) \/ WaitDone => UNCHANGED <<nif, slipped, flight, xmit>>
    BY DEF WaitBegin, WaitDone, history
  <2> QED
    BY <1>4, <2>2, <2>3, <2>4, <2>5, <2>6, <2>7, <2>8, <2>9, <2>10, <2>k DEF Stack
<1> QED
  BY <1>1, <1>2, <1>3, <1>4, <1>g DEF Next

\* The count brcmf_netdev_wait_pend8021x waits on is the number of frames on their way,
\* until it is reset over some of them or its index serves two interfaces.
THEOREM CountsAreRight == Spec => []PendCountsFrames
<1>1. Init => Counting
  <2> SUFFICES ASSUME Init PROVE Counting
    OBVIOUS
  <2>1. \A o \in Ifs : xmit[o] = "idle" /\ ~Alive(o)
    BY DEF Init, Alive, Freed, Blank
  <2> QED
    BY <2>1 DEF Counting
<1>2. TypeOK /\ Struct /\ Counting /\ [Next]_vars => Counting'
  BY CountStep
<1>3. TypeOK /\ Counting => PendCountsFrames
  <2> SUFFICES ASSUME TypeOK, Counting, NEW b \in Bss, iflist[b] \notin slipped \union {Null},
                      nif[iflist[b]].life = "registered",
                      \A p \in Ifs \ {iflist[b]} : Alive(p) => nif[p].idx # nif[iflist[b]].idx
               PROVE  nif[iflist[b]].pend = Owed(iflist[b])
    BY DEF PendCountsFrames
  <2>1. iflist[b] \in Ifs /\ Alive(iflist[b]) /\ Listed(iflist[b])
    BY DEF TypeOK, TableTypes, Alive, Listed
  <2> QED
    BY <2>1 DEF Counting
<1> QED
  BY <1>1, <1>2, <1>3, NetdevTypes, StructHolds, PTL DEF Spec
=============================================================================
