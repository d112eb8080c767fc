--------------------------- MODULE BootPathProofs ---------------------------
(***************************************************************************)
(* The boot path of a BCM4360, for every set of test parameters, every     *)
(* NVRAM that fits and every number of loads.                              *)
(*                                                                         *)
(* The driver's steps are a list, and what is promised of it is a matter   *)
(* of what the rest of the list still holds: a write that lands follows    *)
(* its window, a skip lands where it should, nothing of the download is    *)
(* stored after the release, a word that test 243 inverted is put back by  *)
(* the next step, and the last three steps give back what was taken.       *)
(***************************************************************************)
EXTENDS BootPath, TLAPS, SequenceTheorems

-----------------------------------------------------------------------------
(***************************************************************************)
(* Steps.                                                                  *)
(***************************************************************************)
One(op)   == <<op>>
See(c)    == <<"window", c>>
Rel       == <<"write", "arm", "halt", FALSE>>     \* lets the ARM go
Hlt       == <<"write", "arm", "halt", TRUE>>
InReset(c)    == <<"write", c, "reset", "in">>
Rel11     == <<"write", "d11", "halt", FALSE>>
Msk(b)    == <<"write", "pcie", "mask", b>>
Bell      == <<"write", "pcie", "doorbell", TRUE>>
IrqOn(n)  == <<"irq on", n>>
Flips     == View("pcie") \o Do("flip mask") \o Do("flip mask")

Views  == {See(c) : c \in Windows}
Turn   == <<"around", Flips>>
Trip   == <<"round trip", ProbeWord>>
ArmW   == {Rel, Hlt, InReset("arm")}
D11W   == {Rel11, InReset("d11")}
PcieW  == {Msk(TRUE), Msk(FALSE), Bell}
Skip(c) == <<"skip if in reset", c, 4>>
Clear(c) == <<"clear reset", c>>
Unless(n) == <<"skip unless olmsg", n>>
Cores  == {Skip("arm"), Skip("d11"), Clear("arm"), One("disable arm")}
IrqOn1 == IrqOn(1)
IrqOn3 == IrqOn(3)
IrqOns == {IrqOn1, IrqOn3}
Irqs   == IrqOns \cup {One("msi on"), One("irq off"), One("msi off")}
Softs  == {One("flip mask"), Turn, Trip} \cup {Unless(n) : n \in 0 .. 5}

FwStore      == <<"tcm", Firmware, "fw">>
VectorStore  == <<"tcm", [lo |-> 0, hi |-> 4], "fw">>
ZeroStore    == <<"tcm", ZeroBlock, "zero">>
SharedStore  == <<"tcm", SharedInfo, "shared">>
PreStore     == <<"tcm", Preplaced, "t247">>
NvramStore(n) == <<"tcm", Nvram(n), "nvram">>
SeedStore(n) == <<"tcm", Seed(n), "seed">>
Restore(o)   == <<"tcm", ProbeWord, o>>
Restores     == {Restore(o) : o \in Owners \ {"inverted"}}
\* what a load with tests T and an NVRAM of n bytes stores
Stores(T, n) ==
  {FwStore, VectorStore, PreStore} \cup Restores
    \cup (IF n > 0 THEN {NvramStore(n)} ELSE {})
    \cup (IF n > 0 /\ "236" \in T THEN {SeedStore(n)} ELSE {})
    \cup (IF "236" \in T THEN {} ELSE {ZeroStore})
    \cup (IF "276" \in T THEN {SharedStore} ELSE {})

Cored  == Views \cup ArmW \cup D11W \cup Cores
Work   == Cored \cup PcieW \cup Irqs \cup Softs
\* the steps of probe and of the callback, but for the last three of each
Probing == Cored \cup {One("bus reset"), One("try enable"), One("set master"), One("map"), One("try")}
Body(T, n) == Work \cup Stores(T, n) \cup {One("alloc"), One("set master"), One("olmsg")}
Setting(T, n) == Body(T, n) \cup {One("fw")}
Ending == {One("clear master"), One("free all"), One("try"), One("bound"), One("setup")}
AllStores == {FwStore, VectorStore, PreStore, ZeroStore, SharedStore} \cup Restores
               \cup {NvramStore(n) : n \in NvramLens} \cup {SeedStore(n) : n \in NvramLens}
Steps  == Probing \cup Work \cup AllStores \cup Ending
            \cup {One("fw"), One("alloc"), One("olmsg"), One("unmap"), One("gone")}

-----------------------------------------------------------------------------
(***************************************************************************)
(* Order in a list of steps.                                               *)
(***************************************************************************)
Only(s, V) == \A i \in 1 .. Len(s) : s[i] \in V
Has(s, e) == \E i \in 1 .. Len(s) : s[i] = e
\* stores nothing of what is downloaded
Late(e)   == e[1] = "tcm" => e[2] = ProbeWord
Sealed(s) == \A i \in 1 .. Len(s) : Late(s[i])
NoRel(s)  == \A i \in 1 .. Len(s) : s[i] # Rel

\* how many steps a step may skip, and what is ever skipped
Span(e) == IF e[1] = "skip if in reset" THEN 4
           ELSE IF e[1] \in {"skip unless olmsg", "irq on"} THEN e[2]
           ELSE IF e[1] = "olmsg" THEN 1 ELSE 0
Light == Views \cup ArmW \cup D11W \cup PcieW \cup {One("irq off"), SharedStore}

\* a write to the ARM's wrapper directly follows its window
Written(s) == \A i \in 2 .. Len(s) : s[i] \in ArmW => s[i - 1] = See("arm")
\* a skip passes over light steps alone, and not to a write that wants its window
Spans(s) == \A i \in 1 .. Len(s) :
  /\ i + Span(s[i]) <= Len(s)
  /\ \A k \in i + 1 .. i + Span(s[i]) : s[k] \in Light
  /\ Span(s[i]) > 0 => \A k \in 1 .. Len(s) : k = i + Span(s[i]) + 1 => s[k] \notin ArmW
\* MSI, the handler, mask writes, and both given back
Framed(s) == \A i \in 1 .. Len(s) :
  /\ s[i] = One("msi on") => i < Len(s) /\ s[i + 1] \in IrqOns
  /\ \A n \in 1 .. 3 : s[i] = IrqOn(n) =>
       /\ i + n + 1 <= Len(s) /\ s[i + n] = One("irq off") /\ s[i + n + 1] = One("msi off")
       /\ \A k \in i + 1 .. i + n - 1 : s[k] \in PcieW
Static(s) == Written(s) /\ Spans(s) /\ Framed(s)

\* nothing of what is downloaded is stored once the ARM was let go
RelLast(s) == \A i \in 1 .. Len(s) : \A j \in i + 1 .. Len(s) : s[i] = Rel => Late(s[j])
\* what comes before e
Before(s, e, X) == \A i \in 1 .. Len(s) : s[i] = e => \A k \in 1 .. i - 1 : s[k] \in X
\* the list ends with a, b and c, after steps of V
Closes(s, V, a, b, c) ==
  /\ Len(s) >= 1 /\ s[Len(s)] = c
  /\ Len(s) >= 2 => s[Len(s) - 1] = b
  /\ Len(s) >= 3 => s[Len(s) - 2] = a
  /\ \A i \in 1 .. Len(s) - 3 : s[i] \in V
\* the list halts the ARM for good
Sure(s) == \E j \in 1 .. Len(s) :
  /\ s[j] \in {Hlt, One("disable arm")}
  /\ \A k \in j + 1 .. Len(s) : s[k] # Rel
  /\ \A i \in 1 .. j - 1 : i + Span(s[i]) < j
\* free_irq and pci_disable_msi are next, but for writes of the mask
IrqLeft(s) == \E j \in 1 .. Len(s) - 1 :
  s[j] = One("irq off") /\ s[j + 1] = One("msi off") /\ \A k \in 1 .. j - 1 : s[k] \in PcieW

-----------------------------------------------------------------------------
(***************************************************************************)
(* The invariant, by phase.                                                *)
(***************************************************************************)
TypeOK ==
  /\ todo \in Seq(Steps)
  /\ phase \in {"gone", "probe", "setup", "bound", "remove"}
  /\ loads \in Nat /\ tests \in TestSets \cup {{}} /\ nvlen \in NvramLens \cup {0}
  /\ window \in Windows /\ halt \in BOOLEAN
  /\ reset \in [{"arm", "d11"} -> {"in", "out"}]
  /\ master \in BOOLEAN /\ mask \in BOOLEAN
  /\ tcm \in [Cuts -> Owners]
  /\ mapped \in BOOLEAN /\ olmsg \in BOOLEAN
  /\ held \subseteq {"fw", "nvram", "samples", "fine"}
  /\ irq \in {"none", "line", "msi"} /\ msi \in BOOLEAN /\ isr \in {"idle", "claim"}

Quiet == irq = "none" /\ ~msi /\ held = {}
Leaving == todo \in {Removal, Do("gone")}
Aimed == todo[1] \in ArmW => window = "arm"

\* no firmware of ours runs under bus mastering that EFI left on
Gone == todo = <<>> /\ Quiet /\ ~mapped /\ ~olmsg /\ (master => tcm[0] # "fw")
Bound == todo = <<>> /\ Quiet /\ mapped /\ ~master
Removing == Leaving /\ Quiet /\ ~master /\ (todo = Do("gone") => ~mapped /\ ~olmsg)
GivingUp == Leaving /\ (todo = Do("gone") => ~mapped /\ ~master)

\* the bus reset comes first, pci_enable_device second
Opens(s) == Before(s, One("try enable"), {One("bus reset")}) /\ Before(s, One("bus reset"), {})

ProbeList(s) ==
  /\ Only(s, Probing \cup Ending)
  /\ Static(s) /\ Opens(s)
  /\ Closes(s, Probing, One("clear master"), One("try"), One("setup"))
Attaching ==
  /\ ProbeList(todo) /\ Aimed /\ nvlen \in NvramLens
  /\ Has(todo, One("try enable")) => ~mapped /\ (master => tcm[0] # "fw")
  /\ mapped \/ Has(todo, One("map"))
  /\ Len(todo) <= 2 => ~master
  /\ (halt /\ NoRel(todo) /\ ~Has(todo, One("bus reset"))) \/ Sure(todo)
ProbePhase == Quiet /\ ~olmsg /\ (GivingUp \/ Attaching)

SetupList(s) ==
  /\ Only(s, Setting(tests, nvlen) \cup Ending)
  /\ Static(s) /\ RelLast(s) /\ Before(s, One("fw"), Views)
  /\ Closes(s, Setting(tests, nvlen), One("clear master"), One("free all"), One("bound"))
\* the handler and MSI are in hand as far as the list gives them back
Handler ==
  /\ irq # "none" => IrqLeft(todo)
  /\ irq = "msi" => msi
  /\ msi /\ irq = "none" => todo[1] = One("msi off") \/ todo[1] \in IrqOns
Filled(r, owner, step) == Whole(r, owner) \/ Has(todo, step)
Contents ==
  /\ Filled(Firmware, "fw", FwStore)
  /\ nvlen > 0 /\ ~On("276") =>
       /\ Filled(Nvram(nvlen), "nvram", NvramStore(nvlen))
       /\ On("236") => Filled(Seed(nvlen), "seed", SeedStore(nvlen))
SetupPhase ==
  /\ SetupList(todo) /\ Aimed /\ mapped /\ nvlen \in NvramLens
  /\ halt \/ Sealed(todo)
  /\ Has(todo, One("fw")) => Quiet /\ ~master
  /\ Len(todo) <= 2 => ~master
  /\ Len(todo) <= 1 => held = {}
  /\ Handler /\ Contents
PhaseInv ==
  /\ phase = "gone" => Gone
  /\ phase = "bound" => Bound
  /\ phase = "remove" => Removing
  /\ phase = "probe" => ProbePhase
  /\ phase = "setup" => SetupPhase
\* a word that was inverted is put back by the very next step
Pending == tcm[ProbeWord.lo] = "inverted" => todo # <<>> /\ todo[1] \in Restores
IInv == TypeOK /\ Pending /\ PhaseInv

-----------------------------------------------------------------------------
(***************************************************************************)
(* What a step is.                                                         *)
(***************************************************************************)
Tagged == {"window", "write", "tcm", "skip if in reset", "clear reset", "irq on", "skip unless olmsg", "around", "round trip"}
Plains == {One(op) : op \in
  {"disable arm", "msi on", "irq off", "msi off", "flip mask", "bus reset", "try enable", "set master", "map",
   "try", "clear master", "free all", "bound", "setup", "fw", "alloc", "olmsg", "unmap", "gone"}}

LEMMA Tags ==
  /\ \A e \in Views : e[1] = "window" /\ e = See(e[2]) /\ e[2] \in Windows
  /\ \A e \in ArmW : e[1] = "write" /\ e[2] = "arm"
  /\ \A e \in D11W : e[1] = "write" /\ e[2] = "d11"
  /\ \A e \in PcieW : e[1] = "write" /\ e[2] = "pcie"
  /\ \A e \in AllStores : e[1] = "tcm"
  /\ \A c : Skip(c)[1] = "skip if in reset" /\ Skip(c)[2] = c /\ Skip(c)[3] = 4 /\ Clear(c)[1] = "clear reset" /\ Clear(c)[2] = c
  /\ \A n : IrqOn(n)[1] = "irq on" /\ IrqOn(n)[2] = n /\ Unless(n)[1] = "skip unless olmsg" /\ Unless(n)[2] = n
  /\ \A e \in IrqOns : e[1] = "irq on" /\ e[2] \in {1, 3}
  /\ \A e \in {Unless(n) : n \in 0 .. 5} : e[1] = "skip unless olmsg" /\ e[2] \in 0 .. 5 /\ e = Unless(e[2])
  /\ Turn[1] = "around" /\ Turn[2] = Flips /\ Trip[1] = "round trip" /\ Trip[2] = ProbeWord
  /\ \A op : One(op)[1] = op
  /\ \A e \in Plains : e = One(e[1]) /\ e[1] \notin Tagged
<1>1. \A e \in Views : e[1] = "window" /\ e = See(e[2]) /\ e[2] \in Windows
  BY DEF Views, See
<1>0. /\ Rel[1] = "write" /\ Rel[2] = "arm" /\ Hlt[1] = "write" /\ Hlt[2] = "arm"
      /\ \A c : InReset(c)[1] = "write" /\ InReset(c)[2] = c
      /\ Rel11[1] = "write" /\ Rel11[2] = "d11" /\ Bell[1] = "write" /\ Bell[2] = "pcie"
      /\ \A b : Msk(b)[1] = "write" /\ Msk(b)[2] = "pcie"
  BY DEF Rel, Hlt, InReset, Rel11, Bell, Msk
<1>2. \A e \in ArmW : e[1] = "write" /\ e[2] = "arm"
  BY <1>0, Zenon DEF ArmW
<1>3. \A e \in D11W : e[1] = "write" /\ e[2] = "d11"
  BY <1>0, Zenon DEF D11W
<1>4. \A e \in PcieW : e[1] = "write" /\ e[2] = "pcie"
  <2>1. Msk(TRUE)[1] = "write" /\ Msk(TRUE)[2] = "pcie" /\ Msk(FALSE)[1] = "write" /\ Msk(FALSE)[2] = "pcie"
    BY DEF Msk
  <2> QED
    BY <1>0, <2>1 DEF PcieW
<1>5. \A e \in AllStores : e[1] = "tcm"
  BY DEF AllStores, FwStore, VectorStore, PreStore, ZeroStore, SharedStore, NvramStore, SeedStore, Restores, Restore
<1>6. \A c : Skip(c)[1] = "skip if in reset" /\ Skip(c)[2] = c /\ Skip(c)[3] = 4 /\ Clear(c)[1] = "clear reset" /\ Clear(c)[2] = c
  BY DEF Skip, Clear
<1>7. \A n : IrqOn(n)[1] = "irq on" /\ IrqOn(n)[2] = n /\ Unless(n)[1] = "skip unless olmsg" /\ Unless(n)[2] = n
  BY DEF IrqOn, Unless
<1>11. \A e \in IrqOns : e[1] = "irq on" /\ e[2] \in {1, 3}
  <2>1. IrqOn1[1] = "irq on" /\ IrqOn3[1] = "irq on" /\ IrqOn1[2] = 1 /\ IrqOn3[2] = 3
    BY DEF IrqOn1, IrqOn3, IrqOn
  <2> QED
    BY <2>1 DEF IrqOns
<1>12. ASSUME NEW e \in {Unless(n) : n \in 0 .. 5} PROVE e[1] = "skip unless olmsg" /\ e[2] \in 0 .. 5 /\ e = Unless(e[2])
  <2>1. PICK n \in 0 .. 5 : e = Unless(n)
    OBVIOUS
  <2>2. e[1] = "skip unless olmsg" /\ e[2] = n
    BY <1>7, <2>1, Zenon
  <2> QED
    BY <2>1, <2>2
<1>8. Turn[1] = "around" /\ Turn[2] = Flips /\ Trip[1] = "round trip" /\ Trip[2] = ProbeWord
  BY DEF Turn, Trip
<1>9. \A op : One(op)[1] = op
  BY DEF One
<1>10. \A e \in Plains : e = One(e[1]) /\ e[1] \notin Tagged
  <2> SUFFICES ASSUME NEW e \in Plains PROVE e = One(e[1]) /\ e[1] \notin Tagged
    OBVIOUS
  <2>1. PICK op \in {"disable arm", "msi on", "irq off", "msi off", "flip mask", "bus reset", "try enable", "set master", "map",
   "try", "clear master", "free all", "bound", "setup", "fw", "alloc", "olmsg", "unmap", "gone"} : e = One(op)
    BY DEF Plains
  <2> QED
    BY <1>9, <2>1 DEF Tagged
<1> QED
  BY <1>1, <1>2, <1>3, <1>4, <1>5, <1>6, <1>7, <1>8, <1>9, <1>10, <1>11, <1>12, ZenonT(40)

LEMMA Names == (\A op : One(op)[1] = op) /\ \A n : IrqOn(n)[1] = "irq on"
BY DEF One, IrqOn

\* A step by its operation.
LEMMA Kinds ==
  ASSUME NEW e \in Steps
  PROVE  /\ e[1] = "window" => e \in Views
         /\ e[1] = "write" => e \in ArmW \cup D11W \cup PcieW
         /\ e[1] = "tcm" => e \in AllStores
         /\ e[1] = "skip if in reset" => e \in {Skip("arm"), Skip("d11")}
         /\ e[1] = "clear reset" => e = Clear("arm")
         /\ e[1] = "irq on" => e \in IrqOns
         /\ e[1] = "skip unless olmsg" => e \in {Unless(n) : n \in 0 .. 5}
         /\ e[1] = "around" => e = Turn
         /\ e[1] = "round trip" => e = Trip
         /\ e[1] \notin Tagged => e \in Plains
<1>1. PICK U : U = {Unless(n) : n \in 0 .. 5}
  OBVIOUS
<1>2. \A x \in U : x[1] = "skip unless olmsg" /\ x[2] \in 0 .. 5 /\ x = Unless(x[2])
  BY <1>1, Tags, ZenonT(60)
<1>3. \/ e \in Views \/ e \in ArmW \/ e \in D11W \/ e \in PcieW \/ e \in AllStores
      \/ e = Skip("arm") \/ e = Skip("d11") \/ e = Clear("arm") \/ e \in IrqOns \/ e \in U
      \/ e = Turn \/ e = Trip \/ e \in Plains
  <2>1. Probing \subseteq Cored \cup Plains /\ Ending \subseteq Plains
        /\ {One("fw"), One("alloc"), One("olmsg"), One("unmap"), One("gone")} \subseteq Plains
    BY DEF Probing, Plains, Ending
  <2>2. Cored \subseteq Views \cup ArmW \cup D11W \cup {Skip("arm"), Skip("d11"), Clear("arm")} \cup Plains
    BY DEF Cored, Cores, Plains
  <2>3. Irqs \subseteq IrqOns \cup Plains
    BY DEF Irqs, Plains
  <2>4. Softs \subseteq U \cup {Turn, Trip} \cup Plains
    BY <1>1 DEF Softs, Plains
  <2> QED
    BY <2>1, <2>2, <2>3, <2>4 DEF Steps, Work
<1>4. \A x \in IrqOns : x[1] = "irq on"
  BY Tags, ZenonT(60)
<1>5. \A x \in Plains : x[1] \notin Tagged
  BY Tags, ZenonT(60)
<1>6. /\ e \in Views => e[1] = "window"
      /\ (e \in ArmW \/ e \in D11W \/ e \in PcieW) => e[1] = "write"
      /\ e \in AllStores => e[1] = "tcm"
  BY Tags, ZenonT(60)
<1>7. Skip("arm")[1] = "skip if in reset" /\ Skip("d11")[1] = "skip if in reset" /\ Clear("arm")[1] = "clear reset"
  BY Tags, ZenonT(60)
<1>8. Turn[1] = "around" /\ Trip[1] = "round trip"
  BY Tags, ZenonT(60)
<1> QED
  BY <1>1, <1>2, <1>3, <1>4, <1>5, <1>6, <1>7, <1>8 DEF Tagged

LEMMA SpanIs ==
  ASSUME NEW e \in Steps
  PROVE  /\ Span(e) \in 0 .. 5
         /\ e[1] \notin {"skip if in reset", "skip unless olmsg", "irq on", "olmsg"} => Span(e) = 0
         /\ e[1] = "skip if in reset" => Span(e) = 4
         /\ e[1] \in {"skip unless olmsg", "irq on"} => Span(e) = e[2]
         /\ e[1] = "olmsg" => Span(e) = 1
<1>0. 4 \in 0 .. 5 /\ 1 \in 0 .. 5 /\ 0 \in 0 .. 5 /\ 3 \in 0 .. 5
  OBVIOUS
<1>1. e[1] \in {"skip unless olmsg", "irq on"} => Span(e) = e[2]
  BY DEF Span
<1>2. e[1] = "skip if in reset" => Span(e) = 4
  BY DEF Span
<1>3. e[1] = "olmsg" => Span(e) = 1
  BY DEF Span
<1>4. e[1] \notin {"skip if in reset", "skip unless olmsg", "irq on", "olmsg"} => Span(e) = 0
  BY DEF Span
<1>5. e[1] = "irq on" => e[2] \in {1, 3}
  BY Kinds, Tags, ZenonT(60)
<1>6. e[1] = "skip unless olmsg" => e[2] \in 0 .. 5
  BY Kinds, Tags, ZenonT(60)
<1> QED
  BY <1>0, <1>1, <1>2, <1>3, <1>4, <1>5, <1>6, Zenon

-----------------------------------------------------------------------------
(***************************************************************************)
(* What is left of a list.                                                 *)
(***************************************************************************)
LEMMA Lengths ==
  ASSUME NEW s \in Seq(Steps)
  PROVE  /\ Len(s) \in Nat /\ \A i \in 1 .. Len(s) : s[i] \in Steps /\ Span(s[i]) \in 0 .. 5
         /\ s # <<>> => Len(s) >= 1 /\ Head(s) = s[1] /\ s[1] \in Steps
         /\ s = <<>> => Len(s) = 0
<1>1. Len(s) \in Nat /\ \A i \in 1 .. Len(s) : s[i] \in Steps
  BY LenProperties, ElementOfSeq
<1>2. \A i \in 1 .. Len(s) : Span(s[i]) \in 0 .. 5
  BY <1>1, SpanIs
<1>3. s # <<>> => Len(s) >= 1
  BY <1>1, EmptySeq
<1>4. s # <<>> => Head(s) = s[1] /\ s[1] \in Steps
  BY <1>1, <1>3
<1> QED
  BY <1>1, <1>2, <1>3, <1>4

\* u is s without its first m steps
Left(s, u, m) ==
  /\ s \in Seq(Steps) /\ u \in Seq(Steps) /\ m \in Nat /\ Len(s) \in Nat /\ Len(u) \in Nat
  /\ Len(s) = m + Len(u) /\ \A i \in 1 .. Len(u) : u[i] = s[m + i] /\ m + i \in 1 .. Len(s)

LEMMA LeftIs ==
  ASSUME NEW s \in Seq(Steps), NEW m \in Nat, m <= Len(s)
  PROVE  Left(s, SubSeq(s, m + 1, Len(s)), m)
<1> DEFINE u == SubSeq(s, m + 1, Len(s))
<1>1. Len(s) \in Nat
  BY Lengths
<1>2. \A i \in m + 1 .. Len(s) : s[i] \in Steps
  BY <1>1, Lengths
<1>3. /\ u \in Seq(Steps)
      /\ Len(u) = IF m + 1 <= Len(s) THEN Len(s) - (m + 1) + 1 ELSE 0
      /\ \A i \in 1 .. Len(s) - (m + 1) + 1 : u[i] = s[m + 1 + i - 1]
  BY <1>1, <1>2, SubSeqProperties
<1> HIDE DEF u
<1>4. Len(u) = Len(s) - m /\ Len(u) \in Nat
  BY <1>1, <1>3
<1>5. \A i \in 1 .. Len(u) : u[i] = s[m + i] /\ m + i \in 1 .. Len(s)
  <2> SUFFICES ASSUME NEW i \in 1 .. Len(u) PROVE u[i] = s[m + i] /\ m + i \in 1 .. Len(s)
    OBVIOUS
  <2>1. i \in 1 .. Len(s) - (m + 1) + 1 /\ m + 1 + i - 1 = m + i /\ m + i \in 1 .. Len(s)
    BY <1>1, <1>4
  <2>2. u[i] = s[m + 1 + i - 1]
    BY <1>3, <2>1
  <2> QED
    BY <2>1, <2>2
<1> QED
  BY <1>1, <1>3, <1>4, <1>5 DEF Left, u

LEMMA LeftKeeps ==
  ASSUME NEW s, NEW u, NEW m, Left(s, u, m)
  PROVE  /\ \A V : Only(s, V) => Only(u, V)
         /\ \A e : Has(u, e) => Has(s, e)
         /\ Sealed(s) => Sealed(u)
         /\ NoRel(s) => NoRel(u)
         /\ RelLast(s) => RelLast(u)
         /\ \A e, X : Before(s, e, X) => Before(u, e, X)
         /\ \A V, a, b, c : Closes(s, V, a, b, c) /\ u # <<>> => Closes(u, V, a, b, c)
<1>0. /\ u \in Seq(Steps) /\ m \in Nat /\ Len(s) \in Nat /\ Len(u) \in Nat
      /\ Len(s) = m + Len(u) /\ \A i \in 1 .. Len(u) : u[i] = s[m + i] /\ m + i \in 1 .. Len(s)
  BY DEF Left
<1>1. ASSUME NEW V, Only(s, V) PROVE Only(u, V)
  BY <1>0, <1>1 DEF Only
<1>2. ASSUME NEW e, Has(u, e) PROVE Has(s, e)
  BY <1>0, <1>2 DEF Has
<1>3. Sealed(s) => Sealed(u)
  BY <1>0 DEF Sealed
<1>4. NoRel(s) => NoRel(u)
  BY <1>0 DEF NoRel
<1>5. ASSUME RelLast(s) PROVE RelLast(u)
  <2> SUFFICES ASSUME NEW i \in 1 .. Len(u), NEW j \in i + 1 .. Len(u), u[i] = Rel PROVE Late(u[j])
    BY DEF RelLast
  <2>1. j \in 1 .. Len(u)
    BY <1>0
  <2>2. m + j \in m + i + 1 .. Len(s) /\ m + i \in 1 .. Len(s) /\ u[i] = s[m + i] /\ u[j] = s[m + j]
    BY <1>0, <2>1
  <2> QED
    BY <1>5, <2>2 DEF RelLast
<1>6. ASSUME NEW e, NEW X, Before(s, e, X) PROVE Before(u, e, X)
  <2> SUFFICES ASSUME NEW i \in 1 .. Len(u), NEW k \in 1 .. i - 1, u[i] = e PROVE u[k] \in X
    BY DEF Before
  <2>1. k \in 1 .. Len(u)
    BY <1>0
  <2>2. m + k \in 1 .. m + i - 1 /\ m + i \in 1 .. Len(s) /\ u[i] = s[m + i] /\ u[k] = s[m + k]
    BY <1>0, <2>1
  <2> QED
    <3>1. \A r \in 1 .. Len(s) : s[r] = e => \A q \in 1 .. r - 1 : s[q] \in X
      BY <1>6 DEF Before
    <3>2. PICK r : r = m + i
      OBVIOUS
    <3>3. PICK q : q = m + k
      OBVIOUS
    <3>4. r \in 1 .. Len(s) /\ s[r] = e /\ q \in 1 .. r - 1 /\ u[k] = s[q]
      BY <1>0, <2>2, <3>2, <3>3
    <3> QED
      BY <3>1, <3>4, Zenon
<1>7. ASSUME NEW V, NEW a, NEW b, NEW c, Closes(s, V, a, b, c), u # <<>> PROVE Closes(u, V, a, b, c)
  <2>1. Len(u) >= 1
    BY <1>0, <1>7, Lengths
  <2>2. u[Len(u)] = c
    <3>1. Len(u) \in 1 .. Len(u) /\ m + Len(u) = Len(s) /\ Len(s) >= 1
      BY <1>0, <2>1
    <3> QED
      BY <1>0, <1>7, <3>1 DEF Closes
  <2>3. Len(u) >= 2 => u[Len(u) - 1] = b
    <3>1. ASSUME Len(u) >= 2 PROVE u[Len(u) - 1] = b
      <4>1. Len(u) - 1 \in 1 .. Len(u) /\ m + (Len(u) - 1) = Len(s) - 1 /\ Len(s) >= 2
        BY <1>0, <3>1
      <4> QED
        BY <1>0, <1>7, <4>1 DEF Closes
    <3> QED
      BY <3>1
  <2>4. Len(u) >= 3 => u[Len(u) - 2] = a
    <3>1. ASSUME Len(u) >= 3 PROVE u[Len(u) - 2] = a
      <4>1. Len(u) - 2 \in 1 .. Len(u) /\ m + (Len(u) - 2) = Len(s) - 2 /\ Len(s) >= 3
        BY <1>0, <3>1
      <4> QED
        BY <1>0, <1>7, <4>1 DEF Closes
    <3> QED
      BY <3>1
  <2>5. \A i \in 1 .. Len(u) - 3 : u[i] \in V
    <3> SUFFICES ASSUME NEW i \in 1 .. Len(u) - 3 PROVE u[i] \in V
      OBVIOUS
    <3>1. i \in 1 .. Len(u) /\ m + i \in 1 .. Len(s) - 3
      BY <1>0
    <3>2. u[i] = s[m + i]
      BY <1>0, <3>1
    <3> QED
      BY <1>7, <3>1, <3>2 DEF Closes
  <2> QED
    BY <2>1, <2>2, <2>3, <2>4, <2>5 DEF Closes
<1> QED
  BY <1>1, <1>2, <1>3, <1>4, <1>5, <1>6, <1>7

\* Positions of what surrounds the handler.
LEMMA FrameNumbers ==
  ASSUME NEW a \in Nat, NEW m \in Nat, NEW b, b = m + a, NEW i \in 1 .. a, NEW n \in 1 .. 3
  PROVE  /\ m + i + n + 1 <= b =>
              /\ i + n + 1 <= a /\ i + n \in 1 .. a /\ i + n + 1 \in 1 .. a
              /\ m + (i + n) = m + i + n /\ m + (i + n + 1) = m + i + n + 1
         /\ i + n + 1 <= a => \A k \in i + 1 .. i + n - 1 : k \in 1 .. a /\ m + k \in m + i + 1 .. m + i + n - 1
OBVIOUS

LEMMA LeftStatic ==
  ASSUME NEW s, NEW u, NEW m, Left(s, u, m), Static(s)
  PROVE  Static(u)
<1>0. /\ s \in Seq(Steps) /\ u \in Seq(Steps) /\ m \in Nat /\ Len(s) \in Nat /\ Len(u) \in Nat
      /\ Len(s) = m + Len(u) /\ \A i \in 1 .. Len(u) : u[i] = s[m + i] /\ m + i \in 1 .. Len(s)
  BY DEF Left
<1>1. Written(u)
  <2> SUFFICES ASSUME NEW i \in 2 .. Len(u), u[i] \in ArmW PROVE u[i - 1] = See("arm")
    BY DEF Written
  <2>1. i \in 1 .. Len(u) /\ i - 1 \in 1 .. Len(u) /\ m + i \in 2 .. Len(s) /\ m + (i - 1) = m + i - 1
    BY <1>0
  <2>2. u[i] = s[m + i] /\ u[i - 1] = s[m + i - 1]
    BY <1>0, <2>1
  <2> QED
    <3>1. \A r \in 2 .. Len(s) : s[r] \in ArmW => s[r - 1] = See("arm")
      BY DEF Written, Static
    <3>2. PICK r : r = m + i
      OBVIOUS
    <3>3. r \in 2 .. Len(s) /\ u[i] = s[r] /\ u[i - 1] = s[r - 1]
      BY <1>0, <2>1, <2>2, <3>2
    <3> QED
      BY <3>1, <3>3, Zenon
<1>2. ASSUME NEW i \in 1 .. Len(u)
      PROVE  /\ i + Span(u[i]) <= Len(u)
             /\ \A k \in i + 1 .. i + Span(u[i]) : u[k] \in Light
             /\ Span(u[i]) > 0 => \A k \in 1 .. Len(u) : k = i + Span(u[i]) + 1 => u[k] \notin ArmW
  <2>1. PICK n : n = Span(u[i])
    OBVIOUS
  <2>2. n \in 0 .. 5
    BY <1>0, <2>1, Lengths
  <2>3. m + i \in 1 .. Len(s) /\ u[i] = s[m + i] /\ n = Span(s[m + i])
    BY <1>0, <2>1
  <2>4. /\ m + i + n <= Len(s)
        /\ \A k \in m + i + 1 .. m + i + n : s[k] \in Light
        /\ n > 0 => \A k \in 1 .. Len(s) : k = m + i + n + 1 => s[k] \notin ArmW
    BY <2>3 DEF Spans, Static
  <2>5. i + n <= Len(u)
    BY <1>0, <2>2, <2>4
  <2>6. ASSUME NEW k \in i + 1 .. i + n PROVE u[k] \in Light
    <3>1. k \in 1 .. Len(u) /\ m + k \in m + i + 1 .. m + i + n
      BY <1>0, <2>2, <2>5
    <3> QED
      BY <1>0, <2>4, <3>1
  <2>7. ASSUME n > 0, NEW k \in 1 .. Len(u), k = i + n + 1 PROVE u[k] \notin ArmW
    <3>1. m + k \in 1 .. Len(s) /\ m + k = m + i + n + 1 /\ u[k] = s[m + k]
      BY <1>0, <2>2, <2>7
    <3> QED
      BY <2>4, <2>7, <3>1
  <2> QED
    BY <2>1, <2>5, <2>6, <2>7
<1>3. Spans(u)
  BY <1>2 DEF Spans
<1>4. ASSUME NEW i \in 1 .. Len(u), u[i] = One("msi on") PROVE i < Len(u) /\ u[i + 1] \in IrqOns
  <2>1. m + i \in 1 .. Len(s) /\ s[m + i] = One("msi on")
    BY <1>0, <1>4
  <2>2. m + i < Len(s) /\ s[m + i + 1] \in IrqOns
    BY <2>1 DEF Framed, Static
  <2>3. i + 1 \in 1 .. Len(u) /\ m + (i + 1) = m + i + 1 /\ i < Len(u)
    BY <1>0, <2>2
  <2>4. u[i + 1] = s[m + i + 1]
    BY <1>0, <2>3
  <2> QED
    BY <2>2, <2>3, <2>4
<1>5. ASSUME NEW i \in 1 .. Len(u), NEW n \in 1 .. 3, u[i] = IrqOn(n)
      PROVE  /\ i + n + 1 <= Len(u) /\ u[i + n] = One("irq off") /\ u[i + n + 1] = One("msi off")
             /\ \A k \in i + 1 .. i + n - 1 : u[k] \in PcieW
  <2>1. m + i \in 1 .. Len(s) /\ s[m + i] = IrqOn(n)
    BY <1>0, <1>5
  <2>2. /\ m + i + n + 1 <= Len(s) /\ s[m + i + n] = One("irq off") /\ s[m + i + n + 1] = One("msi off")
        /\ \A k \in m + i + 1 .. m + i + n - 1 : s[k] \in PcieW
    BY <2>1 DEF Framed, Static
  <2>3. i + n + 1 <= Len(u) /\ i + n \in 1 .. Len(u) /\ i + n + 1 \in 1 .. Len(u)
        /\ m + (i + n) = m + i + n /\ m + (i + n + 1) = m + i + n + 1
    <3>1. m + i + n + 1 <= Len(s)
      BY <2>2
    <3> QED
      BY <1>0, <3>1, FrameNumbers
  <2>4. u[i + n] = s[m + i + n] /\ u[i + n + 1] = s[m + i + n + 1]
    <3>1. u[i + n] = s[m + (i + n)] /\ u[i + n + 1] = s[m + (i + n + 1)]
      BY <1>0, <2>3, Zenon
    <3> QED
      BY <2>3, <3>1, Zenon
  <2>5. ASSUME NEW k \in i + 1 .. i + n - 1 PROVE u[k] \in PcieW
    <3>1. k \in 1 .. Len(u) /\ m + k \in m + i + 1 .. m + i + n - 1
      BY <1>0, <2>3, FrameNumbers, Zenon
    <3> QED
      BY <1>0, <2>2, <3>1
  <2> QED
    BY <2>2, <2>3, <2>4, <2>5
<1> QED
  BY <1>1, <1>3, <1>4, <1>5 DEF Static, Framed

-----------------------------------------------------------------------------
(***************************************************************************)
(* One list after another.                                                 *)
(***************************************************************************)
\* w is s and then t
Joint(w, s, t) ==
  /\ s \in Seq(Steps) /\ t \in Seq(Steps) /\ w \in Seq(Steps)
  /\ Len(s) \in Nat /\ Len(t) \in Nat /\ Len(w) = Len(s) + Len(t)
  /\ \A i \in 1 .. Len(s) : w[i] = s[i] /\ i \in 1 .. Len(w)
  /\ \A i \in 1 .. Len(t) : w[Len(s) + i] = t[i] /\ Len(s) + i \in 1 .. Len(w)
  /\ \A i \in 1 .. Len(w) : \/ i \in 1 .. Len(s)
                            \/ i - Len(s) \in 1 .. Len(t) /\ i > Len(s) /\ w[i] = t[i - Len(s)]

LEMMA JointIs ==
  ASSUME NEW s \in Seq(Steps), NEW t \in Seq(Steps)
  PROVE  Joint(s \o t, s, t)
<1> DEFINE w == s \o t
<1>1. Len(s) \in Nat /\ Len(t) \in Nat
  BY Lengths
<1>2. /\ w \in Seq(Steps) /\ Len(w) = Len(s) + Len(t)
      /\ \A i \in 1 .. Len(s) + Len(t) : w[i] = IF i <= Len(s) THEN s[i] ELSE t[i - Len(s)]
  BY ConcatProperties
<1> HIDE DEF w
<1>3. \A i \in 1 .. Len(s) : w[i] = s[i] /\ i \in 1 .. Len(w)
  BY <1>1, <1>2
<1>4. ASSUME NEW i \in 1 .. Len(t) PROVE w[Len(s) + i] = t[i] /\ Len(s) + i \in 1 .. Len(w)
  <2>1. Len(s) + i \in 1 .. Len(s) + Len(t) /\ ~(Len(s) + i <= Len(s)) /\ Len(s) + i - Len(s) = i
    BY <1>1
  <2> QED
    BY <1>2, <2>1
<1>5. \A i \in 1 .. Len(w) : \/ i \in 1 .. Len(s)
                             \/ i - Len(s) \in 1 .. Len(t) /\ i > Len(s) /\ w[i] = t[i - Len(s)]
  BY <1>1, <1>2
<1> QED
  BY <1>1, <1>2, <1>3, <1>4, <1>5 DEF Joint, w

LEMMA JointKeeps ==
  ASSUME NEW w, NEW s, NEW t, Joint(w, s, t)
  PROVE  /\ \A V : Only(s, V) /\ Only(t, V) => Only(w, V)
         /\ \A e : Has(w, e) <=> Has(s, e) \/ Has(t, e)
         /\ Sealed(s) /\ Sealed(t) => Sealed(w)
         /\ NoRel(s) /\ NoRel(t) => NoRel(w)
         /\ RelLast(s) /\ RelLast(t) /\ (NoRel(s) \/ Sealed(t)) => RelLast(w)
         /\ \A e, X : Before(s, e, X) /\ ~Has(t, e) => Before(w, e, X)
<1>0. /\ Len(s) \in Nat /\ Len(t) \in Nat /\ Len(w) = Len(s) + Len(t)
      /\ \A i \in 1 .. Len(s) : w[i] = s[i] /\ i \in 1 .. Len(w)
      /\ \A i \in 1 .. Len(t) : w[Len(s) + i] = t[i] /\ Len(s) + i \in 1 .. Len(w)
      /\ \A i \in 1 .. Len(w) : \/ i \in 1 .. Len(s)
                                \/ i - Len(s) \in 1 .. Len(t) /\ i > Len(s) /\ w[i] = t[i - Len(s)]
  BY DEF Joint
<1>9. \A i \in 1 .. Len(w) : (\E k \in 1 .. Len(s) : w[i] = s[k]) \/ (\E k \in 1 .. Len(t) : w[i] = t[k])
  BY <1>0
<1>1. ASSUME NEW V, Only(s, V), Only(t, V) PROVE Only(w, V)
  BY <1>1, <1>9 DEF Only
<1>2. ASSUME NEW e PROVE Has(w, e) <=> Has(s, e) \/ Has(t, e)
  <2>1. Has(w, e) => Has(s, e) \/ Has(t, e)
    BY <1>9 DEF Has
  <2>2. Has(s, e) => Has(w, e)
    BY <1>0 DEF Has
  <2>3. Has(t, e) => Has(w, e)
    BY <1>0 DEF Has
  <2> QED
    BY <2>1, <2>2, <2>3
<1>3. Sealed(s) /\ Sealed(t) => Sealed(w)
  BY <1>9 DEF Sealed
<1>4. NoRel(s) /\ NoRel(t) => NoRel(w)
  BY <1>9 DEF NoRel
<1>5. ASSUME RelLast(s), RelLast(t), NoRel(s) \/ Sealed(t) PROVE RelLast(w)
  <2> SUFFICES ASSUME NEW i \in 1 .. Len(w), NEW j \in i + 1 .. Len(w), w[i] = Rel PROVE Late(w[j])
    BY DEF RelLast
  <2>1. j \in 1 .. Len(w)
    BY <1>0
  <2>2. CASE i \in 1 .. Len(s) /\ j \in 1 .. Len(s)
    <3>1. s[i] = Rel /\ w[j] = s[j] /\ j \in i + 1 .. Len(s)
      BY <1>0, <2>2
    <3> QED
      BY <1>5, <2>2, <3>1 DEF RelLast
  <2>3. CASE i \in 1 .. Len(s) /\ j \notin 1 .. Len(s)
    <3>1. ~NoRel(s)
      BY <1>0, <2>3 DEF NoRel
    <3>2. \E k \in 1 .. Len(t) : w[j] = t[k]
      BY <1>0, <2>1, <2>3
    <3> QED
      BY <1>5, <3>1, <3>2 DEF Sealed
  <2>4. CASE i \notin 1 .. Len(s)
    <3>1. PICK p : p = i - Len(s)
      OBVIOUS
    <3>2. PICK q : q = j - Len(s)
      OBVIOUS
    <3>3. p \in 1 .. Len(t) /\ q \in p + 1 .. Len(t) /\ q \in 1 .. Len(t) /\ Len(s) + p = i /\ Len(s) + q = j
      BY <1>0, <2>1, <2>4, <3>1, <3>2
    <3>4. t[p] = Rel /\ w[j] = t[q]
      BY <1>0, <3>3
    <3> QED
      BY <1>5, <3>3, <3>4 DEF RelLast
  <2> QED
    BY <2>2, <2>3, <2>4
<1>6. ASSUME NEW e, NEW X, Before(s, e, X), ~Has(t, e) PROVE Before(w, e, X)
  <2> SUFFICES ASSUME NEW i \in 1 .. Len(w), w[i] = e, NEW k \in 1 .. i - 1 PROVE w[k] \in X
    BY DEF Before
  <2>1. i \in 1 .. Len(s)
    BY <1>0, <1>6 DEF Has
  <2>2. s[i] = e /\ w[k] = s[k]
    BY <1>0, <2>1
  <2> QED
    BY <1>6, <2>1, <2>2 DEF Before
<1> QED
  BY <1>1, <1>2, <1>3, <1>4, <1>5, <1>6

LEMMA JointCloses ==
  ASSUME NEW w, NEW s, NEW t, Joint(w, s, t), NEW V, NEW a, NEW b, NEW c,
         Only(s, V), Closes(t, V, a, b, c), Len(t) >= 3
  PROVE  Closes(w, V, a, b, c) /\ Len(w) >= 3
<1>0. /\ Len(s) \in Nat /\ Len(t) \in Nat /\ Len(w) = Len(s) + Len(t)
      /\ \A i \in 1 .. Len(s) : w[i] = s[i] /\ i \in 1 .. Len(w)
      /\ \A i \in 1 .. Len(t) : w[Len(s) + i] = t[i] /\ Len(s) + i \in 1 .. Len(w)
      /\ \A i \in 1 .. Len(w) : \/ i \in 1 .. Len(s)
                                \/ i - Len(s) \in 1 .. Len(t) /\ i > Len(s) /\ w[i] = t[i - Len(s)]
  BY DEF Joint
<1>1. Len(w) >= 3 /\ Len(t) \in 1 .. Len(t) /\ Len(t) - 1 \in 1 .. Len(t) /\ Len(t) - 2 \in 1 .. Len(t)
      /\ Len(s) + Len(t) = Len(w) /\ Len(s) + (Len(t) - 1) = Len(w) - 1 /\ Len(s) + (Len(t) - 2) = Len(w) - 2
  BY <1>0
<1>2. w[Len(w)] = c /\ w[Len(w) - 1] = b /\ w[Len(w) - 2] = a
  <2>1. t[Len(t)] = c /\ t[Len(t) - 1] = b /\ t[Len(t) - 2] = a
    BY <1>0 DEF Closes
  <2>2. w[Len(w)] = t[Len(t)] /\ w[Len(w) - 1] = t[Len(t) - 1] /\ w[Len(w) - 2] = t[Len(t) - 2]
    BY <1>0, <1>1
  <2> QED
    BY <2>1, <2>2
<1>3. ASSUME NEW i \in 1 .. Len(w) - 3 PROVE w[i] \in V
  <2>1. CASE i \in 1 .. Len(s)
    BY <1>0, <2>1 DEF Only
  <2>2. CASE i - Len(s) \in 1 .. Len(t) /\ w[i] = t[i - Len(s)]
    <3>1. i - Len(s) \in 1 .. Len(t) - 3
      BY <1>0, <1>1, <2>2
    <3> QED
      BY <2>2, <3>1 DEF Closes
  <2>3. i \in 1 .. Len(w)
    BY <1>0, <1>1
  <2> QED
    BY <1>0, <2>1, <2>2, <2>3
<1> QED
  BY <1>0, <1>1, <1>2, <1>3 DEF Closes

LEMMA JointSure ==
  ASSUME NEW w, NEW s, NEW t, Joint(w, s, t)
  PROVE  /\ Sure(s) /\ NoRel(t) => Sure(w)
         /\ Spans(s) /\ Sure(t) => Sure(w)
<1>0. /\ s \in Seq(Steps) /\ t \in Seq(Steps)
      /\ Len(s) \in Nat /\ Len(t) \in Nat /\ Len(w) = Len(s) + Len(t)
      /\ \A i \in 1 .. Len(s) : w[i] = s[i] /\ i \in 1 .. Len(w)
      /\ \A i \in 1 .. Len(t) : w[Len(s) + i] = t[i] /\ Len(s) + i \in 1 .. Len(w)
      /\ \A i \in 1 .. Len(w) : \/ i \in 1 .. Len(s)
                                \/ i - Len(s) \in 1 .. Len(t) /\ i > Len(s) /\ w[i] = t[i - Len(s)]
  BY DEF Joint
<1>1. ASSUME Sure(s), NoRel(t) PROVE Sure(w)
  <2>1. PICK j \in 1 .. Len(s) :
          /\ s[j] \in {Hlt, One("disable arm")}
          /\ \A k \in j + 1 .. Len(s) : s[k] # Rel
          /\ \A i \in 1 .. j - 1 : i + Span(s[i]) < j
    BY <1>1 DEF Sure
  <2>2. j \in 1 .. Len(w) /\ w[j] = s[j]
    BY <1>0
  <2>3. ASSUME NEW k \in j + 1 .. Len(w) PROVE w[k] # Rel
    <3>1. k \in 1 .. Len(w)
      BY <1>0
    <3>2. CASE k \in 1 .. Len(s)
      <4>1. k \in j + 1 .. Len(s) /\ w[k] = s[k]
        BY <1>0, <3>2
      <4> QED
        BY <2>1, <4>1
    <3>3. CASE k - Len(s) \in 1 .. Len(t) /\ w[k] = t[k - Len(s)]
      BY <1>1, <3>3 DEF NoRel
    <3> QED
      BY <1>0, <3>1, <3>2, <3>3
  <2>4. ASSUME NEW i \in 1 .. j - 1 PROVE i + Span(w[i]) < j
    <3>1. w[i] = s[i]
      BY <1>0
    <3>2. i + Span(s[i]) < j
      BY <2>1
    <3> QED
      BY <3>1, <3>2
  <2> QED
    BY <2>1, <2>2, <2>3, <2>4 DEF Sure
<1>2. ASSUME Spans(s), Sure(t) PROVE Sure(w)
  <2>1. PICK j \in 1 .. Len(t) :
          /\ t[j] \in {Hlt, One("disable arm")}
          /\ \A k \in j + 1 .. Len(t) : t[k] # Rel
          /\ \A i \in 1 .. j - 1 : i + Span(t[i]) < j
    BY <1>2 DEF Sure
  <2>2. PICK h : h = Len(s) + j
    OBVIOUS
  <2>3. h \in 1 .. Len(w) /\ w[h] = t[j]
    BY <1>0, <2>2
  <2>4. ASSUME NEW k \in h + 1 .. Len(w) PROVE w[k] # Rel
    <3>1. PICK q : q = k - Len(s)
      OBVIOUS
    <3>2. q \in j + 1 .. Len(t) /\ q \in 1 .. Len(t) /\ Len(s) + q = k
      BY <1>0, <2>2, <3>1
    <3> QED
      BY <1>0, <2>1, <3>2
  <2>5. ASSUME NEW i \in 1 .. h - 1 PROVE i + Span(w[i]) < h
    <3>1. CASE i \in 1 .. Len(s)
      <4>1. i + Span(s[i]) <= Len(s) /\ w[i] = s[i]
        BY <1>0, <1>2, <3>1 DEF Spans
      <4>2. Span(s[i]) \in Nat
        <5>1. Span(s[i]) \in 0 .. 5
          BY <1>0, <3>1, Lengths
        <5> QED
          BY <5>1
      <4>3. i + Span(s[i]) < h
        BY <1>0, <2>2, <3>1, <4>1, <4>2
      <4> QED
        BY <4>1, <4>3
    <3>2. CASE i \notin 1 .. Len(s)
      <4>1. PICK q : q = i - Len(s)
        OBVIOUS
      <4>2. q \in 1 .. j - 1 /\ q \in 1 .. Len(t) /\ Len(s) + q = i
        BY <1>0, <2>2, <3>2, <4>1
      <4>3. w[i] = t[q] /\ q + Span(t[q]) < j
        BY <1>0, <2>1, <4>2
      <4>4. Span(t[q]) \in Nat
        <5>1. Span(t[q]) \in 0 .. 5
          BY <1>0, <4>2, Lengths
        <5> QED
          BY <5>1
      <4>5. i + Span(t[q]) < h
        BY <1>0, <2>2, <4>2, <4>3, <4>4
      <4> QED
        BY <4>3, <4>5
    <3> QED
      BY <3>1, <3>2
  <2> QED
    BY <2>1, <2>3, <2>4, <2>5 DEF Sure
<1> QED
  BY <1>1, <1>2

\* The first step may stand anywhere.
Starts(s) == s # <<>> => s[1] \notin ArmW

LEMMA JointStatic ==
  ASSUME NEW w, NEW s, NEW t, Joint(w, s, t), Static(s), Static(t), Starts(t)
  PROVE  Static(w)
<1>0. /\ s \in Seq(Steps) /\ t \in Seq(Steps)
      /\ Len(s) \in Nat /\ Len(t) \in Nat /\ Len(w) = Len(s) + Len(t)
      /\ \A i \in 1 .. Len(s) : w[i] = s[i] /\ i \in 1 .. Len(w)
      /\ \A i \in 1 .. Len(t) : w[Len(s) + i] = t[i] /\ Len(s) + i \in 1 .. Len(w)
      /\ \A i \in 1 .. Len(w) : \/ i \in 1 .. Len(s)
                                \/ i - Len(s) \in 1 .. Len(t) /\ i > Len(s) /\ w[i] = t[i - Len(s)]
  BY DEF Joint
<1>1. 1 \in 1 .. Len(t) => t[1] \notin ArmW
  BY <1>0, EmptySeq DEF Starts
<1>2. Written(w)
  <2> SUFFICES ASSUME NEW i \in 2 .. Len(w), w[i] \in ArmW PROVE w[i - 1] = See("arm")
    BY DEF Written
  <2>0. i \in 1 .. Len(w)
    BY <1>0
  <2>1. CASE i \in 1 .. Len(s)
    <3>1. i \in 2 .. Len(s) /\ i - 1 \in 1 .. Len(s) /\ w[i] = s[i]
      BY <1>0, <2>1
    <3>2. w[i - 1] = s[i - 1]
      BY <1>0, <3>1
    <3>3. s[i - 1] = See("arm")
      BY <3>1 DEF Static, Written
    <3> QED
      BY <3>2, <3>3
  <2>2. CASE i \notin 1 .. Len(s)
    <3>1. PICK q : q = i - Len(s)
      OBVIOUS
    <3>2. q \in 1 .. Len(t) /\ w[i] = t[q] /\ Len(s) + q = i
      BY <1>0, <2>0, <2>2, <3>1
    <3>3. q # 1
      BY <1>1, <3>2
    <3>4. q \in 2 .. Len(t) /\ q - 1 \in 1 .. Len(t) /\ Len(s) + (q - 1) = i - 1
      BY <1>0, <3>2, <3>3
    <3>5. w[i - 1] = t[q - 1]
      BY <1>0, <3>4
    <3>6. t[q - 1] = See("arm")
      BY <3>2, <3>4 DEF Static, Written
    <3> QED
      BY <3>5, <3>6
  <2> QED
    BY <2>1, <2>2
<1>3. ASSUME NEW i \in 1 .. Len(w)
      PROVE  /\ i + Span(w[i]) <= Len(w)
             /\ \A k \in i + 1 .. i + Span(w[i]) : w[k] \in Light
             /\ Span(w[i]) > 0 => \A k \in 1 .. Len(w) : k = i + Span(w[i]) + 1 => w[k] \notin ArmW
  <2>1. CASE i \in 1 .. Len(s)
    <3>1. PICK n : n = Span(s[i])
      OBVIOUS
    <3>2. n \in 0 .. 5
      BY <1>0, <2>1, <3>1, Lengths
    <3>3. w[i] = s[i]
      BY <1>0, <2>1
    <3>4. /\ i + n <= Len(s)
          /\ \A k \in i + 1 .. i + n : s[k] \in Light
          /\ n > 0 => \A k \in 1 .. Len(s) : k = i + n + 1 => s[k] \notin ArmW
      BY <2>1, <3>1 DEF Static, Spans
    <3>5. i + n <= Len(w)
      BY <1>0, <3>2, <3>4
    <3>6. ASSUME NEW k \in i + 1 .. i + n PROVE w[k] \in Light
      <4>1. k \in 1 .. Len(s)
        BY <1>0, <2>1, <3>2, <3>4
      <4> QED
        BY <1>0, <3>4, <4>1
    <3>7. ASSUME n > 0, NEW k \in 1 .. Len(w), k = i + n + 1 PROVE w[k] \notin ArmW
      <4>1. CASE k \in 1 .. Len(s)
        <5>1. s[k] \notin ArmW
          BY <3>4, <3>7, <4>1
        <5> QED
          BY <1>0, <4>1, <5>1
      <4>2. CASE k \notin 1 .. Len(s)
        <5>1. k = Len(s) + 1 /\ 1 \in 1 .. Len(t)
          BY <1>0, <2>1, <3>2, <3>4, <3>7, <4>2
        <5>2. w[k] = t[1]
          BY <1>0, <5>1
        <5> QED
          BY <1>1, <5>1, <5>2
      <4> QED
        BY <4>1, <4>2
    <3> QED
      BY <3>1, <3>3, <3>5, <3>6, <3>7
  <2>2. CASE i \notin 1 .. Len(s)
    <3>0. PICK q : q = i - Len(s)
      OBVIOUS
    <3>9. q \in 1 .. Len(t) /\ w[i] = t[q] /\ Len(s) + q = i
      BY <1>0, <2>2, <3>0
    <3>1. PICK n : n = Span(t[q])
      OBVIOUS
    <3>2. n \in 0 .. 5
      BY <1>0, <3>9, <3>1, Lengths
    <3>4. /\ q + n <= Len(t)
          /\ \A k \in q + 1 .. q + n : t[k] \in Light
          /\ n > 0 => \A k \in 1 .. Len(t) : k = q + n + 1 => t[k] \notin ArmW
      BY <3>9, <3>1 DEF Static, Spans
    <3>5. i + n <= Len(w)
      BY <1>0, <3>2, <3>4, <3>9
    <3>6. ASSUME NEW k \in i + 1 .. i + n PROVE w[k] \in Light
      <4>1. PICK r : r = k - Len(s)
        OBVIOUS
      <4>2. r \in q + 1 .. q + n /\ r \in 1 .. Len(t) /\ Len(s) + r = k
        BY <1>0, <3>2, <3>4, <3>9, <4>1
      <4> QED
        BY <1>0, <3>4, <4>2
    <3>7. ASSUME n > 0, NEW k \in 1 .. Len(w), k = i + n + 1 PROVE w[k] \notin ArmW
      <4>1. PICK r : r = k - Len(s)
        OBVIOUS
      <4>2. r = q + n + 1 /\ r \in 1 .. Len(t) /\ Len(s) + r = k
        <5>1. k = i + n + 1 /\ k \in 1 .. Len(w)
          BY <3>7
        <5> QED
          BY <1>0, <3>2, <3>9, <4>1, <5>1
      <4>3. t[r] \notin ArmW
        BY <3>4, <3>7, <4>2
      <4> QED
        BY <1>0, <4>2, <4>3
    <3> QED
      BY <3>1, <3>5, <3>6, <3>7, <3>9
  <2> QED
    BY <2>1, <2>2
<1>4. Spans(w)
  BY <1>3 DEF Spans
<1>5. ASSUME NEW i \in 1 .. Len(w), w[i] = One("msi on") PROVE i < Len(w) /\ w[i + 1] \in IrqOns
  <2>1. CASE i \in 1 .. Len(s)
    <3>1. s[i] = One("msi on")
      BY <1>0, <1>5, <2>1
    <3>2. i < Len(s) /\ s[i + 1] \in IrqOns
      BY <2>1, <3>1 DEF Static, Framed
    <3>3. i + 1 \in 1 .. Len(s) /\ i < Len(w)
      BY <1>0, <2>1, <3>2
    <3> QED
      BY <1>0, <3>2, <3>3
  <2>2. CASE i \notin 1 .. Len(s)
    <3>0. PICK q : q = i - Len(s)
      OBVIOUS
    <3>9. q \in 1 .. Len(t) /\ w[i] = t[q] /\ Len(s) + q = i
      BY <1>0, <2>2, <3>0
    <3>2. q < Len(t) /\ t[q + 1] \in IrqOns
      BY <1>5, <3>9 DEF Static, Framed
    <3>3. q + 1 \in 1 .. Len(t) /\ i < Len(w) /\ Len(s) + (q + 1) = i + 1
      <4>1. q < Len(t)
        BY <3>2
      <4>2. Len(t) \in Nat /\ Len(s) \in Nat /\ Len(w) = Len(s) + Len(t) /\ q \in 1 .. Len(t) /\ Len(s) + q = i
        BY <1>0, <3>9
      <4> QED
        BY <4>1, <4>2
    <3> QED
      BY <1>0, <3>2, <3>3
  <2> QED
    BY <2>1, <2>2
<1>6. ASSUME NEW i \in 1 .. Len(w), NEW n \in 1 .. 3, w[i] = IrqOn(n)
      PROVE  /\ i + n + 1 <= Len(w) /\ w[i + n] = One("irq off") /\ w[i + n + 1] = One("msi off")
             /\ \A k \in i + 1 .. i + n - 1 : w[k] \in PcieW
  <2>1. CASE i \in 1 .. Len(s)
    <3>1. s[i] = IrqOn(n)
      BY <1>0, <1>6, <2>1
    <3>2. /\ i + n + 1 <= Len(s) /\ s[i + n] = One("irq off") /\ s[i + n + 1] = One("msi off")
          /\ \A k \in i + 1 .. i + n - 1 : s[k] \in PcieW
      BY <2>1, <3>1 DEF Static, Framed
    <3>3. i + n \in 1 .. Len(s) /\ i + n + 1 \in 1 .. Len(s) /\ i + n + 1 <= Len(w)
      <4>1. i + n + 1 <= Len(s)
        BY <3>2
      <4> QED
        BY <1>0, <2>1, <4>1, SMTT(30)
    <3>4. w[i + n] = s[i + n] /\ w[i + n + 1] = s[i + n + 1]
      BY <1>0, <3>3
    <3>5. ASSUME NEW k \in i + 1 .. i + n - 1 PROVE w[k] \in PcieW
      <4>1. k \in 1 .. Len(s)
        BY <1>0, <2>1, <3>3
      <4> QED
        BY <1>0, <3>2, <4>1
    <3> QED
      BY <3>2, <3>3, <3>4, <3>5
  <2>2. CASE i \notin 1 .. Len(s)
    <3>0. PICK q : q = i - Len(s)
      OBVIOUS
    <3>9. q \in 1 .. Len(t) /\ w[i] = t[q] /\ Len(s) + q = i
      BY <1>0, <2>2, <3>0
    <3>2. /\ q + n + 1 <= Len(t) /\ t[q + n] = One("irq off") /\ t[q + n + 1] = One("msi off")
          /\ \A k \in q + 1 .. q + n - 1 : t[k] \in PcieW
      BY <1>6, <3>9 DEF Static, Framed
    <3>3. q + n \in 1 .. Len(t) /\ q + n + 1 \in 1 .. Len(t) /\ i + n + 1 <= Len(w)
          /\ Len(s) + (q + n) = i + n /\ Len(s) + (q + n + 1) = i + n + 1
      <4>1. q + n + 1 <= Len(t)
        BY <3>2, Zenon
      <4>2. Len(s) \in Nat /\ Len(t) \in Nat /\ Len(w) = Len(s) + Len(t) /\ q \in 1 .. Len(t) /\ Len(s) + q = i
        BY <1>0, <3>9, Zenon
      <4> QED
        BY <4>1, <4>2, SMTT(30)
    <3>4. w[i + n] = t[q + n] /\ w[i + n + 1] = t[q + n + 1]
      BY <1>0, <3>3
    <3>5. ASSUME NEW k \in i + 1 .. i + n - 1 PROVE w[k] \in PcieW
      <4>1. PICK r : r = k - Len(s)
        OBVIOUS
      <4>2. r \in q + 1 .. q + n - 1 /\ r \in 1 .. Len(t) /\ Len(s) + r = k
        BY <1>0, <3>3, <3>9, <4>1
      <4> QED
        BY <1>0, <3>2, <4>2
    <3> QED
      BY <3>2, <3>3, <3>4, <3>5
  <2> QED
    BY <2>1, <2>2
<1> QED
  BY <1>2, <1>4, <1>5, <1>6 DEF Static, Framed

-----------------------------------------------------------------------------
(***************************************************************************)
(* Parts of the programs: before, after and around the release.            *)
(***************************************************************************)
Piece(s, V) == s \in Seq(Steps) /\ Static(s) /\ Starts(s) /\ Only(s, V)
Pre(s, V)   == Piece(s, V) /\ NoRel(s)
Post(s, V)  == Piece(s, V) /\ Sealed(s)
Whole2(s, V) == Piece(s, V) /\ RelLast(s)

LEMMA Glue ==
  ASSUME NEW s, NEW t, NEW V, Piece(s, V), Piece(t, V)
  PROVE  /\ Joint(s \o t, s, t) /\ Piece(s \o t, V)
         /\ Pre(s, V) /\ Pre(t, V) => Pre(s \o t, V)
         /\ Post(s, V) /\ Post(t, V) => Post(s \o t, V)
         /\ Pre(s, V) /\ Whole2(t, V) => Whole2(s \o t, V)
         /\ Whole2(s, V) /\ Post(t, V) => Whole2(s \o t, V)
<1> DEFINE w == s \o t
<1>1. s \in Seq(Steps) /\ t \in Seq(Steps)
  BY DEF Piece
<1>2. Joint(w, s, t) /\ w \in Seq(Steps)
  BY <1>1, JointIs DEF Joint
<1>3. Starts(w)
  <2>1. CASE s = <<>>
    <3>1. w = t
      BY <1>1, <2>1, ConcatEmptySeq
    <3> QED
      BY <3>1 DEF Piece
  <2>2. CASE s # <<>>
    <3>1. 1 \in 1 .. Len(s)
      BY <1>1, <2>2, Lengths
    <3>2. w[1] = s[1]
      BY <1>2, <3>1 DEF Joint
    <3> QED
      BY <2>2, <3>2 DEF Piece, Starts
  <2> QED
    BY <2>1, <2>2
<1>4. Static(w)
  BY <1>2, JointStatic DEF Piece
<1>5. Only(w, V)
  BY <1>2, JointKeeps DEF Piece
<1>6. Piece(w, V)
  BY <1>2, <1>3, <1>4, <1>5 DEF Piece
<1> HIDE DEF w
<1>7. NoRel(s) /\ NoRel(t) => NoRel(w)
  BY <1>2, JointKeeps, Zenon
<1>8. Sealed(s) /\ Sealed(t) => Sealed(w)
  BY <1>2, JointKeeps, Zenon
<1>9. RelLast(s) /\ RelLast(t) /\ (NoRel(s) \/ Sealed(t)) => RelLast(w)
  BY <1>2, JointKeeps, Zenon
<1>10. (NoRel(s) => RelLast(s)) /\ (Sealed(t) => RelLast(t))
  <2>1. NoRel(s) => RelLast(s)
    BY DEF NoRel, RelLast
  <2>2. Sealed(t) => RelLast(t)
    <3>1. Len(t) \in Nat
      BY <1>1, Lengths
    <3>2. \A i \in 1 .. Len(t) : \A j \in i + 1 .. Len(t) : j \in 1 .. Len(t)
      BY <3>1
    <3> QED
      BY <3>2 DEF Sealed, RelLast
  <2> QED
    BY <2>1, <2>2
<1>11. /\ Pre(s, V) /\ Pre(t, V) => Pre(w, V)
       /\ Post(s, V) /\ Post(t, V) => Post(w, V)
  BY <1>6, <1>7, <1>8, Zenon DEF Pre, Post
<1>12. /\ Pre(s, V) /\ Whole2(t, V) => Whole2(w, V)
       /\ Whole2(s, V) /\ Post(t, V) => Whole2(w, V)
  BY <1>6, <1>9, <1>10, Zenon DEF Pre, Post, Whole2
<1> QED
  BY <1>2, <1>6, <1>11, <1>12 DEF w

LEMMA Nothing == ASSUME NEW V PROVE Pre(<<>>, V) /\ Post(<<>>, V) /\ Whole2(<<>>, V)
<1>1. <<>> \in Seq(Steps) /\ Len(<<>>) = 0
  BY EmptySeq
<1>2. \A i : ~(i \in 1 .. 0) /\ ~(i \in 2 .. 0)
  OBVIOUS
<1> QED
  BY <1>1, <1>2 DEF Pre, Post, Whole2, Piece, Static, Written, Spans, Framed, Starts, Only, NoRel, Sealed, RelLast

\* Short lists of anything.
LEMMA OneNumbers ==
  /\ 1 + 0 <= 1 /\ ~(0 > 0) /\ (\A i \in 1 .. 1 : i = 1) /\ (\A i : ~(i \in 2 .. 1)) /\ (\A k : ~(k \in 1 + 1 .. 1 + 0))
OBVIOUS

LEMMA Single == ASSUME NEW S, NEW e \in S PROVE <<e>> \in Seq(S) /\ Len(<<e>>) = 1 /\ <<e>>[1] = e
OBVIOUS

LEMMA PairNumbers ==
  /\ \A i \in 1 .. 2 : i = 1 \/ i = 2
  /\ \A i \in 2 .. 2 : i = 2 /\ i - 1 = 1
  /\ 1 + 0 <= 2 /\ 2 + 0 <= 2 /\ ~(0 > 0) /\ (\A k : ~(k \in 1 + 1 .. 1 + 0)) /\ (\A k : ~(k \in 2 + 1 .. 2 + 0))
  /\ 1 + 1 <= 2 /\ (\A k \in 1 + 1 .. 1 + 1 : k = 2) /\ (\A k \in 1 .. 2 : k # 1 + 1 + 1)
OBVIOUS

LEMMA EightNumbers ==
  /\ \A i \in 1 .. 8 : i = 1 \/ i = 2 \/ i = 3 \/ i = 4 \/ i = 5 \/ i = 6 \/ i = 7 \/ i = 8
  /\ \A i \in 2 .. 8 : i = 2 \/ i = 3 \/ i = 4 \/ i = 5 \/ i = 6 \/ i = 7 \/ i = 8
  /\ 2 - 1 = 1 /\ 4 - 1 = 3 /\ 6 - 1 = 5 /\ 8 - 1 = 7
  /\ 2 + 4 <= 8 /\ (\A k \in 2 + 1 .. 2 + 4 : k = 3 \/ k = 4 \/ k = 5 \/ k = 6) /\ (\A k \in 1 .. 8 : k = 2 + 4 + 1 => k = 7)
  /\ ~(0 > 0)
OBVIOUS

LEMMA BeforeEight == ASSUME NEW i \in 1 .. 8 - 1, NEW n, n = 0 \/ (i = 2 /\ n = 4) PROVE i + n < 8
OBVIOUS

LEMMA NoSpan == ASSUME NEW i \in 1 .. 8 PROVE i + 0 <= 8 /\ \A k : ~(k \in i + 1 .. i + 0)
OBVIOUS

Two(a, b) == <<a>> \o <<b>>
Four(a, b, c, d) == Two(a, b) \o <<>> \o <<c>> \o <<d>>
Six(a, b, c, d, e, f) == Two(a, b) \o Two(c, d) \o <<e>> \o <<f>>
Eight(v, k, p, r, q) == Two(v, k) \o Two(v, p) \o Two(v, r) \o Two(v, q)

LEMMA TwoIs ==
  ASSUME NEW a \in Steps, NEW b \in Steps
  PROVE  /\ Two(a, b) = <<a, b>>
         /\ Two(a, b) \in Seq(Steps) /\ Len(Two(a, b)) = 2 /\ Two(a, b)[1] = a /\ Two(a, b)[2] = b
<1> DEFINE s == Two(a, b)
<1> DEFINE t == <<a, b>>
<1>1. s \in Seq(Steps) /\ Len(s) = 2 /\ s[1] = a /\ s[2] = b
  BY DEF Two
<1>2. t \in Seq(Steps) /\ Len(t) = 2 /\ t[1] = a /\ t[2] = b
  OBVIOUS
<1> HIDE DEF s, t
<1>3. \A i \in 1 .. Len(s) : s[i] = t[i]
  <2>1. \A i \in 1 .. 2 : i = 1 \/ i = 2
    OBVIOUS
  <2> QED
    BY <1>1, <1>2, <2>1, Zenon
<1>4. s = t
  BY <1>1, <1>2, <1>3, SeqEqual
<1> QED
  BY <1>1, <1>4 DEF s, t

LEMMA FourIs ==
  ASSUME NEW a \in Steps, NEW b \in Steps, NEW c \in Steps, NEW d \in Steps
  PROVE  /\ Four(a, b, c, d) \in Seq(Steps) /\ Len(Four(a, b, c, d)) = 4
         /\ Four(a, b, c, d)[1] = a /\ Four(a, b, c, d)[2] = b /\ Four(a, b, c, d)[3] = c /\ Four(a, b, c, d)[4] = d
<1>1. Two(a, b) = <<a, b>> /\ Two(a, b) \in Seq(Steps) /\ Two(c, d) = <<c, d>>
  BY TwoIs
<1>2. <<c>> \in Seq(Steps) /\ <<d>> \in Seq(Steps)
  OBVIOUS
<1>3. Two(a, b) \o <<>> = Two(a, b)
  BY <1>1, ConcatEmptySeq, Zenon
<1>4. \A p, s, t \in Seq(Steps) : p \o s \o t = p \o (s \o t)
  BY ConcatAssociative, SMTT(30)
<1>7. Four(a, b, c, d) = Two(a, b) \o <<c>> \o <<d>>
  BY <1>3, Zenon DEF Four
<1>8. Two(a, b) \o <<c>> \o <<d>> = Two(a, b) \o (<<c>> \o <<d>>)
  BY <1>1, <1>2, <1>4, Zenon
<1>5. Four(a, b, c, d) = Two(a, b) \o (<<c>> \o <<d>>)
  BY <1>7, <1>8, Zenon
<1>6. Four(a, b, c, d) = <<a, b>> \o <<c, d>>
  BY <1>1, <1>5, Zenon DEF Two
<1> QED
  BY <1>6

Sixth(u, a, b, c, d, e, f) ==
  /\ u \in Seq(Steps) /\ Len(u) = 6
  /\ u[1] = a /\ u[2] = b /\ u[3] = c /\ u[4] = d /\ u[5] = e /\ u[6] = f

LEMMA SixIs ==
  ASSUME NEW a \in Steps, NEW b \in Steps, NEW c \in Steps, NEW d \in Steps, NEW e \in Steps, NEW f \in Steps
  PROVE  Sixth(Six(a, b, c, d, e, f), a, b, c, d, e, f)
<1>1. Two(a, b) = <<a, b>> /\ Two(c, d) = <<c, d>> /\ Two(e, f) = <<e, f>>
  BY TwoIs
<1>2. Two(a, b) \o Two(c, d) \in Seq(Steps) /\ <<e>> \in Seq(Steps) /\ <<f>> \in Seq(Steps)
  BY <1>1
<1>4. \A p, s, t \in Seq(Steps) : p \o s \o t = p \o (s \o t)
  BY ConcatAssociative, SMTT(30)
<1>5. Six(a, b, c, d, e, f) = Two(a, b) \o Two(c, d) \o (<<e>> \o <<f>>)
  BY <1>2, <1>4, Zenon DEF Six
<1>6. Six(a, b, c, d, e, f) = <<a, b>> \o <<c, d>> \o <<e, f>>
  BY <1>1, <1>5, Zenon DEF Two
<1> QED
  BY <1>6 DEF Sixth

LEMMA EightIs ==
  ASSUME NEW v \in Steps, NEW k \in Steps, NEW p \in Steps, NEW r \in Steps, NEW q \in Steps
  PROVE  /\ Eight(v, k, p, r, q) \in Seq(Steps) /\ Len(Eight(v, k, p, r, q)) = 8
         /\ Eight(v, k, p, r, q)[1] = v /\ Eight(v, k, p, r, q)[2] = k
         /\ Eight(v, k, p, r, q)[3] = v /\ Eight(v, k, p, r, q)[4] = p
         /\ Eight(v, k, p, r, q)[5] = v /\ Eight(v, k, p, r, q)[6] = r
         /\ Eight(v, k, p, r, q)[7] = v /\ Eight(v, k, p, r, q)[8] = q
<1>1. Two(v, k) = <<v, k>> /\ Two(v, p) = <<v, p>> /\ Two(v, r) = <<v, r>> /\ Two(v, q) = <<v, q>>
  BY TwoIs
<1>2. Eight(v, k, p, r, q) = <<v, k>> \o <<v, p>> \o <<v, r>> \o <<v, q>>
  BY <1>1, Zenon DEF Eight
<1> QED
  BY <1>2

\* A step by itself.
LEMMA Alone ==
  ASSUME NEW V, NEW e \in Steps, e \in V, e \notin ArmW, e[1] \notin {"skip if in reset", "skip unless olmsg", "irq on", "olmsg", "msi on"}
  PROVE  Pre(<<e>>, V) /\ (Late(e) => Post(<<e>>, V)) /\ (e[1] # "tcm" => Post(<<e>>, V))
<1> DEFINE u == <<e>>
<1>1. u \in Seq(Steps) /\ Len(u) = 1 /\ u[1] = e
  BY Single, Zenon
<1> HIDE DEF u
<1>2. Span(e) = 0
  BY SpanIs
<1>3. e # One("msi on") /\ \A n : e # IrqOn(n)
  <2>1. One("msi on")[1] = "msi on" /\ \A n : IrqOn(n)[1] = "irq on"
    BY Names, Zenon
  <2>2. e[1] # "msi on" /\ e[1] # "irq on"
    OBVIOUS
  <2> QED
    BY <2>1, <2>2, Zenon
<1>4. e # Rel
  BY DEF ArmW
<1>6. Written(u)
  BY <1>1, OneNumbers, Zenon DEF Written
<1>7. Spans(u)
  <2>2. \A i \in 1 .. Len(u) : i = 1 /\ Span(u[i]) = 0
    BY <1>1, <1>2, OneNumbers, Zenon
  <2>3. \A i \in 1 .. Len(u) :
           /\ i + Span(u[i]) <= Len(u)
           /\ \A k \in i + 1 .. i + Span(u[i]) : u[k] \in Light
           /\ Span(u[i]) > 0 => \A k \in 1 .. Len(u) : k = i + Span(u[i]) + 1 => u[k] \notin ArmW
    BY <1>1, <2>2, OneNumbers, Zenon
  <2> QED
    BY <2>3, Zenon DEF Spans
<1>8. Framed(u)
  <2>1. \A i \in 1 .. Len(u) : u[i] = e
    BY <1>1, OneNumbers, Zenon
  <2> QED
    BY <1>3, <2>1, Zenon DEF Framed
<1>9. Starts(u) /\ Only(u, V) /\ NoRel(u) /\ (Late(e) => Sealed(u))
  <2>1. \A i \in 1 .. Len(u) : u[i] = e
    BY <1>1, OneNumbers, Zenon
  <2> QED
    BY <1>1, <1>4, <2>1, Zenon DEF Starts, Only, NoRel, Sealed
<1>10. e[1] # "tcm" => Late(e)
  BY DEF Late
<1> QED
  BY <1>1, <1>6, <1>7, <1>8, <1>9, <1>10, Zenon DEF Pre, Post, Piece, Static, u

\* A larger set of steps.
LEMMA Wider ==
  ASSUME NEW s, NEW V, NEW W, V \subseteq W
  PROVE  /\ Piece(s, V) => Piece(s, W)
         /\ Pre(s, V) => Pre(s, W)
         /\ Post(s, V) => Post(s, W)
         /\ Whole2(s, V) => Whole2(s, W)
BY DEF Piece, Pre, Post, Whole2, Only

\* Selecting a core's wrapper and writing to it.
LEMMA Aims ==
  ASSUME NEW V, NEW v \in Views, NEW e \in Steps, e[1] = "write", e \in ArmW => v = See("arm"), v \in V, e \in V
  PROVE  Post(Two(v, e), V) /\ (e # Rel => Pre(Two(v, e), V))
<1> DEFINE u == Two(v, e)
<1>0. v \in Steps /\ v[1] = "window"
  <2>1. Views \subseteq Steps
    BY DEF Steps, Work, Cored
  <2>2. v[1] = "window"
    BY Tags, ZenonT(60)
  <2> QED
    BY <2>1, <2>2
<1>1. u \in Seq(Steps) /\ Len(u) = 2 /\ u[1] = v /\ u[2] = e
  BY <1>0, TwoIs, Zenon
<1> HIDE DEF u
<1>2. Span(e) = 0 /\ Span(v) = 0
  BY <1>0, SpanIs
<1>3. \A x \in {v, e} : x # One("msi on") /\ \A n : x # IrqOn(n)
  <2>1. One("msi on")[1] = "msi on" /\ \A n : IrqOn(n)[1] = "irq on"
    BY Tags, ZenonT(60)
  <2>2. e[1] # "msi on" /\ e[1] # "irq on" /\ v[1] # "msi on" /\ v[1] # "irq on" /\ e[1] # "tcm" /\ v[1] # "tcm"
    BY <1>0
  <2>3. e # One("msi on") /\ v # One("msi on") /\ \A n : e # IrqOn(n) /\ v # IrqOn(n)
    BY <2>1, <2>2, Zenon
  <2> QED
    BY <2>3, Zenon
<1>4. v \notin ArmW /\ v # Rel
  <2>1. \A x \in ArmW : x[1] = "write"
    BY Tags, ZenonT(60)
  <2>2. v \notin ArmW
    BY <1>0, <2>1
  <2> QED
    BY <2>2 DEF ArmW
<1>5. \A i \in 1 .. Len(u) : i \in {1, 2} /\ u[i] \in {v, e}
  BY <1>1, PairNumbers, Zenon
<1>6. Written(u)
  BY <1>1, PairNumbers, Zenon DEF Written
<1>7. Spans(u)
  <2>2. \A i \in 1 .. Len(u) : (i = 1 \/ i = 2) /\ Span(u[i]) = 0
    BY <1>1, <1>2, PairNumbers, Zenon
  <2>3. \A i \in 1 .. Len(u) :
           /\ i + Span(u[i]) <= Len(u)
           /\ \A k \in i + 1 .. i + Span(u[i]) : u[k] \in Light
           /\ Span(u[i]) > 0 => \A k \in 1 .. Len(u) : k = i + Span(u[i]) + 1 => u[k] \notin ArmW
    BY <1>1, <2>2, PairNumbers, Zenon
  <2> QED
    BY <2>3, Zenon DEF Spans
<1>8. Framed(u)
  BY <1>3, <1>5, Zenon DEF Framed
<1>9. Starts(u) /\ Only(u, V) /\ (e # Rel => NoRel(u)) /\ Sealed(u)
  <2>1. e[1] # "tcm" /\ v[1] # "tcm"
    BY <1>0
  <2> QED
    BY <1>1, <1>4, <1>5, <2>1, Zenon DEF Starts, Only, NoRel, Sealed, Late
<1> QED
  BY <1>1, <1>6, <1>7, <1>8, <1>9, Zenon DEF Pre, Post, Piece, Static, u

\* brcmf_chip_ai_coredisable: what follows the test is left out of a core that is in reset.
LEMMA Halting ==
  ASSUME NEW k \in {Skip("arm"), Skip("d11")}, NEW v \in Views, NEW p \in ArmW \cup D11W, NEW r \in ArmW \cup D11W, NEW q \in ArmW \cup D11W,
         (p \in ArmW \/ r \in ArmW \/ q \in ArmW) => v = See("arm"), r # Rel
  PROVE  LET u == Eight(v, k, p, r, q) IN Post(u, Cored) /\ (p # Rel /\ q # Rel => Pre(u, Cored)) /\ (q = Hlt => Sure(u))
<1> DEFINE u == Eight(v, k, p, r, q)
<1>2. k \in Steps /\ v \in Steps /\ p \in Steps /\ r \in Steps /\ q \in Steps /\ k \in Cored /\ v \in Cored /\ p \in Cored /\ r \in Cored /\ q \in Cored
  BY DEF Steps, Work, Cored, Cores
<1>3. /\ u \in Seq(Steps) /\ Len(u) = 8
      /\ u[1] = v /\ u[2] = k /\ u[3] = v /\ u[4] = p /\ u[5] = v /\ u[6] = r /\ u[7] = v /\ u[8] = q
  <2>1. v \in Steps /\ k \in Steps /\ p \in Steps /\ r \in Steps /\ q \in Steps
    BY <1>2
  <2>2. u \in Seq(Steps) /\ Len(u) = 8
    BY <2>1, EightIs
  <2>3. u[1] = v /\ u[2] = k /\ u[3] = v /\ u[4] = p
    BY <2>1, EightIs
  <2>4. u[5] = v /\ u[6] = r /\ u[7] = v /\ u[8] = q
    BY <2>1, EightIs
  <2> QED
    BY <2>2, <2>3, <2>4
<1> HIDE DEF u
<1>4. k[1] = "skip if in reset" /\ v[1] = "window" /\ p[1] = "write" /\ r[1] = "write" /\ q[1] = "write"
  <2>1. \A x \in ArmW \cup D11W : x[1] = "write"
    BY Tags, ZenonT(60)
  <2>2. Skip("arm")[1] = "skip if in reset" /\ Skip("d11")[1] = "skip if in reset" /\ v[1] = "window"
    BY Tags, ZenonT(60)
  <2> QED
    BY <2>1, <2>2
<1>5. Span(k) = 4 /\ Span(v) = 0 /\ Span(p) = 0 /\ Span(r) = 0 /\ Span(q) = 0
  BY <1>2, <1>4, SpanIs
<1>6. /\ \A n : k # IrqOn(n) /\ v # IrqOn(n) /\ p # IrqOn(n) /\ r # IrqOn(n) /\ q # IrqOn(n)
      /\ k # One("msi on") /\ v # One("msi on") /\ p # One("msi on") /\ r # One("msi on") /\ q # One("msi on")
  <2>1. One("msi on")[1] = "msi on" /\ \A n : IrqOn(n)[1] = "irq on"
    BY Tags, ZenonT(60)
  <2>2. k[1] # "msi on" /\ k[1] # "irq on" /\ v[1] # "msi on" /\ v[1] # "irq on"
        /\ p[1] # "msi on" /\ p[1] # "irq on" /\ r[1] # "msi on" /\ r[1] # "irq on" /\ q[1] # "msi on" /\ q[1] # "irq on"
    BY <1>4
  <2> QED
    BY <2>1, <2>2, Zenon
<1>7. k \notin ArmW /\ v \notin ArmW /\ k # Rel /\ v # Rel
  <2>1. \A x \in ArmW : x[1] = "write"
    BY Tags, ZenonT(60)
  <2>2. v \notin ArmW /\ k \notin ArmW
    BY <1>4, <2>1
  <2> QED
    BY <2>2 DEF ArmW
<1>8. v \in Light /\ p \in Light /\ r \in Light
  BY DEF Light
<1>9. \A i \in 1 .. Len(u) : u[i] \in {k, v, p, r, q}
  BY <1>3, EightNumbers, Zenon
<1>10. Written(u)
  <2>1. \A i \in 2 .. 8 : u[i] \in ArmW => u[i - 1] = See("arm")
    BY <1>3, <1>7, EightNumbers, Zenon
  <2> QED
    BY <1>3, <2>1, Zenon DEF Written
<1>11. Spans(u)
  <2>1. \A i \in 1 .. Len(u) : (i = 2 /\ Span(u[i]) = 4) \/ Span(u[i]) = 0
    BY <1>3, <1>5, EightNumbers, Zenon
  <2>2. \A x \in 2 + 1 .. 2 + 4 : u[x] \in Light
    BY <1>3, <1>8, EightNumbers, Zenon
  <2>3. \A i \in 1 .. Len(u) :
           /\ i + Span(u[i]) <= Len(u)
           /\ \A x \in i + 1 .. i + Span(u[i]) : u[x] \in Light
           /\ Span(u[i]) > 0 => \A x \in 1 .. Len(u) : x = i + Span(u[i]) + 1 => u[x] \notin ArmW
    BY <1>3, <1>7, <2>1, <2>2, EightNumbers, NoSpan, ZenonT(40)
  <2> QED
    BY <2>3, Zenon DEF Spans
<1>12. Framed(u)
  <2>1. \A i \in 1 .. Len(u) : u[i] # One("msi on") /\ \A n : u[i] # IrqOn(n)
    <3>1. \A i \in 1 .. Len(u) : u[i] = k \/ u[i] = v \/ u[i] = p \/ u[i] = r \/ u[i] = q
      BY <1>9
    <3> QED
      BY <1>6, <3>1, Zenon
  <2> QED
    BY <2>1, Zenon DEF Framed
<1>13. Starts(u) /\ Only(u, Cored) /\ (p # Rel /\ q # Rel => NoRel(u)) /\ Sealed(u)
  <2>1. Sealed(u)
    <3>1. \A i \in 1 .. 8 : u[i][1] = "skip if in reset" \/ u[i][1] = "window" \/ u[i][1] = "write"
      BY <1>3, <1>4, EightNumbers, Zenon
    <3> QED
      BY <1>3, <3>1 DEF Sealed, Late
  <2>2. Starts(u)
    BY <1>3, <1>7, Zenon DEF Starts
  <2>3. Only(u, Cored)
    BY <1>2, <1>3, EightNumbers, Zenon DEF Only
  <2>4. p # Rel /\ q # Rel => NoRel(u)
    BY <1>3, <1>7, EightNumbers, Zenon DEF NoRel
  <2> QED
    BY <2>1, <2>2, <2>3, <2>4
<1>14. q = Hlt => Sure(u)
  <2>1. \A x \in 1 .. 8 - 1 : x + Span(u[x]) < 8
    <3>1. ASSUME NEW x \in 1 .. 8 - 1 PROVE x + Span(u[x]) < 8
      <4>1. (x = 2 /\ Span(u[x]) = 4) \/ Span(u[x]) = 0
        BY <1>3, <1>5
      <4> QED
        BY <4>1, BeforeEight, Zenon
    <3> QED
      BY <3>1, Zenon
  <2>2. 8 \in 1 .. 8 /\ \A x : ~(x \in 8 + 1 .. 8)
    OBVIOUS
  <2> QED
    BY <1>3, <2>1, <2>2, Zenon DEF Sure
<1> QED
  BY <1>3, <1>10, <1>11, <1>12, <1>13, <1>14, Zenon DEF Pre, Post, Piece, Static, u

LEMMA DisableIs ==
  /\ \A h \in BOOLEAN : CoreDisable("arm", h, TRUE) = Eight(See("arm"), Skip("arm"), IF h THEN Hlt ELSE Rel, InReset("arm"), Hlt)
  /\ CoreDisable("arm", TRUE, FALSE) = Eight(See("arm"), Skip("arm"), Hlt, InReset("arm"), Rel)
  /\ CoreDisable("d11", FALSE, FALSE) = Eight(See("d11"), Skip("d11"), Rel11, InReset("d11"), Rel11)
<1>1. \A c, a, b : CoreDisable(c, a, b) = Eight(See(c), Skip(c), <<"write", c, "halt", a>>, InReset(c), <<"write", c, "halt", b>>)
  BY Zenon DEF CoreDisable, Chip, View, Put, See, Skip, InReset, Eight, Two
<1>2. CoreDisable("arm", TRUE, TRUE) = Eight(See("arm"), Skip("arm"), Hlt, InReset("arm"), Hlt)
  BY <1>1, Zenon DEF Hlt
<1>3. CoreDisable("arm", FALSE, TRUE) = Eight(See("arm"), Skip("arm"), Rel, InReset("arm"), Hlt)
  BY <1>1, Zenon DEF Hlt, Rel
<1>4. CoreDisable("arm", TRUE, FALSE) = Eight(See("arm"), Skip("arm"), Hlt, InReset("arm"), Rel)
  BY <1>1, Zenon DEF Hlt, Rel
<1>5. CoreDisable("d11", FALSE, FALSE) = Eight(See("d11"), Skip("d11"), Rel11, InReset("d11"), Rel11)
  BY <1>1, Zenon DEF Rel11
<1>6. ASSUME NEW h \in BOOLEAN
      PROVE CoreDisable("arm", h, TRUE) = Eight(See("arm"), Skip("arm"), IF h THEN Hlt ELSE Rel, InReset("arm"), Hlt)
  <2>1. CASE h = TRUE
    BY <1>2, <2>1, Zenon
  <2>2. CASE h = FALSE
    BY <1>3, <2>2, Zenon
  <2> QED
    BY <2>1, <2>2
<1> QED
  BY <1>4, <1>5, <1>6, Zenon

LEMMA CoreKinds ==
  /\ See("arm") \in Views /\ See("d11") \in Views /\ See("wrapper") \in Views /\ See("pcie") \in Views
  /\ See("cc") \in Views /\ See("arm core") \in Views
  /\ Rel \in ArmW /\ Hlt \in ArmW /\ InReset("arm") \in ArmW /\ Rel11 \in D11W /\ InReset("d11") \in D11W
  /\ Msk(TRUE) \in PcieW /\ Msk(FALSE) \in PcieW /\ Bell \in PcieW
  /\ Hlt # Rel /\ InReset("arm") # Rel /\ Rel11 # Rel /\ InReset("d11") # Rel
  /\ ArmW \cap D11W = {} /\ ArmW \cap PcieW = {} /\ ArmW \cap Views = {} /\ D11W \cap PcieW = {}
<1>1. /\ See("arm") \in Views /\ See("d11") \in Views /\ See("wrapper") \in Views /\ See("pcie") \in Views
      /\ See("cc") \in Views /\ See("arm core") \in Views
  BY DEF Views, Windows
<1>2. /\ Rel \in ArmW /\ Hlt \in ArmW /\ InReset("arm") \in ArmW /\ Rel11 \in D11W /\ InReset("d11") \in D11W
      /\ Msk(TRUE) \in PcieW /\ Msk(FALSE) \in PcieW /\ Bell \in PcieW
  BY DEF ArmW, D11W, PcieW
<1>3. Rel[4] = FALSE /\ Hlt[4] = TRUE /\ Rel[3] = "halt" /\ InReset("arm")[3] = "reset"
  BY DEF Rel, Hlt, InReset
<1>4. /\ \A e \in ArmW : e[1] = "write" /\ e[2] = "arm"
      /\ \A e \in D11W : e[2] = "d11"
      /\ \A e \in PcieW : e[2] = "pcie"
      /\ \A e \in Views : e[1] = "window"
  BY Tags, ZenonT(60)
<1>5. Rel[2] = "arm" /\ Rel11[2] = "d11" /\ InReset("d11")[2] = "d11"
  BY DEF Rel, Rel11, InReset
<1>6. Hlt # Rel /\ InReset("arm") # Rel /\ Rel11 # Rel /\ InReset("d11") # Rel
  <2>1. FALSE # TRUE /\ "halt" # "reset" /\ "arm" # "d11"
    OBVIOUS
  <2> QED
    BY <1>3, <1>5, <2>1, Zenon
<1>7. ArmW \cap D11W = {} /\ ArmW \cap PcieW = {} /\ ArmW \cap Views = {} /\ D11W \cap PcieW = {}
  <2>1. "arm" # "d11" /\ "arm" # "pcie" /\ "window" # "write" /\ "pcie" # "d11"
    OBVIOUS
  <2> QED
    BY <1>4, <2>1, Zenon
<1> QED
  BY <1>1, <1>2, <1>6, <1>7, Zenon

\* A halted ARM stays halted; a D11 reset; and the release.
LEMMA CoreLists ==
  /\ \A h \in BOOLEAN : LET u == CoreDisable("arm", h, TRUE) IN Post(u, Cored) /\ Sure(u) /\ (h => Pre(u, Cored))
  /\ Post(CoreDisable("arm", TRUE, FALSE), Cored)
  /\ Pre(CoreDisable("d11", FALSE, FALSE), Cored) /\ Post(CoreDisable("d11", FALSE, FALSE), Cored)
<1>1. ASSUME NEW h \in BOOLEAN
      PROVE LET u == CoreDisable("arm", h, TRUE) IN Post(u, Cored) /\ Sure(u) /\ (h => Pre(u, Cored))
  <2>1. PICK p : p = IF h THEN Hlt ELSE Rel
    OBVIOUS
  <2>2. p \in ArmW \cup D11W /\ (h => p # Rel)
    BY <2>1, CoreKinds
  <2>3. CoreDisable("arm", h, TRUE) = Eight(See("arm"), Skip("arm"), p, InReset("arm"), Hlt)
    BY <2>1, DisableIs, Zenon
  <2>4. Hlt \in ArmW \cup D11W /\ InReset("arm") \in ArmW \cup D11W /\ InReset("arm") # Rel /\ Hlt # Rel
        /\ See("arm") \in Views /\ Skip("arm") \in {Skip("arm"), Skip("d11")}
    BY CoreKinds
  <2>5. LET u == Eight(See("arm"), Skip("arm"), p, InReset("arm"), Hlt) IN
          Post(u, Cored) /\ (p # Rel /\ Hlt # Rel => Pre(u, Cored)) /\ (Hlt = Hlt => Sure(u))
    BY <2>2, <2>4, Halting, Zenon
  <2> QED
    BY <2>2, <2>3, <2>4, <2>5, Zenon
<1>2. Post(CoreDisable("arm", TRUE, FALSE), Cored)
  <2>4. Hlt \in ArmW \cup D11W /\ Rel \in ArmW \cup D11W /\ InReset("arm") \in ArmW \cup D11W /\ InReset("arm") # Rel
        /\ See("arm") \in Views /\ Skip("arm") \in {Skip("arm"), Skip("d11")}
    BY CoreKinds
  <2>5. Post(Eight(See("arm"), Skip("arm"), Hlt, InReset("arm"), Rel), Cored)
    BY <2>4, Halting, Zenon
  <2> QED
    BY <2>5, DisableIs, Zenon
<1>3. Pre(CoreDisable("d11", FALSE, FALSE), Cored) /\ Post(CoreDisable("d11", FALSE, FALSE), Cored)
  <2>4. Rel11 \in ArmW \cup D11W /\ InReset("d11") \in ArmW \cup D11W /\ InReset("d11") # Rel /\ Rel11 # Rel
        /\ See("d11") \in Views /\ Skip("d11") \in {Skip("arm"), Skip("d11")} /\ Rel11 \notin ArmW /\ InReset("d11") \notin ArmW
    BY CoreKinds
  <2>5. LET u == Eight(See("d11"), Skip("d11"), Rel11, InReset("d11"), Rel11) IN
          Post(u, Cored) /\ (Rel11 # Rel /\ Rel11 # Rel => Pre(u, Cored))
    BY <2>4, Halting, Zenon
  <2> QED
    BY <2>4, <2>5, DisableIs, Zenon
<1> QED
  BY <1>1, <1>2, <1>3, Zenon

LEMMA StepKinds ==
  /\ Views \subseteq Steps /\ ArmW \subseteq Steps /\ D11W \subseteq Steps /\ PcieW \subseteq Steps /\ Cores \subseteq Steps
  /\ Views \subseteq Cored /\ ArmW \subseteq Cored /\ D11W \subseteq Cored /\ Cores \subseteq Cored
  /\ Cored \subseteq Work /\ PcieW \subseteq Work /\ Irqs \subseteq Work /\ Softs \subseteq Work /\ Work \subseteq Steps
  /\ Probing \subseteq Steps /\ Ending \subseteq Steps /\ AllStores \subseteq Steps
  /\ {One("fw"), One("alloc"), One("olmsg"), One("unmap"), One("gone"), One("set master")} \subseteq Steps
  /\ \A T, n : Work \subseteq Body(T, n) /\ Body(T, n) \subseteq Setting(T, n) /\ Stores(T, n) \subseteq Body(T, n)
               /\ One("alloc") \in Body(T, n) /\ One("set master") \in Body(T, n) /\ One("olmsg") \in Body(T, n)
               /\ One("fw") \in Setting(T, n)
BY DEF Steps, Work, Cored, Probing, Body, Setting

\* brcmf_chip_ai_resetcore of the ARM.
LEMMA ResetLists ==
  /\ \A h \in BOOLEAN : LET u == ResetCore("arm", h, TRUE, TRUE) IN Post(u, Cored) /\ Sure(u) /\ (h => Pre(u, Cored))
  /\ Post(ResetCore("arm", TRUE, FALSE, FALSE), Cored)
<1>1. Clear("arm") \in Steps /\ Clear("arm") \in Cored /\ Clear("arm") \notin ArmW /\ Clear("arm")[1] = "clear reset"
  <2>1. Clear("arm")[1] = "clear reset" /\ \A e \in ArmW : e[1] = "write"
    BY Tags, ZenonT(60)
  <2>2. Clear("arm") \in Cores
    BY DEF Cores
  <2> QED
    BY <2>1, <2>2, StepKinds
<1>2. Pre(<<Clear("arm")>>, Cored) /\ Post(<<Clear("arm")>>, Cored)
  <2>1. "clear reset" \notin {"skip if in reset", "skip unless olmsg", "irq on", "olmsg", "msi on"} /\ "clear reset" # "tcm"
    OBVIOUS
  <2> QED
    BY <1>1, <2>1, Alone, Zenon
<1>3. Pre(Two(See("arm"), Hlt), Cored) /\ Post(Two(See("arm"), Hlt), Cored) /\ Post(Two(See("arm"), Rel), Cored)
  <2>1. See("arm") \in Views /\ Hlt \in Steps /\ Rel \in Steps /\ See("arm") \in Cored /\ Hlt \in Cored /\ Rel \in Cored /\ Hlt # Rel
    BY CoreKinds, StepKinds
  <2>2. Hlt[1] = "write" /\ Rel[1] = "write"
    BY DEF Hlt, Rel
  <2> QED
    BY <2>1, <2>2, Aims, Zenon
<1>4. /\ \A h, i, p : ResetCore("arm", h, i, p) = CoreDisable("arm", h, i) \o <<Clear("arm")>> \o Two(See("arm"), <<"write", "arm", "halt", p>>)
  BY Zenon DEF ResetCore, Chip, View, Put, See, Clear, Two
<1>5. ASSUME NEW h \in BOOLEAN
      PROVE LET u == ResetCore("arm", h, TRUE, TRUE) IN Post(u, Cored) /\ Sure(u) /\ (h => Pre(u, Cored))
  <2> DEFINE s == CoreDisable("arm", h, TRUE)
  <2> DEFINE t == s \o <<Clear("arm")>>
  <2> DEFINE w == t \o Two(See("arm"), Hlt)
  <2>1. ResetCore("arm", h, TRUE, TRUE) = w
    BY <1>4, Zenon DEF Hlt
  <2>2. Post(s, Cored) /\ Sure(s) /\ (h => Pre(s, Cored))
    BY CoreLists, Zenon
  <2> HIDE DEF s
  <2>3. Joint(t, s, <<Clear("arm")>>) /\ Post(t, Cored) /\ (h => Pre(t, Cored))
    BY <1>2, <2>2, Glue, Zenon DEF Pre, Post
  <2>4. Sure(t)
    BY <1>2, <2>2, <2>3, JointSure, Zenon DEF Pre
  <2> HIDE DEF t
  <2>5. Joint(w, t, Two(See("arm"), Hlt)) /\ Post(w, Cored) /\ (h => Pre(w, Cored))
    BY <1>3, <2>3, Glue, Zenon DEF Pre, Post
  <2>6. Sure(w)
    BY <1>3, <2>4, <2>5, JointSure, Zenon DEF Pre
  <2> HIDE DEF w
  <2> QED
    BY <2>1, <2>5, <2>6, Zenon
<1>6. Post(ResetCore("arm", TRUE, FALSE, FALSE), Cored)
  <2> DEFINE s == CoreDisable("arm", TRUE, FALSE)
  <2> DEFINE t == s \o <<Clear("arm")>>
  <2> DEFINE w == t \o Two(See("arm"), Rel)
  <2>1. ResetCore("arm", TRUE, FALSE, FALSE) = w
    BY <1>4, Zenon DEF Rel
  <2>2. Post(s, Cored)
    BY CoreLists, Zenon
  <2> HIDE DEF s
  <2>3. Post(t, Cored)
    BY <1>2, <2>2, Glue, Zenon DEF Post
  <2> HIDE DEF t
  <2>5. Post(w, Cored)
    BY <1>3, <2>3, Glue, Zenon DEF Post
  <2> HIDE DEF w
  <2> QED
    BY <2>1, <2>5, Zenon
<1> QED
  BY <1>5, <1>6, Zenon

LEMMA DisableArmList ==
  ASSUME halt \in BOOLEAN
  PROVE  Sure(DisableArm) /\ Post(DisableArm, Cored) /\ (halt => Pre(DisableArm, Cored))
BY ResetLists, Zenon DEF DisableArm

-----------------------------------------------------------------------------
(***************************************************************************)
(* Lists with skips of their own: a scaffold, the olmsg buffer.            *)
(***************************************************************************)
LEMMA FourNumbers ==
  /\ \A i \in 1 .. 4 : i = 1 \/ i = 2 \/ i = 3 \/ i = 4
  /\ \A i \in 2 .. 4 : i \in 1 .. 4 /\ (i = 2 \/ i = 3 \/ i = 4)
  /\ 1 < 4 /\ 1 + 1 = 2 /\ 2 + 1 = 3 /\ 2 + 1 + 1 = 4 /\ 2 + 1 <= 4 /\ 2 + 1 + 1 <= 4
  /\ (\A k \in 2 + 1 .. 2 + 1 : k = 3) /\ (\A k : ~(k \in 2 + 1 .. 2 + 1 - 1))
  /\ (\A k \in 1 .. 4 : k = 2 + 1 + 1 => k = 4) /\ ~(0 > 0)
  /\ 1 \in 1 .. 3 /\ 1 # 3 /\ 2 # 1 /\ 3 # 2 /\ 4 # 3 /\ 3 # 1 /\ 4 # 1 /\ 4 # 2
OBVIOUS

LEMMA SixNumbers ==
  /\ \A i \in 1 .. 6 : i = 1 \/ i = 2 \/ i = 3 \/ i = 4 \/ i = 5 \/ i = 6
  /\ \A i \in 2 .. 6 : i \in 1 .. 6 /\ (i = 2 \/ i = 3 \/ i = 4 \/ i = 5 \/ i = 6)
  /\ 1 < 6 /\ 1 + 1 = 2 /\ 2 + 3 = 5 /\ 2 + 3 + 1 = 6 /\ 2 + 3 <= 6 /\ 2 + 3 + 1 <= 6
  /\ (\A k \in 2 + 1 .. 2 + 3 : k = 3 \/ k = 4 \/ k = 5) /\ (\A k \in 2 + 1 .. 2 + 3 - 1 : k = 3 \/ k = 4)
  /\ (\A k \in 1 .. 6 : k = 2 + 3 + 1 => k = 6) /\ ~(0 > 0)
OBVIOUS

LEMMA IrqNumbers ==
  /\ \A n : IrqOn1 = IrqOn(n) => n = 1
  /\ \A n : IrqOn3 = IrqOn(n) => n = 3
  /\ IrqOn1 = IrqOn(1) /\ IrqOn3 = IrqOn(3)
  /\ Span(IrqOn1) = 1 /\ Span(IrqOn3) = 3
<1>1. IrqOn1[1] = "irq on" /\ IrqOn1[2] = 1 /\ IrqOn3[1] = "irq on" /\ IrqOn3[2] = 3
  BY DEF IrqOn1, IrqOn3, IrqOn
<1>2. \A n : IrqOn(n)[2] = n
  BY DEF IrqOn
<1>3. Span(IrqOn1) = 1
  BY <1>1 DEF Span
<1>4. Span(IrqOn3) = 3
  BY <1>1 DEF Span
<1> QED
  BY <1>1, <1>2, <1>3, <1>4, Zenon DEF IrqOn1, IrqOn3

LEMMA IrqKinds ==
  /\ IrqOns \subseteq Steps /\ Irqs \subseteq Steps
  /\ IrqOn1 \in Irqs /\ IrqOn3 \in Irqs /\ One("msi on") \in Irqs /\ One("irq off") \in Irqs /\ One("msi off") \in Irqs
  /\ Span(One("msi on")) = 0 /\ Span(One("irq off")) = 0 /\ Span(One("msi off")) = 0
  /\ \A e \in PcieW : Span(e) = 0
  /\ \A e \in {One("msi on"), One("irq off"), One("msi off")} \cup PcieW : \A n : e # IrqOn(n)
  /\ \A e \in {IrqOn1, IrqOn3, One("irq off"), One("msi off")} \cup PcieW : e # One("msi on")
  /\ \A e \in Irqs \cup PcieW : e \notin ArmW /\ e # Rel /\ e[1] # "tcm"
<1>1. IrqOns \subseteq Irqs /\ Irqs \subseteq Steps
  BY StepKinds DEF Irqs
<1>2. /\ IrqOn1 \in Irqs /\ IrqOn3 \in Irqs /\ One("msi on") \in Irqs /\ One("irq off") \in Irqs /\ One("msi off") \in Irqs
      /\ Irqs = {IrqOn1, IrqOn3, One("msi on"), One("irq off"), One("msi off")}
  BY DEF Irqs, IrqOns
<1>3. /\ One("msi on")[1] = "msi on" /\ One("irq off")[1] = "irq off" /\ One("msi off")[1] = "msi off"
      /\ \A n : IrqOn(n)[1] = "irq on"
      /\ \A e \in PcieW : e[1] = "write" /\ e[2] = "pcie"
      /\ \A e \in ArmW : e[1] = "write" /\ e[2] = "arm"
  BY Tags, ZenonT(40)
<1>4. IrqOn1[1] = "irq on" /\ IrqOn3[1] = "irq on"
  BY <1>3, Zenon DEF IrqOn1, IrqOn3
<1>5. /\ One("msi on") \in Steps /\ One("irq off") \in Steps /\ One("msi off") \in Steps /\ PcieW \subseteq Steps
  BY <1>1, <1>2, StepKinds
<1>6. Span(One("msi on")) = 0 /\ Span(One("irq off")) = 0 /\ Span(One("msi off")) = 0
  BY <1>3, <1>5, SpanIs
<1>7. \A e \in PcieW : Span(e) = 0
  BY <1>3, <1>5, SpanIs
<1>8. /\ "msi on" # "irq on" /\ "irq off" # "irq on" /\ "msi off" # "irq on" /\ "write" # "irq on"
      /\ "irq on" # "msi on" /\ "irq off" # "msi on" /\ "msi off" # "msi on" /\ "write" # "msi on"
      /\ "irq on" # "write" /\ "irq off" # "write" /\ "msi off" # "write" /\ "msi on" # "write" /\ "pcie" # "arm"
      /\ "irq on" # "tcm" /\ "irq off" # "tcm" /\ "msi off" # "tcm" /\ "msi on" # "tcm" /\ "write" # "tcm"
  OBVIOUS
<1>9. \A e \in {One("msi on"), One("irq off"), One("msi off")} \cup PcieW : \A n : e # IrqOn(n)
  BY <1>3, <1>8, Zenon
<1>10. \A e \in {IrqOn1, IrqOn3, One("irq off"), One("msi off")} \cup PcieW : e # One("msi on")
  BY <1>3, <1>4, <1>8, Zenon
<1>11. \A e \in Irqs \cup PcieW : e \notin ArmW /\ e[1] # "tcm"
  BY <1>2, <1>3, <1>4, <1>8, Zenon
<1>12. Rel \in ArmW
  BY CoreKinds
<1> QED
  BY <1>1, <1>2, <1>6, <1>7, <1>9, <1>10, <1>11, <1>12, Zenon

\* The scaffold that only waits.
LEMMA WaitList ==
  LET u == Four(One("msi on"), IrqOn1, One("irq off"), One("msi off")) IN
  Scaffold(<<>>) = u /\ Pre(u, Irqs \cup PcieW) /\ Post(u, Irqs \cup PcieW)
<1> DEFINE u == Four(One("msi on"), IrqOn1, One("irq off"), One("msi off"))
<1>0. Scaffold(<<>>) = u
  <2>1. Len(<<>>) + 1 = 1
    OBVIOUS
  <2> QED
    BY <2>1, Zenon DEF Scaffold, Four, Two, Do, One, IrqOn1, IrqOn
<1>1. One("msi on") \in Steps /\ IrqOn1 \in Steps /\ One("irq off") \in Steps /\ One("msi off") \in Steps
  BY IrqKinds
<1>2. /\ u \in Seq(Steps) /\ Len(u) = 4
      /\ u[1] = One("msi on") /\ u[2] = IrqOn1 /\ u[3] = One("irq off") /\ u[4] = One("msi off")
  <2>1. PICK a : a = One("msi on")
    OBVIOUS
  <2>2. PICK b : b = IrqOn1
    OBVIOUS
  <2>3. PICK c : c = One("irq off")
    OBVIOUS
  <2>4. PICK d : d = One("msi off")
    OBVIOUS
  <2>5. a \in Steps /\ b \in Steps /\ c \in Steps /\ d \in Steps
    BY <1>1, <2>1, <2>2, <2>3, <2>4, Zenon
  <2>6. /\ Four(a, b, c, d) \in Seq(Steps) /\ Len(Four(a, b, c, d)) = 4
        /\ Four(a, b, c, d)[1] = a /\ Four(a, b, c, d)[2] = b
        /\ Four(a, b, c, d)[3] = c /\ Four(a, b, c, d)[4] = d
    BY <2>5, FourIs
  <2> QED
    BY <2>1, <2>2, <2>3, <2>4, <2>6, Zenon
<1> HIDE DEF u
<1>3. \A i \in 1 .. 4 : u[i] \in Irqs
  BY <1>2, FourNumbers, IrqKinds, Zenon
<1>4. \A i \in 1 .. 4 : u[i] \notin ArmW /\ u[i] # Rel /\ u[i][1] # "tcm"
  BY <1>3, IrqKinds, Zenon
<1>5. Written(u)
  <2>1. \A i \in 2 .. 4 : u[i] \notin ArmW
    BY <1>4, FourNumbers, Zenon
  <2> QED
    BY <1>2, <2>1, Zenon DEF Written
<1>6. Spans(u)
  <2>1. One("irq off") \in Light
    BY DEF Light
  <2>2. \A i \in 1 .. 4 : (i = 2 /\ Span(u[i]) = 1) \/ Span(u[i]) = 0
    BY <1>2, FourNumbers, IrqKinds, IrqNumbers, Zenon
  <2>3. \A k \in 2 + 1 .. 2 + 1 : u[k] \in Light
    BY <1>2, <2>1, FourNumbers, Zenon
  <2>4. \A i \in 1 .. 4 : i + 0 <= 4 /\ \A k : ~(k \in i + 1 .. i + 0)
    OBVIOUS
  <2>5. \A i \in 1 .. 4 :
           /\ i + Span(u[i]) <= 4
           /\ \A k \in i + 1 .. i + Span(u[i]) : u[k] \in Light
           /\ Span(u[i]) > 0 => \A k \in 1 .. 4 : k = i + Span(u[i]) + 1 => u[k] \notin ArmW
    BY <1>4, <2>2, <2>3, <2>4, FourNumbers, Zenon
  <2> QED
    BY <1>2, <2>5, Zenon DEF Spans
<1>7. Framed(u)
  <2>1. \A i \in 1 .. 4 : u[i] = One("msi on") => i < 4 /\ u[i + 1] \in IrqOns
    <3>1. IrqOn1 \in IrqOns
      BY DEF IrqOns
    <3> QED
      BY <1>2, <3>1, FourNumbers, IrqKinds, Zenon
  <2>2. \A i \in 1 .. 4 : \A n : u[i] = IrqOn(n) => i = 2 /\ n = 1
    BY <1>2, FourNumbers, IrqKinds, IrqNumbers, Zenon
  <2>3. 2 + 1 + 1 <= 4 /\ u[2 + 1] = One("irq off") /\ u[2 + 1 + 1] = One("msi off") /\ \A k \in 2 + 1 .. 2 + 1 - 1 : u[k] \in PcieW
    BY <1>2, FourNumbers, Zenon
  <2> QED
    BY <1>2, <2>1, <2>2, <2>3, Zenon DEF Framed
<1>8. Starts(u) /\ Only(u, Irqs \cup PcieW) /\ NoRel(u) /\ Sealed(u)
  <2>1. Starts(u)
    <3>1. 1 \in 1 .. 4
      OBVIOUS
    <3> QED
      BY <1>4, <3>1 DEF Starts
  <2> QED
    BY <1>2, <1>3, <1>4, <2>1 DEF Only, NoRel, Sealed, Late
<1> QED
  BY <1>0, <1>2, <1>5, <1>6, <1>7, <1>8, Zenon DEF Pre, Post, Piece, Static, u

\* The scaffold that opens and shuts the mask under the handler.
LEMMA MaskList ==
  LET u == Six(One("msi on"), IrqOn3, Msk(TRUE), Msk(FALSE), One("irq off"), One("msi off")) IN
  Scaffold(IntrEnable \o IntrDisable) = u /\ Pre(u, Irqs \cup PcieW) /\ Post(u, Irqs \cup PcieW)
<1> DEFINE u == Six(One("msi on"), IrqOn3, Msk(TRUE), Msk(FALSE), One("irq off"), One("msi off"))
<1>1. One("msi on") \in Steps /\ IrqOn3 \in Steps /\ One("irq off") \in Steps /\ One("msi off") \in Steps
      /\ Msk(TRUE) \in Steps /\ Msk(FALSE) \in Steps /\ Msk(TRUE) \in PcieW /\ Msk(FALSE) \in PcieW
  BY IrqKinds, StepKinds, CoreKinds
<1>0. Scaffold(IntrEnable \o IntrDisable) = u
  <2>1. IntrEnable \o IntrDisable = Two(Msk(TRUE), Msk(FALSE))
    BY Zenon DEF IntrEnable, IntrDisable, Put, Msk, Two
  <2>2. Len(Two(Msk(TRUE), Msk(FALSE))) = 2
    BY <1>1, TwoIs
  <2>3. 2 + 1 = 3
    OBVIOUS
  <2>4. Len(IntrEnable \o IntrDisable) + 1 = 3
    BY <2>1, <2>2, <2>3, Zenon
  <2>5. Scaffold(IntrEnable \o IntrDisable) =
          <<One("msi on")>> \o <<IrqOn3>> \o (IntrEnable \o IntrDisable) \o <<One("irq off")>> \o <<One("msi off")>>
    BY <2>4, Zenon DEF Scaffold, Do, One, IrqOn3, IrqOn
  <2> QED
    BY <2>1, <2>5, Zenon DEF Six, Two
<1>2. /\ u \in Seq(Steps) /\ Len(u) = 6
      /\ u[1] = One("msi on") /\ u[2] = IrqOn3 /\ u[3] = Msk(TRUE) /\ u[4] = Msk(FALSE)
      /\ u[5] = One("irq off") /\ u[6] = One("msi off")
  <2>1. Sixth(u, One("msi on"), IrqOn3, Msk(TRUE), Msk(FALSE), One("irq off"), One("msi off"))
    BY <1>1, SixIs, Zenon
  <2> HIDE DEF u
  <2> QED
    BY <2>1, Zenon DEF Sixth
<1> HIDE DEF u
<1>3. \A i \in 1 .. 6 : u[i] \in Irqs \cup PcieW
  BY <1>1, <1>2, SixNumbers, IrqKinds, Zenon
<1>4. \A i \in 1 .. 6 : u[i] \notin ArmW /\ u[i] # Rel /\ u[i][1] # "tcm"
  BY <1>3, IrqKinds, Zenon
<1>5. Written(u)
  <2>1. \A i \in 2 .. 6 : u[i] \notin ArmW
    BY <1>4, SixNumbers, Zenon
  <2> QED
    BY <1>2, <2>1, Zenon DEF Written
<1>6. Spans(u)
  <2>1. One("irq off") \in Light /\ Msk(TRUE) \in Light /\ Msk(FALSE) \in Light
    BY CoreKinds DEF Light
  <2>2. \A i \in 1 .. 6 : (i = 2 /\ Span(u[i]) = 3) \/ Span(u[i]) = 0
    BY <1>1, <1>2, SixNumbers, IrqKinds, IrqNumbers, ZenonT(40)
  <2>3. \A k \in 2 + 1 .. 2 + 3 : u[k] \in Light
    BY <1>2, <2>1, SixNumbers, Zenon
  <2>4. \A i \in 1 .. 6 : i + 0 <= 6 /\ \A k : ~(k \in i + 1 .. i + 0)
    OBVIOUS
  <2>5. \A i \in 1 .. 6 :
           /\ i + Span(u[i]) <= 6
           /\ \A k \in i + 1 .. i + Span(u[i]) : u[k] \in Light
           /\ Span(u[i]) > 0 => \A k \in 1 .. 6 : k = i + Span(u[i]) + 1 => u[k] \notin ArmW
    BY <1>4, <2>2, <2>3, <2>4, SixNumbers, Zenon
  <2> QED
    BY <1>2, <2>5, Zenon DEF Spans
<1>7. Framed(u)
  <2>1. \A i \in 1 .. 6 : u[i] = One("msi on") => i < 6 /\ u[i + 1] \in IrqOns
    <3>1. IrqOn3 \in IrqOns
      BY DEF IrqOns
    <3> QED
      BY <1>1, <1>2, <3>1, SixNumbers, IrqKinds, Zenon
  <2>2. \A i \in 1 .. 6 : \A n : u[i] = IrqOn(n) => i = 2 /\ n = 3
    <3>1. \A n : /\ One("msi on") # IrqOn(n) /\ One("irq off") # IrqOn(n) /\ One("msi off") # IrqOn(n)
                 /\ Msk(TRUE) # IrqOn(n) /\ Msk(FALSE) # IrqOn(n)
      BY <1>1, IrqKinds, Zenon
    <3> QED
      BY <1>2, <3>1, SixNumbers, IrqNumbers, ZenonT(40)
  <2>3. 2 + 3 + 1 <= 6 /\ u[2 + 3] = One("irq off") /\ u[2 + 3 + 1] = One("msi off") /\ \A k \in 2 + 1 .. 2 + 3 - 1 : u[k] \in PcieW
    BY <1>1, <1>2, SixNumbers, Zenon
  <2> QED
    BY <1>2, <2>1, <2>2, <2>3, Zenon DEF Framed
<1>8. Starts(u) /\ Only(u, Irqs \cup PcieW) /\ NoRel(u) /\ Sealed(u)
  <2>1. Starts(u)
    <3>1. 1 \in 1 .. 6
      OBVIOUS
    <3> QED
      BY <1>4, <3>1 DEF Starts
  <2> QED
    BY <1>2, <1>3, <1>4, <2>1 DEF Only, NoRel, Sealed, Late
<1> QED
  BY <1>0, <1>2, <1>5, <1>6, <1>7, <1>8, Zenon DEF Pre, Post, Piece, Static, u

\* kzalloc of the olmsg buffer, and the store that is left out without it.
LEMMA OlmsgList ==
  ASSUME NEW V, One("olmsg") \in V, SharedStore \in V
  PROVE  Pre(Two(One("olmsg"), SharedStore), V)
<1> DEFINE u == Two(One("olmsg"), SharedStore)
<1>1. One("olmsg") \in Steps /\ SharedStore \in Steps /\ SharedStore \in AllStores
  <2>1. SharedStore \in AllStores
    BY DEF AllStores
  <2> QED
    BY <2>1, StepKinds
<1>2. u \in Seq(Steps) /\ Len(u) = 2 /\ u[1] = One("olmsg") /\ u[2] = SharedStore
  BY <1>1, TwoIs
<1> HIDE DEF u
<1>3. /\ One("olmsg")[1] = "olmsg" /\ SharedStore[1] = "tcm"
      /\ \A e \in ArmW : e[1] = "write"
      /\ One("msi on")[1] = "msi on" /\ \A n : IrqOn(n)[1] = "irq on"
  BY <1>1, Tags, ZenonT(60)
<1>4. Span(One("olmsg")) = 1 /\ Span(SharedStore) = 0
  BY <1>1, <1>3, SpanIs
<1>5. /\ "olmsg" # "write" /\ "tcm" # "write" /\ "olmsg" # "msi on" /\ "tcm" # "msi on"
      /\ "olmsg" # "irq on" /\ "tcm" # "irq on"
  OBVIOUS
<1>6. \A e \in {One("olmsg"), SharedStore} : e \notin ArmW /\ e # One("msi on") /\ \A n : e # IrqOn(n)
  BY <1>3, <1>5, Zenon
<1>7. Rel \in ArmW
  BY CoreKinds
<1>8. \A i \in 1 .. 2 : u[i] \in {One("olmsg"), SharedStore}
  BY <1>2, PairNumbers, Zenon
<1>9. Written(u)
  <2>1. \A i \in 2 .. 2 : u[i] \notin ArmW
    BY <1>2, <1>6, PairNumbers, Zenon
  <2> QED
    BY <1>2, <2>1, Zenon DEF Written
<1>10. Spans(u)
  <2>1. SharedStore \in Light
    BY DEF Light
  <2>2. \A i \in 1 .. 2 : (i = 1 /\ Span(u[i]) = 1) \/ (i = 2 /\ Span(u[i]) = 0)
    BY <1>2, <1>4, PairNumbers, Zenon
  <2>3. \A i \in 1 .. 2 :
           /\ i + Span(u[i]) <= 2
           /\ \A k \in i + 1 .. i + Span(u[i]) : u[k] \in Light
           /\ Span(u[i]) > 0 => \A k \in 1 .. 2 : k = i + Span(u[i]) + 1 => u[k] \notin ArmW
    BY <1>2, <2>1, <2>2, PairNumbers, Zenon
  <2> QED
    BY <1>2, <2>3, Zenon DEF Spans
<1>11. Framed(u)
  BY <1>2, <1>6, <1>8, Zenon DEF Framed
<1>12. Starts(u) /\ Only(u, V) /\ NoRel(u)
  BY <1>2, <1>6, <1>7, <1>8, Zenon DEF Starts, Only, NoRel
<1> QED
  BY <1>2, <1>9, <1>10, <1>11, <1>12, Zenon DEF Pre, Piece, Static, u

-----------------------------------------------------------------------------
(***************************************************************************)
(* The pieces of the programs.                                             *)
(***************************************************************************)
\* neither stores nor lets the ARM go
Free(s, V) == Pre(s, V) /\ Post(s, V)

LEMMA FreeGlue ==
  ASSUME NEW s, NEW t, NEW V, Free(s, V), Free(t, V)
  PROVE  Free(s \o t, V)
BY Glue, Zenon DEF Free, Pre, Post

LEMMA Choices ==
  ASSUME NEW V, NEW s, NEW t
  PROVE  /\ Pre(s, V) => Pre(If(On(t), s), V) /\ Pre(If(~On(t), s), V)
         /\ Post(s, V) => Post(If(On(t), s), V) /\ Post(If(~On(t), s), V)
         /\ Free(s, V) => Free(If(On(t), s), V) /\ Free(If(~On(t), s), V)
<1>1. CASE On(t)
  <2>1. If(On(t), s) = s /\ If(~On(t), s) = <<>>
    BY <1>1, Zenon DEF If
  <2> QED
    BY <2>1, Nothing, Zenon DEF Free
<1>2. CASE ~On(t)
  <2>1. If(On(t), s) = <<>> /\ If(~On(t), s) = s
    BY <1>2, Zenon DEF If
  <2> QED
    BY <2>1, Nothing, Zenon DEF Free
<1> QED
  BY <1>1, <1>2

LEMMA FreeWider ==
  ASSUME NEW s, NEW V, NEW W, V \subseteq W, Free(s, V)
  PROVE  Free(s, W)
BY Wider, Zenon DEF Free

LEMMA DoList ==
  ASSUME NEW V, NEW op, One(op) \in V, One(op) \in Steps,
         op \notin {"skip if in reset", "skip unless olmsg", "irq on", "olmsg", "msi on", "write", "tcm"}
  PROVE  Free(Do(op), V)
<1>1. One(op)[1] = op /\ \A e \in ArmW : e[1] = "write"
  BY Tags, ZenonT(60)
<1>2. /\ One(op) \notin ArmW
      /\ One(op)[1] \notin {"skip if in reset", "skip unless olmsg", "irq on", "olmsg", "msi on"} /\ One(op)[1] # "tcm"
  BY <1>1
<1>3. Pre(<<One(op)>>, V) /\ Post(<<One(op)>>, V)
  BY <1>2, Alone, Zenon
<1> QED
  BY <1>3, Zenon DEF Free, Do, One

LEMMA ViewList ==
  ASSUME NEW c \in Windows
  PROVE  Free(View(c), Views)
<1>1. See(c) \in Views
  BY DEF Views
<1>2. See(c) \in Steps /\ See(c) \notin ArmW
  BY <1>1, StepKinds, CoreKinds
<1>3. See(c)[1] = "window"
  BY DEF See
<1>4. See(c)[1] \notin {"skip if in reset", "skip unless olmsg", "irq on", "olmsg", "msi on"} /\ See(c)[1] # "tcm"
  BY <1>3
<1>5. Pre(<<See(c)>>, Views) /\ Post(<<See(c)>>, Views)
  BY <1>1, <1>2, <1>4, Alone, Zenon
<1> QED
  BY <1>5, Zenon DEF Free, View, See

LEMMA PcieList ==
  /\ Free(IntrEnable, PcieW) /\ Free(IntrDisable, PcieW) /\ Free(Doorbell, PcieW)
<1>1. ASSUME NEW e \in PcieW PROVE Free(<<e>>, PcieW)
  <2>1. e \in Steps /\ e \notin ArmW
    BY StepKinds, CoreKinds
  <2>2. e[1] = "write"
    BY Tags, ZenonT(60)
  <2>3. e[1] \notin {"skip if in reset", "skip unless olmsg", "irq on", "olmsg", "msi on"} /\ e[1] # "tcm"
    BY <2>2
  <2> QED
    BY <2>1, <2>3, Alone, Zenon DEF Free
<1>2. IntrEnable = <<Msk(TRUE)>> /\ IntrDisable = <<Msk(FALSE)>> /\ Doorbell = <<Bell>>
  BY Zenon DEF IntrEnable, IntrDisable, Doorbell, Put, Msk, Bell
<1> QED
  BY <1>1, <1>2, CoreKinds, Zenon

LEMMA SoftList == Free(WriteVerify, Softs) /\ Free(Do("flip mask"), Softs)
<1>1. Turn \in Softs /\ Trip \in Softs /\ One("flip mask") \in Softs /\ Softs \subseteq Steps
  BY StepKinds DEF Softs
<1>2. Turn[1] = "around" /\ Trip[1] = "round trip" /\ \A e \in ArmW : e[1] = "write"
  BY Tags, ZenonT(60)
<1>3. ASSUME NEW e \in {Turn, Trip} PROVE Free(<<e>>, Softs)
  <2>1. e \in Steps /\ e \in Softs
    BY <1>1
  <2>2. e[1] = "around" \/ e[1] = "round trip"
    BY <1>2
  <2>3. e \notin ArmW /\ e[1] # "tcm" /\ e[1] \notin {"skip if in reset", "skip unless olmsg", "irq on", "olmsg", "msi on"}
    BY <1>2, <2>2
  <2> QED
    BY <2>1, <2>3, Alone, Zenon DEF Free
<1>4. Free(<<Turn>>, Softs) /\ Free(<<Trip>>, Softs)
  BY <1>3
<1>5. WriteVerify = <<Turn>> \o <<Trip>>
  BY Zenon DEF WriteVerify, Around, RoundTrip, Turn, Trip, Flips
<1>6. Free(Do("flip mask"), Softs)
  <2>1. One("flip mask") \in Steps /\ One("flip mask") \in Softs
    BY <1>1
  <2>2. "flip mask" \notin {"skip if in reset", "skip unless olmsg", "irq on", "olmsg", "msi on", "write", "tcm"}
    OBVIOUS
  <2> QED
    BY <2>1, <2>2, DoList, Zenon
<1> QED
  BY <1>4, <1>5, <1>6, FreeGlue, Zenon

LEMMA StoreList ==
  ASSUME NEW V, NEW e \in AllStores, e \in V
  PROVE  Pre(<<e>>, V)
<1>1. e \in Steps
  BY StepKinds
<1>2. e[1] = "tcm" /\ \A x \in ArmW : x[1] = "write"
  BY Tags, ZenonT(60)
<1>3. e \notin ArmW /\ e[1] \notin {"skip if in reset", "skip unless olmsg", "irq on", "olmsg", "msi on"}
  BY <1>2
<1> QED
  BY <1>1, <1>3, Alone, Zenon

LEMMA UnlessNumbers ==
  ASSUME NEW n \in 0 .. 5
  PROVE  /\ 1 + n <= 1 + n /\ 1 + n \in Nat
         /\ \A k \in 1 + 1 .. 1 + n : k \in 1 .. 1 + n /\ k > 1 /\ k # 1
         /\ \A k \in 1 .. 1 + n : k # 1 + n + 1 /\ (k = 1 \/ k \in 2 .. 1 + n)
         /\ \A k \in 2 .. 1 + n : k \in 1 .. 1 + n /\ k - 1 \in 1 .. n /\ k = 1 + (k - 1) /\ k + 0 <= 1 + n /\ \A r : ~(r \in k + 1 .. k + 0)
         /\ ~(0 > 0)
OBVIOUS

\* What is left out when the olmsg buffer could not be had.
LEMMA UnlessList ==
  ASSUME NEW t, Piece(t, Views \cup PcieW), NEW n \in 0 .. 5, Len(t) = n
  PROVE  Free(<<Unless(n)>> \o t, Work)
<1> DEFINE w == <<Unless(n)>> \o t
<1> DEFINE a == <<Unless(n)>>
<1>1. Unless(n) \in Softs /\ Unless(n) \in Steps /\ t \in Seq(Steps)
  <2>1. Unless(n) \in Softs
    BY DEF Softs
  <2> QED
    BY <2>1, StepKinds DEF Piece
<1>2. a \in Seq(Steps) /\ Len(a) = 1 /\ a[1] = Unless(n)
  BY <1>1, Single
<1> HIDE DEF a
<1>3. Joint(w, a, t)
  BY <1>1, <1>2, JointIs DEF a
<1> HIDE DEF w
<1>4. w \in Seq(Steps) /\ Len(w) = 1 + n /\ w[1] = Unless(n)
  <2>1. w \in Seq(Steps) /\ Len(w) = Len(a) + Len(t) /\ (\A i \in 1 .. Len(a) : w[i] = a[i])
    BY <1>3 DEF Joint
  <2>2. 1 \in 1 .. 1
    OBVIOUS
  <2> QED
    BY <1>2, <2>1, <2>2, Zenon
<1>5. \A k \in 2 .. 1 + n : w[k] \in Views \cup PcieW
  <2>1. \A i \in 1 .. n : w[1 + i] = t[i] /\ t[i] \in Views \cup PcieW
    BY <1>2, <1>3 DEF Joint, Piece, Only
  <2> SUFFICES ASSUME NEW k \in 2 .. 1 + n PROVE w[k] \in Views \cup PcieW
    OBVIOUS
  <2>2. PICK i : i = k - 1
    OBVIOUS
  <2>3. i \in 1 .. n /\ k = 1 + i
    BY <2>2, UnlessNumbers, Zenon
  <2> QED
    BY <2>1, <2>3, Zenon
<1>6. Unless(n)[1] = "skip unless olmsg" /\ Unless(n)[2] = n
  BY Tags, ZenonT(60)
<1>7. /\ \A e \in Views : e[1] = "window" /\ e \in Steps
      /\ \A e \in PcieW : e[1] = "write" /\ e \in Steps /\ e \notin ArmW
      /\ \A e \in ArmW : e[1] = "write"
      /\ Rel \in ArmW
      /\ One("msi on")[1] = "msi on" /\ \A q : IrqOn(q)[1] = "irq on"
  <2>1. \A e \in PcieW : e \notin ArmW
    BY CoreKinds
  <2> QED
    BY <2>1, Tags, StepKinds, CoreKinds, ZenonT(40)
<1>8. \A e \in Views \cup PcieW :
         e \in Steps /\ e \notin ArmW /\ e # Rel /\ e[1] # "tcm" /\ Span(e) = 0 /\ e # One("msi on") /\ \A q : e # IrqOn(q)
  <2> SUFFICES ASSUME NEW e \in Views \cup PcieW
               PROVE e \in Steps /\ e \notin ArmW /\ e # Rel /\ e[1] # "tcm" /\ Span(e) = 0 /\ e # One("msi on") /\ \A q : e # IrqOn(q)
    OBVIOUS
  <2>1. e \in Steps /\ (e[1] = "window" \/ (e[1] = "write" /\ e \notin ArmW))
    BY <1>7
  <2>2. e \notin ArmW /\ e[1] # "tcm" /\ e[1] # "msi on" /\ e[1] # "irq on"
    BY <1>7, <2>1
  <2>3. Span(e) = 0
    BY <2>1, SpanIs
  <2> QED
    BY <1>7, <2>1, <2>2, <2>3, Zenon
<1>9. Unless(n) \notin ArmW /\ Unless(n) # Rel /\ Unless(n)[1] # "tcm" /\ Unless(n) # One("msi on") /\ \A q : Unless(n) # IrqOn(q)
  <2>1. "skip unless olmsg" # "write" /\ "skip unless olmsg" # "tcm" /\ "skip unless olmsg" # "msi on" /\ "skip unless olmsg" # "irq on"
    OBVIOUS
  <2> QED
    BY <1>6, <1>7, <2>1, Zenon
<1>10. Span(Unless(n)) = n
  BY <1>1, <1>6, SpanIs
<1>11. \A k \in 1 .. 1 + n : w[k] = Unless(n) \/ w[k] \in Views \cup PcieW
  BY <1>4, <1>5, UnlessNumbers, Zenon
<1>12. \A k \in 1 .. 1 + n : w[k] \notin ArmW /\ w[k] # Rel /\ w[k][1] # "tcm" /\ w[k] # One("msi on") /\ \A q : w[k] # IrqOn(q)
  BY <1>8, <1>9, <1>11, Zenon
<1>13. Written(w)
  <2>1. \A k \in 2 .. 1 + n : w[k] \notin ArmW
    BY <1>12, UnlessNumbers, Zenon
  <2> QED
    BY <1>4, <2>1, Zenon DEF Written
<1>14. Spans(w)
  <2>1. \A k \in 1 + 1 .. 1 + n : w[k] \in Light
    <3>1. Views \cup PcieW \subseteq Light
      BY DEF Light
    <3>2. 1 + 1 = 2
      OBVIOUS
    <3> QED
      BY <1>5, <3>1, <3>2, Zenon
  <2>2. \A k \in 1 .. 1 + n : (k = 1 /\ Span(w[k]) = n) \/ (k \in 2 .. 1 + n /\ Span(w[k]) = 0)
    BY <1>4, <1>5, <1>8, <1>10, UnlessNumbers, Zenon
  <2>3. \A i \in 1 .. 1 + n :
           /\ i + Span(w[i]) <= 1 + n
           /\ \A k \in i + 1 .. i + Span(w[i]) : w[k] \in Light
           /\ Span(w[i]) > 0 => \A k \in 1 .. 1 + n : k = i + Span(w[i]) + 1 => w[k] \notin ArmW
    BY <2>1, <2>2, <1>12, UnlessNumbers, Zenon
  <2> QED
    BY <1>4, <2>3, Zenon DEF Spans
<1>15. Framed(w)
  BY <1>4, <1>12, Zenon DEF Framed
<1>16. Starts(w) /\ Only(w, Work) /\ NoRel(w) /\ Sealed(w)
  <2>1. Only(w, Work)
    <3>1. Unless(n) \in Work /\ Views \cup PcieW \subseteq Work
      BY <1>1, StepKinds
    <3> QED
      BY <1>4, <1>11, <3>1, Zenon DEF Only
  <2> QED
    BY <1>4, <1>9, <1>12, <2>1, Zenon DEF Starts, NoRel, Sealed, Late
<1> QED
  BY <1>4, <1>13, <1>14, <1>15, <1>16, Zenon DEF Free, Pre, Post, Piece, Static, w

\* brcmf_chip_set_passive, and the readings.
LEMMA PartLists ==
  /\ Free(ProbeState, Views) /\ Free(Snapshot, Views) /\ Free(Sentinel, PcieW)
  /\ Len(Snapshot) \in 0 .. 2
<1>1. /\ Free(View("cc"), Views) /\ Free(View("pcie"), Views) /\ Free(View("wrapper"), Views)
  <2>1. "cc" \in Windows /\ "pcie" \in Windows /\ "wrapper" \in Windows
    BY DEF Windows
  <2> QED
    BY <2>1, ViewList, Zenon
<1>2. Free(ProbeState, Views)
  BY <1>1, Zenon DEF ProbeState
<1>3. Free(View("wrapper") \o View("pcie"), Views)
  BY <1>1, FreeGlue, Zenon
<1>4. Free(Snapshot, Views)
  BY <1>3, Choices, Zenon DEF Snapshot
<1>5. Free(Sentinel, PcieW)
  BY PcieList, FreeGlue, Zenon DEF Sentinel
<1>6. Len(Snapshot) \in 0 .. 2
  <2>1. View("wrapper") \o View("pcie") = Two(See("wrapper"), See("pcie"))
    BY Zenon DEF View, See, Two
  <2>2. See("wrapper") \in Steps /\ See("pcie") \in Steps
    BY CoreKinds, StepKinds
  <2>3. Len(Two(See("wrapper"), See("pcie"))) = 2
    BY <2>2, TwoIs
  <2>4. Len(<<>>) = 0 /\ 0 \in 0 .. 2 /\ 2 \in 0 .. 2
    OBVIOUS
  <2> QED
    BY <2>1, <2>3, <2>4, Zenon DEF Snapshot, If
<1> QED
  BY <1>2, <1>4, <1>5, <1>6

LEMMA PassiveList == Free(SetPassive, Cored) /\ Sure(SetPassive)
<1> DEFINE a == View("arm")
<1> DEFINE b == Do("disable arm")
<1> DEFINE c == CoreDisable("d11", FALSE, FALSE)
<1>1. Free(a, Cored)
  <2>1. "arm" \in Windows /\ Views \subseteq Cored
    BY StepKinds DEF Windows
  <2> QED
    BY <2>1, ViewList, FreeWider, Zenon
<1>2. Free(b, Cored)
  <2>1. One("disable arm") \in Cored /\ One("disable arm") \in Steps
    BY StepKinds DEF Cores
  <2>2. "disable arm" \notin {"skip if in reset", "skip unless olmsg", "irq on", "olmsg", "msi on", "write", "tcm"}
    OBVIOUS
  <2> QED
    BY <2>1, <2>2, DoList, Zenon
<1>3. Free(c, Cored)
  BY CoreLists, Zenon DEF Free
<1>4. Sure(b)
  <2>1. One("disable arm") \in Steps
    BY StepKinds DEF Cores
  <2>2. Len(b) = 1 /\ b[1] = One("disable arm")
    BY <2>1, Single, Zenon DEF Do, One
  <2> HIDE DEF b
  <2>3. 1 \in 1 .. 1 /\ (\A k : ~(k \in 1 + 1 .. 1)) /\ (\A k : ~(k \in 1 .. 1 - 1))
    OBVIOUS
  <2> QED
    BY <2>2, <2>3, Zenon DEF Sure
<1> HIDE DEF a, b, c
<1>5. Free(a \o b, Cored) /\ Joint(a \o b, a, b)
  BY <1>1, <1>2, Glue, FreeGlue, Zenon DEF Free, Pre
<1>6. Sure(a \o b)
  BY <1>1, <1>4, <1>5, JointSure, Zenon DEF Free, Pre, Piece, Static
<1>7. Free(a \o b \o c, Cored) /\ Joint(a \o b \o c, a \o b, c)
  BY <1>3, <1>5, Glue, FreeGlue, Zenon DEF Free, Pre
<1>8. Sure(a \o b \o c)
  BY <1>3, <1>6, <1>7, JointSure, Zenon DEF Free, Pre
<1> QED
  BY <1>7, <1>8, Zenon DEF SetPassive, a, b, c

LEMMA Wholes ==
  ASSUME NEW s, NEW V
  PROVE  (Pre(s, V) \/ Post(s, V)) => Whole2(s, V)
<1>1. NoRel(s) => RelLast(s)
  BY DEF NoRel, RelLast
<1>2. ASSUME Piece(s, V), Sealed(s) PROVE RelLast(s)
  <2>1. Len(s) \in Nat
    BY <1>2, Lengths DEF Piece
  <2>2. \A i \in 1 .. Len(s) : \A j \in i + 1 .. Len(s) : j \in 1 .. Len(s)
    BY <2>1
  <2> QED
    BY <1>2, <2>2 DEF Sealed, RelLast
<1> QED
  BY <1>1, <1>2, Zenon DEF Pre, Post, Whole2

\* brcmf_chip_cr4_set_active.
LEMMA ActiveList ==
  ASSUME NEW V, Cored \subseteq V, VectorStore \in V
  PROVE  Whole2(SetActive, V)
<1> DEFINE a == Store([lo |-> 0, hi |-> 4], "fw")
<1> DEFINE b == ResetCore("arm", TRUE, FALSE, FALSE)
<1>1. Pre(a, V)
  <2>1. VectorStore \in AllStores
    BY DEF AllStores
  <2>2. a = <<VectorStore>>
    BY Zenon DEF Store, VectorStore
  <2> QED
    BY <2>1, <2>2, StoreList, Zenon
<1>2. Post(b, V)
  BY ResetLists, Wider, Zenon
<1> HIDE DEF a, b
<1>3. Whole2(b, V)
  BY <1>2, Wholes, Zenon
<1>4. Whole2(a \o b, V)
  BY <1>1, <1>3, Glue, Zenon DEF Pre, Whole2
<1> QED
  BY <1>4, Zenon DEF SetActive, a, b

\* The ladder of tests under the running firmware.
LEMMA LadderList == Free(Ladder, Work)
<1>1. Views \subseteq Work /\ PcieW \subseteq Work /\ Softs \subseteq Work /\ Irqs \cup PcieW \subseteq Work
  BY StepKinds
<1>2. /\ Free(Sentinel, Work) /\ Free(WriteVerify, Work) /\ Free(Doorbell, Work) /\ Free(IntrEnable, Work)
      /\ Free(Scaffold(IntrEnable \o IntrDisable), Work) /\ Free(Scaffold(<<>>), Work)
  <2>1. Free(Scaffold(<<>>), Irqs \cup PcieW)
    BY WaitList, Zenon DEF Free
  <2>2. Free(Scaffold(IntrEnable \o IntrDisable), Irqs \cup PcieW)
    BY MaskList, Zenon DEF Free
  <2> QED
    BY <1>1, <2>1, <2>2, PartLists, SoftList, PcieList, FreeWider, Zenon
<1> DEFINE a == If(On("242"), Sentinel)
<1> DEFINE b == If(On("243"), WriteVerify)
<1> DEFINE c == If(On("240"), Doorbell)
<1> DEFINE d == If(On("258"), IntrEnable)
<1> DEFINE e == If(On("259"), Scaffold(IntrEnable \o IntrDisable))
<1> DEFINE f == If(On("264"), Scaffold(<<>>))
<1> DEFINE g == If(~On("269"), d \o e \o f)
<1>3. Free(a, Work) /\ Free(b, Work) /\ Free(c, Work)
  BY <1>2, Choices, Zenon
<1>4. Free(d, Work) /\ Free(e, Work) /\ Free(f, Work)
  BY <1>2, Choices, Zenon
<1>5. Ladder = a \o b \o a \o b \o c \o g
  BY Zenon DEF Ladder
<1> HIDE DEF a, b, c, d, e, f
<1>6. Free(d \o e, Work)
  BY <1>4, FreeGlue, Zenon
<1>7. Free(d \o e \o f, Work)
  BY <1>4, <1>6, FreeGlue, Zenon
<1>8. Free(g, Work)
  BY <1>7, Choices, Zenon
<1> HIDE DEF g
<1>9. Free(a \o b, Work)
  BY <1>3, FreeGlue, Zenon
<1>10. Free(a \o b \o a, Work)
  BY <1>3, <1>9, FreeGlue, Zenon
<1>11. Free(a \o b \o a \o b, Work)
  BY <1>3, <1>10, FreeGlue, Zenon
<1>12. Free(a \o b \o a \o b \o c, Work)
  BY <1>3, <1>11, FreeGlue, Zenon
<1>13. Free(a \o b \o a \o b \o c \o g, Work)
  BY <1>8, <1>12, FreeGlue, Zenon
<1> QED
  BY <1>5, <1>13, Zenon

\* What test 238 adds around the release.
LEMMA ConsoleList ==
  LET console == If(On("280"), IntrEnable) \o If(On("279"), Doorbell \o Doorbell) IN
  Free(If(On("276"), <<<<"skip unless olmsg", Len(Snapshot \o console)>>>> \o Snapshot \o console), Work)
<1> DEFINE a == If(On("280"), IntrEnable)
<1> DEFINE b == If(On("279"), Doorbell \o Doorbell)
<1> DEFINE c == a \o b
<1>1. /\ a \in {IntrEnable, <<>>} /\ b \in {Doorbell \o Doorbell, <<>>}
  BY DEF If
<1>2. IntrEnable = <<Msk(TRUE)>> /\ Doorbell \o Doorbell = Two(Bell, Bell)
  BY Zenon DEF IntrEnable, Put, Msk, Doorbell, Bell, Two
<1>3. Free(a, PcieW) /\ Free(b, PcieW)
  <2>1. Free(Doorbell \o Doorbell, PcieW)
    BY PcieList, FreeGlue, Zenon
  <2> QED
    BY <2>1, PcieList, Choices, Zenon
<1>4. Len(a) \in 0 .. 1 /\ Len(b) \in 0 .. 2
  <2>1. Msk(TRUE) \in Steps /\ Bell \in Steps
    BY CoreKinds, StepKinds
  <2>2. Len(<<Msk(TRUE)>>) = 1
    BY <2>1, Single, Zenon
  <2>3. Len(Two(Bell, Bell)) = 2
    BY <2>1, TwoIs
  <2>4. Len(<<>>) = 0 /\ 0 \in 0 .. 1 /\ 1 \in 0 .. 1 /\ 0 \in 0 .. 2 /\ 2 \in 0 .. 2
    OBVIOUS
  <2> HIDE DEF a, b
  <2>5. (a = IntrEnable \/ a = <<>>) /\ (b = Doorbell \o Doorbell \/ b = <<>>)
    BY <1>1
  <2> QED
    BY <1>2, <2>2, <2>3, <2>4, <2>5, Zenon
<1> HIDE DEF a, b
<1>5. Views \subseteq Views \cup PcieW /\ PcieW \subseteq Views \cup PcieW
  OBVIOUS
<1>6. Free(c, Views \cup PcieW) /\ Free(Snapshot, Views \cup PcieW)
  BY <1>3, <1>5, PartLists, FreeGlue, FreeWider, Zenon
<1>7. Len(c) \in 0 .. 3
  <2>1. a \in Seq(Steps) /\ b \in Seq(Steps)
    BY <1>3 DEF Free, Pre, Piece
  <2>2. Len(c) = Len(a) + Len(b)
    BY <2>1, ConcatProperties
  <2> HIDE DEF c
  <2>3. \A m \in 0 .. 1, n \in 0 .. 2 : m + n \in 0 .. 3
    OBVIOUS
  <2> QED
    BY <1>4, <2>2, <2>3, Zenon
<1> DEFINE t == Snapshot \o c
<1>8. Free(t, Views \cup PcieW) /\ Snapshot \in Seq(Steps) /\ c \in Seq(Steps)
  BY <1>6, FreeGlue, Zenon DEF Free, Pre, Piece
<1> HIDE DEF c
<1>9. Len(t) \in 0 .. 5
  <2>1. Len(t) = Len(Snapshot) + Len(c)
    BY <1>8, ConcatProperties
  <2> HIDE DEF t
  <2>3. \A m \in 0 .. 2, n \in 0 .. 3 : m + n \in 0 .. 5
    OBVIOUS
  <2> QED
    BY <1>7, <2>1, <2>3, PartLists, Zenon
<1>10. Free(<<Unless(Len(t))>> \o t, Work)
  <2>1. PICK n : n = Len(t)
    OBVIOUS
  <2>2. Piece(t, Views \cup PcieW) /\ n \in 0 .. 5
    BY <1>8, <1>9, <2>1, Zenon DEF Free, Pre
  <2>3. Free(<<Unless(n)>> \o t, Work)
    BY <2>1, <2>2, UnlessList, Zenon
  <2> QED
    BY <2>1, <2>3, Zenon
<1>11. <<Unless(Len(t))>> \o t = <<Unless(Len(t))>> \o Snapshot \o c
  <2>1. <<Unless(Len(t))>> \in Seq(Steps)
    <3>1. Unless(Len(t)) \in Steps
      <4>1. Unless(Len(t)) \in Softs
        BY <1>9, Zenon DEF Softs
      <4> QED
        BY <4>1, StepKinds
    <3> QED
      BY <3>1, Single, Zenon
  <2>2. \A p, s, u \in Seq(Steps) : p \o s \o u = p \o (s \o u)
    BY ConcatAssociative, SMTT(30)
  <2> QED
    BY <1>8, <2>1, <2>2, Zenon
<1>12. Free(If(On("276"), <<Unless(Len(t))>> \o Snapshot \o c), Work)
  BY <1>10, <1>11, Choices, Zenon
<1> QED
  BY <1>12, Zenon DEF Unless, c, a, b

LEMMA UltraList ==
  Whole2(Ultra, Body(tests, nvlen))
<1> DEFINE V == Body(tests, nvlen)
<1> DEFINE a == If(On("276"), Do("olmsg") \o Store(SharedInfo, "shared"))
<1> DEFINE b == If(On("284"), Snapshot \o IntrEnable \o Snapshot)
<1> DEFINE console == If(On("280"), IntrEnable) \o If(On("279"), Doorbell \o Doorbell)
<1> DEFINE d == If(On("276"), <<<<"skip unless olmsg", Len(Snapshot \o console)>>>> \o Snapshot \o console)
<1> DEFINE e == IF On("268") THEN Scaffold(<<>>) ELSE Ladder
<1>1. Views \subseteq V /\ PcieW \subseteq V /\ Cored \subseteq V /\ Work \subseteq V /\ Irqs \cup PcieW \subseteq V
  BY StepKinds
<1>2. VectorStore \in V /\ One("olmsg") \in V
  BY StepKinds DEF Stores
<1>3. Pre(a, V)
  <2>1. CASE On("276")
    <3>1. SharedStore \in V
      <4>1. SharedStore \in Stores(tests, nvlen)
        BY <2>1 DEF Stores, On
      <4> QED
        BY <4>1, StepKinds
    <3>2. Do("olmsg") \o Store(SharedInfo, "shared") = Two(One("olmsg"), SharedStore)
      BY Zenon DEF Do, One, Store, SharedStore, Two
    <3> HIDE DEF V
    <3>3. Pre(Do("olmsg") \o Store(SharedInfo, "shared"), V)
      BY <1>2, <3>1, <3>2, OlmsgList, Zenon
    <3> QED
      BY <3>3, Choices, Zenon
  <2>2. CASE ~On("276")
    <3>1. a = <<>>
      BY <2>2, Zenon DEF If
    <3> HIDE DEF a, V
    <3> QED
      BY <3>1, Nothing, Zenon
  <2> QED
    BY <2>1, <2>2
<1> HIDE DEF V
<1>4. Free(Snapshot, V) /\ Free(IntrEnable, V) /\ Free(Ladder, V) /\ Free(Scaffold(<<>>), V)
  <2>1. Free(Scaffold(<<>>), Irqs \cup PcieW)
    BY WaitList, Zenon DEF Free
  <2> QED
    BY <1>1, <2>1, PartLists, PcieList, LadderList, FreeWider, Zenon
<1>5. Free(Snapshot \o IntrEnable, V)
  BY <1>4, FreeGlue, Zenon
<1>6. Free(Snapshot \o IntrEnable \o Snapshot, V)
  BY <1>4, <1>5, FreeGlue, Zenon
<1>7. Free(b, V)
  BY <1>6, Choices, Zenon
<1>8. Free(d, V)
  BY <1>1, ConsoleList, FreeWider, Zenon
<1>9. Free(e, V)
  BY <1>4, Zenon
<1>10. Ultra = a \o b \o SetActive \o Snapshot \o d \o e
  BY Zenon DEF Ultra
<1> HIDE DEF a, b, d, e
<1>11. Pre(a \o b, V)
  BY <1>3, <1>7, Glue, Zenon DEF Free, Pre
<1>12. Whole2(SetActive, V)
  BY <1>1, <1>2, ActiveList, Zenon
<1>13. Whole2(a \o b \o SetActive, V)
  BY <1>11, <1>12, Glue, Zenon DEF Pre, Whole2
<1>14. Whole2(a \o b \o SetActive \o Snapshot, V)
  BY <1>4, <1>13, Glue, Zenon DEF Free, Post, Whole2
<1>15. Whole2(a \o b \o SetActive \o Snapshot \o d, V)
  BY <1>8, <1>14, Glue, Zenon DEF Free, Post, Whole2
<1>16. Whole2(a \o b \o SetActive \o Snapshot \o d \o e, V)
  BY <1>9, <1>15, Glue, Zenon DEF Free, Post, Whole2
<1> QED
  BY <1>10, <1>16, Zenon DEF V

LEMMA ReleaseList == Whole2(Release, Body(tests, nvlen))
<1>1. Cored \subseteq Body(tests, nvlen) /\ VectorStore \in Body(tests, nvlen)
  BY StepKinds DEF Stores
<1> QED
  BY <1>1, UltraList, ActiveList, Nothing, Zenon DEF Release

\* The last three steps of a program.
LEMMA EndNumbers ==
  ASSUME NEW m \in Nat
  PROVE  /\ m + 1 + 1 + 1 = m + 3 /\ m + 3 \in Nat /\ m + 3 >= 1 /\ m + 3 >= 2 /\ m + 3 >= 3
         /\ m + 3 - 1 = m + 2 /\ m + 3 - 2 = m + 1 /\ \A i \in 1 .. m + 3 - 3 : i \in 1 .. m
         /\ 1 \in 1 .. 1
         /\ \A i \in 1 .. m : i \in 1 .. m + 1 /\ i \in 1 .. m + 1 + 1
         /\ m + 1 \in 1 .. m + 1 /\ m + 1 \in 1 .. m + 1 + 1 /\ m + 1 + 1 \in 1 .. m + 1 + 1
         /\ m + 1 + 1 = m + 2
OBVIOUS

LEMMA Endings ==
  ASSUME NEW s \in Seq(Steps), NEW V, Only(s, V), NEW a \in Steps, NEW b \in Steps, NEW c \in Steps
  PROVE  LET w == s \o <<a>> \o <<b>> \o <<c>> IN Closes(w, V, a, b, c) /\ Len(w) = Len(s) + 3
<1> DEFINE x == s \o <<a>>
<1> DEFINE y == x \o <<b>>
<1> DEFINE w == y \o <<c>>
<1>0. PICK m : m = Len(s)
  OBVIOUS
<1>1. m \in Nat
  BY <1>0, Lengths
<1>2. \A e \in Steps : <<e>> \in Seq(Steps) /\ Len(<<e>>) = 1 /\ <<e>>[1] = e
  BY Single, Zenon
<1>3. \A p, q \in Seq(Steps) : Joint(p \o q, p, q)
  BY JointIs
<1> DEFINE Longer(q, p, e, n) == q \in Seq(Steps) /\ Len(q) = n + 1 /\ q[n + 1] = e /\ \A i \in 1 .. n : q[i] = p[i]
<1>4. ASSUME NEW p \in Seq(Steps), NEW e \in Steps, NEW n, Len(p) = n
      PROVE Longer(p \o <<e>>, p, e, n)
  <2>1. PICK t : t = <<e>>
    OBVIOUS
  <2>2. PICK q : q = p \o t
    OBVIOUS
  <2>3. Joint(q, p, t) /\ Len(t) = 1 /\ t[1] = e
    BY <1>2, <1>3, <2>1, <2>2, Zenon
  <2>4. q \in Seq(Steps) /\ Len(q) = Len(p) + 1 /\ q[Len(p) + 1] = e /\ \A i \in 1 .. Len(p) : q[i] = p[i]
    <3>1. 1 \in 1 .. 1
      OBVIOUS
    <3> QED
      BY <2>3, <3>1, Zenon DEF Joint
  <2> QED
    BY <1>4, <2>1, <2>2, <2>4, Zenon
<1>5. x \in Seq(Steps) /\ Len(x) = m + 1 /\ x[m + 1] = a /\ \A i \in 1 .. m : x[i] = s[i]
  <2> HIDE DEF Longer
  <2>1. Longer(x, s, a, m)
    BY <1>0, <1>4, Zenon
  <2> USE DEF Longer
  <2> HIDE DEF x
  <2> QED
    BY <2>1
<1> HIDE DEF x
<1>6. y \in Seq(Steps) /\ Len(y) = m + 1 + 1 /\ y[m + 1 + 1] = b /\ \A i \in 1 .. m + 1 : y[i] = x[i]
  <2> HIDE DEF Longer
  <2>1. Longer(y, x, b, m + 1)
    BY <1>4, <1>5, Zenon
  <2> HIDE DEF y
  <2> QED
    BY <2>1 DEF Longer
<1> HIDE DEF y
<1>7. w \in Seq(Steps) /\ Len(w) = m + 1 + 1 + 1 /\ w[m + 1 + 1 + 1] = c /\ \A i \in 1 .. m + 1 + 1 : w[i] = y[i]
  <2> HIDE DEF Longer
  <2>1. Longer(w, y, c, m + 1 + 1)
    BY <1>4, <1>6, Zenon
  <2> HIDE DEF w
  <2> QED
    BY <2>1 DEF Longer
<1> HIDE DEF w
<1>8. w[m + 3] = c /\ w[m + 2] = b /\ w[m + 1] = a /\ \A i \in 1 .. m : w[i] = s[i]
  BY <1>1, <1>5, <1>6, <1>7, EndNumbers, ZenonT(40)
<1>9. Len(w) = m + 3
  BY <1>1, <1>7, EndNumbers, Zenon
<1>10. \A i \in 1 .. m : w[i] \in V
  BY <1>0, <1>8, Zenon DEF Only
<1>11. Closes(w, V, a, b, c)
  <2>1. Len(w) >= 1 /\ w[Len(w)] = c
    BY <1>1, <1>8, <1>9, EndNumbers, Zenon
  <2>4. PICK n : n = m + 3
    OBVIOUS
  <2>5. n - 1 = m + 2 /\ n - 2 = m + 1 /\ \A i \in 1 .. n - 3 : i \in 1 .. m
    BY <1>1, <2>4
  <2>2. w[Len(w) - 1] = b /\ w[Len(w) - 2] = a
    BY <1>8, <1>9, <2>4, <2>5, Zenon
  <2>3. \A i \in 1 .. Len(w) - 3 : w[i] \in V
    BY <1>9, <1>10, <2>4, <2>5, Zenon
  <2> QED
    BY <2>1, <2>2, <2>3, Zenon DEF Closes
<1> QED
  BY <1>0, <1>9, <1>11 DEF w, y, x

LEMMA JointBefore ==
  ASSUME NEW w, NEW s, NEW t, Joint(w, s, t), NEW e, NEW X, Only(s, X), Before(t, e, X)
  PROVE  Before(w, e, X)
<1>0. /\ Len(s) \in Nat /\ Len(t) \in Nat /\ Len(w) = Len(s) + Len(t)
      /\ \A i \in 1 .. Len(s) : w[i] = s[i] /\ i \in 1 .. Len(w)
      /\ \A i \in 1 .. Len(t) : w[Len(s) + i] = t[i] /\ Len(s) + i \in 1 .. Len(w)
      /\ \A i \in 1 .. Len(w) : \/ i \in 1 .. Len(s)
                                \/ i - Len(s) \in 1 .. Len(t) /\ i > Len(s) /\ w[i] = t[i - Len(s)]
  BY DEF Joint
<1> SUFFICES ASSUME NEW i \in 1 .. Len(w), w[i] = e, NEW k \in 1 .. i - 1 PROVE w[k] \in X
  BY DEF Before
<1>1. k \in 1 .. Len(w)
  BY <1>0
<1>2. CASE k \in 1 .. Len(s)
  BY <1>0, <1>2 DEF Only
<1>3. CASE k \notin 1 .. Len(s)
  <2>1. PICK p : p = i - Len(s)
    OBVIOUS
  <2>2. PICK q : q = k - Len(s)
    OBVIOUS
  <2>3. p \in 1 .. Len(t) /\ q \in 1 .. p - 1 /\ q \in 1 .. Len(t) /\ Len(s) + p = i /\ Len(s) + q = k
    BY <1>0, <1>1, <1>3, <2>1, <2>2
  <2>4. t[p] = e /\ w[k] = t[q]
    BY <1>0, <2>3
  <2> QED
    BY <2>3, <2>4 DEF Before
<1> QED
  BY <1>2, <1>3

LEMMA BeforeOne == ASSUME NEW e \in Steps, NEW X PROVE Before(<<e>>, e, X)
<1>1. Len(<<e>>) = 1
  BY Single, Zenon
<1>2. \A i \in 1 .. 1 : \A k : ~(k \in 1 .. i - 1)
  OBVIOUS
<1> QED
  BY <1>1, <1>2, Zenon DEF Before

LEMMA HasOne == ASSUME NEW e \in Steps PROVE Has(<<e>>, e)
<1>1. Len(<<e>>) = 1 /\ <<e>>[1] = e
  BY Single, Zenon
<1>2. 1 \in 1 .. 1
  OBVIOUS
<1> QED
  BY <1>1, <1>2, Zenon DEF Has

LEMMA EndKinds ==
  /\ \A op \in {"clear master", "free all", "bound", "try", "setup", "bus reset", "try enable", "set master", "map", "fw", "alloc"} :
        /\ One(op) \in Steps
        /\ op \notin {"skip if in reset", "skip unless olmsg", "irq on", "olmsg", "msi on", "write", "tcm"}
        /\ \A V : One(op) \in V => Free(Do(op), V) /\ Do(op) = <<One(op)>>
<1> SUFFICES ASSUME NEW op \in {"clear master", "free all", "bound", "try", "setup", "bus reset", "try enable", "set master", "map", "fw", "alloc"}
             PROVE /\ One(op) \in Steps
                   /\ op \notin {"skip if in reset", "skip unless olmsg", "irq on", "olmsg", "msi on", "write", "tcm"}
                   /\ \A V : One(op) \in V => Free(Do(op), V) /\ Do(op) = <<One(op)>>
  OBVIOUS
<1>1. One(op) \in Steps
  <2>1. One(op) \in Probing \cup Ending \cup {One("fw"), One("alloc"), One("set master")}
    BY DEF Probing, Ending
  <2> QED
    BY <2>1, StepKinds
<1>2. op \notin {"skip if in reset", "skip unless olmsg", "irq on", "olmsg", "msi on", "write", "tcm"}
  OBVIOUS
<1>3. Do(op) = <<One(op)>>
  BY Zenon DEF Do, One
<1> QED
  BY <1>1, <1>2, <1>3, DoList, Zenon

\* How the download ends.
LEMMA FinishList ==
  ASSUME NEW V, Views \subseteq V
  PROVE  /\ Free(Finish, V \cup Ending) /\ Len(Finish) >= 3
         /\ Closes(Finish, V, One("clear master"), One("free all"), One("bound"))
<1> DEFINE W == V \cup Ending
<1>1. One("clear master") \in W /\ One("free all") \in W /\ One("bound") \in W /\ Views \subseteq W
  BY DEF Ending
<1>2. /\ "clear master" \in {"clear master", "free all", "bound", "try", "setup", "bus reset", "try enable", "set master", "map", "fw", "alloc"}
      /\ "free all" \in {"clear master", "free all", "bound", "try", "setup", "bus reset", "try enable", "set master", "map", "fw", "alloc"}
      /\ "bound" \in {"clear master", "free all", "bound", "try", "setup", "bus reset", "try enable", "set master", "map", "fw", "alloc"}
      /\ "pcie" \in Windows
  BY DEF Windows
<1> HIDE DEF W
<1>3. /\ Free(Do("clear master"), W) /\ Free(Do("free all"), W) /\ Free(Do("bound"), W)
      /\ Do("clear master") = <<One("clear master")>> /\ Do("free all") = <<One("free all")>> /\ Do("bound") = <<One("bound")>>
      /\ One("clear master") \in Steps /\ One("free all") \in Steps /\ One("bound") \in Steps
  BY <1>1, <1>2, EndKinds, Zenon
<1>4. Free(View("pcie"), Views)
  BY <1>2, ViewList, Zenon
<1>5. Free(View("pcie"), W)
  BY <1>1, <1>4, FreeWider, Zenon
<1>6. Free(View("pcie") \o Do("clear master"), W)
  BY <1>3, <1>5, FreeGlue, Zenon
<1>7. Free(View("pcie") \o Do("clear master") \o Do("free all"), W)
  BY <1>3, <1>6, FreeGlue, Zenon
<1>8. Free(Finish, W)
  BY <1>3, <1>7, FreeGlue, Zenon DEF Finish
<1>9. View("pcie") \in Seq(Steps) /\ Only(View("pcie"), V)
  <2>1. Only(View("pcie"), Views) /\ View("pcie") \in Seq(Steps)
    BY <1>4, Zenon DEF Free, Pre, Piece
  <2> QED
    BY <2>1 DEF Only
<1>10. Finish = View("pcie") \o <<One("clear master")>> \o <<One("free all")>> \o <<One("bound")>>
  BY <1>3, Zenon DEF Finish
<1>11. Closes(Finish, V, One("clear master"), One("free all"), One("bound")) /\ Len(Finish) = Len(View("pcie")) + 3
  BY <1>3, <1>9, <1>10, Endings, ZenonT(40)
<1>12. Len(Finish) >= 3
  <2>1. Len(View("pcie")) \in Nat
    BY <1>9, Lengths
  <2>2. \A m \in Nat : m + 3 >= 3
    OBVIOUS
  <2> QED
    BY <1>11, <2>1, <2>2, Zenon
<1> QED
  BY <1>8, <1>11, <1>12 DEF W

\* The images are stored in it.
Images(s, T, n) ==
  /\ Has(s, FwStore)
  /\ n > 0 => Has(s, NvramStore(n))
  /\ n > 0 /\ "236" \in T => Has(s, SeedStore(n))

LEMMA ImagesKeep ==
  ASSUME NEW s, NEW t, NEW V, Piece(s, V), Piece(t, V), NEW T, NEW n, Images(s, T, n) \/ Images(t, T, n)
  PROVE  Images(s \o t, T, n)
<1>1. Joint(s \o t, s, t)
  BY JointIs, Zenon DEF Piece
<1>2. \A e : Has(s \o t, e) <=> Has(s, e) \/ Has(t, e)
  BY <1>1, JointKeeps, Zenon
<1> QED
  BY <1>2, Zenon DEF Images

\* What is stored of the NVRAM and the seed.
LEMMA NvramList ==
  ASSUME nvlen \in NvramLens, NEW V, V = Body(tests, nvlen)
  PROVE  LET N == If(nvlen > 0, Store(Nvram(nvlen), "nvram") \o If(On("236"), Store(Seed(nvlen), "seed")) \o View("cc")) IN
         /\ Pre(N, V)
         /\ nvlen > 0 => Has(N, NvramStore(nvlen)) /\ (On("236") => Has(N, SeedStore(nvlen)))
<1> DEFINE a == Store(Nvram(nvlen), "nvram")
<1> DEFINE b == Store(Seed(nvlen), "seed")
<1> DEFINE c == If(On("236"), b)
<1> DEFINE d == View("cc")
<1> DEFINE N == If(nvlen > 0, a \o c \o d)
<1>1. a = <<NvramStore(nvlen)>> /\ b = <<SeedStore(nvlen)>>
  BY Zenon DEF Store, NvramStore, SeedStore
<1>2. NvramStore(nvlen) \in AllStores /\ SeedStore(nvlen) \in AllStores
  BY DEF AllStores
<1>3. NvramStore(nvlen) \in Steps /\ SeedStore(nvlen) \in Steps
  BY <1>2, StepKinds
<1>4. nvlen > 0 => NvramStore(nvlen) \in V
  <2>1. nvlen > 0 => NvramStore(nvlen) \in Stores(tests, nvlen)
    BY DEF Stores
  <2> QED
    BY <2>1, StepKinds
<1>5. nvlen > 0 /\ On("236") => SeedStore(nvlen) \in V
  <2>1. nvlen > 0 /\ On("236") => SeedStore(nvlen) \in Stores(tests, nvlen)
    BY DEF Stores, On
  <2> QED
    BY <2>1, StepKinds
<1>6. Views \subseteq V
  BY StepKinds
<1>7. Free(d, V)
  <2>1. "cc" \in Windows
    BY DEF Windows
  <2> QED
    BY <1>6, <2>1, ViewList, FreeWider, Zenon
<1>8. nvlen > 0 => Pre(N, V) /\ Has(N, NvramStore(nvlen)) /\ (On("236") => Has(N, SeedStore(nvlen)))
  <2> SUFFICES ASSUME nvlen > 0 PROVE Pre(N, V) /\ Has(N, NvramStore(nvlen)) /\ (On("236") => Has(N, SeedStore(nvlen)))
    OBVIOUS
  <2>1. Pre(a, V) /\ Has(a, NvramStore(nvlen))
    BY <1>1, <1>2, <1>3, <1>4, StoreList, HasOne, Zenon
  <2>2. Pre(c, V) /\ (On("236") => Has(c, SeedStore(nvlen)))
    <3>1. CASE On("236")
      <4>1. c = b
        BY <3>1, Zenon DEF If
      <4>2. Pre(b, V) /\ Has(b, SeedStore(nvlen))
        BY <1>1, <1>2, <1>3, <1>5, <3>1, StoreList, HasOne, Zenon
      <4> QED
        BY <4>1, <4>2, Zenon
    <3>2. CASE ~On("236")
      <4>1. c = <<>>
        BY <3>2, Zenon DEF If
      <4> QED
        BY <3>2, <4>1, Nothing, Zenon
    <3> QED
      BY <3>1, <3>2
  <2>3. N = a \o c \o d
    BY Zenon DEF If
  <2> HIDE DEF a, c, d
  <2>4. Joint(a \o c, a, c) /\ Pre(a \o c, V)
    BY <2>1, <2>2, Glue, Zenon DEF Pre
  <2>5. Joint(a \o c \o d, a \o c, d) /\ Pre(a \o c \o d, V)
    BY <1>7, <2>4, Glue, Zenon DEF Free, Pre
  <2>6. \A e : Has(a \o c \o d, e) <=> Has(a, e) \/ Has(c, e) \/ Has(d, e)
    <3>1. \A e : Has(a \o c, e) <=> Has(a, e) \/ Has(c, e)
      BY <2>4, JointKeeps, Zenon
    <3>2. \A e : Has(a \o c \o d, e) <=> Has(a \o c, e) \/ Has(d, e)
      BY <2>5, JointKeeps, Zenon
    <3> QED
      BY <3>1, <3>2, Zenon
  <2>7. Pre(N, V) /\ Has(N, NvramStore(nvlen)) /\ (On("236") => Has(N, SeedStore(nvlen)))
    BY <2>1, <2>2, <2>3, <2>5, <2>6, Zenon
  <2> HIDE DEF N
  <2> QED
    BY <2>7, Zenon
<1>9. ~(nvlen > 0) => Pre(N, V)
  <2> SUFFICES ASSUME ~(nvlen > 0) PROVE Pre(N, V)
    OBVIOUS
  <2>1. N = <<>>
    BY Zenon DEF If
  <2>2. Pre(<<>>, V)
    BY Nothing, Zenon
  <2> QED
    BY <2>1, <2>2, Zenon
<1> HIDE DEF N
<1>10. Pre(N, V) /\ (nvlen > 0 => Has(N, NvramStore(nvlen)) /\ (On("236") => Has(N, SeedStore(nvlen))))
  BY <1>8, <1>9, Zenon
<1> QED
  BY <1>10, Zenon DEF N

\* The download up to the release.
Front ==
  View("arm core") \o Do("alloc") \o ProbeState \o SetPassive \o ProbeState \o
  Store(Firmware, "fw") \o
  If(nvlen > 0, Store(Nvram(nvlen), "nvram") \o If(On("236"), Store(Seed(nvlen), "seed")) \o View("cc")) \o
  ProbeState \o Do("set master") \o If(On("241"), Sentinel) \o If(On("245"), WriteVerify) \o
  If(On("247"), Store(Preplaced, "t247")) \o View("cc") \o ProbeState \o Zeroing

LEMMA FrontList ==
  ASSUME nvlen \in NvramLens
  PROVE  Pre(Front, Body(tests, nvlen)) /\ Images(Front, tests, nvlen)
<1> DEFINE V == Body(tests, nvlen)
<1> DEFINE a == View("arm core")
<1> DEFINE b == Do("alloc")
<1> DEFINE c == ProbeState
<1> DEFINE d == SetPassive
<1> DEFINE e == ProbeState
<1> DEFINE f == Store(Firmware, "fw")
<1> DEFINE g == If(nvlen > 0, Store(Nvram(nvlen), "nvram") \o If(On("236"), Store(Seed(nvlen), "seed")) \o View("cc"))
<1> DEFINE h == ProbeState
<1> DEFINE i == Do("set master")
<1> DEFINE j == If(On("241"), Sentinel)
<1> DEFINE k == If(On("245"), WriteVerify)
<1> DEFINE l == If(On("247"), Store(Preplaced, "t247"))
<1> DEFINE m == View("cc")
<1> DEFINE n == ProbeState
<1> DEFINE o == Zeroing
<1>1. Views \subseteq V /\ PcieW \subseteq V /\ Cored \subseteq V /\ Softs \subseteq V /\ One("alloc") \in V /\ One("set master") \in V
  BY StepKinds
<1>2. FwStore \in V /\ PreStore \in V /\ (~On("236") => ZeroStore \in V)
  <2>1. FwStore \in Stores(tests, nvlen) /\ PreStore \in Stores(tests, nvlen) /\ (~On("236") => ZeroStore \in Stores(tests, nvlen))
    BY DEF Stores, On
  <2> QED
    BY <2>1, StepKinds
<1>3. FwStore \in AllStores /\ PreStore \in AllStores /\ ZeroStore \in AllStores
  BY DEF AllStores
<1>4. Pre(g, V) /\ (nvlen > 0 => Has(g, NvramStore(nvlen)) /\ (On("236") => Has(g, SeedStore(nvlen))))
  BY NvramList, Zenon
<1> HIDE DEF V
<1>5. Free(a, V) /\ Free(m, V)
  <2>1. "arm core" \in Windows /\ "cc" \in Windows
    BY DEF Windows
  <2> QED
    BY <1>1, <2>1, ViewList, FreeWider, Zenon
<1>6. Free(b, V) /\ Free(i, V)
  <2>1. /\ "alloc" \in {"clear master", "free all", "bound", "try", "setup", "bus reset", "try enable", "set master", "map", "fw", "alloc"}
        /\ "set master" \in {"clear master", "free all", "bound", "try", "setup", "bus reset", "try enable", "set master", "map", "fw", "alloc"}
    OBVIOUS
  <2> QED
    BY <1>1, <2>1, EndKinds, Zenon
<1>7. Free(c, V) /\ Free(e, V) /\ Free(h, V) /\ Free(n, V)
  BY <1>1, PartLists, FreeWider, Zenon
<1>8. Free(d, V)
  BY <1>1, PassiveList, FreeWider, Zenon
<1>9. f = <<FwStore>> /\ Pre(f, V) /\ Has(f, FwStore)
  <2>1. f = <<FwStore>>
    BY Zenon DEF Store, FwStore
  <2>2. FwStore \in Steps
    BY <1>3, StepKinds
  <2> QED
    BY <1>2, <1>3, <2>1, <2>2, StoreList, HasOne, Zenon
<1>10. Free(j, V) /\ Free(k, V)
  BY <1>1, PartLists, SoftList, FreeWider, Choices, Zenon
<1>11. Pre(l, V)
  <2>1. Store(Preplaced, "t247") = <<PreStore>>
    BY Zenon DEF Store, PreStore
  <2> QED
    BY <1>2, <1>3, <2>1, StoreList, Choices, Zenon
<1>12. Pre(o, V)
  <2>1. Store(ZeroBlock, "zero") = <<ZeroStore>>
    BY Zenon DEF Store, ZeroStore
  <2>2. CASE On("236")
    <3>1. o = <<>>
      BY <2>2, Zenon DEF Zeroing, If
    <3> QED
      BY <3>1, Nothing, Zenon
  <2>3. CASE ~On("236")
    <3>1. o = <<ZeroStore>>
      BY <2>1, <2>3, Zenon DEF Zeroing, If
    <3> QED
      BY <1>2, <1>3, <2>3, <3>1, StoreList, Zenon
  <2> QED
    BY <2>2, <2>3
<1>13. Front = a \o b \o c \o d \o e \o f \o g \o h \o i \o j \o k \o l \o m \o n \o o
  BY Zenon DEF Front
<1> HIDE DEF a, b, c, d, e, f, g, h, i, j, k, l, m, n, o
<1>14. \A s, t : Pre(s, V) /\ Pre(t, V) => Pre(s \o t, V)
  BY Glue, Zenon DEF Pre
<1>15. \A s, t : Pre(s, V) /\ Free(t, V) => Pre(s \o t, V)
  BY <1>14, Zenon DEF Free
<1>16. \A s, t : Pre(s, V) /\ Pre(t, V) => \A x : Has(s \o t, x) <=> Has(s, x) \/ Has(t, x)
  <2> SUFFICES ASSUME NEW s, NEW t, Pre(s, V), Pre(t, V) PROVE \A x : Has(s \o t, x) <=> Has(s, x) \/ Has(t, x)
    OBVIOUS
  <2>1. Joint(s \o t, s, t)
    BY JointIs, Zenon DEF Pre, Piece
  <2> QED
    BY <2>1, JointKeeps, Zenon
<1>17. \A s, t : Pre(s, V) /\ Free(t, V) => \A x : Has(s, x) => Has(s \o t, x)
  BY <1>16, Zenon DEF Free
<1>18. Pre(a, V)
  BY <1>5, Zenon DEF Free
<1>19. Pre(a \o b, V)
  BY <1>18, <1>6, <1>15, Zenon
<1>20. Pre(a \o b \o c, V)
  BY <1>19, <1>7, <1>15, Zenon
<1>21. Pre(a \o b \o c \o d, V)
  BY <1>20, <1>8, <1>15, Zenon
<1>22. Pre(a \o b \o c \o d \o e, V)
  BY <1>21, <1>7, <1>15, Zenon
<1>23. Pre(a \o b \o c \o d \o e \o f, V) /\ Has(a \o b \o c \o d \o e \o f, FwStore)
  <2>1. Pre(a \o b \o c \o d \o e \o f, V)
    BY <1>22, <1>9, <1>14, Zenon
  <2> QED
    BY <1>22, <2>1, <1>9, <1>16, Zenon
<1>24. Pre(a \o b \o c \o d \o e \o f \o g, V) /\ Images(a \o b \o c \o d \o e \o f \o g, tests, nvlen)
  <2>1. Pre(a \o b \o c \o d \o e \o f \o g, V)
    BY <1>23, <1>4, <1>14, Zenon
  <2> QED
    BY <1>23, <2>1, <1>4, <1>16, Zenon DEF Images, On
<1>25. Pre(a \o b \o c \o d \o e \o f \o g \o h, V) /\ Images(a \o b \o c \o d \o e \o f \o g \o h, tests, nvlen)
  <2>1. Pre(a \o b \o c \o d \o e \o f \o g \o h, V)
    BY <1>24, <1>7, <1>15, Zenon
  <2> QED
    BY <1>24, <2>1, <1>7, <1>17, Zenon DEF Images
<1>26. Pre(a \o b \o c \o d \o e \o f \o g \o h \o i, V) /\ Images(a \o b \o c \o d \o e \o f \o g \o h \o i, tests, nvlen)
  <2>1. Pre(a \o b \o c \o d \o e \o f \o g \o h \o i, V)
    BY <1>25, <1>6, <1>15, Zenon
  <2> QED
    BY <1>25, <2>1, <1>6, <1>17, Zenon DEF Images
<1>27. Pre(a \o b \o c \o d \o e \o f \o g \o h \o i \o j, V) /\ Images(a \o b \o c \o d \o e \o f \o g \o h \o i \o j, tests, nvlen)
  <2>1. Pre(a \o b \o c \o d \o e \o f \o g \o h \o i \o j, V)
    BY <1>26, <1>10, <1>15, Zenon
  <2> QED
    BY <1>26, <2>1, <1>10, <1>17, Zenon DEF Images
<1>28. Pre(a \o b \o c \o d \o e \o f \o g \o h \o i \o j \o k, V) /\ Images(a \o b \o c \o d \o e \o f \o g \o h \o i \o j \o k, tests, nvlen)
  <2>1. Pre(a \o b \o c \o d \o e \o f \o g \o h \o i \o j \o k, V)
    BY <1>27, <1>10, <1>15, Zenon
  <2> QED
    BY <1>27, <2>1, <1>10, <1>17, Zenon DEF Images
<1>29. Pre(a \o b \o c \o d \o e \o f \o g \o h \o i \o j \o k \o l, V) /\ Images(a \o b \o c \o d \o e \o f \o g \o h \o i \o j \o k \o l, tests, nvlen)
  <2>1. Pre(a \o b \o c \o d \o e \o f \o g \o h \o i \o j \o k \o l, V)
    BY <1>28, <1>11, <1>14, Zenon
  <2> QED
    BY <1>28, <2>1, <1>11, <1>16, Zenon DEF Images
<1>30. Pre(a \o b \o c \o d \o e \o f \o g \o h \o i \o j \o k \o l \o m, V) /\ Images(a \o b \o c \o d \o e \o f \o g \o h \o i \o j \o k \o l \o m, tests, nvlen)
  <2>1. Pre(a \o b \o c \o d \o e \o f \o g \o h \o i \o j \o k \o l \o m, V)
    BY <1>29, <1>5, <1>15, Zenon
  <2> QED
    BY <1>29, <2>1, <1>5, <1>17, Zenon DEF Images
<1>31. Pre(a \o b \o c \o d \o e \o f \o g \o h \o i \o j \o k \o l \o m \o n, V) /\ Images(a \o b \o c \o d \o e \o f \o g \o h \o i \o j \o k \o l \o m \o n, tests, nvlen)
  <2>1. Pre(a \o b \o c \o d \o e \o f \o g \o h \o i \o j \o k \o l \o m \o n, V)
    BY <1>30, <1>7, <1>15, Zenon
  <2> QED
    BY <1>30, <2>1, <1>7, <1>17, Zenon DEF Images
<1>32. Pre(a \o b \o c \o d \o e \o f \o g \o h \o i \o j \o k \o l \o m \o n \o o, V) /\ Images(a \o b \o c \o d \o e \o f \o g \o h \o i \o j \o k \o l \o m \o n \o o, tests, nvlen)
  <2>1. Pre(a \o b \o c \o d \o e \o f \o g \o h \o i \o j \o k \o l \o m \o n \o o, V)
    BY <1>31, <1>12, <1>14, Zenon
  <2> QED
    BY <1>31, <2>1, <1>12, <1>16, Zenon DEF Images
<1> QED
  BY <1>13, <1>32, Zenon DEF V

\* The operations of a step, by where it may stand.
CoredOps == {"window", "write", "skip if in reset", "clear reset", "disable arm"}
WorkOps  == CoredOps \cup {"irq on", "msi on", "irq off", "msi off", "flip mask", "around", "round trip", "skip unless olmsg"}
ProbeOps == CoredOps \cup {"bus reset", "try enable", "set master", "map", "try"}
BodyOps  == WorkOps \cup {"tcm", "alloc", "set master", "olmsg"}

LEMMA Ops ==
  /\ \A e \in Cored : e[1] \in CoredOps
  /\ \A e \in Work : e[1] \in WorkOps
  /\ \A e \in Probing : e[1] \in ProbeOps
  /\ \A T, n : \A e \in Body(T, n) : e[1] \in BodyOps
  /\ \A T, n : \A e \in Setting(T, n) : e[1] \in BodyOps \cup {"fw"}
  /\ \A e \in Ending : e[1] \in {"clear master", "free all", "try", "bound", "setup"}
<1>1. \A op : One(op)[1] = op
  BY Tags, ZenonT(60)
<1>2. ASSUME NEW e \in Cored PROVE e[1] \in CoredOps
  <2>1. /\ e \in Views => e[1] = "window"
        /\ (e \in ArmW \/ e \in D11W) => e[1] = "write"
        /\ e = Skip("arm") \/ e = Skip("d11") => e[1] = "skip if in reset"
        /\ e = Clear("arm") => e[1] = "clear reset"
        /\ e = One("disable arm") => e[1] = "disable arm"
    <3>1. e \in Views => e[1] = "window"
      BY Tags, ZenonT(60)
    <3>2. (e \in ArmW \/ e \in D11W) => e[1] = "write"
      BY Tags, ZenonT(60)
    <3>3. Skip("arm")[1] = "skip if in reset" /\ Skip("d11")[1] = "skip if in reset" /\ Clear("arm")[1] = "clear reset"
      BY Tags, ZenonT(60)
    <3> QED
      BY <1>1, <3>1, <3>2, <3>3, Zenon
  <2>2. e \in Views \/ e \in ArmW \/ e \in D11W \/ e = Skip("arm") \/ e = Skip("d11") \/ e = Clear("arm") \/ e = One("disable arm")
    BY DEF Cored, Cores
  <2> QED
    BY <2>1, <2>2 DEF CoredOps
<1>3. ASSUME NEW e \in Work PROVE e[1] \in WorkOps
  <2>1. PICK U : U = {Unless(n) : n \in 0 .. 5}
    OBVIOUS
  <2>2. /\ e \in PcieW => e[1] = "write"
        /\ e \in IrqOns => e[1] = "irq on"
        /\ e = Turn => e[1] = "around"
        /\ e = Trip => e[1] = "round trip"
        /\ e \in U => e[1] = "skip unless olmsg"
    BY <2>1, Tags, ZenonT(60)
  <2>3. e = One("msi on") \/ e = One("irq off") \/ e = One("msi off") \/ e = One("flip mask") => e[1] \in WorkOps
    BY <1>1 DEF WorkOps
  <2>4. \/ e \in Cored \/ e \in PcieW \/ e \in IrqOns \/ e = Turn \/ e = Trip \/ e \in U
        \/ e = One("msi on") \/ e = One("irq off") \/ e = One("msi off") \/ e = One("flip mask")
    BY <2>1 DEF Work, Irqs, Softs
  <2>5. e \in Cored => e[1] \in WorkOps
    BY <1>2 DEF WorkOps
  <2> QED
    BY <2>2, <2>3, <2>4, <2>5 DEF WorkOps, CoredOps
<1>4. ASSUME NEW e \in Probing PROVE e[1] \in ProbeOps
  BY <1>1, <1>2 DEF Probing, ProbeOps
<1>5. ASSUME NEW T, NEW n, NEW e \in Body(T, n) PROVE e[1] \in BodyOps
  <2>1. e \in Stores(T, n) => e[1] = "tcm"
    BY DEF Stores, FwStore, VectorStore, PreStore, ZeroStore, SharedStore, NvramStore, SeedStore, Restores, Restore
  <2>2. e \in Work \/ e \in Stores(T, n) \/ e = One("alloc") \/ e = One("set master") \/ e = One("olmsg")
    BY DEF Body
  <2> QED
    BY <1>1, <1>3, <2>1, <2>2 DEF BodyOps
<1>6. ASSUME NEW T, NEW n, NEW e \in Setting(T, n) PROVE e[1] \in BodyOps \cup {"fw"}
  <2>1. e \in Body(T, n) \/ e = One("fw")
    BY DEF Setting
  <2> QED
    BY <1>1, <1>5, <2>1
<1>7. ASSUME NEW e \in Ending PROVE e[1] \in {"clear master", "free all", "try", "bound", "setup"}
  BY <1>1 DEF Ending
<1> QED
  BY <1>2, <1>3, <1>4, <1>5, <1>6, <1>7, Zenon

LEMMA ClosesWider ==
  ASSUME NEW s, NEW V, NEW W, V \subseteq W, NEW a, NEW b, NEW c, Closes(s, V, a, b, c)
  PROVE  Closes(s, W, a, b, c)
<1>1. \A i \in 1 .. Len(s) - 3 : s[i] \in V
  BY Zenon DEF Closes
<1>2. \A i \in 1 .. Len(s) - 3 : s[i] \in W
  BY <1>1
<1> QED
  BY <1>2, Zenon DEF Closes

LEMMA DownloadList ==
  ASSUME nvlen \in NvramLens
  PROVE  /\ Whole2(Download, Body(tests, nvlen) \cup Ending)
         /\ Closes(Download, Body(tests, nvlen), One("clear master"), One("free all"), One("bound"))
         /\ Len(Download) >= 3 /\ Images(Download, tests, nvlen) /\ ~Has(Download, One("fw"))
<1> DEFINE V == Body(tests, nvlen)
<1>1. V \subseteq V \cup Ending /\ Views \subseteq V
  BY StepKinds
<1>2. One("fw") \notin V \cup Ending
  <2>1. One("fw")[1] = "fw"
    BY Tags, ZenonT(60)
  <2>2. "fw" \notin BodyOps
    BY DEF BodyOps, WorkOps, CoredOps
  <2> QED
    BY <2>1, <2>2, Ops
<1> HIDE DEF V
<1>3. Pre(Front, V) /\ Images(Front, tests, nvlen)
  BY FrontList, Zenon DEF V
<1>4. Whole2(Release, V)
  BY ReleaseList, Zenon DEF V
<1>5. Whole2(Front \o Release, V) /\ Piece(Front, V) /\ Piece(Release, V)
  BY <1>3, <1>4, Glue, Zenon DEF Pre, Whole2
<1>6. Images(Front \o Release, tests, nvlen)
  BY <1>3, <1>5, ImagesKeep, Zenon
<1>7. Whole2(Front \o Release, V \cup Ending) /\ Piece(Front \o Release, V \cup Ending) /\ Piece(Front \o Release, V)
  BY <1>1, <1>5, Wider, Zenon DEF Whole2
<1>8. Post(Finish, V \cup Ending) /\ Piece(Finish, V \cup Ending) /\ Len(Finish) >= 3 /\ Closes(Finish, V, One("clear master"), One("free all"), One("bound"))
  BY <1>1, FinishList, Zenon DEF Free, Post
<1>9. Download = Front \o Release \o Finish
  BY Zenon DEF Download, Front
<1> DEFINE w == Front \o Release \o Finish
<1>10. Whole2(w, V \cup Ending) /\ Joint(w, Front \o Release, Finish)
  BY <1>7, <1>8, Glue, Zenon
<1>11. Images(w, tests, nvlen)
  BY <1>6, <1>7, <1>8, ImagesKeep, Zenon
<1>12. Closes(w, V, One("clear master"), One("free all"), One("bound")) /\ Len(w) >= 3
  <2>1. Only(Front \o Release, V)
    BY <1>7, Zenon DEF Piece
  <2> QED
    BY <1>8, <1>10, <2>1, JointCloses, Zenon
<1>13. ~Has(w, One("fw"))
  <2>1. Only(w, V \cup Ending)
    BY <1>10, Zenon DEF Whole2, Piece
  <2> HIDE DEF w
  <2> QED
    BY <1>2, <2>1 DEF Only, Has
<1> QED
  BY <1>9, <1>10, <1>11, <1>12, <1>13, Zenon DEF V

\* The program of the firmware callback.
LEMMA SetupProgramList ==
  ASSUME nvlen \in NvramLens
  PROVE  SetupList(SetupProgram) /\ Images(SetupProgram, tests, nvlen) /\ Starts(SetupProgram) /\ SetupProgram \in Seq(Steps)
         /\ SetupProgram # <<>> /\ Len(SetupProgram) >= 3
<1> DEFINE V == Setting(tests, nvlen)
<1> DEFINE W == V \cup Ending
<1> DEFINE a == ProbeState
<1> DEFINE b == Do("fw")
<1> DEFINE c == View("pcie")
<1>1. /\ Body(tests, nvlen) \subseteq V /\ Body(tests, nvlen) \cup Ending \subseteq W /\ Views \subseteq V /\ Views \subseteq W /\ V \subseteq W
      /\ One("fw") \in V /\ One("fw") \in W /\ One("fw") \in Steps
  BY StepKinds
<1> HIDE DEF V, W
<1>2. /\ Whole2(Download, W) /\ Len(Download) >= 3 /\ Images(Download, tests, nvlen) /\ ~Has(Download, One("fw"))
      /\ Closes(Download, V, One("clear master"), One("free all"), One("bound"))
  BY <1>1, DownloadList, Wider, ClosesWider, Zenon
<1>3. Free(a, Views) /\ Free(c, Views)
  <2>1. "pcie" \in Windows
    BY DEF Windows
  <2> QED
    BY <2>1, PartLists, ViewList, Zenon
<1>4. /\ Free(a, V) /\ Free(c, V) /\ Free(b, V) /\ b = <<One("fw")>>
  <2>1. "fw" \in {"clear master", "free all", "bound", "try", "setup", "bus reset", "try enable", "set master", "map", "fw", "alloc"}
    OBVIOUS
  <2> QED
    BY <1>1, <1>3, <2>1, EndKinds, FreeWider, Zenon
<1>5. Before(b, One("fw"), Views)
  BY <1>1, <1>4, BeforeOne, Zenon
<1> HIDE DEF a, b, c
<1>6. Free(a \o b, V) /\ Joint(a \o b, a, b)
  BY <1>4, FreeGlue, Glue, Zenon DEF Free, Pre
<1>7. Free(a \o b \o c, V) /\ Joint(a \o b \o c, a \o b, c)
  BY <1>4, <1>6, FreeGlue, Glue, Zenon DEF Free, Pre
<1>8. Free(a \o b \o c \o a, V) /\ Joint(a \o b \o c \o a, a \o b \o c, a)
  BY <1>4, <1>7, FreeGlue, Glue, Zenon DEF Free, Pre
<1> DEFINE h == a \o b \o c \o a
<1> DEFINE w == h \o Download
<1>9. Before(h, One("fw"), Views)
  <2>1. Before(a \o b, One("fw"), Views)
    BY <1>3, <1>5, <1>6, JointBefore, Zenon DEF Free, Pre, Piece
  <2>2. ~Has(a, One("fw")) /\ ~Has(c, One("fw"))
    <3>1. Only(a, Views) /\ Only(c, Views)
      BY <1>3, Zenon DEF Free, Pre, Piece
    <3>2. One("fw") \notin Views
      <4>1. (\A e \in Views : e[1] = "window") /\ One("fw")[1] = "fw"
        BY Tags, ZenonT(60)
      <4> QED
        BY <4>1
    <3> QED
      BY <3>1, <3>2 DEF Only, Has
  <2>3. Before(a \o b \o c, One("fw"), Views)
    BY <1>7, <2>1, <2>2, JointKeeps, Zenon
  <2> QED
    BY <1>8, <2>2, <2>3, JointKeeps, Zenon
<1>10. Pre(h, V) /\ Pre(h, W) /\ Only(h, V)
  BY <1>1, <1>8, Wider, Zenon DEF Free, Pre, Piece
<1> HIDE DEF h
<1>11. Whole2(w, W) /\ Joint(w, h, Download) /\ Piece(h, W) /\ Piece(Download, W)
  BY <1>2, <1>10, Glue, Zenon DEF Pre, Whole2
<1>12. Images(w, tests, nvlen)
  BY <1>2, <1>11, ImagesKeep, Zenon
<1>13. Closes(w, V, One("clear master"), One("free all"), One("bound")) /\ Len(w) >= 3
  BY <1>2, <1>10, <1>11, JointCloses, Zenon
<1>14. Before(w, One("fw"), Views)
  BY <1>2, <1>9, <1>11, JointKeeps, Zenon
<1>15. w # <<>>
  <2>1. Len(<<>>) = 0 /\ ~(0 >= 3)
    OBVIOUS
  <2> QED
    BY <1>13, <2>1, Zenon
<1>16. SetupProgram = w
  BY Zenon DEF SetupProgram, a, b, c, h
<1> HIDE DEF w
<1>17. SetupList(w) /\ Starts(w) /\ w \in Seq(Steps)
  BY <1>11, <1>13, <1>14, Zenon DEF SetupList, Whole2, Piece, V, W
<1> QED
  BY <1>12, <1>13, <1>15, <1>16, <1>17, Zenon

\* The steps of probe but for the bus reset.
Trying == Probing \ {One("bus reset")}

\* The program of probe.
LEMMA AttachList ==
  /\ Free(Attach, Trying) /\ Sure(Attach) /\ Has(Attach, One("map"))
  /\ Before(Attach, One("try enable"), {One("bus reset")})
<1> DEFINE V == Trying
<1> DEFINE a == Do("try enable")
<1> DEFINE b == Do("set master")
<1> DEFINE c == Do("map")
<1> DEFINE d == View("cc")
<1> DEFINE e == Do("try")
<1> DEFINE f == SetPassive
<1> DEFINE g == ProbeState
<1>1. /\ Cored \subseteq V /\ Views \subseteq V
      /\ One("try enable") \in V /\ One("set master") \in V /\ One("map") \in V /\ One("try") \in V
  <2>1. One("bus reset") \notin Cored
    <3>1. One("bus reset")[1] = "bus reset" /\ \A x \in Cored : x[1] \in CoredOps
      BY Tags, Ops, Zenon
    <3> QED
      BY <3>1 DEF CoredOps
  <2>2. \A op \in {"try enable", "set master", "map", "try"} : One(op) # One("bus reset")
    BY DEF One
  <2>3. Views \subseteq Cored
    BY DEF Cored
  <2> QED
    BY <2>1, <2>2, <2>3 DEF Probing, Trying
<1>2. One("try enable") \notin Cored /\ One("try enable") \notin {One("set master"), One("map"), One("try")}
  <2>1. /\ One("try enable")[1] = "try enable" /\ One("set master")[1] = "set master" /\ One("map")[1] = "map" /\ One("try")[1] = "try"
        /\ \A x \in Cored : x[1] \in CoredOps
    BY Tags, Ops, ZenonT(40)
  <2> QED
    BY <2>1 DEF CoredOps
<1> HIDE DEF V
<1>3. /\ "try enable" \in {"clear master", "free all", "bound", "try", "setup", "bus reset", "try enable", "set master", "map", "fw", "alloc"}
      /\ "set master" \in {"clear master", "free all", "bound", "try", "setup", "bus reset", "try enable", "set master", "map", "fw", "alloc"}
      /\ "map" \in {"clear master", "free all", "bound", "try", "setup", "bus reset", "try enable", "set master", "map", "fw", "alloc"}
      /\ "try" \in {"clear master", "free all", "bound", "try", "setup", "bus reset", "try enable", "set master", "map", "fw", "alloc"}
      /\ "cc" \in Windows
  BY DEF Windows
<1>4. /\ Free(a, V) /\ Free(b, V) /\ Free(c, V) /\ Free(e, V)
      /\ a = <<One("try enable")>> /\ b = <<One("set master")>> /\ c = <<One("map")>> /\ e = <<One("try")>>
      /\ One("try enable") \in Steps /\ One("map") \in Steps /\ One("try") \in Steps /\ One("set master") \in Steps
  BY <1>1, <1>3, EndKinds, Zenon
<1>5. Free(d, Views) /\ Free(f, Cored) /\ Free(g, Views) /\ Sure(f)
  BY <1>3, ViewList, PassiveList, PartLists, Zenon
<1>6. Free(d, V) /\ Free(f, V) /\ Free(g, V) /\ Views \subseteq Cored
  BY <1>1, <1>5, FreeWider, StepKinds, Zenon
<1>7. Before(a, One("try enable"), {One("bus reset")}) /\ Has(c, One("map"))
  BY <1>4, BeforeOne, HasOne, Zenon
<1>8. /\ ~Has(b, One("try enable")) /\ ~Has(c, One("try enable")) /\ ~Has(d, One("try enable"))
      /\ ~Has(e, One("try enable")) /\ ~Has(f, One("try enable")) /\ ~Has(g, One("try enable"))
  <2>1. Only(d, Cored) /\ Only(f, Cored) /\ Only(g, Cored)
    BY <1>5, <1>6, FreeWider, Zenon DEF Free, Pre, Piece
  <2>2. \A s : Only(s, Cored) => ~Has(s, One("try enable"))
    BY <1>2 DEF Only, Has
  <2>3. \A x \in Steps : x # One("try enable") => ~Has(<<x>>, One("try enable"))
    <3> SUFFICES ASSUME NEW x \in Steps, x # One("try enable"), Has(<<x>>, One("try enable")) PROVE FALSE
      OBVIOUS
    <3>1. Len(<<x>>) = 1 /\ <<x>>[1] = x
      BY Single, Zenon
    <3> QED
      BY <3>1, OneNumbers, Zenon DEF Has
  <2>4. One("set master") # One("try enable") /\ One("map") # One("try enable") /\ One("try") # One("try enable")
    BY <1>2
  <2>5. ~Has(d, One("try enable")) /\ ~Has(f, One("try enable")) /\ ~Has(g, One("try enable"))
    BY <2>1, <2>2, Zenon
  <2> QED
    BY <1>4, <2>3, <2>4, <2>5, Zenon
<1>9. Attach = a \o b \o c \o d \o e \o f \o f \o g
  BY Zenon DEF Attach
<1> HIDE DEF a, b, c, d, e, f, g
<1>10. \A s, t : Free(s, V) /\ Free(t, V) => Free(s \o t, V) /\ Joint(s \o t, s, t)
  BY FreeGlue, Glue, Zenon DEF Free, Pre
<1>11. \A s, t : Free(s, V) /\ Free(t, V) => \A x, X : Before(s, x, X) /\ ~Has(t, x) => Before(s \o t, x, X)
  <2> SUFFICES ASSUME NEW s, NEW t, Free(s, V), Free(t, V) PROVE \A x, X : Before(s, x, X) /\ ~Has(t, x) => Before(s \o t, x, X)
    OBVIOUS
  <2>1. Joint(s \o t, s, t)
    BY <1>10, Zenon
  <2> QED
    BY <2>1, JointKeeps, Zenon
<1>12. \A s, t : Free(s, V) /\ Free(t, V) => \A x : Has(s, x) \/ Has(t, x) => Has(s \o t, x)
  <2> SUFFICES ASSUME NEW s, NEW t, Free(s, V), Free(t, V) PROVE \A x : Has(s, x) \/ Has(t, x) => Has(s \o t, x)
    OBVIOUS
  <2>1. Joint(s \o t, s, t)
    BY <1>10, Zenon
  <2> QED
    BY <2>1, JointKeeps, Zenon
<1>13. Free(a \o b, V) /\ Before(a \o b, One("try enable"), {One("bus reset")})
  BY <1>4, <1>7, <1>8, <1>10, <1>11, Zenon
<1>14. Free(a \o b \o c, V) /\ Before(a \o b \o c, One("try enable"), {One("bus reset")}) /\ Has(a \o b \o c, One("map"))
  BY <1>4, <1>7, <1>8, <1>10, <1>11, <1>12, <1>13, Zenon
<1>15. Free(a \o b \o c \o d, V) /\ Before(a \o b \o c \o d, One("try enable"), {One("bus reset")}) /\ Has(a \o b \o c \o d, One("map"))
  BY <1>6, <1>8, <1>10, <1>11, <1>12, <1>14, Zenon
<1>16. Free(a \o b \o c \o d \o e, V) /\ Before(a \o b \o c \o d \o e, One("try enable"), {One("bus reset")}) /\ Has(a \o b \o c \o d \o e, One("map"))
  BY <1>4, <1>8, <1>10, <1>11, <1>12, <1>15, Zenon
<1>17. Free(a \o b \o c \o d \o e \o f, V) /\ Before(a \o b \o c \o d \o e \o f, One("try enable"), {One("bus reset")}) /\ Has(a \o b \o c \o d \o e \o f, One("map"))
  BY <1>6, <1>8, <1>10, <1>11, <1>12, <1>16, Zenon
<1> DEFINE s == a \o b \o c \o d \o e \o f
<1>18. Free(s, V) /\ Before(s, One("try enable"), {One("bus reset")}) /\ Has(s, One("map"))
  BY <1>17, Zenon
<1> HIDE DEF s
<1>19. Free(s \o f, V) /\ Before(s \o f, One("try enable"), {One("bus reset")}) /\ Has(s \o f, One("map")) /\ Joint(s \o f, s, f)
  BY <1>6, <1>8, <1>10, <1>11, <1>12, <1>18, Zenon
<1>20. Sure(s \o f)
  BY <1>5, <1>18, <1>19, JointSure, Zenon DEF Free, Pre, Piece, Static
<1>21. Free(s \o f \o g, V) /\ Before(s \o f \o g, One("try enable"), {One("bus reset")}) /\ Has(s \o f \o g, One("map")) /\ Joint(s \o f \o g, s \o f, g)
  BY <1>6, <1>8, <1>10, <1>11, <1>12, <1>19, Zenon
<1>22. Sure(s \o f \o g)
  BY <1>6, <1>20, <1>21, JointSure, Zenon DEF Free, Pre
<1> QED
  BY <1>9, <1>21, <1>22, Zenon DEF s, V

LEMMA ProbeProgramList ==
  /\ ProbeList(ProbeProgram) /\ Sure(ProbeProgram) /\ Has(ProbeProgram, One("map")) /\ Starts(ProbeProgram)
  /\ ProbeProgram \in Seq(Steps) /\ Len(ProbeProgram) >= 3 /\ ProbeProgram # <<>>
<1> DEFINE V == Probing
<1> DEFINE W == Probing \cup Ending
<1> DEFINE a == Do("bus reset")
<1> DEFINE b == Do("clear master")
<1> DEFINE c == Do("try")
<1> DEFINE d == Do("setup")
<1>1. V \subseteq W /\ One("bus reset") \in V /\ One("clear master") \in W /\ One("try") \in W /\ One("setup") \in W
  BY DEF Probing, Ending
<1>2. \A x \in {"clear master", "try", "setup"} : One(x) # One("try enable") /\ One(x) # One("bus reset")
  BY DEF One
<1> HIDE DEF V, W
<1>3. /\ "bus reset" \in {"clear master", "free all", "bound", "try", "setup", "bus reset", "try enable", "set master", "map", "fw", "alloc"}
      /\ "clear master" \in {"clear master", "free all", "bound", "try", "setup", "bus reset", "try enable", "set master", "map", "fw", "alloc"}
      /\ "setup" \in {"clear master", "free all", "bound", "try", "setup", "bus reset", "try enable", "set master", "map", "fw", "alloc"}
      /\ "try" \in {"clear master", "free all", "bound", "try", "setup", "bus reset", "try enable", "set master", "map", "fw", "alloc"}
  OBVIOUS
<1>4. /\ Free(a, V) /\ Free(b, W) /\ Free(c, W) /\ Free(d, W) /\ a = <<One("bus reset")>>
      /\ b = <<One("clear master")>> /\ c = <<One("try")>> /\ d = <<One("setup")>>
      /\ One("clear master") \in Steps /\ One("setup") \in Steps /\ One("try") \in Steps /\ One("bus reset") \in Steps
  BY <1>1, <1>3, EndKinds, Zenon
<1>5. /\ Free(Attach, V) /\ Sure(Attach) /\ Has(Attach, One("map")) /\ ~Has(Attach, One("bus reset"))
      /\ Before(Attach, One("try enable"), {One("bus reset")})
  <2>1. Free(Attach, Trying) /\ Sure(Attach) /\ Has(Attach, One("map")) /\ Before(Attach, One("try enable"), {One("bus reset")})
    BY AttachList, Zenon
  <2>2. Trying \subseteq V /\ One("bus reset") \notin Trying
    BY DEF Trying, V
  <2>3. Only(Attach, Trying)
    BY <2>1, Zenon DEF Free, Pre, Piece
  <2>4. ~Has(Attach, One("bus reset"))
    BY <2>2, <2>3, Zenon DEF Only, Has
  <2>5. Free(Attach, V)
    BY <2>1, <2>2, FreeWider, Zenon
  <2> QED
    BY <2>1, <2>4, <2>5
<1>6. Only(a, {One("bus reset")}) /\ Before(a, One("bus reset"), {})
  <2>1. Len(<<One("bus reset")>>) = 1 /\ <<One("bus reset")>>[1] = One("bus reset")
    BY <1>4, Single, Zenon
  <2>2. One("bus reset") \in {One("bus reset")}
    OBVIOUS
  <2> QED
    BY <1>4, <2>1, <2>2, BeforeOne, OneNumbers, Zenon DEF Only
<1>7. \A f \in {One("try enable"), One("bus reset")} : ~Has(b, f) /\ ~Has(c, f) /\ ~Has(d, f)
  <2> SUFFICES ASSUME NEW f \in {One("try enable"), One("bus reset")} PROVE ~Has(b, f) /\ ~Has(c, f) /\ ~Has(d, f)
    OBVIOUS
  <2>1. \A x \in Steps : x # f => ~Has(<<x>>, f)
    <3> SUFFICES ASSUME NEW x \in Steps, x # f, Has(<<x>>, f) PROVE FALSE
      OBVIOUS
    <3>1. Len(<<x>>) = 1 /\ <<x>>[1] = x
      BY Single, Zenon
    <3> QED
      BY <3>1, OneNumbers, Zenon DEF Has
  <2> QED
    <3>1. One("clear master") # f /\ One("try") # f /\ One("setup") # f
      BY <1>2
    <3> QED
      BY <1>4, <2>1, <3>1, Zenon
<1>8. ProbeProgram = a \o Attach \o b \o c \o d
  BY Zenon DEF ProbeProgram
<1> HIDE DEF a, b, c, d
<1> DEFINE s == a \o Attach
<1>9. Free(s, V) /\ Joint(s, a, Attach)
  BY <1>4, <1>5, FreeGlue, Glue, Zenon DEF Free, Pre
<1>10. Sure(s) /\ Has(s, One("map")) /\ Opens(s)
  <2>1. Sure(s)
    BY <1>4, <1>5, <1>9, JointSure, Zenon DEF Free, Pre, Piece, Static
  <2>2. Has(s, One("map"))
    BY <1>5, <1>9, JointKeeps, Zenon
  <2>3. Opens(s)
    <3>1. Before(s, One("try enable"), {One("bus reset")})
      BY <1>5, <1>6, <1>9, JointBefore, Zenon
    <3>2. Before(s, One("bus reset"), {})
      BY <1>5, <1>6, <1>9, JointKeeps, Zenon
    <3> QED
      BY <3>1, <3>2, Zenon DEF Opens
  <2> QED
    BY <2>1, <2>2, <2>3
<1> HIDE DEF s
<1>11. Free(s, W)
  BY <1>1, <1>9, FreeWider, Zenon
<1>12. \A x, y : Free(x, W) /\ Free(y, W) => Free(x \o y, W) /\ Joint(x \o y, x, y)
  BY FreeGlue, Glue, Zenon DEF Free, Pre
<1>13. \A x, y : Free(x, W) /\ Free(y, W) /\ Sure(x) /\ Has(x, One("map")) /\ Opens(x) /\ (\A f \in {One("try enable"), One("bus reset")} : ~Has(y, f))
         => Sure(x \o y) /\ Has(x \o y, One("map")) /\ Opens(x \o y)
  <2> SUFFICES ASSUME NEW x, NEW y, Free(x, W), Free(y, W), Sure(x), Has(x, One("map")), Opens(x), \A f \in {One("try enable"), One("bus reset")} : ~Has(y, f)
               PROVE  Sure(x \o y) /\ Has(x \o y, One("map")) /\ Opens(x \o y)
    OBVIOUS
  <2>1. Joint(x \o y, x, y) /\ NoRel(y)
    BY <1>12, Zenon DEF Free, Pre
  <2>2. Sure(x \o y)
    BY <2>1, JointSure, Zenon
  <2>3. Has(x \o y, One("map"))
    BY <2>1, JointKeeps, Zenon
  <2>4. Opens(x \o y)
    <3>1. ~Has(y, One("try enable")) /\ ~Has(y, One("bus reset"))
      OBVIOUS
    <3> QED
      BY <2>1, <3>1, JointKeeps, Zenon DEF Opens
  <2> QED
    BY <2>2, <2>3, <2>4
<1>14. Free(s \o b, W) /\ Sure(s \o b) /\ Has(s \o b, One("map")) /\ Opens(s \o b)
  BY <1>4, <1>7, <1>10, <1>11, <1>12, <1>13, Zenon
<1>15. Free(s \o b \o c, W) /\ Sure(s \o b \o c) /\ Has(s \o b \o c, One("map")) /\ Opens(s \o b \o c)
  BY <1>4, <1>7, <1>14, <1>12, <1>13, Zenon
<1>16. Free(s \o b \o c \o d, W) /\ Sure(s \o b \o c \o d) /\ Has(s \o b \o c \o d, One("map")) /\ Opens(s \o b \o c \o d)
  BY <1>4, <1>7, <1>15, <1>12, <1>13, Zenon
<1> DEFINE w == s \o b \o c \o d
<1>17. Closes(w, V, One("clear master"), One("try"), One("setup")) /\ Len(w) = Len(s) + 3
  <2>1. s \in Seq(Steps) /\ Only(s, V)
    BY <1>9, Zenon DEF Free, Pre, Piece
  <2>2. w = s \o <<One("clear master")>> \o <<One("try")>> \o <<One("setup")>>
    BY <1>4, Zenon
  <2>3. Closes(s \o <<One("clear master")>> \o <<One("try")>> \o <<One("setup")>>, V, One("clear master"), One("try"), One("setup")) /\ Len(s \o <<One("clear master")>> \o <<One("try")>> \o <<One("setup")>>) = Len(s) + 3
    <3>1. One("clear master") \in Steps /\ One("setup") \in Steps /\ One("try") \in Steps
      BY <1>4, Zenon
    <3> QED
      BY <2>1, <3>1, Endings, ZenonT(40)
  <2> HIDE DEF w
  <2> QED
    BY <2>2, <2>3, Zenon
<1>18. Len(w) >= 3 /\ w # <<>>
  <2>1. Len(s) \in Nat
    BY <1>9, Lengths, Zenon DEF Free, Pre, Piece
  <2>2. \A m \in Nat : m + 3 >= 3
    OBVIOUS
  <2>3. Len(w) >= 3
    BY <1>17, <2>1, <2>2, Zenon
  <2>4. Len(<<>>) = 0 /\ ~(0 >= 3)
    OBVIOUS
  <2> QED
    BY <2>3, <2>4, Zenon
<1>19. ProbeProgram = w
  BY <1>8, Zenon DEF s, w
<1>20. Free(w, W) /\ Sure(w) /\ Has(w, One("map")) /\ Opens(w)
  BY <1>16, Zenon
<1> HIDE DEF w
<1> QED
  BY <1>17, <1>18, <1>19, <1>20, Zenon DEF ProbeList, Free, Pre, Piece, V, W

-----------------------------------------------------------------------------
(***************************************************************************)
(* The layout of TCM: what a store leaves alone.                           *)
(***************************************************************************)
LEMMA CutsAreNumbers == Cuts \subseteq Int
<1>1. RamSize \in Nat /\ FwSize \in Nat /\ NvramLens \subseteq Nat
  BY BootAssumption
<1>2. \A r \in Ranges : r.lo \in Int /\ r.hi \in Int
  <2> SUFFICES ASSUME NEW r \in Ranges PROVE r.lo \in Int /\ r.hi \in Int
    OBVIOUS
  <2>1. CASE r \in {SharedInfo, ZeroBlock, Preplaced, ProbeWord, Firmware}
    BY <1>1, <2>1 DEF SharedInfo, ZeroBlock, Preplaced, ProbeWord, Firmware
  <2>2. CASE r \in {Nvram(n) : n \in NvramLens}
    <3>1. PICK n \in NvramLens : r = Nvram(n)
      BY <2>2
    <3> QED
      BY <1>1, <3>1 DEF Nvram
  <2>3. CASE r \in {Seed(n) : n \in NvramLens}
    <3>1. PICK n \in NvramLens : r = Seed(n)
      BY <2>3
    <3> QED
      BY <1>1, <3>1 DEF Seed, SeedFooter, SeedLength
  <2> QED
    BY <2>1, <2>2, <2>3, Zenon DEF Ranges
<1> QED
  BY <1>2 DEF Cuts

\* Two ranges share no cut if one ends before the other begins.
LEMMA Apart ==
  ASSUME NEW a, NEW b, a.lo \in Int, a.hi \in Int, b.lo \in Int, b.hi \in Int, a.hi <= b.lo \/ b.hi <= a.lo
  PROVE  \A c \in In(a) : c \notin In(b)
  BY CutsAreNumbers DEF In

LEMMA LayoutIs ==
  ASSUME NEW n \in NvramLens
  PROVE  /\ \A c \in In(Firmware) : c \notin In(Preplaced) /\ c \notin In(ZeroBlock) /\ c \notin In(SharedInfo)
                                      /\ c \notin In(Nvram(n)) /\ c \notin In(Seed(n))
                                      /\ c \notin In(ProbeWord)
         /\ \A c \in In(Nvram(n)) : c \notin In(Firmware) /\ c \notin In([lo |-> 0, hi |-> 4]) /\ c \notin In(Preplaced)
                                      /\ c \notin In(ZeroBlock) /\ c \notin In(Seed(n)) /\ c \notin In(ProbeWord)
         /\ \A c \in In(Seed(n)) : c \notin In(Firmware) /\ c \notin In([lo |-> 0, hi |-> 4]) /\ c \notin In(Preplaced)
                                      /\ c \notin In(Nvram(n)) /\ c \notin In(ProbeWord)
<1> DEFINE V == [lo |-> 0, hi |-> 4]
<1>1. RamSize \in Int /\ FwSize \in Int /\ n \in Int /\ n >= 0 /\ FwSize >= 1
  BY BootAssumption
<1>2. FwSize <= 524288 /\ 655132 <= RamSize - n /\ 589828 <= RamSize - n - 8 - 256
  BY LayoutAssumption DEF Preplaced, ProbeWord, ZeroBlock, Nvram, Seed, SeedFooter, SeedLength
<1>3. /\ Firmware.lo \in Int /\ Firmware.hi \in Int /\ Preplaced.lo \in Int /\ Preplaced.hi \in Int
      /\ ZeroBlock.lo \in Int /\ ZeroBlock.hi \in Int /\ SharedInfo.lo \in Int /\ SharedInfo.hi \in Int
      /\ Nvram(n).lo \in Int /\ Nvram(n).hi \in Int /\ Seed(n).lo \in Int /\ Seed(n).hi \in Int
      /\ V.lo \in Int /\ V.hi \in Int /\ ProbeWord.lo \in Int /\ ProbeWord.hi \in Int
  BY <1>1 DEF Firmware, Preplaced, ProbeWord, ZeroBlock, SharedInfo, Nvram, Seed, SeedFooter, SeedLength
<1>4. /\ Firmware.hi <= Preplaced.lo /\ Firmware.hi <= ZeroBlock.lo /\ Firmware.hi <= SharedInfo.lo
      /\ Firmware.hi <= Nvram(n).lo /\ Firmware.hi <= Seed(n).lo
      /\ V.hi <= Nvram(n).lo /\ V.hi <= Seed(n).lo
      /\ Preplaced.hi <= Nvram(n).lo /\ Preplaced.hi <= Seed(n).lo
      /\ Firmware.hi <= ProbeWord.lo /\ ProbeWord.hi <= Nvram(n).lo /\ ProbeWord.hi <= Seed(n).lo
      /\ ZeroBlock.hi <= Nvram(n).lo /\ Seed(n).hi <= Nvram(n).lo
  BY <1>1, <1>2 DEF Firmware, Preplaced, ProbeWord, ZeroBlock, SharedInfo, Nvram, Seed, SeedFooter, SeedLength
<1> HIDE DEF V
<1>5. \A c \in In(Firmware) : c \notin In(Preplaced) /\ c \notin In(ZeroBlock) /\ c \notin In(SharedInfo) /\ c \notin In(Nvram(n)) /\ c \notin In(Seed(n)) /\ c \notin In(ProbeWord)
  BY <1>3, <1>4, Apart
<1>6. \A c \in In(Nvram(n)) : c \notin In(Firmware) /\ c \notin In(V) /\ c \notin In(Preplaced) /\ c \notin In(ZeroBlock) /\ c \notin In(Seed(n)) /\ c \notin In(ProbeWord)
  BY <1>3, <1>4, Apart
<1>7. \A c \in In(Seed(n)) : c \notin In(Firmware) /\ c \notin In(V) /\ c \notin In(Preplaced) /\ c \notin In(Nvram(n)) /\ c \notin In(ProbeWord)
  BY <1>3, <1>4, Apart
<1> QED
  BY <1>5, <1>6, <1>7, Zenon DEF V

\* The word that tests 243 and 245 invert is no image.
LEMMA WordApart ==
  ASSUME NEW n \in NvramLens
  PROVE  Firmware # ProbeWord /\ Nvram(n) # ProbeWord /\ Seed(n) # ProbeWord
<1>1. RamSize \in Int /\ n \in Int /\ n >= 0
  BY BootAssumption
<1>2. 589828 <= RamSize - n - 8 - 256
  BY LayoutAssumption DEF ProbeWord, Seed, SeedFooter, SeedLength
<1>3. Firmware.lo = 0 /\ Nvram(n).lo = RamSize - n /\ Seed(n).lo = RamSize - n - 8 - 256 /\ ProbeWord.lo = 589824
  BY DEF Firmware, Nvram, Seed, SeedFooter, SeedLength, ProbeWord
<1>4. Firmware.lo # ProbeWord.lo /\ Nvram(n).lo # ProbeWord.lo /\ Seed(n).lo # ProbeWord.lo
  BY <1>1, <1>2, <1>3
<1> QED
  BY <1>4, Zenon

\* What a store of this load writes where an image is, is that image.
LEMMA StoresAgree ==
  ASSUME nvlen \in NvramLens, NEW e \in Stores(tests, nvlen), NEW c \in In(e[2])
  PROVE  /\ c \in In(Firmware) => e[3] = "fw"
         /\ nvlen > 0 /\ ~On("276") => /\ c \in In(Nvram(nvlen)) => e[3] = "nvram"
                                       /\ On("236") /\ c \in In(Seed(nvlen)) => e[3] = "seed"
<1>1. /\ c \in In(Firmware) => c \notin In(Preplaced) /\ c \notin In(ZeroBlock) /\ c \notin In(SharedInfo)
                                 /\ c \notin In(Nvram(nvlen)) /\ c \notin In(Seed(nvlen)) /\ c \notin In(ProbeWord)
      /\ c \in In(Nvram(nvlen)) => c \notin In(Firmware) /\ c \notin In([lo |-> 0, hi |-> 4]) /\ c \notin In(Preplaced)
                                 /\ c \notin In(ZeroBlock) /\ c \notin In(Seed(nvlen)) /\ c \notin In(ProbeWord)
      /\ c \in In(Seed(nvlen)) => c \notin In(Firmware) /\ c \notin In([lo |-> 0, hi |-> 4]) /\ c \notin In(Preplaced)
                                 /\ c \notin In(Nvram(nvlen)) /\ c \notin In(ProbeWord)
  BY LayoutIs, Zenon
<1>2. /\ FwStore[2] = Firmware /\ FwStore[3] = "fw" /\ VectorStore[2] = [lo |-> 0, hi |-> 4] /\ VectorStore[3] = "fw"
      /\ PreStore[2] = Preplaced /\ ZeroStore[2] = ZeroBlock /\ SharedStore[2] = SharedInfo
      /\ NvramStore(nvlen)[2] = Nvram(nvlen) /\ NvramStore(nvlen)[3] = "nvram"
      /\ SeedStore(nvlen)[2] = Seed(nvlen) /\ SeedStore(nvlen)[3] = "seed"
  BY DEF FwStore, VectorStore, PreStore, ZeroStore, SharedStore, NvramStore, SeedStore
<1>4. \A x \in Restores : x[2] = ProbeWord
  BY DEF Restores, Restore
<1>3. \/ e = FwStore \/ e = VectorStore \/ e = PreStore \/ (e = NvramStore(nvlen) /\ nvlen > 0)
      \/ (e = SeedStore(nvlen) /\ On("236")) \/ (e = ZeroStore /\ ~On("236")) \/ (e = SharedStore /\ On("276")) \/ e \in Restores
  BY DEF Stores, On
<1> QED
  BY <1>1, <1>2, <1>3, <1>4, Zenon

-----------------------------------------------------------------------------
(***************************************************************************)
(* What is left when the first step is taken, and what it skips is not.    *)
(***************************************************************************)
Dropped(s, u, n) ==
  /\ Left(s, u, n + 1) /\ s # <<>> /\ Static(s)
  /\ n \in Nat /\ n + 1 <= Len(s) /\ (n = 0 \/ n = Span(s[1]))

LEMMA DroppedIs ==
  ASSUME NEW s \in Seq(Steps), s # <<>>, Static(s), NEW n, n = 0 \/ n = Span(s[1])
  PROVE  Dropped(s, SubSeq(s, n + 2, Len(s)), n)
<1>1. Len(s) \in Nat /\ Len(s) >= 1 /\ Span(s[1]) \in 0 .. 5
  <2>1. Len(s) \in Nat /\ Len(s) >= 1
    BY Lengths, Zenon
  <2>2. 1 \in 1 .. Len(s)
    BY <2>1
  <2> QED
    BY <2>1, <2>2, Lengths, Zenon
<1>2. 1 + Span(s[1]) <= Len(s)
  <2>1. 1 \in 1 .. Len(s)
    BY <1>1
  <2> QED
    BY <2>1, Zenon DEF Static, Spans
<1>3. n \in Nat /\ n + 1 <= Len(s) /\ n + 1 \in Nat /\ n + 2 = n + 1 + 1
  BY <1>1, <1>2
<1> QED
  BY <1>3, LeftIs, Zenon DEF Dropped

LEMMA DroppedAim ==
  ASSUME NEW s, NEW u, NEW n, Dropped(s, u, n), u # <<>>, u[1] \in ArmW
  PROVE  n = 0 /\ s[1] = See("arm")
<1>1. /\ Len(s) \in Nat /\ Len(u) \in Nat /\ Len(s) = n + 1 + Len(u) /\ n \in Nat
      /\ \A i \in 1 .. Len(u) : u[i] = s[n + 1 + i]
  BY Zenon DEF Dropped, Left
<1>2. Len(u) >= 1
  <2>1. u \in Seq(Steps)
    BY Zenon DEF Dropped, Left
  <2> QED
    BY <2>1, Lengths, Zenon
<1>3. u[1] = s[n + 1 + 1] /\ n + 1 + 1 \in 1 .. Len(s) /\ n + 1 + 1 \in 2 .. Len(s)
  BY <1>1, <1>2
<1>4. CASE n = 0
  <2>1. n + 1 + 1 = 2 /\ 2 - 1 = 1
    BY <1>4
  <2>2. s[2] \in ArmW /\ 2 \in 2 .. Len(s)
    BY <1>3, <2>1, Zenon
  <2>3. s[2 - 1] = See("arm")
    BY <2>2, Zenon DEF Dropped, Static, Written
  <2> QED
    BY <1>4, <2>1, <2>3, Zenon
<1>5. CASE n # 0
  <2>1. n = Span(s[1])
    BY <1>5, Zenon DEF Dropped
  <2>2. 1 \in 1 .. Len(s) /\ n > 0 /\ 1 + n + 1 = n + 1 + 1
    BY <1>1, <1>2, <1>5
  <2>3. \A k \in 1 .. Len(s) : k = 1 + n + 1 => s[k] \notin ArmW
    BY <2>1, <2>2, Zenon DEF Dropped, Static, Spans
  <2> QED
    BY <1>3, <2>2, <2>3, Zenon
<1> QED
  BY <1>4, <1>5

LEMMA DroppedHas ==
  ASSUME NEW s, NEW u, NEW n, Dropped(s, u, n), NEW e, Has(s, e), e # s[1], e \notin Light
  PROVE  Has(u, e)
<1>1. /\ Len(s) \in Nat /\ Len(u) \in Nat /\ Len(s) = n + 1 + Len(u) /\ n \in Nat
      /\ \A i \in 1 .. Len(u) : u[i] = s[n + 1 + i]
  BY Zenon DEF Dropped, Left
<1>2. PICK i \in 1 .. Len(s) : s[i] = e
  BY Zenon DEF Has
<1>3. i # 1
  BY <1>2, Zenon
<1>4. ~(i <= n + 1)
  <2> SUFFICES ASSUME i <= n + 1 PROVE FALSE
    OBVIOUS
  <2>1. n # 0 /\ i \in 1 + 1 .. 1 + n /\ 1 \in 1 .. Len(s)
    BY <1>1, <1>3
  <2>2. n = Span(s[1])
    BY <2>1, Zenon DEF Dropped
  <2>3. s[i] \in Light
    BY <2>1, <2>2, Zenon DEF Dropped, Static, Spans
  <2> QED
    BY <1>2, <2>3, Zenon
<1>5. PICK r : r = i - (n + 1)
  OBVIOUS
<1>6. r \in 1 .. Len(u) /\ n + 1 + r = i
  BY <1>1, <1>4, <1>5
<1> QED
  BY <1>1, <1>2, <1>6, Zenon DEF Has

LEMMA DroppedSure ==
  ASSUME NEW s, NEW u, NEW n, Dropped(s, u, n), Sure(s)
  PROVE  Sure(u) \/ (s[1] \in {Hlt, One("disable arm")} /\ NoRel(u))
<1>1. /\ Len(s) \in Nat /\ Len(u) \in Nat /\ Len(s) = n + 1 + Len(u) /\ n \in Nat
      /\ \A i \in 1 .. Len(u) : u[i] = s[n + 1 + i]
  BY Zenon DEF Dropped, Left
<1>2. PICK j \in 1 .. Len(s) :
        /\ s[j] \in {Hlt, One("disable arm")}
        /\ \A k \in j + 1 .. Len(s) : s[k] # Rel
        /\ \A i \in 1 .. j - 1 : i + Span(s[i]) < j
  BY Zenon DEF Sure
<1>3. CASE j = 1
  <2>1. \A k \in 1 .. Len(u) : n + 1 + k \in j + 1 .. Len(s)
    BY <1>1, <1>3
  <2>2. NoRel(u)
    BY <1>1, <1>2, <2>1, Zenon DEF NoRel
  <2> QED
    BY <1>2, <1>3, <2>2
<1>4. CASE j # 1
  <2>1. n + 1 < j
    <3>1. 1 \in 1 .. j - 1
      BY <1>1, <1>4
    <3>2. 1 + Span(s[1]) < j
      BY <1>2, <3>1, Zenon
    <3>3. n = 0 \/ n = Span(s[1])
      BY Zenon DEF Dropped
    <3>4. 1 < j
      BY <1>1, <1>4
    <3> QED
      BY <1>1, <3>2, <3>3, <3>4
  <2>2. PICK r : r = j - (n + 1)
    OBVIOUS
  <2>3. r \in 1 .. Len(u) /\ n + 1 + r = j
    BY <1>1, <2>1, <2>2
  <2>4. u[r] \in {Hlt, One("disable arm")}
    BY <1>1, <1>2, <2>3, Zenon
  <2>5. \A k \in r + 1 .. Len(u) : u[k] # Rel
    <3>1. \A k \in r + 1 .. Len(u) : k \in 1 .. Len(u) /\ n + 1 + k \in j + 1 .. Len(s)
      BY <1>1, <2>3
    <3> QED
      BY <1>1, <1>2, <3>1, Zenon
  <2>6. \A i \in 1 .. r - 1 : i + Span(u[i]) < r
    <3> SUFFICES ASSUME NEW i \in 1 .. r - 1 PROVE i + Span(u[i]) < r
      OBVIOUS
    <3>1. i \in 1 .. Len(u) /\ n + 1 + i \in 1 .. j - 1 /\ n + 1 + i \in 1 .. Len(s)
      BY <1>1, <2>3
    <3>2. u[i] = s[n + 1 + i] /\ n + 1 + i + Span(s[n + 1 + i]) < j
      BY <1>1, <1>2, <3>1, Zenon
    <3>3. Span(s[n + 1 + i]) \in 0 .. 5
      <4>1. s \in Seq(Steps)
        BY Zenon DEF Dropped, Left
      <4> QED
        BY <3>1, <4>1, Lengths, Zenon
    <3>4. PICK p : p = Span(s[n + 1 + i])
      OBVIOUS
    <3>5. n + 1 + i + p < j /\ p \in 0 .. 5 /\ Span(u[i]) = p
      BY <3>2, <3>3, <3>4, Zenon
    <3>6. i + p < r
      BY <1>1, <2>3, <3>1, <3>5
    <3> QED
      BY <3>5, <3>6, Zenon
  <2> QED
    BY <2>3, <2>4, <2>5, <2>6, Zenon DEF Sure
<1> QED
  BY <1>3, <1>4

LEMMA DroppedRel ==
  ASSUME NEW s, NEW u, NEW n, Dropped(s, u, n), RelLast(s), s[1] = Rel
  PROVE  Sealed(u)
<1>1. /\ Len(s) \in Nat /\ Len(u) \in Nat /\ Len(s) = n + 1 + Len(u) /\ n \in Nat
      /\ \A i \in 1 .. Len(u) : u[i] = s[n + 1 + i]
  BY Zenon DEF Dropped, Left
<1>2. \A i \in 1 .. Len(u) : n + 1 + i \in 1 + 1 .. Len(s) /\ 1 \in 1 .. Len(s)
  BY <1>1
<1>3. \A i \in 1 .. Len(u) : Late(s[n + 1 + i])
  BY <1>2, Zenon DEF RelLast
<1> QED
  BY <1>1, <1>3, Zenon DEF Sealed

\* The last three steps are not skipped.
LEMMA DroppedEnd ==
  ASSUME NEW s, NEW u, NEW n, Dropped(s, u, n),
         NEW V, NEW a, NEW b, NEW c, Closes(s, V, a, b, c), a \notin Light, b \notin Light, c \notin Light
  PROVE  /\ Len(u) <= 2 => Len(s) <= 2 \/ s[1] = a
         /\ Len(u) <= 1 => Len(s) <= 1 \/ s[1] = b
         /\ u = <<>> => s[1] = c
<1>1. /\ Len(s) \in Nat /\ Len(u) \in Nat /\ Len(s) = n + 1 + Len(u) /\ n \in Nat
  BY Zenon DEF Dropped, Left
<1>2. \A k \in 1 .. Len(s) : s[k] \notin Light /\ k <= n + 1 => k = 1
  <2> SUFFICES ASSUME NEW k \in 1 .. Len(s), s[k] \notin Light, k <= n + 1, k # 1 PROVE FALSE
    OBVIOUS
  <2>1. n # 0 /\ k \in 1 + 1 .. 1 + n /\ 1 \in 1 .. Len(s)
    BY <1>1
  <2>2. n = Span(s[1])
    BY <2>1, Zenon DEF Dropped
  <2> QED
    BY <2>1, <2>2, Zenon DEF Dropped, Static, Spans
<1>3. \A k \in 1 .. Len(s) : s[k] \notin Light /\ k <= n + 1 => s[1] = s[k]
  BY <1>2, Zenon
<1>4. ASSUME Len(u) <= 2, ~(Len(s) <= 2) PROVE s[1] = a
  <2>1. Len(s) >= 3 /\ Len(s) - 2 \in 1 .. Len(s) /\ Len(s) - 2 <= n + 1
    BY <1>1, <1>4
  <2>2. s[Len(s) - 2] = a
    BY <2>1, Zenon DEF Closes
  <2> QED
    BY <1>3, <2>1, <2>2, Zenon
<1>5. ASSUME Len(u) <= 1, ~(Len(s) <= 1) PROVE s[1] = b
  <2>1. Len(s) >= 2 /\ Len(s) - 1 \in 1 .. Len(s) /\ Len(s) - 1 <= n + 1
    BY <1>1, <1>5
  <2>2. s[Len(s) - 1] = b
    BY <2>1, Zenon DEF Closes
  <2> QED
    BY <1>3, <2>1, <2>2, Zenon
<1>6. ASSUME u = <<>> PROVE s[1] = c
  <2>1. Len(u) = 0
    BY <1>6
  <2>2. Len(s) >= 1 /\ Len(s) \in 1 .. Len(s) /\ Len(s) <= n + 1
    BY <1>1, <2>1
  <2>3. s[Len(s)] = c
    BY Zenon DEF Closes
  <2> QED
    BY <1>3, <2>2, <2>3, Zenon
<1> QED
  BY <1>4, <1>5, <1>6, Zenon

LEMMA NotLight ==
  /\ \A op : op \notin {"irq off", "window", "write", "tcm"} => One(op) \notin Light
  /\ FwStore \notin Light /\ \A n : NvramStore(n) \notin Light /\ SeedStore(n) \notin Light
<1>1. \A e \in Light : e[1] \in {"window", "write"} \/ e = One("irq off") \/ e = SharedStore
  <2> SUFFICES ASSUME NEW e \in Light PROVE e[1] \in {"window", "write"} \/ e = One("irq off") \/ e = SharedStore
    OBVIOUS
  <2>1. e \in Views \/ e \in ArmW \/ e \in D11W \/ e \in PcieW \/ e = One("irq off") \/ e = SharedStore
    BY DEF Light
  <2>2. (e \in Views => e[1] = "window") /\ (e \in ArmW \/ e \in D11W \/ e \in PcieW => e[1] = "write")
    BY Tags, ZenonT(60)
  <2> QED
    BY <2>1, <2>2
<1>2. \A op : \A e \in Light : e = One(op) => op \in {"irq off", "window", "write", "tcm"}
  <2>1. SharedStore[1] = "tcm"
    BY DEF SharedStore
  <2>2. \A op : One(op)[1] = op
    BY Tags, ZenonT(60)
  <2> QED
    BY <1>1, <2>1, <2>2
<1>4. FwStore[1] = "tcm" /\ FwStore[3] = "fw" /\ SharedStore[3] = "shared" /\ One("irq off")[1] = "irq off"
  BY DEF FwStore, SharedStore, One
<1>5. \A n : NvramStore(n)[1] = "tcm" /\ NvramStore(n)[3] = "nvram" /\ SeedStore(n)[1] = "tcm" /\ SeedStore(n)[3] = "seed"
  BY DEF NvramStore, SeedStore
<1> QED
  BY <1>1, <1>2, <1>4, <1>5

LEMMA HeadOf ==
  ASSUME NEW s \in Seq(Steps), NEW V, NEW a, NEW b, NEW c, Closes(s, V, a, b, c)
  PROVE  /\ s # <<>>
         /\ \/ Len(s) >= 4 /\ s[1] \in V
            \/ Len(s) = 3 /\ s[1] = a
            \/ Len(s) = 2 /\ s[1] = b
            \/ Len(s) = 1 /\ s[1] = c
<1>1. Len(s) \in Nat /\ Len(s) >= 1 /\ s # <<>>
  <2>1. Len(s) >= 1
    BY Zenon DEF Closes
  <2>2. Len(<<>>) = 0 /\ ~(0 >= 1)
    OBVIOUS
  <2> QED
    BY <2>1, <2>2, Lengths, Zenon
<1>2. Len(s) = 1 \/ Len(s) = 2 \/ Len(s) = 3 \/ Len(s) >= 4
  <2>1. \A m \in Nat : m >= 1 => m = 1 \/ m = 2 \/ m = 3 \/ m >= 4
    OBVIOUS
  <2> QED
    BY <1>1, <2>1, Zenon
<1>3. CASE Len(s) = 1
  BY <1>1, <1>3, Zenon DEF Closes
<1>4. CASE Len(s) = 2
  <2>1. Len(s) >= 2 /\ Len(s) - 1 = 1
    BY <1>4
  <2> QED
    BY <1>1, <1>4, <2>1, Zenon DEF Closes
<1>5. CASE Len(s) = 3
  <2>1. Len(s) >= 3 /\ Len(s) - 2 = 1
    BY <1>5
  <2> QED
    BY <1>1, <1>5, <2>1, Zenon DEF Closes
<1>6. CASE Len(s) >= 4
  <2>1. 1 \in 1 .. Len(s) - 3
    BY <1>1, <1>6
  <2> QED
    BY <1>1, <1>6, <2>1, Zenon DEF Closes
<1> QED
  BY <1>2, <1>3, <1>4, <1>5, <1>6, Zenon

LEMMA SetupHead ==
  ASSUME todo \in Seq(Steps), SetupList(todo)
  PROVE  /\ todo # <<>> /\ Head(todo) = todo[1] /\ todo[1] \in Steps
         /\ todo[1] \in Setting(tests, nvlen) \/ todo[1] \in {One("clear master"), One("free all"), One("bound")}
         /\ todo[1] = One("bound") => Len(todo) = 1
         /\ todo[1] = One("free all") => Len(todo) = 2
         /\ todo[1] = One("clear master") => Len(todo) = 3
         /\ todo[1] \in Setting(tests, nvlen) => Len(todo) >= 4
<1> DEFINE V == Setting(tests, nvlen)
<1>1. One("clear master") \notin V /\ One("free all") \notin V /\ One("bound") \notin V
  <2>1. /\ One("clear master")[1] = "clear master" /\ One("free all")[1] = "free all" /\ One("bound")[1] = "bound"
        /\ \A e \in V : e[1] \in BodyOps \cup {"fw"}
    BY Tags, Ops, ZenonT(40)
  <2> QED
    BY <2>1 DEF BodyOps, WorkOps, CoredOps
<1>2. One("clear master") # One("free all") /\ One("clear master") # One("bound") /\ One("free all") # One("bound")
  BY DEF One
<1>3. /\ todo # <<>>
      /\ \/ Len(todo) >= 4 /\ todo[1] \in V
         \/ Len(todo) = 3 /\ todo[1] = One("clear master")
         \/ Len(todo) = 2 /\ todo[1] = One("free all")
         \/ Len(todo) = 1 /\ todo[1] = One("bound")
  BY HeadOf, ZenonT(40) DEF SetupList
<1> HIDE DEF V
<1>4. Head(todo) = todo[1] /\ todo[1] \in Steps
  BY <1>3, Lengths, Zenon
<1> QED
  BY <1>1, <1>2, <1>3, <1>4 DEF V

\* What the handler and MSI say of the next step.
LEMMA HandlerHead ==
  ASSUME todo \in Seq(Steps), Handler
  PROVE  /\ irq # "none" => todo[1] \in PcieW \cup {One("irq off")}
         /\ irq # "none" \/ msi => todo[1] \in PcieW \cup IrqOns \cup {One("irq off"), One("msi off")}
<1>1. ASSUME irq # "none" PROVE todo[1] \in PcieW \cup {One("irq off")}
  <2>1. PICK j \in 1 .. Len(todo) - 1 : todo[j] = One("irq off") /\ todo[j + 1] = One("msi off") /\ \A k \in 1 .. j - 1 : todo[k] \in PcieW
    BY <1>1, Zenon DEF Handler, IrqLeft
  <2>2. j = 1 \/ 1 \in 1 .. j - 1
    <3>1. Len(todo) \in Nat
      BY Lengths, Zenon
    <3> QED
      BY <3>1
  <2> QED
    BY <2>1, <2>2
<1>2. ASSUME irq = "none", msi PROVE todo[1] \in IrqOns \cup {One("msi off")}
  BY <1>2 DEF Handler
<1> QED
  BY <1>1, <1>2

Back(b, j) ==
  /\ j - 1 \in 1 .. b - 1 /\ j - 1 \in 1 .. b /\ j - 1 + 1 \in 1 .. b
  /\ 0 + 1 + (j - 1) = j /\ 0 + 1 + (j - 1 + 1) = j + 1
  /\ \A k \in 1 .. j - 1 - 1 : k \in 1 .. b /\ 0 + 1 + k \in 1 .. j - 1

LEMMA BackOne == \A b \in Nat : \A j \in 1 .. (0 + 1 + b) - 1 : j # 1 => Back(b, j)
  BY DEF Back

LEMMA OneBefore == ASSUME NEW a \in Nat, NEW j \in 1 .. a - 1, j # 1 PROVE 1 \in 1 .. j - 1
  OBVIOUS

\* A step that is not the handler's leaves it in hand.
LEMMA HandlerKeeps ==
  ASSUME todo \in Seq(Steps), Handler, NEW n, Dropped(todo, todo', n),
         todo[1] \notin IrqOns, todo[1] \notin {One("irq off"), One("msi off")}, irq' = irq, msi' = msi
  PROVE  Handler'
<1>1. CASE irq = "none"
  <2>1. ~msi
    BY <1>1, HandlerHead, Zenon DEF Handler
  <2>2. irq' = "none" /\ ~msi' /\ irq' # "msi"
    BY <1>1, <2>1
  <2> QED
    BY <2>2, Zenon DEF Handler
<1>2. CASE irq # "none"
  <2>1. /\ Len(todo) \in Nat /\ Len(todo') \in Nat /\ Len(todo) = n + 1 + Len(todo') /\ n \in Nat
        /\ \A i \in 1 .. Len(todo') : todo'[i] = todo[n + 1 + i]
    BY Zenon DEF Dropped, Left
  <2>2. PICK j \in 1 .. Len(todo) - 1 : todo[j] = One("irq off") /\ todo[j + 1] = One("msi off") /\ \A k \in 1 .. j - 1 : todo[k] \in PcieW
    BY <1>2, Zenon DEF Handler, IrqLeft
  <2>3. j # 1
    BY <2>2, Zenon
  <2>4. todo[1] \in PcieW
    <3>1. 1 \in 1 .. j - 1
      BY <2>1, <2>3, OneBefore, Zenon
    <3> QED
      BY <2>2, <3>1, Zenon
  <2>5. n = 0
    <3>1. Span(todo[1]) = 0
      BY <2>4, IrqKinds, Zenon
    <3> QED
      BY <3>1, Zenon DEF Dropped
  <2>6. Back(Len(todo'), j)
    <3>1. j \in 1 .. (0 + 1 + Len(todo')) - 1
      BY <2>1, <2>2, <2>5, Zenon
    <3> QED
      BY <2>1, <2>3, <3>1, BackOne, Zenon
  <2>8. \A i \in 1 .. Len(todo') : todo'[i] = todo[0 + 1 + i]
    BY <2>1, <2>5, Zenon
  <2>9. todo'[j - 1] = One("irq off") /\ todo'[j - 1 + 1] = One("msi off") /\ \A k \in 1 .. j - 1 - 1 : todo'[k] \in PcieW
    BY <2>2, <2>6, <2>8, Zenon DEF Back
  <2>10. IrqLeft(todo')
    BY <2>6, <2>9, Zenon DEF IrqLeft, Back
  <2>11. irq' # "none" /\ (irq' = "msi" => msi')
    BY <1>2, Zenon DEF Handler
  <2> QED
    BY <2>10, <2>11, Zenon DEF Handler
<1> QED
  BY <1>1, <1>2

\* A step that stores nothing keeps a list of images still to come, and TCM.
Landed == tcm' = [c \in Cuts |-> IF c \in In(todo[1][2]) THEN todo[1][3] ELSE tcm[c]]

LEMMA FilledKeeps ==
  ASSUME NEW n, Dropped(todo, todo', n), NEW r, NEW o, NEW f, f \notin Light, f[2] = r, f[3] = o,
         (\A c \in In(r) : tcm[c] = o) \/ Has(todo, f),
         \/ tcm' = tcm /\ todo[1] # f
         \/ Landed /\ \A c \in In(todo[1][2]) : c \in In(r) => todo[1][3] = o
  PROVE  (\A c \in In(r) : tcm'[c] = o) \/ Has(todo', f)
<1>1. todo[1] # f /\ Has(todo, f) => Has(todo', f)
  BY DroppedHas, Zenon
<1>2. CASE tcm' = tcm /\ todo[1] # f
  BY <1>1, <1>2, Zenon
<1>3. CASE Landed /\ \A c \in In(todo[1][2]) : c \in In(r) => todo[1][3] = o
  <2>1. \A c \in In(r) : tcm'[c] = IF c \in In(todo[1][2]) THEN todo[1][3] ELSE tcm[c]
    BY <1>3 DEF Landed, In
  <2>2. \A c \in In(r) : (\A d \in In(r) : tcm[d] = o) => tcm'[c] = o
    BY <1>3, <2>1, Zenon
  <2>3. todo[1] = f => \A c \in In(r) : tcm'[c] = o
    BY <2>1, Zenon
  <2> QED
    BY <1>1, <2>2, <2>3, Zenon
<1> QED
  BY <1>2, <1>3

LEMMA ContentsKeep ==
  ASSUME NEW n, Dropped(todo, todo', n), Contents, nvlen \in NvramLens, tests' = tests, nvlen' = nvlen,
         \/ tcm' = tcm /\ todo[1][1] # "tcm"
         \/ Landed /\ todo[1] \in Stores(tests, nvlen)
  PROVE  Contents'
<1> DEFINE N == Nvram(nvlen)
<1> DEFINE D == Seed(nvlen)
<1>1. /\ FwStore[1] = "tcm" /\ FwStore[2] = Firmware /\ FwStore[3] = "fw"
      /\ NvramStore(nvlen)[1] = "tcm" /\ NvramStore(nvlen)[2] = N /\ NvramStore(nvlen)[3] = "nvram"
      /\ SeedStore(nvlen)[1] = "tcm" /\ SeedStore(nvlen)[2] = D /\ SeedStore(nvlen)[3] = "seed"
  BY DEF FwStore, NvramStore, SeedStore
<1>2. FwStore \notin Light /\ NvramStore(nvlen) \notin Light /\ SeedStore(nvlen) \notin Light
  BY NotLight, Zenon
<1>3. todo[1][1] # "tcm" => todo[1] # FwStore /\ todo[1] # NvramStore(nvlen) /\ todo[1] # SeedStore(nvlen)
  BY <1>1, Zenon
<1>4. todo[1] \in Stores(tests, nvlen) =>
        \A c \in In(todo[1][2]) :
          /\ c \in In(Firmware) => todo[1][3] = "fw"
          /\ nvlen > 0 /\ ~On("276") => /\ c \in In(Nvram(nvlen)) => todo[1][3] = "nvram"
                                        /\ On("236") /\ c \in In(Seed(nvlen)) => todo[1][3] = "seed"
  BY StoresAgree, Zenon
<1>5. (\A c \in In(Firmware) : tcm[c] = "fw") \/ Has(todo, FwStore)
  BY Zenon DEF Contents, Filled, Whole
<1>6. (\A c \in In(Firmware) : tcm'[c] = "fw") \/ Has(todo', FwStore)
  BY <1>1, <1>2, <1>3, <1>4, <1>5, FilledKeeps, Zenon
<1>7. ASSUME nvlen > 0, ~On("276")
      PROVE  (\A c \in In(N) : tcm'[c] = "nvram") \/ Has(todo', NvramStore(nvlen))
  <2>1. (\A c \in In(N) : tcm[c] = "nvram") \/ Has(todo, NvramStore(nvlen))
    BY <1>7, Zenon DEF Contents, Filled, Whole
  <2> QED
    BY <1>1, <1>2, <1>3, <1>4, <1>7, <2>1, FilledKeeps, Zenon
<1>8. ASSUME nvlen > 0, ~On("276"), On("236")
      PROVE  (\A c \in In(D) : tcm'[c] = "seed") \/ Has(todo', SeedStore(nvlen))
  <2>1. (\A c \in In(D) : tcm[c] = "seed") \/ Has(todo, SeedStore(nvlen))
    BY <1>8, Zenon DEF Contents, Filled, Whole
  <2> QED
    BY <1>1, <1>2, <1>3, <1>4, <1>8, <2>1, FilledKeeps, Zenon
<1>9. (Firmware)' = Firmware /\ (FwStore)' = FwStore
  BY DEF Firmware, FwStore
<1> QED
  BY <1>6, <1>7, <1>8, <1>9 DEF Contents, Filled, Whole, On

LEMMA DroppedBefore ==
  ASSUME NEW s, NEW u, NEW n, Dropped(s, u, n), NEW e, NEW X, Before(s, e, X), Has(u, e)
  PROVE  s[1] \in X
<1>1. /\ Len(s) \in Nat /\ Len(u) \in Nat /\ Len(s) = n + 1 + Len(u) /\ n \in Nat
      /\ \A i \in 1 .. Len(u) : u[i] = s[n + 1 + i]
  BY Zenon DEF Dropped, Left
<1>2. PICK i \in 1 .. Len(u) : u[i] = e
  BY Zenon DEF Has
<1>3. n + 1 + i \in 1 .. Len(s) /\ 1 \in 1 .. (n + 1 + i) - 1
  BY <1>1
<1>4. s[n + 1 + i] = e
  BY <1>1, <1>2, Zenon
<1> QED
  BY <1>3, <1>4, Zenon DEF Before

\* Small numbers.
LEMMA SmallLengths ==
  ASSUME NEW m \in Nat
  PROVE  /\ (m <= 1 => m <= 2) /\ (m = 1 => m <= 1) /\ (m = 2 => m <= 2 /\ ~(m <= 1)) /\ (m = 3 => ~(m <= 2))
         /\ (m >= 4 => ~(m <= 2) /\ ~(m <= 1) /\ m # 1 /\ m # 2 /\ m # 3)
         /\ (m <= 1 => m = 0 \/ m = 1) /\ (m <= 2 => m = 0 \/ m = 1 \/ m = 2)
  OBVIOUS

\* The list of the callback, after a step of it.
LEMMA SetupListKeeps ==
  ASSUME NEW n, Dropped(todo, todo', n), SetupList(todo), todo[1] # One("bound"), tests' = tests, nvlen' = nvlen
  PROVE  /\ SetupList(todo)' /\ todo' # <<>>
         /\ Len(todo') <= 2 => todo[1] \in {One("clear master"), One("free all")}
         /\ Len(todo') <= 1 => todo[1] = One("free all")
<1> DEFINE V == Setting(tests, nvlen)
<1>0. /\ Left(todo, todo', n + 1) /\ todo \in Seq(Steps)
      /\ Only(todo, V \cup Ending) /\ Static(todo) /\ RelLast(todo) /\ Before(todo, One("fw"), Views)
      /\ Closes(todo, V, One("clear master"), One("free all"), One("bound"))
  BY Zenon DEF SetupList, Dropped, Left
<1>1. One("clear master") \notin Light /\ One("free all") \notin Light /\ One("bound") \notin Light
  <2>1. /\ "clear master" \notin {"irq off", "window", "write", "tcm"} /\ "free all" \notin {"irq off", "window", "write", "tcm"}
        /\ "bound" \notin {"irq off", "window", "write", "tcm"}
    OBVIOUS
  <2> QED
    BY <2>1, NotLight, Zenon
<1>2. /\ Len(todo') <= 2 => Len(todo) <= 2 \/ todo[1] = One("clear master")
      /\ Len(todo') <= 1 => Len(todo) <= 1 \/ todo[1] = One("free all")
      /\ todo' = <<>> => todo[1] = One("bound")
  BY <1>0, <1>1, DroppedEnd, Zenon
<1>3. todo' # <<>>
  BY <1>2, Zenon
<1>4. Len(todo) <= 2 => todo[1] = One("free all")
  <2>1. \/ Len(todo) >= 4 /\ todo[1] \in V
        \/ Len(todo) = 3 /\ todo[1] = One("clear master")
        \/ Len(todo) = 2 /\ todo[1] = One("free all")
        \/ Len(todo) = 1 /\ todo[1] = One("bound")
    BY <1>0, HeadOf, ZenonT(40)
  <2>2. Len(todo) \in Nat
    BY <1>0, Lengths, Zenon
  <2> QED
    BY <2>1, <2>2, SmallLengths, Zenon
<1>5. Len(todo) <= 1 => Len(todo) <= 2
  <2>1. Len(todo) \in Nat
    BY <1>0, Lengths, Zenon
  <2> QED
    BY <2>1, SmallLengths, Zenon
<1>6. Static(todo')
  BY <1>0, LeftStatic, Zenon
<1> HIDE DEF V
<1>7. /\ Only(todo', V \cup Ending) /\ RelLast(todo') /\ Before(todo', One("fw"), Views)
      /\ Closes(todo', V, One("clear master"), One("free all"), One("bound"))
  BY <1>0, <1>3, LeftKeeps, Zenon
<1>8. SetupList(todo)'
  BY <1>6, <1>7, Zenon DEF SetupList, V
<1> QED
  BY <1>2, <1>3, <1>4, <1>5, <1>8

LEMMA SetupDrop ==
  ASSUME TypeOK, SetupPhase, NEW n, Dropped(todo, todo', n), todo[1] # One("bound"),
         tests' = tests, nvlen' = nvlen, mapped' = mapped,
         todo[1] = See("arm") => window' = "arm",
         halt /\ todo[1] # Rel => halt',
         todo[1] \in Views \cup {One("free all")} => master' = master,
         todo[1] = One("clear master") => ~master',
         todo[1] \in Views => irq' = irq /\ msi' = msi /\ held' = held,
         todo[1] = One("free all") => held' = {},
         Handler', Contents'
  PROVE  SetupPhase'
<1>0. Left(todo, todo', n + 1)
  BY Zenon DEF Dropped
<1>1. /\ SetupList(todo)' /\ todo' # <<>>
      /\ Len(todo') <= 2 => todo[1] \in {One("clear master"), One("free all")}
      /\ Len(todo') <= 1 => todo[1] = One("free all")
  BY SetupListKeeps, Zenon DEF SetupPhase
<1>2. Aimed'
  BY <1>1, DroppedAim, Zenon DEF Aimed
<1>3. mapped' /\ nvlen' \in NvramLens
  BY Zenon DEF SetupPhase
<1>4. halt' \/ Sealed(todo')
  <2>1. CASE Sealed(todo)
    BY <1>0, <2>1, LeftKeeps, Zenon
  <2>2. CASE halt /\ todo[1] # Rel
    BY <2>2
  <2>3. CASE todo[1] = Rel
    BY <2>3, DroppedRel, Zenon DEF SetupPhase, SetupList
  <2> QED
    BY <2>1, <2>2, <2>3, Zenon DEF SetupPhase
<1>5. Has(todo', One("fw")) => Quiet' /\ ~master'
  <2> SUFFICES ASSUME Has(todo', One("fw")) PROVE Quiet' /\ ~master'
    OBVIOUS
  <2>1. todo[1] \in Views
    BY DroppedBefore, Zenon DEF SetupPhase, SetupList
  <2>2. Has(todo, One("fw"))
    BY <1>0, LeftKeeps, Zenon
  <2>3. Quiet /\ ~master
    BY <2>2, Zenon DEF SetupPhase
  <2>4. irq' = irq /\ msi' = msi /\ held' = held /\ master' = master
    BY <2>1
  <2> QED
    BY <2>3, <2>4 DEF Quiet
<1>6. Len(todo') <= 2 => ~master'
  <2>1. todo[1] = One("free all") => ~master
    <3>1. todo[1] = One("free all") => Len(todo) = 2
      BY SetupHead, Zenon DEF TypeOK, SetupPhase
    <3>2. Len(todo) \in Nat
      BY Zenon DEF Dropped, Left
    <3> QED
      BY <3>1, <3>2, SmallLengths, Zenon DEF SetupPhase
  <2> QED
    BY <1>1, <2>1
<1>7. Len(todo') <= 1 => held' = {}
  BY <1>1, Zenon
<1> QED
  BY <1>1, <1>2, <1>3, <1>4, <1>5, <1>6, <1>7, Zenon DEF SetupPhase

-----------------------------------------------------------------------------
(***************************************************************************)
(* The steps of the callback.                                              *)
(***************************************************************************)
LEMMA OpsApart ==
  /\ \A e \in Steps : e[1] = "window" => e \in Views
  /\ \A e \in Views : e[1] = "window"
  /\ See("arm")[1] = "window" /\ See("arm")[2] = "arm"
  /\ Rel[1] = "write" /\ Hlt[1] = "write"
  /\ \A e \in IrqOns : e[1] = "irq on"
  /\ \A op : One(op)[1] = op
  /\ \A e \in PcieW : e[1] = "write"
<1>1. \A e \in Steps : e[1] = "window" => e \in Views
  BY Kinds, Zenon
<1>2. (\A e \in Views : e[1] = "window") /\ (\A e \in IrqOns : e[1] = "irq on") /\ (\A op : One(op)[1] = op) /\ (\A e \in PcieW : e[1] = "write")
  BY Tags, ZenonT(60)
<1>3. See("arm")[1] = "window" /\ See("arm")[2] = "arm" /\ Rel[1] = "write" /\ Hlt[1] = "write"
  BY DEF See, Rel, Hlt
<1> QED
  BY <1>1, <1>2, <1>3, Zenon

LEMMA SetupOps ==
  ASSUME TypeOK, SetupPhase
  PROVE  /\ todo # <<>> /\ Head(todo) = todo[1] /\ todo[1] \in Steps /\ todo \in Seq(Steps)
         /\ todo[1][1] \in BodyOps \cup {"fw", "clear master", "free all", "bound"}
         /\ todo[1][1] = "bound" => Len(todo) = 1
         /\ todo[1][1] = "tcm" => todo[1] \in Stores(tests, nvlen)
         /\ todo[1][1] \in BodyOps \cup {"fw"} => todo[1] \in Setting(tests, nvlen) /\ Len(todo) >= 4
<1>1. /\ todo # <<>> /\ Head(todo) = todo[1] /\ todo[1] \in Steps /\ todo \in Seq(Steps)
      /\ todo[1] \in Setting(tests, nvlen) \/ todo[1] \in {One("clear master"), One("free all"), One("bound")}
      /\ todo[1] = One("bound") => Len(todo) = 1
      /\ todo[1] \in Setting(tests, nvlen) => Len(todo) >= 4
  BY SetupHead, Zenon DEF TypeOK, SetupPhase
<1>2. /\ \A e \in Setting(tests, nvlen) : e[1] \in BodyOps \cup {"fw"}
      /\ \A e \in Work : e[1] \in WorkOps
      /\ \A op : One(op)[1] = op
  BY Ops, OpsApart, Zenon
<1>3. "clear master" \notin BodyOps \cup {"fw"} /\ "free all" \notin BodyOps \cup {"fw"} /\ "bound" \notin BodyOps \cup {"fw"} /\ "tcm" \notin WorkOps
      /\ "tcm" \in BodyOps
  BY DEF BodyOps, WorkOps, CoredOps
<1>4. ASSUME todo[1] \in Setting(tests, nvlen), todo[1][1] = "tcm" PROVE todo[1] \in Stores(tests, nvlen)
  <2>1. todo[1] \in Work \/ todo[1] \in Stores(tests, nvlen) \/ todo[1] \in {One("alloc"), One("set master"), One("olmsg"), One("fw")}
    BY <1>4 DEF Setting, Body
  <2> QED
    BY <1>2, <1>3, <1>4, <2>1
<1>5. todo[1] \in {One("clear master"), One("free all"), One("bound")} =>
        todo[1][1] \in {"clear master", "free all", "bound"} /\ (todo[1][1] = "bound" => todo[1] = One("bound"))
  BY <1>2
<1> HIDE DEF BodyOps
<1> QED
  BY <1>1, <1>2, <1>3, <1>4, <1>5

LEMMA SetupTake ==
  ASSUME TypeOK, SetupPhase, NEW n, n = 0 \/ n = Span(todo[1]), Drop(n)
  PROVE  Dropped(todo, todo', n)
<1>1. todo # <<>> /\ todo \in Seq(Steps) /\ Static(todo)
  BY SetupOps, Zenon DEF SetupPhase, SetupList
<1>2. todo' = SubSeq(todo, n + 2, Len(todo))
  BY Zenon DEF Drop
<1> QED
  BY <1>1, <1>2, DroppedIs, Zenon

LEMMA SetupPlain ==
  ASSUME TypeOK, SetupPhase, NEW n, n = 0 \/ n = Span(todo[1]), Drop(n),
         todo[1][1] \notin {"tcm", "irq on", "irq off", "msi off", "bound"},
         tests' = tests, nvlen' = nvlen, mapped' = mapped, tcm' = tcm, irq' = irq, msi' = msi,
         todo[1] = See("arm") => window' = "arm",
         halt /\ todo[1] # Rel => halt',
         todo[1][1] \in {"window", "free all"} => master' = master,
         todo[1][1] = "clear master" => ~master',
         todo[1][1] = "window" => held' = held,
         todo[1][1] = "free all" => held' = {}
  PROVE  SetupPhase'
<1>1. Dropped(todo, todo', n)
  BY SetupTake, Zenon
<1>2. todo \in Seq(Steps) /\ Handler /\ Contents /\ nvlen \in NvramLens
  BY Zenon DEF TypeOK, SetupPhase
<1>3. /\ todo[1] \notin IrqOns /\ todo[1] \notin {One("irq off"), One("msi off")} /\ todo[1] # One("bound")
      /\ todo[1][1] # "tcm"
      /\ todo[1] \in Views => todo[1][1] = "window"
      /\ todo[1] = One("free all") => todo[1][1] = "free all"
      /\ todo[1] = One("clear master") => todo[1][1] = "clear master"
  <2>1. /\ \A e \in Views : e[1] = "window"
        /\ \A e \in IrqOns : e[1] = "irq on"
        /\ \A op : One(op)[1] = op
    BY OpsApart, Zenon
  <2> QED
    BY <2>1
<1>4. Handler'
  BY <1>1, <1>2, <1>3, HandlerKeeps, Zenon
<1>5. Contents'
  BY <1>1, <1>2, <1>3, ContentsKeep, Zenon
<1>6. /\ todo[1] \in Views \cup {One("free all")} => master' = master
      /\ todo[1] = One("clear master") => ~master'
      /\ todo[1] \in Views => irq' = irq /\ msi' = msi /\ held' = held
      /\ todo[1] = One("free all") => held' = {}
  BY <1>3
<1> QED
  BY <1>1, <1>3, <1>4, <1>5, <1>6, SetupDrop, Zenon

LEMMA SetupSetWindow == ASSUME TypeOK, SetupPhase, SetWindow PROVE SetupPhase'
<1>0. Head(todo) = todo[1] /\ todo[1] \in Steps
  BY SetupOps, Zenon
<1>1. /\ todo[1][1] = "window"
      /\ tests' = tests /\ nvlen' = nvlen /\ mapped' = mapped /\ tcm' = tcm /\ irq' = irq /\ msi' = msi
      /\ window' = todo[1][2] /\ halt' = halt /\ master' = master /\ held' = held
      /\ Drop(0)
  BY <1>0 DEF SetWindow, At, Arg, Pop, loadVars, armVars, hostVars, irqVars
<1>9. /\ todo[1][1] \notin {"tcm", "irq on", "irq off", "msi off", "bound"}
      /\ todo[1] = See("arm") => todo[1][1] = "window" /\ todo[1][2] = "arm"
  BY <1>1, OpsApart
<1>10. /\ todo[1] = See("arm") => window' = "arm"
       /\ halt /\ todo[1] # Rel => halt'
       /\ todo[1][1] \in {"window", "free all"} => master' = master
       /\ todo[1][1] = "clear master" => ~master'
       /\ todo[1][1] = "window" => held' = held
       /\ todo[1][1] = "free all" => held' = {}
  BY <1>1, <1>9
<1> QED
  BY <1>1, <1>9, <1>10, SetupPlain, Zenon

LEMMA SetupWrite == ASSUME TypeOK, SetupPhase, Write PROVE SetupPhase'
<1>0. Head(todo) = todo[1] /\ todo[1] \in Steps
  BY SetupOps, Zenon
<1>1. /\ todo[1][1] = "write"
      /\ tests' = tests /\ nvlen' = nvlen /\ mapped' = mapped /\ tcm' = tcm /\ irq' = irq /\ msi' = msi
      /\ master' = master /\ held' = held
      /\ halt' = IF window = todo[1][2] /\ todo[1][3] = "halt" /\ todo[1][2] = "arm" THEN todo[1][4] ELSE halt
      /\ Drop(0)
  BY <1>0 DEF Write, At, Arg, Pop, loadVars, armVars, hostVars, irqVars
<1>2. halt /\ todo[1] # Rel => halt'
  <2>1. todo[1] \in ArmW \/ todo[1] \in D11W \/ todo[1] \in PcieW
    BY <1>0, <1>1, Kinds
  <2>2. todo[1] \in ArmW /\ todo[1][3] = "halt" => todo[1] = Rel \/ todo[1][4] = TRUE
    <3>1. todo[1] \in ArmW => todo[1] = Rel \/ todo[1] = Hlt \/ todo[1] = InReset("arm")
      BY DEF ArmW
    <3>2. Hlt[4] = TRUE /\ InReset("arm")[3] # "halt"
      BY DEF Hlt, InReset
    <3> QED
      BY <3>1, <3>2, Zenon
  <2>3. todo[1][2] = "arm" => todo[1] \in ArmW
    <3>1. (todo[1] \in D11W => todo[1][2] = "d11") /\ (todo[1] \in PcieW => todo[1][2] = "pcie")
      BY Tags, ZenonT(60)
    <3> QED
      BY <2>1, <3>1
  <2> QED
    BY <1>1, <2>2, <2>3
<1>9. /\ todo[1][1] \notin {"tcm", "irq on", "irq off", "msi off", "bound"}
      /\ todo[1] = See("arm") => todo[1][1] = "window" /\ todo[1][2] = "arm"
  BY <1>1, OpsApart
<1>10. /\ todo[1] = See("arm") => window' = "arm"
       /\ halt /\ todo[1] # Rel => halt'
       /\ todo[1][1] \in {"window", "free all"} => master' = master
       /\ todo[1][1] = "clear master" => ~master'
       /\ todo[1][1] = "window" => held' = held
       /\ todo[1][1] = "free all" => held' = {}
  BY <1>1, <1>2, <1>9
<1> QED
  BY <1>1, <1>9, <1>10, SetupPlain, Zenon

LEMMA SetupClearReset == ASSUME TypeOK, SetupPhase, ClearReset PROVE SetupPhase'
<1>0. Head(todo) = todo[1] /\ todo[1] \in Steps
  BY SetupOps, Zenon
<1>1. /\ todo[1][1] = "clear reset"
      /\ tests' = tests /\ nvlen' = nvlen /\ mapped' = mapped /\ tcm' = tcm /\ irq' = irq /\ msi' = msi
      /\ halt' = halt /\ master' = master /\ held' = held
      /\ Drop(0)
  BY <1>0 DEF ClearReset, At, Arg, Pop, loadVars, armVars, hostVars, irqVars
<1>9. /\ todo[1][1] \notin {"tcm", "irq on", "irq off", "msi off", "bound"}
      /\ todo[1] = See("arm") => todo[1][1] = "window" /\ todo[1][2] = "arm"
  BY <1>1, OpsApart
<1>10. /\ todo[1] = See("arm") => window' = "arm"
       /\ halt /\ todo[1] # Rel => halt'
       /\ todo[1][1] \in {"window", "free all"} => master' = master
       /\ todo[1][1] = "clear master" => ~master'
       /\ todo[1][1] = "window" => held' = held
       /\ todo[1][1] = "free all" => held' = {}
  BY <1>1, <1>9
<1> QED
  BY <1>1, <1>9, <1>10, SetupPlain, Zenon

LEMMA SetupFlipMask == ASSUME TypeOK, SetupPhase, FlipMask PROVE SetupPhase'
<1>0. Head(todo) = todo[1] /\ todo[1] \in Steps
  BY SetupOps, Zenon
<1>1. /\ todo[1][1] = "flip mask"
      /\ tests' = tests /\ nvlen' = nvlen /\ mapped' = mapped /\ tcm' = tcm /\ irq' = irq /\ msi' = msi
      /\ window' = window /\ halt' = halt /\ master' = master /\ held' = held
      /\ Drop(0)
  BY <1>0 DEF FlipMask, At, Arg, Pop, loadVars, armVars, hostVars, irqVars
<1>9. /\ todo[1][1] \notin {"tcm", "irq on", "irq off", "msi off", "bound"}
      /\ todo[1] = See("arm") => todo[1][1] = "window" /\ todo[1][2] = "arm"
  BY <1>1, OpsApart
<1>10. /\ todo[1] = See("arm") => window' = "arm"
       /\ halt /\ todo[1] # Rel => halt'
       /\ todo[1][1] \in {"window", "free all"} => master' = master
       /\ todo[1][1] = "clear master" => ~master'
       /\ todo[1][1] = "window" => held' = held
       /\ todo[1][1] = "free all" => held' = {}
  BY <1>1, <1>9
<1> QED
  BY <1>1, <1>9, <1>10, SetupPlain, Zenon

LEMMA SetupSetMaster == ASSUME TypeOK, SetupPhase, SetMaster PROVE SetupPhase'
<1>0. Head(todo) = todo[1] /\ todo[1] \in Steps
  BY SetupOps, Zenon
<1>1. /\ todo[1][1] \in {"set master", "clear master"}
      /\ tests' = tests /\ nvlen' = nvlen /\ mapped' = mapped /\ tcm' = tcm /\ irq' = irq /\ msi' = msi
      /\ window' = window /\ halt' = halt /\ held' = held /\ (todo[1][1] = "clear master" => ~master')
      /\ Drop(0)
  BY <1>0 DEF SetMaster, At, Arg, Pop, loadVars, armVars, hostVars, irqVars
<1>9. /\ todo[1][1] \notin {"tcm", "irq on", "irq off", "msi off", "bound"}
      /\ todo[1] = See("arm") => todo[1][1] = "window" /\ todo[1][2] = "arm"
  BY <1>1, OpsApart
<1>10. /\ todo[1] = See("arm") => window' = "arm"
       /\ halt /\ todo[1] # Rel => halt'
       /\ todo[1][1] \in {"window", "free all"} => master' = master
       /\ todo[1][1] = "clear master" => ~master'
       /\ todo[1][1] = "window" => held' = held
       /\ todo[1][1] = "free all" => held' = {}
  BY <1>1, <1>9
<1> QED
  BY <1>1, <1>9, <1>10, SetupPlain, Zenon

LEMMA SetupAlloc == ASSUME TypeOK, SetupPhase, Alloc PROVE SetupPhase'
<1>0. Head(todo) = todo[1] /\ todo[1] \in Steps
  BY SetupOps, Zenon
<1>1. /\ todo[1][1] = "alloc"
      /\ tests' = tests /\ nvlen' = nvlen /\ mapped' = mapped /\ tcm' = tcm /\ irq' = irq /\ msi' = msi
      /\ window' = window /\ halt' = halt /\ master' = master
      /\ Drop(0)
  BY <1>0 DEF Alloc, At, Arg, Pop, loadVars, armVars, hostVars, irqVars
<1>9. /\ todo[1][1] \notin {"tcm", "irq on", "irq off", "msi off", "bound"}
      /\ todo[1] = See("arm") => todo[1][1] = "window" /\ todo[1][2] = "arm"
  BY <1>1, OpsApart
<1>10. /\ todo[1] = See("arm") => window' = "arm"
       /\ halt /\ todo[1] # Rel => halt'
       /\ todo[1][1] \in {"window", "free all"} => master' = master
       /\ todo[1][1] = "clear master" => ~master'
       /\ todo[1][1] = "window" => held' = held
       /\ todo[1][1] = "free all" => held' = {}
  BY <1>1, <1>9
<1> QED
  BY <1>1, <1>9, <1>10, SetupPlain, Zenon

LEMMA SetupFreeAll == ASSUME TypeOK, SetupPhase, FreeAll PROVE SetupPhase'
<1>0. Head(todo) = todo[1] /\ todo[1] \in Steps
  BY SetupOps, Zenon
<1>1. /\ todo[1][1] = "free all"
      /\ tests' = tests /\ nvlen' = nvlen /\ mapped' = mapped /\ tcm' = tcm /\ irq' = irq /\ msi' = msi
      /\ window' = window /\ halt' = halt /\ master' = master /\ held' = {}
      /\ Drop(0)
  BY <1>0 DEF FreeAll, At, Arg, Pop, loadVars, armVars, hostVars, irqVars
<1>9. /\ todo[1][1] \notin {"tcm", "irq on", "irq off", "msi off", "bound"}
      /\ todo[1] = See("arm") => todo[1][1] = "window" /\ todo[1][2] = "arm"
  BY <1>1, OpsApart
<1>10. /\ todo[1] = See("arm") => window' = "arm"
       /\ halt /\ todo[1] # Rel => halt'
       /\ todo[1][1] \in {"window", "free all"} => master' = master
       /\ todo[1][1] = "clear master" => ~master'
       /\ todo[1][1] = "window" => held' = held
       /\ todo[1][1] = "free all" => held' = {}
  BY <1>1, <1>9
<1> QED
  BY <1>1, <1>9, <1>10, SetupPlain, Zenon

LEMMA SetupReadReset == ASSUME TypeOK, SetupPhase, ReadReset PROVE SetupPhase'
<1>0. Head(todo) = todo[1] /\ todo[1] \in Steps
  BY SetupOps, Zenon
<1>1. /\ todo[1][1] = "skip if in reset"
      /\ tests' = tests /\ nvlen' = nvlen /\ mapped' = mapped /\ tcm' = tcm /\ irq' = irq /\ msi' = msi
      /\ window' = window /\ halt' = halt /\ master' = master /\ held' = held
      /\ Drop(0) \/ Drop(todo[1][3])
  BY <1>0 DEF ReadReset, At, Arg, Pop, loadVars, armVars, hostVars, irqVars
<1>2. Drop(0) \/ Drop(Span(todo[1]))
  <2>1. Span(todo[1]) = 4
    BY <1>0, <1>1, SpanIs, Zenon
  <2>2. todo[1] = Skip("arm") \/ todo[1] = Skip("d11")
    BY <1>0, <1>1, Kinds
  <2>3. todo[1][3] = 4
    <3>1. Skip("arm")[3] = 4 /\ Skip("d11")[3] = 4
      BY Tags, ZenonT(60)
    <3> QED
      BY <2>2, <3>1, Zenon
  <2> QED
    BY <1>1, <2>1, <2>3, Zenon
<1>9. /\ todo[1][1] \notin {"tcm", "irq on", "irq off", "msi off", "bound"}
      /\ todo[1] = See("arm") => todo[1][1] = "window" /\ todo[1][2] = "arm"
  BY <1>1, OpsApart
<1>10. /\ todo[1] = See("arm") => window' = "arm"
       /\ halt /\ todo[1] # Rel => halt'
       /\ todo[1][1] \in {"window", "free all"} => master' = master
       /\ todo[1][1] = "clear master" => ~master'
       /\ todo[1][1] = "window" => held' = held
       /\ todo[1][1] = "free all" => held' = {}
  BY <1>1, <1>2, <1>9
<1>11. CASE Drop(0)
  BY <1>1, <1>9, <1>10, <1>11, SetupPlain, Zenon
<1>12. CASE Drop(Span(todo[1]))
  BY <1>1, <1>9, <1>10, <1>12, SetupPlain, Zenon
<1> QED
  BY <1>2, <1>11, <1>12, Zenon

LEMMA SetupAllocOlmsg == ASSUME TypeOK, SetupPhase, AllocOlmsg PROVE SetupPhase'
<1>0. Head(todo) = todo[1] /\ todo[1] \in Steps
  BY SetupOps, Zenon
<1>1. /\ todo[1][1] = "olmsg"
      /\ tests' = tests /\ nvlen' = nvlen /\ mapped' = mapped /\ tcm' = tcm /\ irq' = irq /\ msi' = msi
      /\ window' = window /\ halt' = halt /\ master' = master /\ held' = held
      /\ Drop(0) \/ Drop(1)
  BY <1>0 DEF AllocOlmsg, At, Arg, Pop, loadVars, armVars, hostVars, irqVars
<1>2. Drop(0) \/ Drop(Span(todo[1]))
  <2>1. Span(todo[1]) = 1
    BY <1>0, <1>1, SpanIs, Zenon
  <2> QED
    BY <1>1, <2>1, Zenon
<1>9. /\ todo[1][1] \notin {"tcm", "irq on", "irq off", "msi off", "bound"}
      /\ todo[1] = See("arm") => todo[1][1] = "window" /\ todo[1][2] = "arm"
  BY <1>1, OpsApart
<1>10. /\ todo[1] = See("arm") => window' = "arm"
       /\ halt /\ todo[1] # Rel => halt'
       /\ todo[1][1] \in {"window", "free all"} => master' = master
       /\ todo[1][1] = "clear master" => ~master'
       /\ todo[1][1] = "window" => held' = held
       /\ todo[1][1] = "free all" => held' = {}
  BY <1>1, <1>2, <1>9
<1>11. CASE Drop(0)
  BY <1>1, <1>9, <1>10, <1>11, SetupPlain, Zenon
<1>12. CASE Drop(Span(todo[1]))
  BY <1>1, <1>9, <1>10, <1>12, SetupPlain, Zenon
<1> QED
  BY <1>2, <1>11, <1>12, Zenon

LEMMA SetupIfOlmsg == ASSUME TypeOK, SetupPhase, IfOlmsg PROVE SetupPhase'
<1>0. Head(todo) = todo[1] /\ todo[1] \in Steps
  BY SetupOps, Zenon
<1>1. /\ todo[1][1] = "skip unless olmsg"
      /\ tests' = tests /\ nvlen' = nvlen /\ mapped' = mapped /\ tcm' = tcm /\ irq' = irq /\ msi' = msi
      /\ window' = window /\ halt' = halt /\ master' = master /\ held' = held
      /\ Drop(0) \/ Drop(todo[1][2])
  BY <1>0 DEF IfOlmsg, At, Arg, Pop, loadVars, armVars, hostVars, irqVars
<1>2. Drop(0) \/ Drop(Span(todo[1]))
  <2>1. Span(todo[1]) = todo[1][2]
    BY <1>0, <1>1, SpanIs
  <2> QED
    BY <1>1, <2>1, Zenon
<1>9. /\ todo[1][1] \notin {"tcm", "irq on", "irq off", "msi off", "bound"}
      /\ todo[1] = See("arm") => todo[1][1] = "window" /\ todo[1][2] = "arm"
  BY <1>1, OpsApart
<1>10. /\ todo[1] = See("arm") => window' = "arm"
       /\ halt /\ todo[1] # Rel => halt'
       /\ todo[1][1] \in {"window", "free all"} => master' = master
       /\ todo[1][1] = "clear master" => ~master'
       /\ todo[1][1] = "window" => held' = held
       /\ todo[1][1] = "free all" => held' = {}
  BY <1>1, <1>2, <1>9
<1>11. CASE Drop(0)
  BY <1>1, <1>9, <1>10, <1>11, SetupPlain, Zenon
<1>12. CASE Drop(Span(todo[1]))
  BY <1>1, <1>9, <1>10, <1>12, SetupPlain, Zenon
<1> QED
  BY <1>2, <1>11, <1>12, Zenon

LEMMA Seconds ==
  /\ \A a \in Nat : a >= 1 => 1 \in 1 .. a
  /\ \A b \in Nat : 1 < 0 + 1 + b => 1 \in 1 .. b
  /\ \A b \in Nat : \A j \in 1 .. (0 + 1 + b) - 1 : 1 \in 1 .. b
  /\ 0 + 1 + 1 = 1 + 1
  /\ \A b \in Nat : \A n \in 1 .. 3 : 1 + n + 1 <= n + 1 + b => 1 \in 1 .. b /\ n + 1 + 1 = 1 + n + 1
  OBVIOUS

\* A store: what it writes where an image is, is that image.
LEMMA SetupWriteTcm == ASSUME TypeOK, SetupPhase, WriteTcm PROVE SetupPhase'
<1>0. Head(todo) = todo[1] /\ todo[1] \in Steps
  BY SetupOps, Zenon
<1>1. /\ todo[1][1] = "tcm"
      /\ tests' = tests /\ nvlen' = nvlen /\ mapped' = mapped /\ irq' = irq /\ msi' = msi
      /\ window' = window /\ halt' = halt /\ master' = master /\ held' = held
      /\ Landed /\ Drop(0)
  BY <1>0 DEF WriteTcm, At, Arg, Pop, Landed, loadVars, armVars, hostVars, irqVars
<1>2. Dropped(todo, todo', 0)
  BY <1>1, SetupTake, Zenon
<1>3. todo \in Seq(Steps) /\ Handler /\ Contents /\ nvlen \in NvramLens /\ todo[1] \in Stores(tests, nvlen)
  BY <1>1, SetupOps, Zenon DEF SetupPhase
<1>4. /\ todo[1] \notin IrqOns /\ todo[1] \notin {One("irq off"), One("msi off")} /\ todo[1] # One("bound")
      /\ todo[1] \notin Views /\ todo[1] # One("free all") /\ todo[1] # One("clear master") /\ todo[1] # See("arm")
  <2>1. /\ \A e \in Views : e[1] = "window"
        /\ \A e \in IrqOns : e[1] = "irq on"
        /\ \A op : One(op)[1] = op
        /\ See("arm")[1] = "window"
    BY OpsApart, Zenon
  <2> QED
    BY <1>1, <2>1
<1>5. Handler'
  BY <1>1, <1>2, <1>3, <1>4, HandlerKeeps, Zenon
<1>6. Contents'
  BY <1>1, <1>2, <1>3, ContentsKeep, Zenon
<1> QED
  BY <1>1, <1>2, <1>4, <1>5, <1>6, SetupDrop

\* The handler's own steps.
LEMMA SetupIrq ==
  ASSUME TypeOK, SetupPhase, NEW n, n = 0 \/ n = Span(todo[1]), Drop(n),
         todo[1][1] \in {"msi on", "msi off", "irq on", "irq off"},
         tests' = tests, nvlen' = nvlen, mapped' = mapped, tcm' = tcm, window' = window, halt' = halt, master' = master, held' = held,
         Handler'
  PROVE  SetupPhase'
<1>1. Dropped(todo, todo', n)
  BY SetupTake, Zenon
<1>2. Contents /\ nvlen \in NvramLens
  BY Zenon DEF SetupPhase
<1>3. /\ todo[1][1] # "tcm" /\ todo[1] # One("bound") /\ todo[1] # See("arm")
      /\ todo[1] \notin Views /\ todo[1] # One("free all") /\ todo[1] # One("clear master")
  <2>1. /\ \A e \in Views : e[1] = "window"
        /\ \A op : One(op)[1] = op
        /\ See("arm")[1] = "window"
    BY OpsApart, Zenon
  <2> QED
    BY <2>1
<1>4. Contents'
  BY <1>1, <1>2, <1>3, ContentsKeep, Zenon
<1> QED
  BY <1>1, <1>3, <1>4, SetupDrop

LEMMA SetupEnableMsi == ASSUME TypeOK, SetupPhase, EnableMsi PROVE SetupPhase'
<1>0. Head(todo) = todo[1] /\ todo[1] \in Steps /\ todo \in Seq(Steps) /\ Handler /\ Framed(todo) /\ todo # <<>>
  BY SetupOps, Zenon DEF SetupPhase, SetupList, Static
<1>1. /\ todo[1][1] \in {"msi on", "msi off"}
      /\ tests' = tests /\ nvlen' = nvlen /\ mapped' = mapped /\ tcm' = tcm /\ window' = window
      /\ halt' = halt /\ master' = master /\ held' = held /\ irq' = irq
      /\ todo[1][1] = "msi off" => ~msi'
      /\ Drop(0)
  BY <1>0 DEF EnableMsi, At, Arg, Pop, loadVars, armVars, hostVars, irqVars
<1>2. todo[1] = One(todo[1][1])
  <2>1. todo[1][1] \notin Tagged
    BY <1>1 DEF Tagged
  <2> QED
    BY <1>0, <2>1, Kinds, Tags, ZenonT(60)
<1>3. irq = "none" /\ (todo[1][1] = "msi on" => ~msi)
  <2>1. /\ irq # "none" => todo[1] \in PcieW \cup {One("irq off")}
        /\ irq # "none" \/ msi => todo[1] \in PcieW \cup IrqOns \cup {One("irq off"), One("msi off")}
    BY <1>0, HandlerHead, Zenon
  <2>2. (\A e \in PcieW : e[1] = "write") /\ (\A e \in IrqOns : e[1] = "irq on") /\ \A op : One(op)[1] = op
    BY OpsApart, Zenon
  <2> QED
    BY <1>1, <2>1, <2>2
<1>4. Dropped(todo, todo', 0)
  BY <1>1, SetupTake, Zenon
<1>5. todo[1][1] = "msi on" => todo'[1] \in IrqOns
  <2> SUFFICES ASSUME todo[1][1] = "msi on" PROVE todo'[1] \in IrqOns
    OBVIOUS
  <2>1. /\ Len(todo) \in Nat /\ Len(todo') \in Nat /\ Len(todo) = 0 + 1 + Len(todo')
        /\ \A i \in 1 .. Len(todo') : todo'[i] = todo[0 + 1 + i]
    BY <1>4, Zenon DEF Dropped, Left
  <2>2. 1 \in 1 .. Len(todo)
    <3>1. Len(todo) >= 1
      BY <1>0, Lengths, Zenon
    <3> QED
      BY <2>1, <3>1, Seconds, Zenon
  <2>3. 1 < Len(todo) /\ todo[1 + 1] \in IrqOns
    BY <1>2, <2>2, <1>0, Zenon DEF Framed
  <2>4. 1 \in 1 .. Len(todo') /\ 0 + 1 + 1 = 1 + 1
    <3>1. 1 < 0 + 1 + Len(todo')
      BY <2>1, <2>3, Zenon
    <3> QED
      BY <2>1, <3>1, Seconds, Zenon
  <2> QED
    BY <2>1, <2>3, <2>4, Zenon
<1>6. Handler'
  <2>1. irq' = "none" /\ irq' # "msi"
    BY <1>1, <1>3
  <2>2. todo[1][1] = "msi on" \/ todo[1][1] = "msi off"
    BY <1>1
  <2> QED
    BY <1>1, <1>5, <2>1, <2>2, Zenon DEF Handler
<1>7. todo[1][1] \in {"msi on", "msi off", "irq on", "irq off"}
  BY <1>1
<1> QED
  BY <1>1, <1>6, <1>7, SetupIrq, Zenon

LEMMA SetupFreeIrq == ASSUME TypeOK, SetupPhase, FreeIrq PROVE SetupPhase'
<1>0. Head(todo) = todo[1] /\ todo[1] \in Steps /\ todo \in Seq(Steps) /\ Handler /\ todo # <<>>
  BY SetupOps, Zenon DEF SetupPhase
<1>1. /\ todo[1][1] = "irq off"
      /\ tests' = tests /\ nvlen' = nvlen /\ mapped' = mapped /\ tcm' = tcm /\ window' = window
      /\ halt' = halt /\ master' = master /\ held' = held /\ irq' = "none" /\ msi' = msi
      /\ Drop(0)
  BY <1>0 DEF FreeIrq, At, Arg, Pop, loadVars, armVars, hostVars, irqVars
<1>2. Dropped(todo, todo', 0)
  BY <1>1, SetupTake, Zenon
<1>3. irq # "none" => todo'[1] = One("msi off")
  <2> SUFFICES ASSUME irq # "none" PROVE todo'[1] = One("msi off")
    OBVIOUS
  <2>1. /\ Len(todo) \in Nat /\ Len(todo') \in Nat /\ Len(todo) = 0 + 1 + Len(todo')
        /\ \A i \in 1 .. Len(todo') : todo'[i] = todo[0 + 1 + i]
    BY <1>2, Zenon DEF Dropped, Left
  <2>2. PICK j \in 1 .. Len(todo) - 1 : todo[j] = One("irq off") /\ todo[j + 1] = One("msi off") /\ \A k \in 1 .. j - 1 : todo[k] \in PcieW
    BY <1>0, Zenon DEF Handler, IrqLeft
  <2>3. todo[1] \notin PcieW
    <3>1. \A e \in PcieW : e[1] = "write"
      BY OpsApart, Zenon
    <3> QED
      BY <1>1, <3>1
  <2>4. ~(1 \in 1 .. j - 1)
    BY <2>2, <2>3, Zenon
  <2>5. j = 1
    BY <2>1, <2>2, <2>4, OneBefore, Zenon
  <2>6. 1 \in 1 .. Len(todo') /\ 0 + 1 + 1 = 1 + 1
    <3>1. j \in 1 .. (0 + 1 + Len(todo')) - 1
      BY <2>1, <2>2, Zenon
    <3> QED
      BY <2>1, <3>1, Seconds, Zenon
  <2>7. todo[1 + 1] = One("msi off")
    BY <2>2, <2>5, Zenon
  <2> QED
    BY <2>1, <2>6, <2>7, Zenon
<1>4. irq = "none" => ~msi
  <2>1. irq = "none" /\ msi => todo[1] \in IrqOns \/ todo[1] = One("msi off")
    BY <1>0, Zenon DEF Handler
  <2>2. (\A e \in IrqOns : e[1] = "irq on") /\ \A op : One(op)[1] = op
    BY OpsApart, Zenon
  <2> QED
    BY <1>1, <2>1, <2>2
<1>5. Handler'
  <2>1. irq' = "none" /\ irq' # "msi"
    BY <1>1
  <2> QED
    BY <1>1, <1>3, <1>4, <2>1, Zenon DEF Handler
<1>6. todo[1][1] \in {"msi on", "msi off", "irq on", "irq off"}
  BY <1>1
<1> QED
  BY <1>1, <1>5, <1>6, SetupIrq, Zenon

LEMMA IrqLengths ==
  ASSUME NEW b \in Nat, NEW n \in 1 .. 3, 1 + n + 1 <= 0 + 1 + b
  PROVE  /\ n \in 1 .. b - 1 /\ n \in 1 .. b /\ n + 1 \in 1 .. b /\ 0 + 1 + n = 1 + n /\ 0 + 1 + (n + 1) = 1 + n + 1
         /\ \A k \in 1 .. n - 1 : k \in 1 .. b /\ 0 + 1 + k \in 1 + 1 .. 1 + n - 1
         /\ n + 1 + 1 = 1 + n + 1
  OBVIOUS

LEMMA SetupRequestIrq == ASSUME TypeOK, SetupPhase, RequestIrq PROVE SetupPhase'
<1>0. Head(todo) = todo[1] /\ todo[1] \in Steps /\ todo \in Seq(Steps) /\ Handler /\ Framed(todo) /\ todo # <<>>
  BY SetupOps, Zenon DEF SetupPhase, SetupList, Static
<1>1. /\ todo[1][1] = "irq on"
      /\ tests' = tests /\ nvlen' = nvlen /\ mapped' = mapped /\ tcm' = tcm /\ window' = window
      /\ halt' = halt /\ master' = master /\ held' = held /\ msi' = msi
      /\ \/ irq' = (IF msi THEN "msi" ELSE "line") /\ Drop(0)
         \/ irq' = irq /\ Drop(todo[1][2])
  BY <1>0 DEF RequestIrq, At, Arg, Pop, loadVars, armVars, hostVars, irqVars
<1>2. PICK n \in 1 .. 3 : todo[1] = IrqOn(n) /\ todo[1][2] = n
  <2>1. todo[1] \in IrqOns
    BY <1>0, <1>1, Kinds
  <2>2. todo[1] = IrqOn1 \/ todo[1] = IrqOn3
    BY <2>1 DEF IrqOns
  <2>3. IrqOn1 = IrqOn(1) /\ IrqOn3 = IrqOn(3) /\ \A m : IrqOn(m)[2] = m
    BY IrqNumbers, Tags, ZenonT(60)
  <2>4. 1 \in 1 .. 3 /\ 3 \in 1 .. 3
    OBVIOUS
  <2> QED
    BY <2>2, <2>3, <2>4, Zenon
<1>3. n = Span(todo[1])
  BY <1>0, <1>1, <1>2, SpanIs
<1>4. /\ Len(todo) \in Nat /\ 1 + n + 1 <= Len(todo) /\ todo[1 + n] = One("irq off") /\ todo[1 + n + 1] = One("msi off")
      /\ \A k \in 1 + 1 .. 1 + n - 1 : todo[k] \in PcieW
  <2>1. Len(todo) \in Nat /\ Len(todo) >= 1
    BY <1>0, Lengths, Zenon
  <2>2. 1 \in 1 .. Len(todo)
    BY <2>1
  <2> QED
    BY <1>0, <1>2, <2>1, <2>2, Zenon DEF Framed
<1>5. irq = "none"
  <2>1. irq # "none" => todo[1] \in PcieW \cup {One("irq off")}
    BY <1>0, HandlerHead, Zenon
  <2>2. (\A e \in PcieW : e[1] = "write") /\ \A op : One(op)[1] = op
    BY OpsApart, Zenon
  <2> QED
    BY <1>1, <2>1, <2>2
<1>6. todo[1][1] \in {"msi on", "msi off", "irq on", "irq off"}
  BY <1>1
<1>7. CASE irq' = (IF msi THEN "msi" ELSE "line") /\ Drop(0)
  <2>1. Dropped(todo, todo', 0)
    BY <1>7, SetupTake, Zenon
  <2>2. /\ Len(todo') \in Nat /\ Len(todo) = 0 + 1 + Len(todo')
        /\ \A i \in 1 .. Len(todo') : todo'[i] = todo[0 + 1 + i]
    BY <2>1, Zenon DEF Dropped, Left
  <2>3. 1 + n + 1 <= 0 + 1 + Len(todo') /\ Len(todo') \in Nat /\ n \in 1 .. 3
    BY <1>2, <1>4, <2>2, Zenon
  <2>4. /\ n \in 1 .. Len(todo') - 1 /\ n \in 1 .. Len(todo') /\ n + 1 \in 1 .. Len(todo') /\ 0 + 1 + n = 1 + n /\ 0 + 1 + (n + 1) = 1 + n + 1
        /\ \A k \in 1 .. n - 1 : k \in 1 .. Len(todo') /\ 0 + 1 + k \in 1 + 1 .. 1 + n - 1
    BY <2>3, IrqLengths, Zenon
  <2>5. todo'[n] = One("irq off") /\ todo'[n + 1] = One("msi off") /\ \A k \in 1 .. n - 1 : todo'[k] \in PcieW
    BY <1>4, <2>2, <2>4, Zenon
  <2>6. IrqLeft(todo')
    BY <2>4, <2>5, Zenon DEF IrqLeft
  <2>7. irq' # "none" /\ (irq' = "msi" => msi')
    BY <1>1, <1>7
  <2>8. Handler'
    BY <2>6, <2>7, Zenon DEF Handler
  <2> QED
    BY <1>1, <1>6, <1>7, <2>8, SetupIrq, Zenon
<1>8. CASE irq' = irq /\ Drop(todo[1][2])
  <2>0. Drop(n)
    BY <1>2, <1>8, Zenon
  <2>1. Dropped(todo, todo', n)
    BY <1>3, <2>0, SetupTake, Zenon
  <2>2. /\ Len(todo') \in Nat /\ Len(todo) = n + 1 + Len(todo')
        /\ \A i \in 1 .. Len(todo') : todo'[i] = todo[n + 1 + i]
    BY <2>1, Zenon DEF Dropped, Left
  <2>3. 1 \in 1 .. Len(todo') /\ n + 1 + 1 = 1 + n + 1
    <3>1. 1 + n + 1 <= n + 1 + Len(todo')
      BY <1>4, <2>2, Zenon
    <3> QED
      BY <1>2, <2>2, <3>1, Seconds, Zenon
  <2>4. todo'[1] = One("msi off")
    BY <1>4, <2>2, <2>3, Zenon
  <2>5. irq' = "none" /\ irq' # "msi"
    BY <1>5, <1>8
  <2>6. Handler'
    BY <2>4, <2>5, Zenon DEF Handler
  <2> QED
    BY <1>1, <1>3, <1>6, <2>0, <2>6, SetupIrq, Zenon
<1> QED
  BY <1>1, <1>7, <1>8

\* A step that puts others in its place.
LEMMA TailIs ==
  ASSUME NEW s \in Seq(Steps), s # <<>>, Static(s)
  PROVE  Dropped(s, Tail(s), 0) /\ Tail(s) \in Seq(Steps)
<1>1. Len(s) \in Nat /\ Len(s) >= 1
  BY Lengths, Zenon
<1>2. Tail(s) \in Seq(Steps) /\ Len(Tail(s)) = Len(s) - 1 /\ \A i \in 1 .. Len(Tail(s)) : Tail(s)[i] = s[i + 1]
  BY HeadTailProperties
<1>3. /\ Len(Tail(s)) \in Nat /\ Len(s) = 0 + 1 + Len(Tail(s)) /\ 0 + 1 \in Nat /\ 0 \in Nat /\ 0 + 1 <= Len(s)
      /\ \A i \in 1 .. Len(Tail(s)) : i + 1 = 0 + 1 + i /\ 0 + 1 + i \in 1 .. Len(s)
  BY <1>1, <1>2
<1> QED
  BY <1>1, <1>2, <1>3, Zenon DEF Dropped, Left

LEMMA LongEnough == \A m \in Nat, k \in Nat : k >= 3 => m + k >= 3 /\ ~(m + k <= 2) /\ ~(m + k <= 1)
  OBVIOUS
LEMMA LessOne == \A m \in Nat : 0 + 1 + m >= 4 => m >= 3
  OBVIOUS

LEMMA EmptyLength == Len(<<>>) = 0 /\ ~(0 >= 3) /\ 0 <= 2
  OBVIOUS
LEMMA LaterIndex == \A m \in Nat : \A i \in 1 .. m : \A j \in i + 1 .. m : j \in 1 .. m
  OBVIOUS

LEMMA SetupInsert ==
  ASSUME TypeOK, SetupPhase, NEW d, Piece(d, Body(tests, nvlen)), Sealed(d), halt => NoRel(d),
         todo[1][1] \in {"disable arm", "around", "round trip"}, todo' = d \o Tail(todo),
         tests' = tests, nvlen' = nvlen, mapped' = mapped, window' = window, halt' = halt, master' = master,
         held' = held, irq' = irq, msi' = msi,
         \A c \in Cuts : c \notin In(ProbeWord) => tcm'[c] = tcm[c]
  PROVE  SetupPhase'
<1> DEFINE V == Setting(tests, nvlen)
<1> DEFINE W == V \cup Ending
<1>0. /\ todo # <<>> /\ todo \in Seq(Steps) /\ Static(todo) /\ Len(todo) >= 4
      /\ Only(todo, W) /\ RelLast(todo) /\ Before(todo, One("fw"), Views)
      /\ Closes(todo, V, One("clear master"), One("free all"), One("bound"))
      /\ Handler /\ Contents /\ mapped /\ nvlen \in NvramLens
  <2>1. todo[1][1] \in BodyOps \cup {"fw"}
    BY DEF BodyOps, WorkOps, CoredOps
  <2> QED
    BY <2>1, SetupOps, Zenon DEF SetupPhase, SetupList
<1>1. PICK t : t = Tail(todo)
  OBVIOUS
<1>2. Dropped(todo, t, 0) /\ Left(todo, t, 0 + 1) /\ t \in Seq(Steps)
  BY <1>0, <1>1, TailIs, Zenon DEF Dropped
<1>3. /\ todo[1] \notin IrqOns /\ todo[1] \notin {One("irq off"), One("msi off")} /\ todo[1] \notin PcieW
      /\ todo[1] \notin Views /\ todo[1] # See("arm") /\ todo[1][1] # "tcm"
  <2>1. /\ \A e \in Views : e[1] = "window"
        /\ \A e \in IrqOns : e[1] = "irq on"
        /\ \A e \in PcieW : e[1] = "write"
        /\ \A op : One(op)[1] = op
        /\ See("arm")[1] = "window"
    BY OpsApart, Zenon
  <2>2. todo[1][1] \notin {"window", "irq on", "write", "irq off", "msi off", "tcm"}
    OBVIOUS
  <2>3. /\ todo[1][1] # "window" /\ todo[1][1] # "irq on" /\ todo[1][1] # "write" /\ todo[1][1] # "irq off"
        /\ todo[1][1] # "msi off" /\ todo[1][1] # "tcm"
    BY <2>2, Zenon
  <2>4. todo[1] \notin {One("irq off"), One("msi off")}
    BY <2>1, <2>3
  <2> QED
    BY <2>1, <2>3, <2>4, Zenon
<1> DEFINE B == Body(tests, nvlen)
<1>4. B \subseteq V /\ V \subseteq W /\ B \subseteq W /\ One("fw") \notin B
  <2>1. One("fw")[1] = "fw" /\ \A e \in B : e[1] \in BodyOps
    BY Tags, Ops, ZenonT(40)
  <2>2. "fw" \notin BodyOps
    BY DEF BodyOps, WorkOps, CoredOps
  <2>3. B \subseteq V
    BY DEF Setting
  <2> HIDE DEF B, V
  <2> QED
    BY <2>1, <2>2, <2>3
<1> HIDE DEF V, W, B
<1>5. Starts(t)
  BY <1>2, <1>3, DroppedAim, Zenon DEF Starts
<1>6. Static(t)
  BY <1>0, <1>2, LeftStatic, Zenon
<1>7. Only(t, W) /\ RelLast(t) /\ (Sealed(todo) => Sealed(t))
  BY <1>0, <1>2, LeftKeeps, Zenon
<1>25. Piece(d, B)
  BY DEF B
<1>8. Piece(t, W) /\ Piece(d, W)
  BY <1>25, <1>2, <1>4, <1>5, <1>6, <1>7, Wider, Zenon DEF Piece
<1>9. Joint(todo', d, t) /\ Piece(todo', W)
  <2>1. todo' = d \o t
    BY <1>1, Zenon
  <2> QED
    BY <1>8, <2>1, Glue, Zenon
<1>10. ~Has(t, One("fw")) /\ ~Has(d, One("fw"))
  <2>1. ~Has(t, One("fw"))
    BY <1>0, <1>2, <1>3, DroppedBefore, Zenon
  <2>2. Only(d, B)
    BY <1>25, Zenon DEF Piece
  <2>3. ~Has(d, One("fw"))
    BY <1>4, <2>2, Zenon DEF Only, Has
  <2> QED
    BY <2>1, <2>3
<1>11. ~Has(todo', One("fw"))
  BY <1>9, <1>10, JointKeeps, Zenon
<1>12. Before(todo', One("fw"), Views)
  BY <1>11, Zenon DEF Before, Has
<1>13. halt \/ Sealed(t)
  BY <1>7, Zenon DEF SetupPhase
<1>14. RelLast(d)
  <2>1. \A i \in 1 .. Len(d) : \A j \in i + 1 .. Len(d) : j \in 1 .. Len(d)
    <3>1. Len(d) \in Nat
      BY Lengths, Zenon DEF Piece
    <3> QED
      BY <3>1, LaterIndex, Zenon
  <2> QED
    BY <2>1, Zenon DEF Sealed, RelLast
<1>15. RelLast(todo')
  BY <1>7, <1>9, <1>13, <1>14, JointKeeps, Zenon
<1>16. halt' \/ Sealed(todo')
  BY <1>9, <1>13, JointKeeps, Zenon
<1>17. Len(t) \in Nat /\ Len(d) \in Nat /\ Len(todo') = Len(d) + Len(t) /\ Len(t) >= 3
  <2>1. Len(t) \in Nat /\ Len(d) \in Nat /\ Len(todo') = Len(d) + Len(t)
    BY <1>9, Zenon DEF Joint
  <2>2. Len(todo) = 0 + 1 + Len(t)
    BY <1>2, Zenon DEF Left
  <2>3. 0 + 1 + Len(t) >= 4
    BY <1>0, <2>2, Zenon
  <2> QED
    BY <2>1, <2>3, LessOne, Zenon
<1>18. ~(Len(todo') <= 2) /\ ~(Len(todo') <= 1)
  <2>1. ~(Len(d) + Len(t) <= 2) /\ ~(Len(d) + Len(t) <= 1)
    BY <1>17, LongEnough, Zenon
  <2> QED
    BY <1>17, <2>1, Zenon
<1>19. Closes(todo', V, One("clear master"), One("free all"), One("bound"))
  <2>1. t # <<>>
    <3>1. Len(<<>>) = 0 /\ ~(0 >= 3)
      BY EmptyLength
    <3> QED
      BY <1>17, <3>1, Zenon
  <2>2. Closes(t, V, One("clear master"), One("free all"), One("bound"))
    BY <1>0, <1>2, <2>1, LeftKeeps, Zenon
  <2>3. Only(d, V)
    BY <1>4, <1>25, Zenon DEF Piece, Only
  <2> QED
    BY <1>9, <1>17, <2>2, <2>3, JointCloses, Zenon
<1>20. SetupList(todo)'
  BY <1>9, <1>12, <1>15, <1>19, Zenon DEF SetupList, Piece, V, W
<1>21. Aimed'
  <2>1. todo' # <<>>
    <3>1. Len(<<>>) = 0 /\ 0 <= 2
      BY EmptyLength
    <3> QED
      BY <1>18, <3>1, Zenon
  <2> QED
    BY <1>9, <2>1, Zenon DEF Piece, Starts, Aimed
<1>22. Handler'
  <2>1. irq = "none" /\ ~msi
    BY <1>0, <1>3, HandlerHead
  <2>2. irq' = "none" /\ ~msi' /\ irq' # "msi"
    BY <2>1
  <2> QED
    BY <2>2, Zenon DEF Handler
<1>23. \A f : Has(todo, f) /\ f \notin Light /\ f # todo[1] => Has(todo', f)
  <2>1. \A f : Has(todo, f) /\ f \notin Light /\ f # todo[1] => Has(t, f)
    BY <1>2, DroppedHas, Zenon
  <2> QED
    BY <1>9, <2>1, JointKeeps, Zenon
<1>24. Contents'
  <2>1. FwStore \notin Light /\ NvramStore(nvlen) \notin Light /\ SeedStore(nvlen) \notin Light
    BY NotLight, Zenon
  <2>2. FwStore[1] = "tcm" /\ NvramStore(nvlen)[1] = "tcm" /\ SeedStore(nvlen)[1] = "tcm"
    BY DEF FwStore, NvramStore, SeedStore
  <2>3. \A f \in {FwStore, NvramStore(nvlen), SeedStore(nvlen)} : Has(todo, f) => Has(todo', f)
    BY <1>3, <1>23, <2>1, <2>2
  <2>4. (Firmware)' = Firmware /\ (FwStore)' = FwStore
    BY DEF Firmware, FwStore
  <2>5. tests' = tests /\ nvlen' = nvlen
    OBVIOUS
  <2>6. \A r : \A c \in In(r) : c \in Cuts
    BY DEF In
  <2>7. /\ \A c \in In(Firmware) : tcm'[c] = tcm[c]
        /\ \A c \in In(Nvram(nvlen)) : tcm'[c] = tcm[c]
        /\ \A c \in In(Seed(nvlen)) : tcm'[c] = tcm[c]
    BY <1>0, <2>6, LayoutIs, Zenon
  <2> QED
    BY <1>0, <2>3, <2>4, <2>5, <2>7 DEF Contents, Filled, Whole, On
<1> QED
  BY <1>0, <1>11, <1>16, <1>18, <1>20, <1>21, <1>22, <1>24, Zenon DEF SetupPhase

LEMMA SetupReadHalt == ASSUME TypeOK, SetupPhase, ReadHalt PROVE SetupPhase'
<1>0. Head(todo) = todo[1]
  BY SetupOps, Zenon
<1>1. /\ todo[1][1] \in {"disable arm", "around", "round trip"} /\ todo' = DisableArm \o Tail(todo)
      /\ tests' = tests /\ nvlen' = nvlen /\ mapped' = mapped /\ tcm' = tcm /\ window' = window
      /\ halt' = halt /\ master' = master /\ held' = held /\ irq' = irq /\ msi' = msi
  BY <1>0 DEF ReadHalt, At, loadVars, armVars, hostVars, irqVars
<1>2. Post(DisableArm, Cored) /\ (halt => Pre(DisableArm, Cored))
  BY DisableArmList, Zenon DEF TypeOK
<1>3. Cored \subseteq Body(tests, nvlen)
  BY StepKinds DEF Body
<1>4. Piece(DisableArm, Body(tests, nvlen)) /\ Sealed(DisableArm) /\ (halt => NoRel(DisableArm))
  BY <1>2, <1>3, Wider, Zenon DEF Pre, Post
<1> QED
  BY <1>1, <1>4, SetupInsert, Zenon

LEMMA SetupSaveWindow == ASSUME TypeOK, SetupPhase, SaveWindow PROVE SetupPhase'
<1>0. Head(todo) = todo[1] /\ todo[1] \in Steps
  BY SetupOps, Zenon
<1>1. /\ todo[1][1] = "around" /\ todo' = todo[1][2] \o View(window) \o Tail(todo)
      /\ tests' = tests /\ nvlen' = nvlen /\ mapped' = mapped /\ tcm' = tcm /\ window' = window
      /\ halt' = halt /\ master' = master /\ held' = held /\ irq' = irq /\ msi' = msi
  BY <1>0 DEF SaveWindow, At, Arg, loadVars, armVars, hostVars, irqVars
<1>2. todo[1][2] = Flips
  <2>1. todo[1] = Turn
    BY <1>0, <1>1, Kinds
  <2> QED
    BY <2>1, Tags, ZenonT(60)
<1>3. todo' = Flips \o View(window) \o Tail(todo)
  BY <1>1, <1>2, Zenon
<1>4. Views \subseteq Work /\ Softs \subseteq Work /\ "pcie" \in Windows /\ window \in Windows
  BY StepKinds DEF Windows, TypeOK
<1>5. Free(View("pcie"), Work) /\ Free(View(window), Work) /\ Free(Do("flip mask"), Work)
  BY <1>4, ViewList, SoftList, FreeWider, Zenon
<1>6. Free(View("pcie") \o Do("flip mask"), Work)
  BY <1>5, FreeGlue, Zenon
<1>7. Free(Flips, Work)
  BY <1>5, <1>6, FreeGlue, Zenon DEF Flips
<1>8. Free(Flips \o View(window), Work)
  BY <1>5, <1>7, FreeGlue, Zenon
<1>11. Work \subseteq Body(tests, nvlen)
  BY DEF Body
<1>9. Piece(Flips \o View(window), Body(tests, nvlen)) /\ Sealed(Flips \o View(window)) /\ (halt => NoRel(Flips \o View(window)))
  BY <1>8, <1>11, Wider, Zenon DEF Free, Pre, Post
<1>10. todo[1][1] \in {"disable arm", "around", "round trip"}
  BY <1>1
<1> QED
  BY <1>1, <1>3, <1>9, <1>10, SetupInsert, Zenon

\* The word that is put back next was not inverted before.
LEMMA NotPending ==
  ASSUME TypeOK, Pending, todo # <<>>, Head(todo)[1] # "tcm"
  PROVE  /\ tcm[ProbeWord.lo] \in Owners \ {"inverted"}
         /\ Restore(tcm[ProbeWord.lo]) \in Restores
<1>1. Head(todo) = todo[1]
  BY DEF TypeOK
<1>2. \A e \in Restores : e[1] = "tcm"
  BY DEF Restores, Restore
<1>3. tcm[ProbeWord.lo] # "inverted"
  BY <1>1, <1>2, Zenon DEF Pending
<1>4. ProbeWord.lo \in Cuts
  BY DEF Cuts, Ranges
<1>5. tcm[ProbeWord.lo] \in Owners
  BY <1>4 DEF TypeOK
<1>6. tcm[ProbeWord.lo] \in Owners \ {"inverted"}
  BY <1>3, <1>5
<1> QED
  BY <1>6 DEF Restores

\* What test 243 does to its word leaves every image alone, and what it puts back
\* may come after the release.
LEMMA SetupInvert == ASSUME TypeOK, Pending, SetupPhase, Invert PROVE SetupPhase'
<1>0. Head(todo) = todo[1] /\ todo[1] \in Steps /\ todo # <<>>
  BY SetupOps, Zenon
<1>1. /\ todo[1][1] = "round trip" /\ todo' = <<<<"tcm", todo[1][2], tcm[todo[1][2].lo]>>>> \o Tail(todo)
      /\ tcm' = [c \in Cuts |-> IF c \in In(todo[1][2]) THEN "inverted" ELSE tcm[c]]
      /\ tests' = tests /\ nvlen' = nvlen /\ mapped' = mapped /\ window' = window
      /\ halt' = halt /\ master' = master /\ held' = held /\ irq' = irq /\ msi' = msi
  BY <1>0 DEF Invert, At, Arg, Store, loadVars, armVars, hostVars, irqVars
<1>2. todo[1][2] = ProbeWord
  <2>1. todo[1] = Trip
    BY <1>0, <1>1, Kinds
  <2> QED
    BY <2>1, Tags, ZenonT(60)
<1>3. PICK e : e = Restore(tcm[ProbeWord.lo])
  OBVIOUS
<1>4. todo' = <<e>> \o Tail(todo)
  BY <1>1, <1>2, <1>3, Zenon DEF Restore
<1>5. e \in Restores
  <2>1. Head(todo)[1] # "tcm"
    BY <1>0, <1>1
  <2> QED
    BY <1>0, <1>3, <2>1, NotPending, Zenon
<1>6. e[1] = "tcm" /\ e[2] = ProbeWord /\ e \in Body(tests, nvlen) /\ e \in Steps
  <2>1. Restores \subseteq Body(tests, nvlen) /\ Restores \subseteq Steps
    <3>1. Restores \subseteq Stores(tests, nvlen)
      BY Zenon DEF Stores
    <3>2. Restores \subseteq AllStores
      BY Zenon DEF AllStores
    <3> QED
      BY <3>1, <3>2, Zenon DEF Body, Steps
  <2>2. e[1] = "tcm" /\ e[2] = ProbeWord
    BY <1>5 DEF Restores, Restore
  <2> QED
    BY <1>5, <2>1, <2>2, Zenon
<1>7. e \notin ArmW /\ e[1] \notin {"skip if in reset", "skip unless olmsg", "irq on", "olmsg", "msi on"}
  <2>1. \A x \in ArmW : x[1] = "write"
    BY Tags, ZenonT(60)
  <2> QED
    BY <1>6, <2>1
<1>8. Late(e)
  BY <1>6 DEF Late
<1>9. Pre(<<e>>, Body(tests, nvlen)) /\ Post(<<e>>, Body(tests, nvlen))
  BY <1>6, <1>7, <1>8, Alone, Zenon
<1>10. Piece(<<e>>, Body(tests, nvlen)) /\ Sealed(<<e>>) /\ (halt => NoRel(<<e>>))
  BY <1>9, Zenon DEF Pre, Post
<1>11. \A c \in Cuts : c \notin In(ProbeWord) => tcm'[c] = tcm[c]
  BY <1>1, <1>2
<1>12. todo[1][1] \in {"disable arm", "around", "round trip"}
  BY <1>1
<1> QED
  BY <1>1, <1>4, <1>10, <1>11, <1>12, SetupInsert, Zenon

\* A request that finds the firmware, or does not.
LEMMA SetupRequest == ASSUME TypeOK, SetupPhase, phase = "setup", Request PROVE (phase' = "setup" /\ SetupPhase') \/ (phase' = "remove" /\ Removing')
<1>0. Head(todo) = todo[1] /\ todo[1] \in Steps /\ todo # <<>> /\ todo \in Seq(Steps)
  BY SetupOps, Zenon
<1>1. /\ todo[1][1] = "fw"
      /\ tests' = tests /\ nvlen' = nvlen /\ mapped' = mapped /\ tcm' = tcm /\ irq' = irq /\ msi' = msi
      /\ window' = window /\ halt' = halt /\ master' = master
      /\ \/ Drop(0) /\ phase' = phase
         \/ todo' = Removal /\ phase' = "remove" /\ held' = held
  BY <1>0 DEF Request, At, Pop, Fail, loadVars, armVars, irqVars
<1>2. CASE Drop(0) /\ phase' = phase
  <2>1. /\ todo[1][1] \notin {"tcm", "irq on", "irq off", "msi off", "bound"}
        /\ todo[1] = See("arm") => todo[1][1] = "window" /\ todo[1][2] = "arm"
    BY <1>1, OpsApart
  <2>2. /\ todo[1] = See("arm") => window' = "arm"
        /\ halt /\ todo[1] # Rel => halt'
        /\ todo[1][1] \in {"window", "free all"} => master' = master
        /\ todo[1][1] = "clear master" => ~master'
        /\ todo[1][1] = "window" => held' = held
        /\ todo[1][1] = "free all" => held' = {}
    BY <1>1, <2>1
  <2> QED
    BY <1>1, <1>2, <2>1, <2>2, SetupPlain, Zenon
<1>3. CASE todo' = Removal /\ phase' = "remove" /\ held' = held
  <2>1. todo[1] = One("fw")
    <3>1. todo[1][1] \notin Tagged
      BY <1>1 DEF Tagged
    <3>2. todo[1] = One(todo[1][1])
      BY <1>0, <3>1, Kinds, Tags, ZenonT(60)
    <3> QED
      BY <1>1, <3>2, Zenon
  <2>2. Has(todo, One("fw"))
    <3>1. Len(todo) \in Nat /\ Len(todo) >= 1
      BY <1>0, Lengths, Zenon
    <3>2. 1 \in 1 .. Len(todo)
      BY <3>1, Seconds, Zenon
    <3> QED
      BY <2>1, <3>2, Zenon DEF Has
  <2>3. Quiet /\ ~master
    BY <2>2, Zenon DEF SetupPhase
  <2>4. Quiet' /\ ~master'
    BY <1>1, <1>3, <2>3 DEF Quiet
  <2>5. todo' # Do("gone")
    <3>1. Removal # Do("gone")
      <4>1. Len(Do("gone")) = 1 /\ Len(Removal) = 2
        BY DEF Do, Removal
      <4> QED
        BY <4>1
    <3> QED
      BY <1>3, <3>1
  <2> QED
    BY <1>3, <2>4, <2>5, Zenon DEF Removing, Leaving
<1> QED
  BY <1>1, <1>2, <1>3

LEMMA SetupSettle == ASSUME TypeOK, SetupPhase, Settle PROVE phase' = "bound" /\ Bound'
<1>0. /\ Head(todo) = todo[1] /\ todo[1] \in Steps /\ todo # <<>> /\ todo \in Seq(Steps)
      /\ todo[1][1] \in BodyOps \cup {"fw", "clear master", "free all", "bound"}
      /\ todo[1][1] = "bound" => Len(todo) = 1
  BY SetupOps, Zenon
<1>6. /\ todo[1][1] \in {"bound", "gone"} /\ phase' = todo[1][1] /\ Drop(0)
      /\ mapped' = mapped /\ irq' = irq /\ msi' = msi /\ held' = held /\ master' = master
  BY <1>0 DEF Settle, At, Pop, loadVars, hostVars, irqVars
<1>7. "gone" \notin BodyOps \cup {"fw", "clear master", "free all", "bound"}
  BY DEF BodyOps, WorkOps, CoredOps
<1>1. /\ todo[1][1] = "bound" /\ phase' = "bound" /\ Drop(0)
      /\ mapped' = mapped /\ irq' = irq /\ msi' = msi /\ held' = held /\ master' = master
  BY <1>0, <1>6, <1>7
<1>2. Len(todo) = 1 /\ Len(todo) <= 1 /\ Len(todo) <= 2
  <2>1. \A m \in Nat : m = 1 => m <= 1 /\ m <= 2
    OBVIOUS
  <2>2. Len(todo) \in Nat /\ Len(todo) = 1
    BY <1>0, <1>1, Lengths, Zenon
  <2> QED
    BY <2>1, <2>2, Zenon
<1>3. todo' = <<>>
  <2>1. Dropped(todo, todo', 0)
    BY <1>1, SetupTake, Zenon
  <2>2. Len(todo) = 0 + 1 + Len(todo') /\ Len(todo') \in Nat /\ todo' \in Seq(Steps)
    BY <2>1, Zenon DEF Dropped, Left
  <2>3. \A m \in Nat : 0 + 1 + m = 1 => ~(m >= 1)
    OBVIOUS
  <2>4. ~(Len(todo') >= 1)
    BY <1>2, <2>2, <2>3, Zenon
  <2> QED
    BY <2>2, <2>4, Lengths, Zenon
<1>4. irq = "none" /\ ~msi
  <2>1. irq # "none" \/ msi => todo[1] \in PcieW \cup IrqOns \cup {One("irq off"), One("msi off")}
    BY <1>0, HandlerHead, Zenon DEF SetupPhase
  <2>2. (\A e \in PcieW : e[1] = "write") /\ (\A e \in IrqOns : e[1] = "irq on") /\ \A op : One(op)[1] = op
    BY OpsApart, Zenon
  <2>3. irq \in {"none", "line", "msi"}
    BY Zenon DEF TypeOK
  <2> QED
    BY <1>1, <2>1, <2>2, <2>3
<1>5. held = {} /\ ~master /\ mapped
  BY <1>2, Zenon DEF SetupPhase
<1> QED
  BY <1>1, <1>3, <1>4, <1>5 DEF Bound, Quiet

-----------------------------------------------------------------------------
(***************************************************************************)
(* The steps of probe.                                                     *)
(***************************************************************************)
LEMMA ProbeHead ==
  ASSUME TypeOK, Attaching
  PROVE  /\ todo # <<>> /\ Head(todo) = todo[1] /\ todo[1] \in Steps /\ todo \in Seq(Steps)
         /\ todo[1][1] \in ProbeOps \cup {"clear master", "setup"}
         /\ todo[1][1] \in ProbeOps \ {"try"} => Len(todo) >= 4
         /\ todo[1][1] = "try" => todo[1] = One("try")
         /\ todo[1][1] = "setup" => todo[1] = One("setup") /\ Len(todo) = 1
<1>1. \A op : One(op)[1] = op
  BY OpsApart, Zenon
<1>2. /\ todo # <<>>
      /\ \/ Len(todo) >= 4 /\ todo[1] \in Probing
         \/ Len(todo) = 3 /\ todo[1] = One("clear master")
         \/ Len(todo) = 2 /\ todo[1] = One("try")
         \/ Len(todo) = 1 /\ todo[1] = One("setup")
  <2>1. todo \in Seq(Steps) /\ Closes(todo, Probing, One("clear master"), One("try"), One("setup"))
    BY Zenon DEF TypeOK, Attaching, ProbeList
  <2> QED
    BY <2>1, HeadOf, ZenonT(60)
<1>3. todo \in Seq(Steps) /\ Head(todo) = todo[1] /\ todo[1] \in Steps
  BY <1>2, Lengths, Zenon DEF TypeOK
<1>4. todo[1] \in Probing => todo[1][1] \in ProbeOps
  BY Ops, Zenon
<1>5. "clear master" \notin ProbeOps /\ "setup" \notin ProbeOps /\ "try" \in ProbeOps
  BY DEF ProbeOps, CoredOps
<1>6. todo[1][1] = "try" => todo[1] = One("try")
  <2> SUFFICES ASSUME todo[1][1] = "try" PROVE todo[1] = One("try")
    OBVIOUS
  <2>1. todo[1][1] \notin Tagged
    BY DEF Tagged
  <2>2. todo[1] \in Plains
    BY <1>3, <2>1, Kinds, Zenon
  <2>3. todo[1] = One(todo[1][1])
    BY <2>2, Tags, ZenonT(60)
  <2> QED
    BY <2>3, Zenon
<1> HIDE DEF ProbeOps
<1> QED
  BY <1>1, <1>2, <1>3, <1>4, <1>5, <1>6

\* The list of probe, after a step of it.
LEMMA ProbeListKeeps ==
  ASSUME NEW n, Dropped(todo, todo', n), ProbeList(todo), todo[1] # One("setup")
  PROVE  /\ ProbeList(todo') /\ todo' # <<>>
         /\ Len(todo') <= 2 => todo[1] \in {One("clear master"), One("try")}
         /\ Has(todo', One("try enable")) => todo[1] = One("bus reset")
         /\ ~Has(todo', One("bus reset"))
<1> DEFINE V == Probing
<1>0. /\ Left(todo, todo', n + 1) /\ todo \in Seq(Steps)
      /\ Only(todo, V \cup Ending) /\ Static(todo)
      /\ Before(todo, One("try enable"), {One("bus reset")}) /\ Before(todo, One("bus reset"), {})
      /\ Closes(todo, V, One("clear master"), One("try"), One("setup"))
  BY Zenon DEF ProbeList, Dropped, Left, Opens
<1>1. One("clear master") \notin Light /\ One("try") \notin Light /\ One("setup") \notin Light
  <2>1. /\ "clear master" \notin {"irq off", "window", "write", "tcm"} /\ "try" \notin {"irq off", "window", "write", "tcm"}
        /\ "setup" \notin {"irq off", "window", "write", "tcm"}
    OBVIOUS
  <2> QED
    BY <2>1, NotLight, Zenon
<1>2. /\ Len(todo') <= 2 => Len(todo) <= 2 \/ todo[1] = One("clear master")
      /\ todo' = <<>> => todo[1] = One("setup")
  BY <1>0, <1>1, DroppedEnd, Zenon
<1>3. todo' # <<>>
  BY <1>2, Zenon
<1>4. Len(todo) <= 2 => todo[1] = One("try")
  <2>1. \/ Len(todo) >= 4 /\ todo[1] \in V
        \/ Len(todo) = 3 /\ todo[1] = One("clear master")
        \/ Len(todo) = 2 /\ todo[1] = One("try")
        \/ Len(todo) = 1 /\ todo[1] = One("setup")
    BY <1>0, HeadOf, Zenon
  <2>2. Len(todo) \in Nat
    BY <1>0, Lengths, Zenon
  <2> QED
    BY <2>1, <2>2, SmallLengths, Zenon
<1>5. Static(todo')
  BY <1>0, LeftStatic, Zenon
<1> HIDE DEF V
<1>6. /\ Only(todo', V \cup Ending)
      /\ Before(todo', One("try enable"), {One("bus reset")}) /\ Before(todo', One("bus reset"), {})
      /\ Closes(todo', V, One("clear master"), One("try"), One("setup"))
  BY <1>0, <1>3, LeftKeeps, Zenon
<1>7. ProbeList(todo')
  BY <1>5, <1>6, Zenon DEF ProbeList, V, Opens
<1>8. Has(todo', One("try enable")) => todo[1] \in {One("bus reset")}
  BY <1>0, DroppedBefore, Zenon
<1>9. ~Has(todo', One("bus reset"))
  <2>1. Has(todo', One("bus reset")) => todo[1] \in {}
    BY <1>0, DroppedBefore, Zenon
  <2> QED
    BY <2>1
<1> QED
  BY <1>2, <1>3, <1>4, <1>7, <1>8, <1>9

LEMMA ProbeDrop ==
  ASSUME TypeOK, Attaching, NEW n, Dropped(todo, todo', n), todo[1] # One("setup"), todo[1] # One("disable arm"),
         nvlen' = nvlen,
         todo[1] = See("arm") => window' = "arm",
         halt /\ todo[1] \notin {Rel, One("bus reset")} => halt',
         todo[1] = Hlt => halt',
         mapped' = mapped \/ mapped',
         todo[1] = One("map") => mapped',
         todo[1] = One("bus reset") => mapped' = mapped /\ master' = master /\ (tcm'[0] = tcm[0] \/ tcm'[0] = "old"),
         todo[1] = One("clear master") => ~master',
         todo[1] = One("try") => master' = master
  PROVE  Attaching' /\ todo' # <<>>
<1>0. Left(todo, todo', n + 1)
  BY Zenon DEF Dropped
<1>1. /\ ProbeList(todo') /\ todo' # <<>>
      /\ Len(todo') <= 2 => todo[1] \in {One("clear master"), One("try")}
      /\ Has(todo', One("try enable")) => todo[1] = One("bus reset")
      /\ ~Has(todo', One("bus reset"))
  BY ProbeListKeeps, Zenon DEF Attaching
<1>2. Aimed'
  BY <1>1, DroppedAim, Zenon DEF Aimed
<1>3. nvlen' \in NvramLens
  BY Zenon DEF Attaching
<1>4. Has(todo', One("try enable")) => ~mapped' /\ (master' => tcm'[0] # "fw")
  <2> SUFFICES ASSUME Has(todo', One("try enable")) PROVE ~mapped' /\ (master' => tcm'[0] # "fw")
    OBVIOUS
  <2>1. todo[1] = One("bus reset") /\ Has(todo, One("try enable"))
    BY <1>0, <1>1, LeftKeeps, Zenon
  <2>2. ~mapped /\ (master => tcm[0] # "fw")
    BY <2>1, Zenon DEF Attaching
  <2>3. mapped' = mapped /\ master' = master /\ (tcm'[0] = tcm[0] \/ tcm'[0] = "old")
    BY <2>1
  <2> QED
    BY <2>2, <2>3
<1>5. mapped' \/ Has(todo', One("map"))
  <2>1. CASE mapped
    BY <2>1
  <2>2. CASE todo[1] = One("map")
    BY <2>2
  <2>3. CASE Has(todo, One("map")) /\ todo[1] # One("map")
    <3>1. "map" \notin {"irq off", "window", "write", "tcm"}
      OBVIOUS
    <3>2. One("map") \notin Light
      BY <3>1, NotLight, Zenon
    <3> QED
      BY <2>3, <3>2, DroppedHas, Zenon
  <2> QED
    BY <2>1, <2>2, <2>3, Zenon DEF Attaching
<1>6. Len(todo') <= 2 => ~master'
  <2>1. ASSUME todo[1] = One("try"), Len(todo') <= 2 PROVE ~master
    <3>1. Len(todo) <= 2 \/ todo[1] = One("clear master")
      <4>1. Closes(todo, Probing, One("clear master"), One("try"), One("setup"))
        BY Zenon DEF Attaching, ProbeList
      <4>2. /\ "clear master" \notin {"irq off", "window", "write", "tcm"} /\ "try" \notin {"irq off", "window", "write", "tcm"}
            /\ "setup" \notin {"irq off", "window", "write", "tcm"}
        OBVIOUS
      <4>3. One("clear master") \notin Light /\ One("try") \notin Light /\ One("setup") \notin Light
        BY <4>2, NotLight, Zenon
      <4> QED
        BY <2>1, <4>1, <4>3, DroppedEnd, Zenon
    <3>2. One("try") # One("clear master")
      BY DEF One
    <3> QED
      BY <2>1, <3>1, <3>2, Zenon DEF Attaching
  <2> QED
    BY <1>1, <2>1
<1>7. (halt' /\ NoRel(todo') /\ ~Has(todo', One("bus reset"))) \/ Sure(todo')
  <2>1. CASE halt /\ NoRel(todo) /\ ~Has(todo, One("bus reset"))
    <3>1. 1 \in 1 .. Len(todo)
      <4>1. todo \in Seq(Steps) /\ todo # <<>>
        BY ProbeHead, Zenon
      <4>2. Len(todo) \in Nat /\ Len(todo) >= 1
        BY <4>1, Lengths, Zenon
      <4> QED
        BY <4>2, Seconds, Zenon
    <3>2. todo[1] # Rel /\ todo[1] # One("bus reset")
      BY <2>1, <3>1, Zenon DEF NoRel, Has
    <3>3. NoRel(todo')
      BY <1>0, <2>1, LeftKeeps, Zenon
    <3>4. halt'
      BY <2>1, <3>2
    <3> QED
      BY <1>1, <3>3, <3>4
  <2>2. CASE Sure(todo)
    <3>1. Sure(todo') \/ (todo[1] \in {Hlt, One("disable arm")} /\ NoRel(todo'))
      BY <2>2, DroppedSure, Zenon
    <3> QED
      BY <1>1, <3>1
  <2> QED
    BY <2>1, <2>2, Zenon DEF Attaching
<1> QED
  BY <1>1, <1>2, <1>3, <1>4, <1>5, <1>6, <1>7, Zenon DEF Attaching

LEMMA ProbePlain ==
  ASSUME TypeOK, Attaching, Quiet, ~olmsg, NEW n, n = 0 \/ n = Span(todo[1]), Drop(n),
         todo[1][1] \notin {"setup", "disable arm"},
         nvlen' = nvlen, olmsg' = olmsg, held' = held, irq' = irq, msi' = msi,
         todo[1] = See("arm") => window' = "arm",
         halt /\ todo[1] # Rel /\ todo[1][1] # "bus reset" => halt',
         todo[1] = Hlt => halt',
         mapped' = mapped \/ mapped',
         todo[1][1] = "map" => mapped',
         todo[1][1] = "bus reset" => mapped' = mapped /\ master' = master /\ (tcm'[0] = tcm[0] \/ tcm'[0] = "old"),
         todo[1][1] = "clear master" => ~master',
         todo[1][1] = "try" => master' = master
  PROVE  ProbePhase'
<1>1. Dropped(todo, todo', n)
  <2>1. todo # <<>> /\ todo \in Seq(Steps) /\ Static(todo)
    BY ProbeHead, Zenon DEF Attaching, ProbeList
  <2>2. todo' = SubSeq(todo, n + 2, Len(todo))
    BY Zenon DEF Drop
  <2> QED
    BY <2>1, <2>2, DroppedIs, Zenon
<1>2. \A op : todo[1] = One(op) => todo[1][1] = op
  BY OpsApart, Zenon
<1>3. todo[1] # One("setup") /\ todo[1] # One("disable arm")
  BY <1>2
<1>4. /\ halt /\ todo[1] \notin {Rel, One("bus reset")} => halt'
      /\ todo[1] = One("map") => mapped'
      /\ todo[1] = One("bus reset") => mapped' = mapped /\ master' = master /\ (tcm'[0] = tcm[0] \/ tcm'[0] = "old")
      /\ todo[1] = One("clear master") => ~master'
      /\ todo[1] = One("try") => master' = master
  <2>1. todo[1][1] = "bus reset" => todo[1] = One("bus reset")
    <3> SUFFICES ASSUME todo[1][1] = "bus reset" PROVE todo[1] = One("bus reset")
      OBVIOUS
    <3>1. todo[1][1] \notin Tagged
      BY DEF Tagged
    <3>2. todo[1] \in Plains
      BY <3>1, ProbeHead, Kinds, Zenon
    <3>3. todo[1] = One(todo[1][1])
      BY <3>2, Tags, ZenonT(60)
    <3> QED
      BY <3>3, Zenon
  <2> QED
    BY <1>2, <2>1
<1>5. Attaching'
  BY <1>1, <1>3, <1>4, ProbeDrop, Zenon
<1>6. Quiet' /\ ~olmsg'
  BY DEF Quiet
<1> QED
  BY <1>5, <1>6, Zenon DEF ProbePhase

LEMMA ProbeSetWindow == ASSUME TypeOK, Attaching, Quiet, ~olmsg, SetWindow PROVE ProbePhase'
<1>0. /\ todo # <<>> /\ Head(todo) = todo[1] /\ todo[1] \in Steps
  BY ProbeHead, Zenon
<1>1. /\ nvlen' = nvlen /\ olmsg' = olmsg /\ held' = held /\ irq' = irq /\ msi' = msi
      /\ todo[1][1] = "window" /\ Drop(0)
      /\ window' = todo[1][2] /\ halt' = halt /\ mapped' = mapped /\ master' = master /\ tcm' = tcm
  BY <1>0 DEF SetWindow, At, Pop, loadVars, armVars, hostVars, irqVars, Arg
<1>8. /\ todo[1] = See("arm") => todo[1][1] = "window" /\ todo[1][2] = "arm"
      /\ todo[1] = Hlt => todo[1][1] = "write"
      /\ todo[1] = Rel => todo[1][1] = "write"
  BY OpsApart, Zenon
<1>9. /\ todo[1][1] \notin {"setup", "disable arm"}
      /\ todo[1] = See("arm") => window' = "arm"
      /\ halt /\ todo[1] # Rel /\ todo[1][1] # "bus reset" => halt'
      /\ todo[1] = Hlt => halt'
      /\ mapped' = mapped \/ mapped'
      /\ todo[1][1] = "map" => mapped'
      /\ todo[1][1] = "bus reset" => mapped' = mapped /\ master' = master /\ (tcm'[0] = tcm[0] \/ tcm'[0] = "old")
      /\ todo[1][1] = "clear master" => ~master'
      /\ todo[1][1] = "try" => master' = master
  BY <1>1, <1>8
<1> QED
  BY <1>1, <1>9, ProbePlain, Zenon

LEMMA ProbeWrite == ASSUME TypeOK, Attaching, Quiet, ~olmsg, Write PROVE ProbePhase'
<1>0. /\ todo # <<>> /\ Head(todo) = todo[1] /\ todo[1] \in Steps
  BY ProbeHead, Zenon
<1>1. /\ nvlen' = nvlen /\ olmsg' = olmsg /\ held' = held /\ irq' = irq /\ msi' = msi
      /\ todo[1][1] = "write" /\ Drop(0)
      /\ halt' = IF window = todo[1][2] /\ todo[1][3] = "halt" /\ todo[1][2] = "arm" THEN todo[1][4] ELSE halt
      /\ window' = window /\ mapped' = mapped /\ master' = master /\ tcm' = tcm
  BY <1>0 DEF Write, At, Pop, loadVars, armVars, hostVars, irqVars, Arg
<1>2. todo[1] = Rel \/ (halt => halt')
  <2>1. todo[1] \in ArmW \/ todo[1] \in D11W \/ todo[1] \in PcieW
    BY <1>0, <1>1, Kinds
  <2>2. todo[1] \in ArmW /\ todo[1][3] = "halt" => todo[1] = Rel \/ todo[1][4] = TRUE
    <3>1. todo[1] \in ArmW => todo[1] = Rel \/ todo[1] = Hlt \/ todo[1] = InReset("arm")
      BY DEF ArmW
    <3>2. Hlt[4] = TRUE /\ InReset("arm")[3] # "halt"
      BY DEF Hlt, InReset
    <3> QED
      BY <3>1, <3>2, Zenon
  <2>3. todo[1][2] = "arm" => todo[1] \in ArmW
    <3>1. (todo[1] \in D11W => todo[1][2] = "d11") /\ (todo[1] \in PcieW => todo[1][2] = "pcie")
      BY Tags, ZenonT(60)
    <3> QED
      BY <2>1, <3>1
  <2> QED
    BY <1>1, <2>2, <2>3
<1>3. todo[1] = Hlt => halt'
  <2> SUFFICES ASSUME todo[1] = Hlt PROVE halt'
    OBVIOUS
  <2>1. Hlt[2] = "arm" /\ Hlt[3] = "halt" /\ Hlt[4] = TRUE
    BY DEF Hlt
  <2>2. todo[1] \in ArmW
    BY CoreKinds, Zenon
  <2>3. window = "arm"
    BY <2>2, Zenon DEF Attaching, Aimed
  <2> QED
    BY <1>1, <2>1, <2>3
<1>8. /\ todo[1] = See("arm") => todo[1][1] = "window" /\ todo[1][2] = "arm"
      /\ todo[1] = Hlt => todo[1][1] = "write"
      /\ todo[1] = Rel => todo[1][1] = "write"
  BY OpsApart, Zenon
<1>9. /\ todo[1][1] \notin {"setup", "disable arm"}
      /\ todo[1] = See("arm") => window' = "arm"
      /\ halt /\ todo[1] # Rel /\ todo[1][1] # "bus reset" => halt'
      /\ todo[1] = Hlt => halt'
      /\ mapped' = mapped \/ mapped'
      /\ todo[1][1] = "map" => mapped'
      /\ todo[1][1] = "bus reset" => mapped' = mapped /\ master' = master /\ (tcm'[0] = tcm[0] \/ tcm'[0] = "old")
      /\ todo[1][1] = "clear master" => ~master'
      /\ todo[1][1] = "try" => master' = master
  BY <1>1, <1>2, <1>3, <1>8
<1> QED
  BY <1>1, <1>9, ProbePlain, Zenon

LEMMA ProbeClearReset == ASSUME TypeOK, Attaching, Quiet, ~olmsg, ClearReset PROVE ProbePhase'
<1>0. /\ todo # <<>> /\ Head(todo) = todo[1] /\ todo[1] \in Steps
  BY ProbeHead, Zenon
<1>1. /\ nvlen' = nvlen /\ olmsg' = olmsg /\ held' = held /\ irq' = irq /\ msi' = msi
      /\ todo[1][1] = "clear reset" /\ Drop(0)
      /\ halt' = halt /\ mapped' = mapped /\ master' = master /\ tcm' = tcm
  BY <1>0 DEF ClearReset, At, Pop, loadVars, armVars, hostVars, irqVars, Arg
<1>8. /\ todo[1] = See("arm") => todo[1][1] = "window" /\ todo[1][2] = "arm"
      /\ todo[1] = Hlt => todo[1][1] = "write"
      /\ todo[1] = Rel => todo[1][1] = "write"
  BY OpsApart, Zenon
<1>9. /\ todo[1][1] \notin {"setup", "disable arm"}
      /\ todo[1] = See("arm") => window' = "arm"
      /\ halt /\ todo[1] # Rel /\ todo[1][1] # "bus reset" => halt'
      /\ todo[1] = Hlt => halt'
      /\ mapped' = mapped \/ mapped'
      /\ todo[1][1] = "map" => mapped'
      /\ todo[1][1] = "bus reset" => mapped' = mapped /\ master' = master /\ (tcm'[0] = tcm[0] \/ tcm'[0] = "old")
      /\ todo[1][1] = "clear master" => ~master'
      /\ todo[1][1] = "try" => master' = master
  BY <1>1, <1>8
<1> QED
  BY <1>1, <1>9, ProbePlain, Zenon

LEMMA ProbeBusReset == ASSUME TypeOK, Attaching, Quiet, ~olmsg, BusReset PROVE ProbePhase'
<1>0. /\ todo # <<>> /\ Head(todo) = todo[1] /\ todo[1] \in Steps
  BY ProbeHead, Zenon
<1>1. /\ nvlen' = nvlen /\ olmsg' = olmsg /\ held' = held /\ irq' = irq /\ msi' = msi
      /\ todo[1][1] = "bus reset" /\ Drop(0)
      /\ mapped' = mapped /\ master' = master /\ tcm' \in {tcm, [c \in Cuts |-> "old"]}
  BY <1>0 DEF BusReset, At, Pop, loadVars, armVars, hostVars, irqVars
<1>2. tcm'[0] = tcm[0] \/ tcm'[0] = "old"
  <2>1. 0 \in Cuts
    BY DEF Cuts
  <2> QED
    BY <1>1, <2>1
<1>8. /\ todo[1] = See("arm") => todo[1][1] = "window" /\ todo[1][2] = "arm"
      /\ todo[1] = Hlt => todo[1][1] = "write"
      /\ todo[1] = Rel => todo[1][1] = "write"
  BY OpsApart, Zenon
<1>9. /\ todo[1][1] \notin {"setup", "disable arm"}
      /\ todo[1] = See("arm") => window' = "arm"
      /\ halt /\ todo[1] # Rel /\ todo[1][1] # "bus reset" => halt'
      /\ todo[1] = Hlt => halt'
      /\ mapped' = mapped \/ mapped'
      /\ todo[1][1] = "map" => mapped'
      /\ todo[1][1] = "bus reset" => mapped' = mapped /\ master' = master /\ (tcm'[0] = tcm[0] \/ tcm'[0] = "old")
      /\ todo[1][1] = "clear master" => ~master'
      /\ todo[1][1] = "try" => master' = master
  BY <1>1, <1>2, <1>8
<1> QED
  BY <1>1, <1>9, ProbePlain, Zenon

LEMMA ProbeSetMaster == ASSUME TypeOK, Attaching, Quiet, ~olmsg, SetMaster PROVE ProbePhase'
<1>0. /\ todo # <<>> /\ Head(todo) = todo[1] /\ todo[1] \in Steps
  BY ProbeHead, Zenon
<1>1. /\ nvlen' = nvlen /\ olmsg' = olmsg /\ held' = held /\ irq' = irq /\ msi' = msi
      /\ todo[1][1] \in {"set master", "clear master"} /\ Drop(0)
      /\ master' = (todo[1][1] = "set master") /\ window' = window /\ halt' = halt /\ mapped' = mapped /\ tcm' = tcm
  BY <1>0 DEF SetMaster, At, Pop, loadVars, armVars, hostVars, irqVars
<1>8. /\ todo[1] = See("arm") => todo[1][1] = "window" /\ todo[1][2] = "arm"
      /\ todo[1] = Hlt => todo[1][1] = "write"
      /\ todo[1] = Rel => todo[1][1] = "write"
  BY OpsApart, Zenon
<1>9. /\ todo[1][1] \notin {"setup", "disable arm"}
      /\ todo[1] = See("arm") => window' = "arm"
      /\ halt /\ todo[1] # Rel /\ todo[1][1] # "bus reset" => halt'
      /\ todo[1] = Hlt => halt'
      /\ mapped' = mapped \/ mapped'
      /\ todo[1][1] = "map" => mapped'
      /\ todo[1][1] = "bus reset" => mapped' = mapped /\ master' = master /\ (tcm'[0] = tcm[0] \/ tcm'[0] = "old")
      /\ todo[1][1] = "clear master" => ~master'
      /\ todo[1][1] = "try" => master' = master
  BY <1>1, <1>8
<1> QED
  BY <1>1, <1>9, ProbePlain, Zenon

LEMMA ProbeReadReset == ASSUME TypeOK, Attaching, Quiet, ~olmsg, ReadReset PROVE ProbePhase'
<1>0. /\ todo # <<>> /\ Head(todo) = todo[1] /\ todo[1] \in Steps
  BY ProbeHead, Zenon
<1>1. /\ nvlen' = nvlen /\ olmsg' = olmsg /\ held' = held /\ irq' = irq /\ msi' = msi
      /\ todo[1][1] = "skip if in reset" /\ halt' = halt /\ mapped' = mapped /\ master' = master /\ tcm' = tcm
      /\ Drop(todo[1][3]) \/ Drop(0)
  BY <1>0 DEF ReadReset, At, Arg, loadVars, armVars, hostVars, irqVars
<1>2. todo[1][3] = Span(todo[1])
  <2>1. todo[1] = Skip("arm") \/ todo[1] = Skip("d11")
    BY <1>0, <1>1, Kinds
  <2>2. todo[1][3] = 4
    <3>1. Skip("arm")[3] = 4 /\ Skip("d11")[3] = 4
      BY Tags, ZenonT(60)
    <3> QED
      BY <2>1, <3>1, Zenon
  <2>3. Span(todo[1]) = 4
    BY <1>0, <1>1, SpanIs, Zenon
  <2> QED
    BY <2>2, <2>3, Zenon
<1>3. PICK n : (n = 0 \/ n = Span(todo[1])) /\ Drop(n)
  BY <1>1, <1>2, Zenon
<1>8. /\ todo[1] = See("arm") => todo[1][1] = "window" /\ todo[1][2] = "arm"
      /\ todo[1] = Hlt => todo[1][1] = "write"
      /\ todo[1] = Rel => todo[1][1] = "write"
  BY OpsApart, Zenon
<1>9. /\ todo[1][1] \notin {"setup", "disable arm"}
      /\ todo[1] = See("arm") => window' = "arm"
      /\ halt /\ todo[1] # Rel /\ todo[1][1] # "bus reset" => halt'
      /\ todo[1] = Hlt => halt'
      /\ mapped' = mapped \/ mapped'
      /\ todo[1][1] = "map" => mapped'
      /\ todo[1][1] = "bus reset" => mapped' = mapped /\ master' = master /\ (tcm'[0] = tcm[0] \/ tcm'[0] = "old")
      /\ todo[1][1] = "clear master" => ~master'
      /\ todo[1][1] = "try" => master' = master
  BY <1>1, <1>8
<1> QED
  BY <1>1, <1>3, <1>9, ProbePlain, Zenon

\* pci_enable_device, the BARs and the enumeration, which may fail.
LEMMA ProbeTries ==
  ASSUME TypeOK, Attaching, Quiet, ~olmsg, phase = "probe", Enable \/ MapBars \/ Try
  PROVE  (phase' = "probe" /\ ProbePhase') \/ (phase' = "gone" /\ Gone')
<1>0. /\ todo # <<>> /\ Head(todo) = todo[1] /\ todo[1] \in Steps /\ todo \in Seq(Steps)
  BY ProbeHead, Zenon
<1>1. /\ nvlen' = nvlen /\ olmsg' = olmsg /\ held' = held /\ irq' = irq /\ msi' = msi
      /\ window' = window /\ halt' = halt /\ master' = master /\ tcm' = tcm
      /\ \/ /\ todo[1][1] \in {"try enable", "map", "try"} /\ Drop(0) /\ phase' = phase
            /\ (mapped' = mapped \/ mapped') /\ (todo[1][1] = "map" => mapped')
         \/ todo[1][1] = "try enable" /\ todo' = <<>> /\ phase' = "gone" /\ mapped' = mapped
         \/ todo' = Removal /\ phase' = phase
  BY <1>0 DEF Enable, MapBars, Try, At, Pop, Fail, loadVars, armVars, hostVars, irqVars
<1>2. CASE /\ todo[1][1] \in {"try enable", "map", "try"} /\ Drop(0) /\ phase' = phase
           /\ (mapped' = mapped \/ mapped') /\ (todo[1][1] = "map" => mapped')
  <2>1. /\ todo[1] = See("arm") => todo[1][1] = "window" /\ todo[1][2] = "arm"
        /\ todo[1] = Hlt => todo[1][1] = "write"
        /\ todo[1] = Rel => todo[1][1] = "write"
    BY OpsApart, Zenon
  <2>2. /\ todo[1][1] \notin {"setup", "disable arm"}
        /\ todo[1] = See("arm") => window' = "arm"
        /\ halt /\ todo[1] # Rel /\ todo[1][1] # "bus reset" => halt'
        /\ todo[1] = Hlt => halt'
        /\ mapped' = mapped \/ mapped'
        /\ todo[1][1] = "map" => mapped'
        /\ todo[1][1] = "bus reset" => mapped' = mapped /\ master' = master /\ (tcm'[0] = tcm[0] \/ tcm'[0] = "old")
        /\ todo[1][1] = "clear master" => ~master'
        /\ todo[1][1] = "try" => master' = master
    BY <1>1, <1>2, <2>1
  <2>3. ProbePhase'
    BY <1>1, <1>2, <2>2, ProbePlain, Zenon
  <2> QED
    BY <1>2, <2>3
<1>3. CASE todo[1][1] = "try enable" /\ todo' = <<>> /\ phase' = "gone" /\ mapped' = mapped
  <2>1. todo[1] = One("try enable")
    <3>1. todo[1][1] \notin Tagged
      BY <1>3 DEF Tagged
    <3>2. todo[1] = One(todo[1][1])
      BY <1>0, <3>1, Kinds, Tags, ZenonT(60)
    <3> QED
      BY <1>3, <3>2, Zenon
  <2>2. Has(todo, One("try enable"))
    <3>1. Len(todo) \in Nat /\ Len(todo) >= 1
      BY <1>0, Lengths, Zenon
    <3>2. 1 \in 1 .. Len(todo)
      BY <3>1, Seconds, Zenon
    <3> QED
      BY <2>1, <3>2, Zenon DEF Has
  <2>3. ~mapped /\ (master => tcm[0] # "fw")
    BY <2>2, Zenon DEF Attaching
  <2> QED
    BY <1>1, <1>3, <2>3 DEF Gone, Quiet
<1>4. CASE todo' = Removal /\ phase' = phase
  <2>1. Removal # Do("gone")
    <3>1. Len(Do("gone")) = 1 /\ Len(Removal) = 2
      BY DEF Do, Removal
    <3> QED
      BY <3>1
  <2>2. GivingUp'
    BY <1>4, <2>1 DEF GivingUp, Leaving
  <2>3. Quiet' /\ ~olmsg'
    BY <1>1 DEF Quiet
  <2> QED
    BY <1>4, <2>2, <2>3, Zenon DEF ProbePhase
<1> QED
  BY <1>1, <1>2, <1>3, <1>4, Zenon

LEMMA NoShorter == ~(3 <= 2) /\ ~(3 <= 1) /\ \A m \in Nat : m >= 3 => ~(m <= 2) /\ ~(m <= 1)
  OBVIOUS
LEMMA LastOne == \A i \in 1 .. 1 : i = 1
  OBVIOUS

\* The ARM's halt bit is read: how it is reset depends on it.
LEMMA ProbeReadHalt == ASSUME TypeOK, Attaching, Quiet, ~olmsg, ReadHalt PROVE ProbePhase'
<1> DEFINE W == Probing \cup Ending
<1>0. /\ todo # <<>> /\ Head(todo) = todo[1] /\ todo[1] \in Steps /\ todo \in Seq(Steps)
  BY ProbeHead, Zenon
<1>1. /\ todo[1][1] = "disable arm" /\ todo' = DisableArm \o Tail(todo)
      /\ nvlen' = nvlen /\ olmsg' = olmsg /\ held' = held /\ irq' = irq /\ msi' = msi /\ halt' = halt
      /\ mapped' = mapped /\ master' = master /\ tcm' = tcm
  BY <1>0 DEF ReadHalt, At, loadVars, armVars, hostVars, irqVars
<1>2. /\ Only(todo, W) /\ Static(todo) /\ Opens(todo) /\ Len(todo) >= 4
      /\ Closes(todo, Probing, One("clear master"), One("try"), One("setup"))
  <2>1. todo[1][1] \in ProbeOps \ {"try"}
    BY <1>1 DEF ProbeOps, CoredOps
  <2> QED
    BY <2>1, ProbeHead, Zenon DEF Attaching, ProbeList
<1>3. PICK t : t = Tail(todo)
  OBVIOUS
<1>4. Dropped(todo, t, 0) /\ Left(todo, t, 0 + 1) /\ t \in Seq(Steps)
  BY <1>0, <1>2, <1>3, TailIs, Zenon DEF Dropped
<1>5. Sure(DisableArm) /\ Piece(DisableArm, Cored)
  BY DisableArmList, Zenon DEF TypeOK, Post
<1>6. /\ \A op \in {"bus reset", "try enable", "map", "setup"} : One(op) \notin Cored
      /\ \A op \in {"bus reset", "try enable", "map", "setup"} : todo[1] # One(op) /\ One(op) \notin Light
      /\ todo[1] # See("arm") /\ Cored \subseteq W /\ Cored \subseteq Probing
  <2>1. (\A op : One(op)[1] = op) /\ (\A x \in Cored : x[1] \in CoredOps) /\ See("arm")[1] = "window"
    BY OpsApart, Ops, Zenon
  <2>2. \A op \in {"bus reset", "try enable", "map", "setup"} : One(op) \notin Light
    <3>1. \A op \in {"bus reset", "try enable", "map", "setup"} : op \notin {"irq off", "window", "write", "tcm"}
      OBVIOUS
    <3> QED
      BY <3>1, NotLight, Zenon
  <2>3. \A op \in {"bus reset", "try enable", "map", "setup"} : op \notin CoredOps /\ op # "disable arm"
    BY DEF CoredOps
  <2>4. Cored \subseteq W /\ Cored \subseteq Probing
    BY DEF Probing
  <2> HIDE DEF W
  <2>5. \A op \in {"bus reset", "try enable", "map", "setup"} : One(op) \notin Cored /\ todo[1] # One(op)
    BY <1>1, <2>1, <2>3
  <2>6. todo[1] # See("arm")
    BY <1>1, <2>1
  <2> QED
    BY <2>2, <2>4, <2>5, <2>6
<1> HIDE DEF W
<1>7. Starts(t)
  BY <1>4, <1>6, DroppedAim, Zenon DEF Starts
<1>8. Static(t) /\ Only(t, W)
  BY <1>2, <1>4, LeftStatic, LeftKeeps, Zenon
<1>9. Piece(t, W) /\ Piece(DisableArm, W)
  BY <1>4, <1>5, <1>6, <1>7, <1>8, Wider, Zenon DEF Piece
<1>10. Joint(todo', DisableArm, t) /\ Piece(todo', W)
  <2>1. todo' = DisableArm \o t
    BY <1>1, <1>3, Zenon
  <2> QED
    BY <1>9, <2>1, Glue, Zenon
<1>11. ~Has(t, One("try enable")) /\ ~Has(t, One("bus reset"))
  <2>1. Has(t, One("try enable")) => todo[1] \in {One("bus reset")}
    BY <1>2, <1>4, DroppedBefore, Zenon DEF Opens
  <2>2. Has(t, One("bus reset")) => todo[1] \in {}
    BY <1>2, <1>4, DroppedBefore, Zenon DEF Opens
  <2> QED
    BY <1>6, <2>1, <2>2
<1>12. ~Has(DisableArm, One("try enable")) /\ ~Has(DisableArm, One("bus reset"))
  <2>1. Only(DisableArm, Cored)
    BY <1>5, Zenon DEF Piece
  <2>2. One("try enable") \notin Cored /\ One("bus reset") \notin Cored
    BY <1>6
  <2> QED
    BY <2>1, <2>2, Zenon DEF Only, Has
<1>13. ~Has(todo', One("try enable")) /\ ~Has(todo', One("bus reset"))
  BY <1>10, <1>11, <1>12, JointKeeps, Zenon
<1>14. Opens(todo')
  BY <1>13, Zenon DEF Opens, Before, Has
<1>15. Len(t) \in Nat /\ Len(DisableArm) \in Nat /\ Len(todo') = Len(DisableArm) + Len(t) /\ Len(t) >= 3
  <2>1. Len(t) \in Nat /\ Len(DisableArm) \in Nat /\ Len(todo') = Len(DisableArm) + Len(t)
    BY <1>10, Zenon DEF Joint
  <2>2. Len(todo) = 0 + 1 + Len(t)
    BY <1>4, Zenon DEF Left
  <2>3. 0 + 1 + Len(t) >= 4
    BY <1>2, <2>2, Zenon
  <2> QED
    BY <2>1, <2>3, LessOne, Zenon
<1>16. ~(Len(todo') <= 2)
  <2>1. ~(Len(DisableArm) + Len(t) <= 2)
    BY <1>15, LongEnough, Zenon
  <2> QED
    BY <1>15, <2>1, Zenon
<1>17. Closes(todo', Probing, One("clear master"), One("try"), One("setup"))
  <2>1. t # <<>>
    <3>1. Len(<<>>) = 0 /\ ~(0 >= 3)
      BY EmptyLength
    <3> QED
      BY <1>15, <3>1, Zenon
  <2>2. Closes(t, Probing, One("clear master"), One("try"), One("setup"))
    BY <1>2, <1>4, <2>1, LeftKeeps, Zenon
  <2>3. Only(DisableArm, Probing)
    BY <1>5, <1>6, Zenon DEF Piece, Only
  <2> QED
    BY <1>10, <1>15, <2>2, <2>3, JointCloses, Zenon
<1>18. ProbeList(todo')
  BY <1>10, <1>14, <1>17, Zenon DEF ProbeList, Piece, W
<1>19. Aimed'
  <2>1. todo' # <<>>
    <3>1. Len(<<>>) = 0 /\ 0 <= 2
      BY EmptyLength
    <3> QED
      BY <1>16, <3>1, Zenon
  <2> QED
    BY <1>10, <2>1, Zenon DEF Piece, Starts, Aimed
<1>20. mapped' \/ Has(todo', One("map"))
  <2>1. CASE mapped
    BY <1>1, <2>1
  <2>2. CASE Has(todo, One("map"))
    <3>1. todo[1] # One("map") /\ One("map") \notin Light
      BY <1>6
    <3>2. Has(t, One("map"))
      BY <1>4, <2>2, <3>1, DroppedHas, Zenon
    <3> QED
      BY <1>10, <3>2, JointKeeps, Zenon
  <2> QED
    BY <2>1, <2>2, Zenon DEF Attaching
<1>21. Sure(todo')
  <2>1. Spans(DisableArm)
    BY <1>5, Zenon DEF Piece, Static
  <2>2. ASSUME NoRel(t) PROVE Sure(todo')
    BY <1>5, <1>10, <2>2, JointSure, Zenon
  <2>3. ASSUME Sure(t) PROVE Sure(todo')
    BY <1>10, <2>1, <2>3, JointSure, Zenon
  <2>4. NoRel(todo) => NoRel(t)
    BY <1>4, LeftKeeps, Zenon
  <2>5. Sure(todo) => Sure(t) \/ NoRel(t)
    BY <1>4, DroppedSure, Zenon
  <2> QED
    BY <2>2, <2>3, <2>4, <2>5, Zenon DEF Attaching
<1>22. nvlen' \in NvramLens
  BY <1>1, Zenon DEF Attaching
<1>23. Attaching'
  BY <1>13, <1>16, <1>18, <1>19, <1>20, <1>21, <1>22, Zenon DEF Attaching
<1>24. Quiet' /\ ~olmsg'
  BY <1>1 DEF Quiet
<1> QED
  BY <1>23, <1>24, Zenon DEF ProbePhase

\* Probe returns, and the callback begins: the ARM is halted, the BARs are mapped.
LEMMA ProbeSetup == ASSUME TypeOK, Attaching, Quiet, ~olmsg, Setup PROVE phase' = "setup" /\ SetupPhase'
<1>0. /\ todo # <<>> /\ Head(todo) = todo[1] /\ todo[1] \in Steps /\ todo \in Seq(Steps)
  BY ProbeHead, Zenon
<1>1. /\ todo[1][1] = "setup" /\ todo' = SetupProgram /\ phase' = "setup"
      /\ tests' = tests /\ nvlen' = nvlen /\ held' = held /\ irq' = irq /\ msi' = msi /\ halt' = halt
      /\ mapped' = mapped /\ master' = master /\ tcm' = tcm
  BY <1>0 DEF Setup, At, loadVars, armVars, hostVars, irqVars
<1>2. todo[1] = One("setup") /\ Len(todo) = 1
  BY <1>1, ProbeHead, Zenon
<1>3. \A e : Has(todo, e) => e = One("setup")
  BY <1>2, LastOne, Zenon DEF Has
<1>4. One("setup") # One("map") /\ One("setup") # One("disable arm") /\ One("setup") # Hlt
  BY DEF One, Hlt
<1>5. mapped
  BY <1>3, <1>4, Zenon DEF Attaching
<1>6. halt
  <2>1. ~Sure(todo)
    <3>1. \A j \in 1 .. Len(todo) : todo[j] = One("setup")
      BY <1>2, LastOne, Zenon
    <3>2. One("setup") \notin {Hlt, One("disable arm")}
      BY <1>4
    <3> QED
      BY <3>1, <3>2, Zenon DEF Sure
  <2> QED
    BY <2>1, Zenon DEF Attaching
<1>7. ~master
  <2>1. Len(todo) <= 2
    <3>1. 1 <= 2
      OBVIOUS
    <3> QED
      BY <1>2, <3>1, Zenon
  <2> QED
    BY <2>1, Zenon DEF Attaching
<1>8. nvlen \in NvramLens
  BY Zenon DEF Attaching
<1>9. /\ SetupList(todo') /\ Images(todo', tests, nvlen) /\ Starts(todo')
      /\ todo' # <<>> /\ Len(todo') >= 3 /\ todo' \in Seq(Steps)
  BY <1>1, <1>8, SetupProgramList, Zenon
<1>10. SetupList(todo)'
  <2>1. tests' = tests /\ nvlen' = nvlen
    BY <1>1
  <2> QED
    BY <1>9, <2>1, Zenon DEF SetupList
<1>11. Aimed'
  BY <1>9, Zenon DEF Aimed, Starts
<1>12. ~(Len(todo') <= 2) /\ ~(Len(todo') <= 1)
  <2>1. Len(todo') \in Nat
    BY <1>9, Lengths, Zenon
  <2> QED
    BY <1>9, <2>1, NoShorter, Zenon
<1>13. Quiet' /\ ~master' /\ mapped' /\ halt' /\ nvlen' \in NvramLens
  BY <1>1, <1>5, <1>6, <1>7, <1>8 DEF Quiet
<1>14. Handler'
  <2>1. irq' = "none" /\ ~msi' /\ irq' # "msi"
    BY <1>1 DEF Quiet
  <2> QED
    BY <2>1, Zenon DEF Handler
<1>15. Contents'
  <2>1. tests' = tests /\ nvlen' = nvlen
    BY <1>1
  <2>2. Has(todo', FwStore) /\ (nvlen > 0 => Has(todo', NvramStore(nvlen))) /\ (nvlen > 0 /\ "236" \in tests => Has(todo', SeedStore(nvlen)))
    BY <1>9, Zenon DEF Images
  <2>3. (FwStore)' = FwStore
    BY DEF FwStore, Firmware
  <2> QED
    BY <2>1, <2>2, <2>3 DEF Contents, Filled, On
<1> QED
  BY <1>1, <1>10, <1>11, <1>12, <1>13, <1>14, <1>15, Zenon DEF SetupPhase

\* What probe does next.
LEMMA ProbeStep ==
  ASSUME TypeOK, Attaching, Quiet, ~olmsg, phase = "probe", Step
  PROVE  (phase' = "probe" /\ ProbePhase') \/ (phase' = "gone" /\ Gone') \/ (phase' = "setup" /\ SetupPhase')
<1>1. todo # <<>> /\ Head(todo) = todo[1] /\ todo[1][1] \in ProbeOps \cup {"clear master", "setup"}
  BY ProbeHead, Zenon
<1>2. \A op : At(op) => op \in ProbeOps \cup {"clear master", "setup"}
  BY <1>1, Zenon DEF At
<1>3. /\ \A op \in {"around", "flip mask", "round trip", "tcm", "fw", "alloc", "olmsg", "skip unless olmsg", "msi on", "msi off"} : ~At(op)
      /\ \A op \in {"irq on", "irq off", "free all", "unmap", "bound", "gone"} : ~At(op)
  BY <1>2 DEF ProbeOps, CoredOps
<1>4. \/ SetWindow \/ Write \/ ReadReset \/ ClearReset \/ ReadHalt \/ BusReset \/ SetMaster
      \/ Enable \/ MapBars \/ Try \/ Setup
  <2>1. ~SaveWindow /\ ~FlipMask /\ ~Invert /\ ~WriteTcm /\ ~Request /\ ~Alloc /\ ~AllocOlmsg /\ ~IfOlmsg
    BY <1>3 DEF SaveWindow, FlipMask, Invert, WriteTcm, Request, Alloc, AllocOlmsg, IfOlmsg
  <2>2. ~EnableMsi /\ ~RequestIrq /\ ~FreeIrq /\ ~FreeAll /\ ~Unmap /\ ~Settle
    BY <1>3 DEF EnableMsi, RequestIrq, FreeIrq, FreeAll, Unmap, Settle
  <2> QED
    BY <2>1, <2>2, Zenon DEF Step
<1>5. CASE SetWindow \/ Write \/ ReadReset \/ ClearReset \/ ReadHalt \/ BusReset \/ SetMaster
  <2>1. ProbePhase'
    BY <1>5, ProbeSetWindow, ProbeWrite, ProbeReadReset, ProbeClearReset, ProbeReadHalt, ProbeBusReset, ProbeSetMaster, Zenon
  <2>2. phase' = phase
    BY <1>5, Zenon DEF SetWindow, Write, ReadReset, ClearReset, ReadHalt, BusReset, SetMaster
  <2> QED
    BY <2>1, <2>2
<1>6. CASE Enable \/ MapBars \/ Try
  BY <1>6, ProbeTries, Zenon
<1>7. CASE Setup
  BY <1>7, ProbeSetup, Zenon
<1> QED
  BY <1>4, <1>5, <1>6, <1>7, Zenon

\* What is left of a removal.
LEMMA LeavingIs ==
  /\ Removal \in Seq(Steps) /\ Do("gone") \in Seq(Steps) /\ Removal # <<>> /\ Do("gone") # <<>>
  /\ Head(Removal) = One("unmap") /\ Head(Do("gone")) = One("gone")
  /\ SubSeq(Removal, 0 + 2, Len(Removal)) = Do("gone") /\ SubSeq(Do("gone"), 0 + 2, Len(Do("gone"))) = <<>>
  /\ Removal # Do("gone")
<1>1. One("unmap") \in Steps /\ One("gone") \in Steps
  BY StepKinds, Zenon
<1>2. Removal = Two(One("unmap"), One("gone")) /\ Do("gone") = <<One("gone")>>
  BY Zenon DEF Removal, Do, One, Two
<1>3. \A a \in Steps, b \in Steps : <<a, b>> \in Seq(Steps) /\ <<b>> \in Seq(Steps) /\ Head(<<a, b>>) = a /\ Head(<<b>>) = b
  OBVIOUS
<1>4. \A a \in Steps, b \in Steps : <<a, b>> # <<>> /\ <<b>> # <<>> /\ <<a, b>> # <<b>>
  OBVIOUS
<1>5. \A b \in Steps : SubSeq(<<b>>, 0 + 2, Len(<<b>>)) = <<>>
  OBVIOUS
<1>6. \A u \in Seq(Steps) : \A b : Len(u) = 1 /\ u[1] = b => u = <<b>>
  OBVIOUS
<1>7. ASSUME NEW a \in Steps, NEW b \in Steps PROVE SubSeq(<<a, b>>, 0 + 2, Len(<<a, b>>)) = <<b>>
  <2> DEFINE s == <<a, b>>
  <2> DEFINE u == SubSeq(s, 1 + 1, Len(s))
  <2>1. s \in Seq(Steps) /\ Len(s) = 2 /\ s[2] = b /\ 1 <= Len(s) /\ 1 \in Nat
    OBVIOUS
  <2> HIDE DEF s
  <2>2. Left(s, u, 1)
    BY <2>1, LeftIs
  <2>3. u \in Seq(Steps) /\ Len(s) = 1 + Len(u) /\ Len(u) \in Nat /\ \A i \in 1 .. Len(u) : u[i] = s[1 + i]
    BY <2>2, Zenon DEF Left
  <2> HIDE DEF u
  <2>4. Len(u) = 1 /\ 1 \in 1 .. Len(u) /\ 1 + 1 = 2
    <3>1. \A m \in Nat : 2 = 1 + m => m = 1 /\ 1 \in 1 .. m /\ 1 + 1 = 2
      OBVIOUS
    <3>2. Len(u) \in Nat /\ 2 = 1 + Len(u)
      BY <2>1, <2>3, Zenon
    <3> QED
      BY <3>1, <3>2, Zenon
  <2>5. u[1] = b
    BY <2>1, <2>3, <2>4
  <2>6. u = <<b>>
    BY <1>6, <2>3, <2>4, <2>5, Zenon
  <2>7. 0 + 2 = 1 + 1
    OBVIOUS
  <2> QED
    BY <2>6, <2>7 DEF u, s
<1>8. Two(One("unmap"), One("gone")) = <<One("unmap"), One("gone")>>
  BY <1>1, TwoIs, Zenon
<1>9. Removal = <<One("unmap"), One("gone")>>
  BY <1>2, <1>8, Zenon
<1> QED
  BY <1>1, <1>2, <1>3, <1>4, <1>5, <1>7, <1>9, Zenon

LEMMA LeavingStep ==
  ASSUME Leaving, Quiet, Step,
         todo = Do("gone") => ~mapped /\ ~master /\ ~olmsg
  PROVE  \/ /\ phase' = phase /\ todo' = Do("gone") /\ Quiet' /\ ~mapped' /\ ~master' /\ ~olmsg'
         \/ phase' = "gone" /\ Gone'
<1>1. todo = Removal \/ todo = Do("gone")
  BY DEF Leaving
<1>2. /\ todo = Removal => todo # <<>> /\ Head(todo)[1] = "unmap"
      /\ todo = Do("gone") => todo # <<>> /\ Head(todo)[1] = "gone"
  <2>1. One("unmap")[1] = "unmap" /\ One("gone")[1] = "gone"
    BY Tags, ZenonT(60)
  <2>2. Head(Removal) = One("unmap") /\ Head(Do("gone")) = One("gone") /\ Removal # <<>> /\ Do("gone") # <<>>
    BY LeavingIs, Zenon
  <2> QED
    BY <2>1, <2>2
<1>3. \A op : At(op) => (op = "unmap" /\ todo = Removal) \/ (op = "gone" /\ todo = Do("gone"))
  BY <1>1, <1>2, Zenon DEF At
<1>4. /\ \A op \in {"window", "write", "skip if in reset", "clear reset", "disable arm", "around", "flip mask", "round trip", "tcm"} : ~At(op)
      /\ \A op \in {"bus reset", "try enable", "set master", "clear master", "map", "try", "setup", "fw"} : ~At(op)
      /\ \A op \in {"alloc", "olmsg", "skip unless olmsg", "msi on", "msi off", "irq on", "irq off", "free all", "bound"} : ~At(op)
  BY <1>3
<1>5. Unmap \/ Settle
  <2>1. ~SetWindow /\ ~Write /\ ~ReadReset /\ ~ClearReset /\ ~ReadHalt /\ ~SaveWindow /\ ~FlipMask
        /\ ~Invert /\ ~WriteTcm
    BY <1>4 DEF SetWindow, Write, ReadReset, ClearReset, ReadHalt, SaveWindow, FlipMask, Invert, WriteTcm
  <2>2. ~BusReset /\ ~Enable /\ ~SetMaster /\ ~MapBars /\ ~Try /\ ~Setup /\ ~Request
    BY <1>4 DEF BusReset, Enable, SetMaster, MapBars, Try, Setup, Request
  <2>3. ~Alloc /\ ~AllocOlmsg /\ ~IfOlmsg /\ ~EnableMsi /\ ~RequestIrq /\ ~FreeIrq /\ ~FreeAll
    BY <1>4 DEF Alloc, AllocOlmsg, IfOlmsg, EnableMsi, RequestIrq, FreeIrq, FreeAll
  <2> QED
    BY <2>1, <2>2, <2>3, Zenon DEF Step
<1>6. CASE Unmap
  <2>1. /\ At("unmap") /\ olmsg' = FALSE /\ mapped' = FALSE /\ master' = FALSE /\ Drop(0)
        /\ phase' = phase /\ held' = held /\ irq' = irq /\ msi' = msi
    BY <1>6 DEF Unmap, Pop, irqVars
  <2>2. todo = Removal
    BY <1>3, <2>1
  <2>3. todo' = Do("gone")
    BY <2>1, <2>2, LeavingIs, Zenon DEF Drop
  <2> QED
    BY <2>1, <2>3 DEF Quiet
<1>7. CASE Settle
  <2>1. /\ At("gone") /\ phase' = Head(todo)[1] /\ Drop(0)
        /\ held' = held /\ irq' = irq /\ msi' = msi /\ mapped' = mapped /\ olmsg' = olmsg /\ master' = master
    <3>1. ~At("bound")
      BY <1>4
    <3> QED
      BY <1>7, <3>1 DEF Settle, Pop, irqVars, hostVars
  <2>2. todo = Do("gone")
    BY <1>3, <2>1
  <2>3. todo' = <<>>
    BY <2>1, <2>2, LeavingIs, Zenon DEF Drop
  <2>4. phase' = "gone"
    BY <1>2, <2>1, <2>2
  <2> QED
    BY <2>1, <2>2, <2>3, <2>4 DEF Quiet, Gone
<1> QED
  BY <1>5, <1>6, <1>7, Zenon

-----------------------------------------------------------------------------
(***************************************************************************)
(* The variables keep their types.                                         *)
(***************************************************************************)
LEMMA DropType == ASSUME todo \in Seq(Steps), NEW n \in Nat, Drop(n) PROVE todo' \in Seq(Steps)
<1>1. Len(todo) \in Nat /\ n + 2 \in 1 .. (n + 2) /\ \A i \in n + 2 .. Len(todo) : i \in 1 .. Len(todo)
  <2>1. Len(todo) \in Nat
    BY Lengths, Zenon
  <2>2. \A a \in Nat, b \in Nat : b + 2 \in 1 .. (b + 2) /\ \A i \in b + 2 .. a : i \in 1 .. a
    OBVIOUS
  <2> QED
    BY <2>1, <2>2, Zenon
<1>2. \A i \in n + 2 .. Len(todo) : todo[i] \in Steps
  BY <1>1, Lengths, Zenon
<1>3. SubSeq(todo, n + 2, Len(todo)) \in Seq(Steps)
  BY <1>1, <1>2, SubSeqProperties
<1> QED
  BY <1>3, Zenon DEF Drop

\* What a step carries.
LEMMA Carried ==
  ASSUME NEW e \in Steps
  PROVE  /\ e[1] = "window" => e[2] \in Windows
         /\ e[1] = "clear reset" => e[2] = "arm"
         /\ e[1] = "tcm" => e[3] \in Owners
         /\ e[1] = "write" => /\ e[3] = "halt" /\ e[2] = "arm" => e[4] \in BOOLEAN
                              /\ e[3] = "reset" => e[2] \in {"arm", "d11"} /\ e[4] = "in"
                              /\ e[3] = "mask" => e[4] \in BOOLEAN
         /\ e[1] = "skip if in reset" => e[3] = 4
         /\ e[1] = "irq on" => e[2] \in Nat
         /\ e[1] = "skip unless olmsg" => e[2] \in Nat
         /\ e[1] = "around" => e[2] = Flips
         /\ e[1] = "round trip" => e = Trip /\ e[2] = ProbeWord
         /\ e \in Restores => e[1] = "tcm" /\ e[2] = ProbeWord
         /\ e[1] = "tcm" => e[3] # "inverted"
<1>1. e[1] = "window" => e[2] \in Windows
  BY Kinds, Tags, ZenonT(60)
<1>2. e[1] = "clear reset" => e[2] = "arm"
  <2>1. Clear("arm")[2] = "arm"
    BY DEF Clear
  <2> QED
    BY <2>1, Kinds, Zenon
<1>3. e[1] = "tcm" => e[3] \in Owners
  <2>1. \A x \in AllStores : x[3] \in {"fw", "t247", "zero", "shared", "nvram", "seed"} \cup Owners
    BY DEF AllStores, FwStore, VectorStore, PreStore, ZeroStore, SharedStore, NvramStore, SeedStore, Restores, Restore
  <2>2. \A o \in {"fw", "t247", "zero", "shared", "nvram", "seed"} \cup Owners : o \in Owners
    BY DEF Owners
  <2> QED
    BY <2>1, <2>2, Kinds, Zenon
<1>4. e[1] = "write" => /\ e[3] = "halt" /\ e[2] = "arm" => e[4] \in BOOLEAN
                        /\ e[3] = "reset" => e[2] \in {"arm", "d11"} /\ e[4] = "in"
                        /\ e[3] = "mask" => e[4] \in BOOLEAN
  <2>1. e[1] = "write" => e \in {Rel, Hlt, InReset("arm"), Rel11, InReset("d11"), Msk(TRUE), Msk(FALSE), Bell}
    BY Kinds DEF ArmW, D11W, PcieW
  <2>2. /\ Rel[3] = "halt" /\ Rel[4] = FALSE /\ Hlt[3] = "halt" /\ Hlt[4] = TRUE
        /\ Rel11[2] = "d11" /\ Rel11[3] = "halt" /\ Bell[3] = "doorbell"
        /\ \A c : InReset(c)[2] = c /\ InReset(c)[3] = "reset" /\ InReset(c)[4] = "in"
        /\ \A b : Msk(b)[3] = "mask" /\ Msk(b)[4] = b
    BY DEF Rel, Hlt, Rel11, Bell, InReset, Msk
  <2> DEFINE Fits(x) == /\ x[3] = "halt" /\ x[2] = "arm" => x[4] \in BOOLEAN
                        /\ x[3] = "reset" => x[2] \in {"arm", "d11"} /\ x[4] = "in"
                        /\ x[3] = "mask" => x[4] \in BOOLEAN
  <2>3. Fits(Rel) /\ Fits(Hlt) /\ Fits(Rel11) /\ Fits(Bell)
    BY <2>2
  <2>4. Fits(InReset("arm")) /\ Fits(InReset("d11"))
    <3>1. \A c : InReset(c)[2] = c /\ InReset(c)[3] = "reset" /\ InReset(c)[4] = "in"
      BY <2>2
    <3> HIDE DEF InReset
    <3> QED
      BY <3>1
  <2>5. Fits(Msk(TRUE)) /\ Fits(Msk(FALSE))
    <3>1. \A b : Msk(b)[3] = "mask" /\ Msk(b)[4] = b
      BY <2>2
    <3> QED
      BY <3>1
  <2> HIDE DEF Fits
  <2>6. e[1] = "write" => Fits(e)
    BY <2>1, <2>3, <2>4, <2>5, Zenon
  <2> QED
    BY <2>6, Zenon DEF Fits
<1>5. e[1] = "skip if in reset" => e[3] = 4
  <2>1. Skip("arm")[3] = 4 /\ Skip("d11")[3] = 4
    BY Tags, ZenonT(60)
  <2>2. e[1] = "skip if in reset" => e = Skip("arm") \/ e = Skip("d11")
    BY Kinds
  <2> QED
    BY <2>1, <2>2, Zenon
<1>6. e[1] = "irq on" => e[2] \in Nat
  <2>1. e[1] = "irq on" => e[2] \in {1, 3}
    BY Kinds, Tags, ZenonT(60)
  <2>2. \A n \in {1, 3} : n \in Nat
    OBVIOUS
  <2> QED
    BY <2>1, <2>2, Zenon
<1>7. e[1] = "skip unless olmsg" => e[2] \in Nat
  <2>1. e[1] = "skip unless olmsg" => e[2] \in 0 .. 5
    BY Kinds, Tags, ZenonT(60)
  <2>2. \A n \in 0 .. 5 : n \in Nat
    OBVIOUS
  <2> QED
    BY <2>1, <2>2, Zenon
<1>8. e[1] = "around" => e[2] = Flips
  BY Kinds, Tags, ZenonT(60)
<1>9. e[1] = "round trip" => e = Trip /\ e[2] = ProbeWord
  BY Kinds, Tags, ZenonT(60)
<1>10. e \in Restores => e[1] = "tcm" /\ e[2] = ProbeWord
  BY DEF Restores, Restore
<1>11. e[1] = "tcm" => e[3] # "inverted"
  <2>1. \A x \in AllStores : x[3] # "inverted"
    BY DEF AllStores, FwStore, VectorStore, PreStore, ZeroStore, SharedStore, NvramStore, SeedStore, Restores, Restore
  <2> QED
    BY <2>1, Kinds, Zenon
<1> QED
  BY <1>1, <1>2, <1>3, <1>4, <1>5, <1>6, <1>7, <1>8, <1>9, <1>10, <1>11, Zenon

\* What is inserted into the list, and the program of a removal.
LEMMA ListTypes ==
  ASSUME TypeOK, todo # <<>>
  PROVE  /\ DisableArm \o Tail(todo) \in Seq(Steps)
         /\ Flips \o View(window) \o Tail(todo) \in Seq(Steps)
         /\ Removal \in Seq(Steps) /\ <<>> \in Seq(Steps)
<1>1. Tail(todo) \in Seq(Steps)
  BY HeadTailProperties DEF TypeOK
<1>2. DisableArm \in Seq(Steps)
  BY DisableArmList, Zenon DEF TypeOK, Post, Piece
<1>3. "pcie" \in Windows /\ window \in Windows
  BY DEF Windows, TypeOK
<1>4. View("pcie") \in Seq(Steps) /\ View(window) \in Seq(Steps) /\ Do("flip mask") \in Seq(Steps)
  BY <1>3, ViewList, SoftList, Zenon DEF Free, Pre, Piece
<1>5. \A s, t : s \in Seq(Steps) /\ t \in Seq(Steps) => s \o t \in Seq(Steps)
  BY ConcatProperties
<1>6. Flips \in Seq(Steps)
  BY <1>4, <1>5, Zenon DEF Flips
<1>7. Removal \in Seq(Steps)
  BY LeavingIs, Zenon
<1> QED
  BY <1>1, <1>2, <1>4, <1>5, <1>6, <1>7, EmptySeq, Zenon

\* A step changes what it changes, to values of the type.
LEMMA TypeFrame ==
  ASSUME TypeOK, todo' \in Seq(Steps),
         phase' = phase \/ phase' \in {"gone", "probe", "setup", "bound", "remove"},
         loads' = loads, tests' = tests, nvlen' = nvlen,
         window' = window \/ window' \in Windows,
         halt' = halt \/ halt' \in BOOLEAN,
         reset' = reset \/ reset' \in [{"arm", "d11"} -> {"in", "out"}],
         master' = master \/ master' \in BOOLEAN,
         mask' = mask \/ mask' \in BOOLEAN,
         tcm' = tcm \/ tcm' \in [Cuts -> Owners],
         mapped' = mapped \/ mapped' \in BOOLEAN,
         olmsg' = olmsg \/ olmsg' \in BOOLEAN,
         held' = held \/ held' \subseteq {"fw", "nvram", "samples", "fine"},
         irq' = irq \/ irq' \in {"none", "line", "msi"},
         msi' = msi \/ msi' \in BOOLEAN,
         isr' = isr \/ isr' \in {"idle", "claim"}
  PROVE  TypeOK'
<1>1. phase' \in {"gone", "probe", "setup", "bound", "remove"}
  BY DEF TypeOK
<1>2. loads' \in Nat /\ tests' \in TestSets \cup {{}} /\ nvlen' \in NvramLens \cup {0}
  BY Zenon DEF TypeOK
<1>3. window' \in Windows
  BY Zenon DEF TypeOK
<1>4. halt' \in BOOLEAN
  BY Zenon DEF TypeOK
<1>5. reset' \in [{"arm", "d11"} -> {"in", "out"}]
  BY Zenon DEF TypeOK
<1>6. master' \in BOOLEAN
  BY Zenon DEF TypeOK
<1>7. mask' \in BOOLEAN
  BY Zenon DEF TypeOK
<1>8. tcm' \in [Cuts -> Owners]
  BY Zenon DEF TypeOK
<1>9. mapped' \in BOOLEAN
  BY Zenon DEF TypeOK
<1>10. olmsg' \in BOOLEAN
  BY Zenon DEF TypeOK
<1>11. held' \subseteq {"fw", "nvram", "samples", "fine"}
  BY Zenon DEF TypeOK
<1>12. irq' \in {"none", "line", "msi"}
  BY Zenon DEF TypeOK
<1>13. msi' \in BOOLEAN
  BY Zenon DEF TypeOK
<1>14. isr' \in {"idle", "claim"}
  BY Zenon DEF TypeOK
<1> QED
  BY <1>1, <1>2, <1>3, <1>4, <1>5, <1>6, <1>7, <1>8, <1>9, <1>10, <1>11, <1>12, <1>13, <1>14, Zenon DEF TypeOK

LEMMA TypeSetWindow == ASSUME TypeOK, SetWindow PROVE TypeOK'
<1>1. todo \in Seq(Steps) /\ todo # <<>> /\ Head(todo)[1] = "window"
  BY Zenon DEF TypeOK, SetWindow, At
<1>2. Head(todo) \in Steps
  BY <1>1, Lengths, Zenon
<1>3. todo' \in Seq(Steps)
  <2>1. Drop(0) /\ 0 \in Nat
    BY DEF SetWindow, Pop
  <2> QED
    BY <1>1, <2>1, DropType, Zenon
<1>4. /\ loads' = loads /\ tests' = tests /\ nvlen' = nvlen /\ phase' = phase /\ halt' = halt
      /\ reset' = reset /\ master' = master /\ mask' = mask /\ tcm' = tcm /\ mapped' = mapped
      /\ olmsg' = olmsg /\ held' = held /\ irq' = irq /\ msi' = msi /\ isr' = isr
  BY Zenon DEF SetWindow, loadVars, armVars, hostVars, irqVars
<1>5. window' \in Windows
  BY <1>1, <1>2, Carried, Zenon DEF SetWindow, Arg
<1> QED
  BY <1>3, <1>4, <1>5, TypeFrame, Zenon

LEMMA TypeWrite == ASSUME TypeOK, Write PROVE TypeOK'
<1>1. todo \in Seq(Steps) /\ todo # <<>> /\ Head(todo)[1] = "write"
  BY Zenon DEF TypeOK, Write, At
<1>2. Head(todo) \in Steps
  BY <1>1, Lengths, Zenon
<1>3. todo' \in Seq(Steps)
  <2>1. Drop(0) /\ 0 \in Nat
    BY DEF Write, Pop
  <2> QED
    BY <1>1, <2>1, DropType, Zenon
<1>4. /\ loads' = loads /\ tests' = tests /\ nvlen' = nvlen /\ phase' = phase /\ window' = window
      /\ master' = master /\ tcm' = tcm /\ mapped' = mapped /\ olmsg' = olmsg /\ held' = held
      /\ irq' = irq /\ msi' = msi /\ isr' = isr
  BY Zenon DEF Write, loadVars, armVars, hostVars, irqVars
<1>5. halt' \in BOOLEAN
  <2>1. Head(todo)[3] = "halt" /\ Arg = "arm" => Head(todo)[4] \in BOOLEAN
    BY <1>1, <1>2, Carried, Zenon DEF Arg
  <2>2. halt' = halt \/ (Head(todo)[3] = "halt" /\ Arg = "arm" /\ halt' = Head(todo)[4])
    BY DEF Write
  <2> QED
    BY <2>1, <2>2, Zenon DEF TypeOK
<1>6. reset' \in [{"arm", "d11"} -> {"in", "out"}]
  <2>1. Head(todo)[3] = "reset" => Arg \in {"arm", "d11"} /\ Head(todo)[4] = "in"
    BY <1>1, <1>2, Carried, Zenon DEF Arg
  <2>2. reset' = reset \/ (Head(todo)[3] = "reset" /\ reset' = [reset EXCEPT ![Arg] = Head(todo)[4]])
    BY DEF Write
  <2> QED
    BY <2>1, <2>2 DEF TypeOK
<1>7. mask' \in BOOLEAN
  <2>1. Head(todo)[3] = "mask" => Head(todo)[4] \in BOOLEAN
    BY <1>1, <1>2, Carried, Zenon DEF Arg
  <2>2. mask' = mask \/ (Head(todo)[3] = "mask" /\ mask' = Head(todo)[4])
    BY DEF Write
  <2> QED
    BY <2>1, <2>2, Zenon DEF TypeOK
<1> QED
  BY <1>3, <1>4, <1>5, <1>6, <1>7, TypeFrame, Zenon

LEMMA TypeReadReset == ASSUME TypeOK, ReadReset PROVE TypeOK'
<1>1. todo \in Seq(Steps) /\ todo # <<>> /\ Head(todo)[1] = "skip if in reset"
  BY Zenon DEF TypeOK, ReadReset, At
<1>2. Head(todo) \in Steps
  BY <1>1, Lengths, Zenon
<1>3. todo' \in Seq(Steps)
  <2>1. 0 \in Nat /\ 4 \in Nat
    OBVIOUS
  <2>2. Head(todo)[3] = 4
    BY <1>1, <1>2, Carried, Zenon
  <2>3. \E n \in Nat : Drop(n)
    BY <2>1, <2>2, Zenon DEF ReadReset, Pop, Arg
  <2> QED
    BY <1>1, <2>3, DropType, Zenon
<1>4. /\ loads' = loads /\ tests' = tests /\ nvlen' = nvlen /\ phase' = phase /\ window' = window
      /\ halt' = halt /\ reset' = reset /\ master' = master /\ mask' = mask /\ tcm' = tcm
      /\ mapped' = mapped /\ olmsg' = olmsg /\ held' = held /\ irq' = irq /\ msi' = msi /\ isr' = isr
  BY Zenon DEF ReadReset, loadVars, armVars, hostVars, irqVars
<1> QED
  BY <1>3, <1>4, TypeFrame, Zenon

LEMMA TypeClearReset == ASSUME TypeOK, ClearReset PROVE TypeOK'
<1>1. todo \in Seq(Steps) /\ todo # <<>> /\ Head(todo)[1] = "clear reset"
  BY Zenon DEF TypeOK, ClearReset, At
<1>2. Head(todo) \in Steps
  BY <1>1, Lengths, Zenon
<1>3. todo' \in Seq(Steps)
  <2>1. Drop(0) /\ 0 \in Nat
    BY DEF ClearReset, Pop
  <2> QED
    BY <1>1, <2>1, DropType, Zenon
<1>4. /\ loads' = loads /\ tests' = tests /\ nvlen' = nvlen /\ phase' = phase /\ halt' = halt
      /\ master' = master /\ mask' = mask /\ tcm' = tcm /\ mapped' = mapped /\ olmsg' = olmsg
      /\ held' = held /\ irq' = irq /\ msi' = msi /\ isr' = isr
  BY Zenon DEF ClearReset, loadVars, armVars, hostVars, irqVars
<1>5. window' \in Windows
  <2>1. Arg = "arm"
    BY <1>1, <1>2, Carried, Zenon DEF Arg
  <2> QED
    BY <2>1 DEF ClearReset, Windows
<1>6. reset' \in [{"arm", "d11"} -> {"in", "out"}]
  BY DEF ClearReset, TypeOK
<1> QED
  BY <1>3, <1>4, <1>5, <1>6, TypeFrame, Zenon

LEMMA TypeReadHalt == ASSUME TypeOK, ReadHalt PROVE TypeOK'
<1>1. todo \in Seq(Steps) /\ todo # <<>> /\ Head(todo)[1] = "disable arm"
  BY Zenon DEF TypeOK, ReadHalt, At
<1>2. Head(todo) \in Steps
  BY <1>1, Lengths, Zenon
<1>3. todo' \in Seq(Steps)
  BY <1>1, ListTypes, Zenon DEF ReadHalt
<1>4. /\ loads' = loads /\ tests' = tests /\ nvlen' = nvlen /\ phase' = phase /\ window' = window
      /\ halt' = halt /\ reset' = reset /\ master' = master /\ mask' = mask /\ tcm' = tcm
      /\ mapped' = mapped /\ olmsg' = olmsg /\ held' = held /\ irq' = irq /\ msi' = msi /\ isr' = isr
  BY Zenon DEF ReadHalt, loadVars, armVars, hostVars, irqVars
<1> QED
  BY <1>3, <1>4, TypeFrame, Zenon

LEMMA TypeSaveWindow == ASSUME TypeOK, SaveWindow PROVE TypeOK'
<1>1. todo \in Seq(Steps) /\ todo # <<>> /\ Head(todo)[1] = "around"
  BY Zenon DEF TypeOK, SaveWindow, At
<1>2. Head(todo) \in Steps
  BY <1>1, Lengths, Zenon
<1>3. todo' \in Seq(Steps)
  <2>1. Arg = Flips
    BY <1>1, <1>2, Carried, Zenon DEF Arg
  <2>2. todo' = Flips \o View(window) \o Tail(todo)
    BY <2>1, Zenon DEF SaveWindow
  <2> QED
    BY <1>1, <2>2, ListTypes, Zenon
<1>4. /\ loads' = loads /\ tests' = tests /\ nvlen' = nvlen /\ phase' = phase /\ window' = window
      /\ halt' = halt /\ reset' = reset /\ master' = master /\ mask' = mask /\ tcm' = tcm
      /\ mapped' = mapped /\ olmsg' = olmsg /\ held' = held /\ irq' = irq /\ msi' = msi /\ isr' = isr
  BY Zenon DEF SaveWindow, loadVars, armVars, hostVars, irqVars
<1> QED
  BY <1>3, <1>4, TypeFrame, Zenon

LEMMA TypeFlipMask == ASSUME TypeOK, FlipMask PROVE TypeOK'
<1>1. todo \in Seq(Steps) /\ todo # <<>> /\ Head(todo)[1] = "flip mask"
  BY Zenon DEF TypeOK, FlipMask, At
<1>2. Head(todo) \in Steps
  BY <1>1, Lengths, Zenon
<1>3. todo' \in Seq(Steps)
  <2>1. Drop(0) /\ 0 \in Nat
    BY DEF FlipMask, Pop
  <2> QED
    BY <1>1, <2>1, DropType, Zenon
<1>4. /\ loads' = loads /\ tests' = tests /\ nvlen' = nvlen /\ phase' = phase /\ window' = window
      /\ halt' = halt /\ reset' = reset /\ master' = master /\ tcm' = tcm /\ mapped' = mapped
      /\ olmsg' = olmsg /\ held' = held /\ irq' = irq /\ msi' = msi /\ isr' = isr
  BY Zenon DEF FlipMask, loadVars, armVars, hostVars, irqVars
<1>5. mask' \in BOOLEAN
  BY DEF FlipMask, TypeOK
<1> QED
  BY <1>3, <1>4, <1>5, TypeFrame, Zenon

LEMMA TypeInvert == ASSUME TypeOK, Pending, Invert PROVE TypeOK'
<1>1. todo \in Seq(Steps) /\ todo # <<>> /\ Head(todo)[1] = "round trip"
  BY Zenon DEF TypeOK, Invert, At
<1>2. Head(todo) \in Steps
  BY <1>1, Lengths, Zenon
<1>3. todo' \in Seq(Steps)
  <2>1. Arg = ProbeWord
    BY <1>1, <1>2, Carried, Zenon DEF Arg
  <2>2. todo' = <<Restore(tcm[ProbeWord.lo])>> \o Tail(todo)
    BY <2>1, Zenon DEF Invert, Store, Restore
  <2>3. Restore(tcm[ProbeWord.lo]) \in Restores
    <3>1. Head(todo)[1] # "tcm"
      BY <1>1
    <3> QED
      BY <1>1, <3>1, NotPending, Zenon
  <2>4. Restores \subseteq Steps
    BY DEF Steps, AllStores
  <2>5. <<Restore(tcm[ProbeWord.lo])>> \in Seq(Steps)
    BY <2>3, <2>4, Single
  <2>6. Tail(todo) \in Seq(Steps)
    BY <1>1, HeadTailProperties
  <2> QED
    BY <2>2, <2>5, <2>6, ConcatProperties
<1>4. /\ loads' = loads /\ tests' = tests /\ nvlen' = nvlen /\ phase' = phase /\ window' = window
      /\ halt' = halt /\ reset' = reset /\ master' = master /\ mask' = mask /\ mapped' = mapped
      /\ olmsg' = olmsg /\ held' = held /\ irq' = irq /\ msi' = msi /\ isr' = isr
  BY Zenon DEF Invert, loadVars, armVars, hostVars, irqVars
<1>5. tcm' \in [Cuts -> Owners]
  <2>1. "inverted" \in Owners
    BY DEF Owners
  <2>2. tcm' = [c \in Cuts |-> IF c \in In(Arg) THEN "inverted" ELSE tcm[c]]
    BY Zenon DEF Invert
  <2>3. tcm \in [Cuts -> Owners]
    BY Zenon DEF TypeOK
  <2> HIDE DEF Arg
  <2> QED
    BY <2>1, <2>2, <2>3
<1> QED
  BY <1>3, <1>4, <1>5, TypeFrame, Zenon

LEMMA TypeWriteTcm == ASSUME TypeOK, WriteTcm PROVE TypeOK'
<1>1. todo \in Seq(Steps) /\ todo # <<>> /\ Head(todo)[1] = "tcm"
  BY Zenon DEF TypeOK, WriteTcm, At
<1>2. Head(todo) \in Steps
  BY <1>1, Lengths, Zenon
<1>3. todo' \in Seq(Steps)
  <2>1. Drop(0) /\ 0 \in Nat
    BY DEF WriteTcm, Pop
  <2> QED
    BY <1>1, <2>1, DropType, Zenon
<1>4. /\ loads' = loads /\ tests' = tests /\ nvlen' = nvlen /\ phase' = phase /\ window' = window
      /\ halt' = halt /\ reset' = reset /\ master' = master /\ mask' = mask /\ mapped' = mapped
      /\ olmsg' = olmsg /\ held' = held /\ irq' = irq /\ msi' = msi /\ isr' = isr
  BY Zenon DEF WriteTcm, loadVars, armVars, hostVars, irqVars
<1>5. tcm' \in [Cuts -> Owners]
  <2>1. Head(todo)[3] \in Owners
    BY <1>1, <1>2, Carried, Zenon
  <2>2. tcm' = [c \in Cuts |-> IF c \in In(Arg) THEN Head(todo)[3] ELSE tcm[c]]
    BY Zenon DEF WriteTcm
  <2>3. tcm \in [Cuts -> Owners]
    BY Zenon DEF TypeOK
  <2> HIDE DEF Arg
  <2> QED
    BY <2>1, <2>2, <2>3
<1> QED
  BY <1>3, <1>4, <1>5, TypeFrame, Zenon

LEMMA TypeBusReset == ASSUME TypeOK, BusReset PROVE TypeOK'
<1>1. todo \in Seq(Steps) /\ todo # <<>> /\ Head(todo)[1] = "bus reset"
  BY Zenon DEF TypeOK, BusReset, At
<1>2. Head(todo) \in Steps
  BY <1>1, Lengths, Zenon
<1>3. todo' \in Seq(Steps)
  <2>1. Drop(0) /\ 0 \in Nat
    BY DEF BusReset, Pop
  <2> QED
    BY <1>1, <2>1, DropType, Zenon
<1>4. /\ loads' = loads /\ tests' = tests /\ nvlen' = nvlen /\ phase' = phase /\ master' = master
      /\ mapped' = mapped /\ olmsg' = olmsg /\ held' = held /\ irq' = irq /\ msi' = msi /\ isr' = isr
  BY Zenon DEF BusReset, loadVars, armVars, hostVars, irqVars
<1>5. window' \in Windows
  BY DEF BusReset, Windows
<1>6. halt' \in BOOLEAN
  BY DEF BusReset
<1>7. reset' \in [{"arm", "d11"} -> {"in", "out"}]
  BY DEF BusReset
<1>8. mask' \in BOOLEAN
  BY DEF BusReset
<1>9. tcm' \in [Cuts -> Owners]
  <2>1. tcm' = tcm \/ tcm' = [c \in Cuts |-> "old"]
    BY DEF BusReset
  <2>2. "old" \in Owners
    BY DEF Owners
  <2>3. tcm \in [Cuts -> Owners]
    BY Zenon DEF TypeOK
  <2> QED
    BY <2>1, <2>2, <2>3
<1> QED
  BY <1>3, <1>4, <1>5, <1>6, <1>7, <1>8, <1>9, TypeFrame, Zenon

LEMMA TypeEnable == ASSUME TypeOK, Enable PROVE TypeOK'
<1>1. todo \in Seq(Steps) /\ todo # <<>> /\ Head(todo)[1] = "try enable"
  BY Zenon DEF TypeOK, Enable, At
<1>2. Head(todo) \in Steps
  BY <1>1, Lengths, Zenon
<1>3. todo' \in Seq(Steps)
  <2>1. Drop(0) \/ todo' = Removal \/ todo' = <<>>
    BY Zenon DEF Enable, Pop, Fail
  <2>2. 0 \in Nat
    OBVIOUS
  <2> QED
    BY <1>1, <2>1, <2>2, DropType, ListTypes, Zenon
<1>4. /\ loads' = loads /\ tests' = tests /\ nvlen' = nvlen /\ window' = window /\ halt' = halt
      /\ reset' = reset /\ master' = master /\ mask' = mask /\ tcm' = tcm /\ mapped' = mapped
      /\ olmsg' = olmsg /\ held' = held /\ irq' = irq /\ msi' = msi /\ isr' = isr
  BY Zenon DEF Enable, loadVars, armVars, hostVars, irqVars
<1>5. phase' \in {"gone", "probe", "setup", "bound", "remove"}
  BY DEF Enable, TypeOK
<1> QED
  BY <1>3, <1>4, <1>5, TypeFrame, Zenon

LEMMA TypeSetMaster == ASSUME TypeOK, SetMaster PROVE TypeOK'
<1>1. todo \in Seq(Steps) /\ todo # <<>>
  BY Zenon DEF TypeOK, SetMaster, At
<1>2. Head(todo) \in Steps
  BY <1>1, Lengths, Zenon
<1>3. todo' \in Seq(Steps)
  <2>1. Drop(0) /\ 0 \in Nat
    BY DEF SetMaster, Pop
  <2> QED
    BY <1>1, <2>1, DropType, Zenon
<1>4. /\ loads' = loads /\ tests' = tests /\ nvlen' = nvlen /\ phase' = phase /\ window' = window
      /\ halt' = halt /\ reset' = reset /\ mask' = mask /\ tcm' = tcm /\ mapped' = mapped
      /\ olmsg' = olmsg /\ held' = held /\ irq' = irq /\ msi' = msi /\ isr' = isr
  BY Zenon DEF SetMaster, loadVars, armVars, hostVars, irqVars
<1>5. master' \in BOOLEAN
  BY DEF SetMaster, At
<1> QED
  BY <1>3, <1>4, <1>5, TypeFrame, Zenon

LEMMA TypeMapBars == ASSUME TypeOK, MapBars PROVE TypeOK'
<1>1. todo \in Seq(Steps) /\ todo # <<>> /\ Head(todo)[1] = "map"
  BY Zenon DEF TypeOK, MapBars, At
<1>2. Head(todo) \in Steps
  BY <1>1, Lengths, Zenon
<1>3. todo' \in Seq(Steps)
  <2>1. Drop(0) \/ todo' = Removal \/ todo' = <<>>
    BY Zenon DEF MapBars, Pop, Fail
  <2>2. 0 \in Nat
    OBVIOUS
  <2> QED
    BY <1>1, <2>1, <2>2, DropType, ListTypes, Zenon
<1>4. /\ loads' = loads /\ tests' = tests /\ nvlen' = nvlen /\ phase' = phase /\ window' = window
      /\ halt' = halt /\ reset' = reset /\ master' = master /\ mask' = mask /\ tcm' = tcm
      /\ olmsg' = olmsg /\ held' = held /\ irq' = irq /\ msi' = msi /\ isr' = isr
  BY Zenon DEF MapBars, loadVars, armVars, hostVars, irqVars
<1>5. mapped' \in BOOLEAN
  BY DEF MapBars, TypeOK
<1> QED
  BY <1>3, <1>4, <1>5, TypeFrame, Zenon

LEMMA TypeTry == ASSUME TypeOK, Try PROVE TypeOK'
<1>1. todo \in Seq(Steps) /\ todo # <<>> /\ Head(todo)[1] = "try"
  BY Zenon DEF TypeOK, Try, At
<1>2. Head(todo) \in Steps
  BY <1>1, Lengths, Zenon
<1>3. todo' \in Seq(Steps)
  <2>1. Drop(0) \/ todo' = Removal \/ todo' = <<>>
    BY Zenon DEF Try, Pop, Fail
  <2>2. 0 \in Nat
    OBVIOUS
  <2> QED
    BY <1>1, <2>1, <2>2, DropType, ListTypes, Zenon
<1>4. /\ loads' = loads /\ tests' = tests /\ nvlen' = nvlen /\ phase' = phase /\ window' = window
      /\ halt' = halt /\ reset' = reset /\ master' = master /\ mask' = mask /\ tcm' = tcm
      /\ mapped' = mapped /\ olmsg' = olmsg /\ held' = held /\ irq' = irq /\ msi' = msi /\ isr' = isr
  BY Zenon DEF Try, loadVars, armVars, hostVars, irqVars
<1> QED
  BY <1>3, <1>4, TypeFrame, Zenon

LEMMA TypeSetup == ASSUME TypeOK, Setup, todo' \in Seq(Steps) PROVE TypeOK'
<1>4. /\ loads' = loads /\ tests' = tests /\ nvlen' = nvlen /\ window' = window /\ halt' = halt
      /\ reset' = reset /\ master' = master /\ mask' = mask /\ tcm' = tcm /\ mapped' = mapped
      /\ olmsg' = olmsg /\ held' = held /\ irq' = irq /\ msi' = msi /\ isr' = isr
  BY Zenon DEF Setup, loadVars, armVars, hostVars, irqVars
<1>5. phase' \in {"gone", "probe", "setup", "bound", "remove"}
  BY DEF Setup
<1> QED
  BY <1>4, <1>5, TypeFrame, Zenon

LEMMA TypeRequest == ASSUME TypeOK, Request PROVE TypeOK'
<1>1. todo \in Seq(Steps) /\ todo # <<>> /\ Head(todo)[1] = "fw"
  BY Zenon DEF TypeOK, Request, At
<1>2. Head(todo) \in Steps
  BY <1>1, Lengths, Zenon
<1>3. todo' \in Seq(Steps)
  <2>1. Drop(0) \/ todo' = Removal \/ todo' = <<>>
    BY Zenon DEF Request, Pop, Fail
  <2>2. 0 \in Nat
    OBVIOUS
  <2> QED
    BY <1>1, <2>1, <2>2, DropType, ListTypes, Zenon
<1>4. /\ loads' = loads /\ tests' = tests /\ nvlen' = nvlen /\ window' = window /\ halt' = halt
      /\ reset' = reset /\ master' = master /\ mask' = mask /\ tcm' = tcm /\ mapped' = mapped
      /\ olmsg' = olmsg /\ irq' = irq /\ msi' = msi /\ isr' = isr
  BY Zenon DEF Request, loadVars, armVars, hostVars, irqVars
<1>5. phase' \in {"gone", "probe", "setup", "bound", "remove"}
  BY DEF Request, TypeOK
<1>6. held' \subseteq {"fw", "nvram", "samples", "fine"}
  BY DEF Request, TypeOK
<1> QED
  BY <1>3, <1>4, <1>5, <1>6, TypeFrame, Zenon

LEMMA TypeAlloc == ASSUME TypeOK, Alloc PROVE TypeOK'
<1>1. todo \in Seq(Steps) /\ todo # <<>> /\ Head(todo)[1] = "alloc"
  BY Zenon DEF TypeOK, Alloc, At
<1>2. Head(todo) \in Steps
  BY <1>1, Lengths, Zenon
<1>3. todo' \in Seq(Steps)
  <2>1. Drop(0) /\ 0 \in Nat
    BY DEF Alloc, Pop
  <2> QED
    BY <1>1, <2>1, DropType, Zenon
<1>4. /\ loads' = loads /\ tests' = tests /\ nvlen' = nvlen /\ phase' = phase /\ window' = window
      /\ halt' = halt /\ reset' = reset /\ master' = master /\ mask' = mask /\ tcm' = tcm
      /\ mapped' = mapped /\ olmsg' = olmsg /\ irq' = irq /\ msi' = msi /\ isr' = isr
  BY Zenon DEF Alloc, loadVars, armVars, hostVars, irqVars
<1>5. held' \subseteq {"fw", "nvram", "samples", "fine"}
  BY DEF Alloc, TypeOK
<1> QED
  BY <1>3, <1>4, <1>5, TypeFrame, Zenon

LEMMA TypeAllocOlmsg == ASSUME TypeOK, AllocOlmsg PROVE TypeOK'
<1>1. todo \in Seq(Steps) /\ todo # <<>> /\ Head(todo)[1] = "olmsg"
  BY Zenon DEF TypeOK, AllocOlmsg, At
<1>2. Head(todo) \in Steps
  BY <1>1, Lengths, Zenon
<1>3. todo' \in Seq(Steps)
  <2>1. 0 \in Nat /\ 1 \in Nat
    OBVIOUS
  <2>3. \E n \in Nat : Drop(n)
    BY <2>1, Zenon DEF AllocOlmsg, Pop, Arg
  <2> QED
    BY <1>1, <2>3, DropType, Zenon
<1>4. /\ loads' = loads /\ tests' = tests /\ nvlen' = nvlen /\ phase' = phase /\ window' = window
      /\ halt' = halt /\ reset' = reset /\ master' = master /\ mask' = mask /\ tcm' = tcm
      /\ mapped' = mapped /\ held' = held /\ irq' = irq /\ msi' = msi /\ isr' = isr
  BY Zenon DEF AllocOlmsg, loadVars, armVars, hostVars, irqVars
<1>5. olmsg' \in BOOLEAN
  BY DEF AllocOlmsg, TypeOK
<1> QED
  BY <1>3, <1>4, <1>5, TypeFrame, Zenon

LEMMA TypeIfOlmsg == ASSUME TypeOK, IfOlmsg PROVE TypeOK'
<1>1. todo \in Seq(Steps) /\ todo # <<>> /\ Head(todo)[1] = "skip unless olmsg"
  BY Zenon DEF TypeOK, IfOlmsg, At
<1>2. Head(todo) \in Steps
  BY <1>1, Lengths, Zenon
<1>3. todo' \in Seq(Steps)
  <2>1. 0 \in Nat
    OBVIOUS
  <2>2. Head(todo)[2] \in Nat
    BY <1>1, <1>2, Carried, Zenon
  <2>3. \E n \in Nat : Drop(n)
    BY <2>1, <2>2, Zenon DEF IfOlmsg, Pop, Arg
  <2> QED
    BY <1>1, <2>3, DropType, Zenon
<1>4. /\ loads' = loads /\ tests' = tests /\ nvlen' = nvlen /\ phase' = phase /\ window' = window
      /\ halt' = halt /\ reset' = reset /\ master' = master /\ mask' = mask /\ tcm' = tcm
      /\ mapped' = mapped /\ olmsg' = olmsg /\ held' = held /\ irq' = irq /\ msi' = msi /\ isr' = isr
  BY Zenon DEF IfOlmsg, loadVars, armVars, hostVars, irqVars
<1> QED
  BY <1>3, <1>4, TypeFrame, Zenon

LEMMA TypeEnableMsi == ASSUME TypeOK, EnableMsi PROVE TypeOK'
<1>1. todo \in Seq(Steps) /\ todo # <<>>
  BY Zenon DEF TypeOK, EnableMsi, At
<1>2. Head(todo) \in Steps
  BY <1>1, Lengths, Zenon
<1>3. todo' \in Seq(Steps)
  <2>1. Drop(0) /\ 0 \in Nat
    BY DEF EnableMsi, Pop
  <2> QED
    BY <1>1, <2>1, DropType, Zenon
<1>4. /\ loads' = loads /\ tests' = tests /\ nvlen' = nvlen /\ phase' = phase /\ window' = window
      /\ halt' = halt /\ reset' = reset /\ master' = master /\ mask' = mask /\ tcm' = tcm
      /\ mapped' = mapped /\ olmsg' = olmsg /\ held' = held /\ irq' = irq /\ isr' = isr
  BY Zenon DEF EnableMsi, loadVars, armVars, hostVars, irqVars
<1>5. msi' \in BOOLEAN
  BY DEF EnableMsi
<1> QED
  BY <1>3, <1>4, <1>5, TypeFrame, Zenon

LEMMA TypeRequestIrq == ASSUME TypeOK, RequestIrq PROVE TypeOK'
<1>1. todo \in Seq(Steps) /\ todo # <<>> /\ Head(todo)[1] = "irq on"
  BY Zenon DEF TypeOK, RequestIrq, At
<1>2. Head(todo) \in Steps
  BY <1>1, Lengths, Zenon
<1>3. todo' \in Seq(Steps)
  <2>1. 0 \in Nat
    OBVIOUS
  <2>2. Head(todo)[2] \in Nat
    BY <1>1, <1>2, Carried, Zenon
  <2>3. \E n \in Nat : Drop(n)
    BY <2>1, <2>2, Zenon DEF RequestIrq, Pop, Arg
  <2> QED
    BY <1>1, <2>3, DropType, Zenon
<1>4. /\ loads' = loads /\ tests' = tests /\ nvlen' = nvlen /\ phase' = phase /\ window' = window
      /\ halt' = halt /\ reset' = reset /\ master' = master /\ mask' = mask /\ tcm' = tcm
      /\ mapped' = mapped /\ olmsg' = olmsg /\ held' = held /\ msi' = msi /\ isr' = isr
  BY Zenon DEF RequestIrq, loadVars, armVars, hostVars, irqVars
<1>5. irq' \in {"none", "line", "msi"}
  BY DEF RequestIrq, TypeOK
<1> QED
  BY <1>3, <1>4, <1>5, TypeFrame, Zenon

LEMMA TypeFreeIrq == ASSUME TypeOK, FreeIrq PROVE TypeOK'
<1>1. todo \in Seq(Steps) /\ todo # <<>> /\ Head(todo)[1] = "irq off"
  BY Zenon DEF TypeOK, FreeIrq, At
<1>2. Head(todo) \in Steps
  BY <1>1, Lengths, Zenon
<1>3. todo' \in Seq(Steps)
  <2>1. Drop(0) /\ 0 \in Nat
    BY DEF FreeIrq, Pop
  <2> QED
    BY <1>1, <2>1, DropType, Zenon
<1>4. /\ loads' = loads /\ tests' = tests /\ nvlen' = nvlen /\ phase' = phase /\ window' = window
      /\ halt' = halt /\ reset' = reset /\ master' = master /\ mask' = mask /\ tcm' = tcm
      /\ mapped' = mapped /\ olmsg' = olmsg /\ held' = held /\ msi' = msi /\ isr' = isr
  BY Zenon DEF FreeIrq, loadVars, armVars, hostVars, irqVars
<1>5. irq' \in {"none", "line", "msi"}
  BY DEF FreeIrq
<1> QED
  BY <1>3, <1>4, <1>5, TypeFrame, Zenon

LEMMA TypeFreeAll == ASSUME TypeOK, FreeAll PROVE TypeOK'
<1>1. todo \in Seq(Steps) /\ todo # <<>> /\ Head(todo)[1] = "free all"
  BY Zenon DEF TypeOK, FreeAll, At
<1>2. Head(todo) \in Steps
  BY <1>1, Lengths, Zenon
<1>3. todo' \in Seq(Steps)
  <2>1. Drop(0) /\ 0 \in Nat
    BY DEF FreeAll, Pop
  <2> QED
    BY <1>1, <2>1, DropType, Zenon
<1>4. /\ loads' = loads /\ tests' = tests /\ nvlen' = nvlen /\ phase' = phase /\ window' = window
      /\ halt' = halt /\ reset' = reset /\ master' = master /\ mask' = mask /\ tcm' = tcm
      /\ mapped' = mapped /\ olmsg' = olmsg /\ irq' = irq /\ msi' = msi /\ isr' = isr
  BY Zenon DEF FreeAll, loadVars, armVars, hostVars, irqVars
<1>5. held' \subseteq {"fw", "nvram", "samples", "fine"}
  BY DEF FreeAll
<1> QED
  BY <1>3, <1>4, <1>5, TypeFrame, Zenon

LEMMA TypeUnmap == ASSUME TypeOK, Unmap PROVE TypeOK'
<1>1. todo \in Seq(Steps) /\ todo # <<>> /\ Head(todo)[1] = "unmap"
  BY Zenon DEF TypeOK, Unmap, At
<1>2. Head(todo) \in Steps
  BY <1>1, Lengths, Zenon
<1>3. todo' \in Seq(Steps)
  <2>1. Drop(0) /\ 0 \in Nat
    BY DEF Unmap, Pop
  <2> QED
    BY <1>1, <2>1, DropType, Zenon
<1>4. /\ loads' = loads /\ tests' = tests /\ nvlen' = nvlen /\ phase' = phase /\ window' = window
      /\ halt' = halt /\ reset' = reset /\ mask' = mask /\ tcm' = tcm /\ held' = held /\ irq' = irq
      /\ msi' = msi /\ isr' = isr
  BY Zenon DEF Unmap, loadVars, armVars, hostVars, irqVars
<1>5. mapped' \in BOOLEAN
  BY DEF Unmap
<1>6. olmsg' \in BOOLEAN
  BY DEF Unmap
<1>7. master' \in BOOLEAN
  BY DEF Unmap
<1> QED
  BY <1>3, <1>4, <1>5, <1>6, <1>7, TypeFrame, Zenon

LEMMA TypeSettle == ASSUME TypeOK, Settle PROVE TypeOK'
<1>1. todo \in Seq(Steps) /\ todo # <<>>
  BY Zenon DEF TypeOK, Settle, At
<1>2. Head(todo) \in Steps
  BY <1>1, Lengths, Zenon
<1>3. todo' \in Seq(Steps)
  <2>1. Drop(0) /\ 0 \in Nat
    BY DEF Settle, Pop
  <2> QED
    BY <1>1, <2>1, DropType, Zenon
<1>4. /\ loads' = loads /\ tests' = tests /\ nvlen' = nvlen /\ window' = window /\ halt' = halt
      /\ reset' = reset /\ master' = master /\ mask' = mask /\ tcm' = tcm /\ mapped' = mapped
      /\ olmsg' = olmsg /\ held' = held /\ irq' = irq /\ msi' = msi /\ isr' = isr
  BY Zenon DEF Settle, loadVars, armVars, hostVars, irqVars
<1>5. phase' \in {"gone", "probe", "setup", "bound", "remove"}
  BY DEF Settle, At
<1> QED
  BY <1>3, <1>4, <1>5, TypeFrame, Zenon

LEMMA TypeStep == ASSUME TypeOK, Pending, Step, Setup => todo' \in Seq(Steps) PROVE TypeOK'
<1>1. CASE Setup
  BY <1>1, TypeSetup, Zenon
<1>2. CASE \/ SetWindow \/ Write \/ ReadReset \/ ClearReset \/ ReadHalt \/ SaveWindow \/ FlipMask
           \/ Invert \/ WriteTcm \/ BusReset \/ Enable \/ SetMaster \/ MapBars
  BY <1>2, TypeSetWindow, TypeWrite, TypeReadReset, TypeClearReset, TypeReadHalt, TypeSaveWindow, TypeFlipMask,
     TypeInvert, TypeWriteTcm, TypeBusReset, TypeEnable, TypeSetMaster, TypeMapBars, Zenon
<1>3. CASE \/ Try \/ Request \/ Alloc \/ AllocOlmsg \/ IfOlmsg \/ EnableMsi \/ RequestIrq \/ FreeIrq \/ FreeAll
           \/ Unmap \/ Settle
  BY <1>3, TypeTry, TypeRequest, TypeAlloc, TypeAllocOlmsg, TypeIfOlmsg, TypeEnableMsi, TypeRequestIrq, TypeFreeIrq,
     TypeFreeAll, TypeUnmap, TypeSettle, Zenon
<1> QED
  BY <1>1, <1>2, <1>3, Zenon DEF Step

-----------------------------------------------------------------------------
(***************************************************************************)
(* The steps of the callback, and the calls from outside.                  *)
(***************************************************************************)
LEMMA SetupStep ==
  ASSUME TypeOK, Pending, SetupPhase, phase = "setup", Step
  PROVE  \/ phase' = "setup" /\ SetupPhase'
         \/ phase' = "remove" /\ Removing'
         \/ phase' = "bound" /\ Bound'
<1>1. todo # <<>> /\ Head(todo) = todo[1] /\ todo[1][1] \in BodyOps \cup {"fw", "clear master", "free all", "bound"}
  BY SetupOps, Zenon
<1>2. \A op : At(op) => op \in BodyOps \cup {"fw", "clear master", "free all", "bound"}
  BY <1>1, Zenon DEF At
<1>3. \A op \in {"bus reset", "try enable", "map", "try", "setup", "unmap"} : ~At(op)
  BY <1>2 DEF BodyOps, WorkOps, CoredOps
<1>4. ~BusReset /\ ~Enable /\ ~MapBars /\ ~Try /\ ~Setup /\ ~Unmap
  BY <1>3 DEF BusReset, Enable, MapBars, Try, Setup, Unmap
<1>5. \/ SetWindow \/ Write \/ ReadReset \/ ClearReset \/ ReadHalt \/ SaveWindow \/ FlipMask
      \/ Invert \/ WriteTcm \/ SetMaster
      \/ Alloc \/ AllocOlmsg \/ IfOlmsg \/ EnableMsi \/ RequestIrq \/ FreeIrq \/ FreeAll
      \/ Request \/ Settle
  BY <1>4, Zenon DEF Step
<1>6. CASE SetWindow \/ Write \/ ReadReset \/ ClearReset \/ ReadHalt \/ SaveWindow \/ FlipMask \/ Invert \/ WriteTcm
           \/ SetMaster
  <2>1. SetupPhase'
    BY <1>6, SetupSetWindow, SetupWrite, SetupReadReset, SetupClearReset, SetupReadHalt, SetupSaveWindow, SetupFlipMask,
       SetupInvert, SetupWriteTcm, SetupSetMaster, Zenon
  <2>2. phase' = phase
    BY <1>6, Zenon DEF SetWindow, Write, ReadReset, ClearReset, ReadHalt, SaveWindow, FlipMask, Invert, WriteTcm, SetMaster
  <2> QED
    BY <2>1, <2>2
<1>7. CASE Alloc \/ AllocOlmsg \/ IfOlmsg \/ EnableMsi \/ RequestIrq \/ FreeIrq \/ FreeAll
  <2>1. SetupPhase'
    BY <1>7, SetupAlloc, SetupAllocOlmsg, SetupIfOlmsg, SetupEnableMsi, SetupRequestIrq, SetupFreeIrq, SetupFreeAll, Zenon
  <2>2. phase' = phase
    BY <1>7, Zenon DEF Alloc, AllocOlmsg, IfOlmsg, EnableMsi, RequestIrq, FreeIrq, FreeAll
  <2> QED
    BY <2>1, <2>2
<1>8. CASE Request
  BY <1>8, SetupRequest, Zenon
<1>9. CASE Settle
  BY <1>9, SetupSettle, Zenon
<1> QED
  BY <1>5, <1>6, <1>7, <1>8, <1>9, Zenon

\* A probe starts on a machine that nothing is left on.
LEMMA LoadPhase ==
  ASSUME TypeOK, Gone, Load
  PROVE  phase' = "probe" /\ ProbePhase' /\ todo' \in Seq(Steps)
<1>1. /\ phase' = "probe" /\ todo' = ProbeProgram /\ nvlen' \in NvramLens
      /\ tcm' = tcm /\ master' = master /\ mapped' = mapped /\ olmsg' = olmsg
      /\ held' = held /\ irq' = irq /\ msi' = msi
  BY DEF Load, hostVars, irqVars
<1>2. /\ ProbeList(todo') /\ Sure(todo') /\ Has(todo', One("map")) /\ Starts(todo') /\ todo' \in Seq(Steps)
      /\ todo' # <<>> /\ Len(todo') >= 3
  BY <1>1, ProbeProgramList, Zenon
<1>3. Quiet' /\ ~olmsg' /\ ~mapped' /\ (master' => tcm'[0] # "fw")
  BY <1>1 DEF Gone, Quiet
<1>4. Aimed'
  BY <1>2, Zenon DEF Aimed, Starts
<1>5. ~(Len(todo') <= 2)
  <2>1. Len(todo') \in Nat
    BY <1>2, Lengths, Zenon
  <2> QED
    BY <1>2, <2>1, NoShorter, Zenon
<1>6. Attaching'
  BY <1>1, <1>2, <1>3, <1>4, <1>5, Zenon DEF Attaching
<1> QED
  BY <1>1, <1>2, <1>3, <1>6, Zenon DEF ProbePhase

LEMMA RemovePhase ==
  ASSUME Bound, Remove
  PROVE  phase' = "remove" /\ Removing' /\ todo' \in Seq(Steps)
<1>1. phase' = "remove" /\ todo' = Removal /\ master' = master /\ held' = held /\ irq' = irq /\ msi' = msi
  BY DEF Remove, Fail, hostVars, irqVars
<1>2. Removal \in Seq(Steps) /\ Removal # Do("gone")
  BY LeavingIs, Zenon
<1>3. Quiet' /\ ~master'
  BY <1>1 DEF Bound, Quiet
<1>4. todo' # Do("gone")
  BY <1>1, <1>2, Zenon
<1>5. Leaving'
  BY <1>1, Zenon DEF Leaving
<1>6. todo' \in Seq(Steps)
  BY <1>1, <1>2, Zenon
<1> QED
  BY <1>1, <1>3, <1>4, <1>5, <1>6, Zenon DEF Removing

\* Only probe starts the callback.
LEMMA SetupType ==
  ASSUME IInv, Setup
  PROVE  todo' \in Seq(Steps)
<1>1. todo # <<>> /\ Head(todo)[1] = "setup" /\ todo' = SetupProgram
  BY DEF Setup, At
<1>2. phase # "gone" /\ phase # "bound"
  BY <1>1, Zenon DEF IInv, PhaseInv, Gone, Bound
<1>3. ~Leaving
  <2>1. One("unmap")[1] = "unmap" /\ One("gone")[1] = "gone"
    BY Tags, ZenonT(60)
  <2>2. Head(Removal) = One("unmap") /\ Head(Do("gone")) = One("gone")
    BY LeavingIs, Zenon
  <2> QED
    BY <1>1, <2>1, <2>2 DEF Leaving
<1>4. phase # "setup"
  <2> SUFFICES ASSUME phase = "setup" PROVE FALSE
    OBVIOUS
  <2>1. Head(todo)[1] \in BodyOps \cup {"fw", "clear master", "free all", "bound"}
    BY SetupOps, Zenon DEF IInv, PhaseInv
  <2>2. "setup" \notin BodyOps \cup {"fw", "clear master", "free all", "bound"}
    BY DEF BodyOps, WorkOps, CoredOps
  <2> QED
    BY <1>1, <2>1, <2>2, Zenon
<1>5. phase = "probe"
  <2>1. phase \in {"gone", "probe", "setup", "bound", "remove"}
    BY Zenon DEF IInv, TypeOK
  <2>2. phase # "remove"
    BY <1>3, Zenon DEF IInv, PhaseInv, Removing
  <2> QED
    BY <1>2, <1>4, <2>1, <2>2
<1>6. nvlen \in NvramLens
  BY <1>3, <1>5, Zenon DEF IInv, PhaseInv, ProbePhase, GivingUp, Attaching
<1> QED
  BY <1>1, <1>6, SetupProgramList, Zenon

\* Only the inversion leaves the word inverted, and the next step is a store to it.
LEMMA PendingStep == ASSUME TypeOK, Pending, Step PROVE Pending'
<1>1. todo \in Seq(Steps)
  BY Zenon DEF TypeOK
<1>2. ASSUME todo # <<>> PROVE Head(todo) = todo[1] /\ todo[1] \in Steps
  <2>1. Head(todo) = todo[1]
    BY <1>1, <1>2
  <2> QED
    BY <1>1, <1>2, <2>1, Lengths, Zenon
<1>3. ProbeWord.lo \in Cuts /\ ProbeWord.lo \in In(ProbeWord)
  <2>1. ProbeWord.lo \in Cuts
    BY DEF Cuts, Ranges
  <2> QED
    BY <2>1 DEF In, ProbeWord
<1>4. ASSUME tcm' = tcm, todo # <<>>, Head(todo)[1] # "tcm" PROVE Pending'
  <2>1. tcm[ProbeWord.lo] # "inverted"
    BY <1>4, NotPending, Zenon
  <2>2. (ProbeWord)' = ProbeWord
    BY DEF ProbeWord
  <2>3. tcm'[ProbeWord.lo] # "inverted"
    BY <1>4, <2>1, Zenon
  <2> QED
    BY <2>2, <2>3 DEF Pending
<1>5. CASE Invert
  <2>1. todo # <<>> /\ Head(todo)[1] = "round trip" /\ todo' = <<<<"tcm", Arg, tcm[Arg.lo]>>>> \o Tail(todo)
    BY <1>5 DEF Invert, At, Store
  <2>2. Arg = ProbeWord
    BY <1>2, <2>1, Carried, Zenon DEF Arg
  <2>3. Head(todo)[1] # "tcm"
    BY <2>1
  <2>4. PICK e : e = Restore(tcm[ProbeWord.lo])
    OBVIOUS
  <2>5. e \in Restores /\ todo' = <<e>> \o Tail(todo)
    BY <2>1, <2>2, <2>3, <2>4, NotPending, Zenon DEF Restore
  <2>6. Tail(todo) \in Seq(Steps) /\ e \in Steps
    BY <1>1, <2>1, <2>5, HeadTailProperties DEF Steps, AllStores
  <2>7. \A t \in Seq(Steps), x \in Steps : <<x>> \o t # <<>> /\ (<<x>> \o t)[1] = x
    OBVIOUS
  <2>8. todo' # <<>> /\ todo'[1] = e
    BY <2>5, <2>6, <2>7, Zenon
  <2>9. (Restores)' = Restores
    BY DEF Restores, Restore, Owners, ProbeWord
  <2> QED
    BY <2>5, <2>8, <2>9 DEF Pending
<1>6. CASE WriteTcm
  <2>1. todo # <<>> /\ todo[1][1] = "tcm" /\ tcm' = [c \in Cuts |-> IF c \in In(todo[1][2]) THEN todo[1][3] ELSE tcm[c]]
    BY <1>2, <1>6 DEF WriteTcm, At, Arg
  <2>2. todo[1][3] # "inverted" /\ (todo[1] \in Restores => todo[1][2] = ProbeWord)
    BY <1>2, <2>1, Carried, Zenon
  <2>3. tcm'[ProbeWord.lo] = IF ProbeWord.lo \in In(todo[1][2]) THEN todo[1][3] ELSE tcm[ProbeWord.lo]
    BY <1>3, <2>1
  <2>4. tcm[ProbeWord.lo] = "inverted" => todo[1] \in Restores
    BY Zenon DEF Pending
  <2>5. tcm'[ProbeWord.lo] # "inverted"
    BY <1>3, <2>2, <2>3, <2>4, Zenon
  <2>6. (ProbeWord)' = ProbeWord
    BY DEF ProbeWord
  <2> QED
    BY <2>5, <2>6 DEF Pending
<1>7. CASE BusReset
  <2>1. todo # <<>> /\ Head(todo)[1] # "tcm" /\ (tcm' = tcm \/ tcm' = [c \in Cuts |-> "old"])
    BY <1>7 DEF BusReset, At
  <2>2. CASE tcm' = tcm
    BY <1>4, <2>1, <2>2, Zenon
  <2>3. CASE tcm' = [c \in Cuts |-> "old"]
    <3>1. tcm'[ProbeWord.lo] = "old"
      BY <1>3, <2>3
    <3>2. (ProbeWord)' = ProbeWord
      BY DEF ProbeWord
    <3> QED
      BY <3>1, <3>2 DEF Pending
  <2> QED
    BY <2>1, <2>2, <2>3
<1>8. CASE \/ SetWindow \/ Write \/ ReadReset \/ ClearReset \/ ReadHalt \/ SaveWindow \/ FlipMask
           \/ Enable \/ SetMaster \/ MapBars \/ Try \/ Setup
  <2>1. todo # <<>> /\ Head(todo)[1] # "tcm"
    BY <1>8 DEF At, SetWindow, Write, ReadReset, ClearReset, ReadHalt, SaveWindow, FlipMask, Enable, SetMaster,
       MapBars, Try, Setup
  <2>2. tcm' = tcm
    BY <1>8, Zenon DEF SetWindow, Write, ReadReset, ClearReset, ReadHalt, SaveWindow, FlipMask, Enable, SetMaster,
       MapBars, Try, Setup
  <2> QED
    BY <1>4, <2>1, <2>2, Zenon
<1>9. CASE \/ Request \/ Alloc \/ AllocOlmsg \/ IfOlmsg \/ EnableMsi \/ RequestIrq \/ FreeIrq \/ FreeAll
           \/ Unmap \/ Settle
  <2>1. todo # <<>> /\ Head(todo)[1] # "tcm"
    BY <1>9 DEF At, Request, Alloc, AllocOlmsg, IfOlmsg, EnableMsi, RequestIrq, FreeIrq, FreeAll, Unmap, Settle
  <2>2. tcm' = tcm
    BY <1>9, Zenon DEF Request, Alloc, AllocOlmsg, IfOlmsg, EnableMsi, RequestIrq, FreeIrq, FreeAll, Unmap, Settle
  <2> QED
    BY <1>4, <2>1, <2>2, Zenon
<1> QED
  BY <1>5, <1>6, <1>7, <1>8, <1>9, Zenon DEF Step

-----------------------------------------------------------------------------
(***************************************************************************)
(* The invariant holds, and what follows from it.                          *)
(***************************************************************************)
LEMMA InitInv == ASSUME Init PROVE IInv
<1>1. TypeOK
  <2>1. "old" \in Owners /\ "cc" \in Windows
    BY DEF Owners, Windows
  <2>2. tcm \in [Cuts -> Owners]
    <3>1. tcm = [c \in Cuts |-> "old"]
      BY Zenon DEF Init
    <3> QED
      BY <2>1, <3>1
  <2>3. todo \in Seq(Steps)
    BY EmptySeq, Zenon DEF Init
  <2>4. window \in Windows
    BY <2>1, Zenon DEF Init
  <2>5. /\ phase = "gone" /\ loads = 0 /\ tests = {} /\ nvlen = 0 /\ halt = FALSE /\ master \in BOOLEAN /\ mask = FALSE
        /\ reset \in [{"arm", "d11"} -> {"in", "out"}]
        /\ mapped = FALSE /\ olmsg = FALSE /\ held = {} /\ irq = "none" /\ msi = FALSE /\ isr = "idle"
    BY Zenon DEF Init
  <2>6. /\ phase \in {"gone", "probe", "setup", "bound", "remove"}
        /\ loads \in Nat /\ tests \in TestSets \cup {{}} /\ nvlen \in NvramLens \cup {0}
        /\ halt \in BOOLEAN /\ mask \in BOOLEAN /\ mapped \in BOOLEAN /\ olmsg \in BOOLEAN
        /\ held \subseteq {"fw", "nvram", "samples", "fine"}
        /\ irq \in {"none", "line", "msi"} /\ msi \in BOOLEAN /\ isr \in {"idle", "claim"}
    BY <2>5
  <2> QED
    BY <2>2, <2>3, <2>4, <2>5, <2>6, Zenon DEF TypeOK
<1>2. Gone
  <2>1. 0 \in Cuts
    BY DEF Cuts
  <2>2. tcm = [c \in Cuts |-> "old"]
    BY Zenon DEF Init
  <2>3. tcm[0] = "old"
    BY <2>1, <2>2
  <2>4. todo = <<>> /\ ~mapped /\ ~olmsg /\ held = {} /\ irq = "none" /\ ~msi
    BY Zenon DEF Init
  <2> QED
    BY <2>3, <2>4 DEF Gone, Quiet
<1>3. phase = "gone"
  BY Zenon DEF Init
<1>4. PhaseInv
  BY <1>2, <1>3 DEF PhaseInv
<1>5. Pending
  <2>1. ProbeWord.lo \in Cuts
    BY DEF Cuts, Ranges
  <2>2. tcm = [c \in Cuts |-> "old"]
    BY Zenon DEF Init
  <2>3. tcm[ProbeWord.lo] = "old"
    BY <2>1, <2>2
  <2> QED
    BY <2>3 DEF Pending
<1> QED
  BY <1>1, <1>4, <1>5, Zenon DEF IInv

\* The phase that a step ends in decides which part of the invariant is due.
LEMMA Due ==
  ASSUME \/ phase' = "gone" /\ Gone'
         \/ phase' = "bound" /\ Bound'
         \/ phase' = "remove" /\ Removing'
         \/ phase' = "probe" /\ ProbePhase'
         \/ phase' = "setup" /\ SetupPhase'
  PROVE  PhaseInv'
<1>1. /\ "gone" # "bound" /\ "gone" # "remove" /\ "gone" # "probe" /\ "gone" # "setup" /\ "bound" # "remove"
      /\ "bound" # "probe" /\ "bound" # "setup" /\ "remove" # "probe" /\ "remove" # "setup" /\ "probe" # "setup"
  OBVIOUS
<1> QED
  BY <1>1, Zenon DEF PhaseInv

LEMMA StepInv == ASSUME IInv, Step PROVE IInv'
<1>1. TypeOK /\ Pending /\ PhaseInv
  BY Zenon DEF IInv
<1>2. TypeOK'
  <2>1. Setup => todo' \in Seq(Steps)
    BY SetupType, Zenon
  <2> QED
    BY <1>1, <2>1, TypeStep, Zenon
<1>3. todo # <<>>
  BY Zenon DEF Step, At, SetWindow, Write, ReadReset, ClearReset, ReadHalt, SaveWindow, FlipMask, Invert, WriteTcm, BusReset,
     Enable, SetMaster, MapBars, Try, Setup, Request, Alloc, AllocOlmsg, IfOlmsg, EnableMsi, RequestIrq, FreeIrq,
     FreeAll, Unmap, Settle
<1>4. phase = "remove" \/ phase = "probe" \/ phase = "setup"
  <2>1. phase # "gone" /\ phase # "bound"
    BY <1>1, <1>3, Zenon DEF PhaseInv, Gone, Bound
  <2>2. phase \in {"gone", "probe", "setup", "bound", "remove"}
    BY <1>1, Zenon DEF TypeOK
  <2> QED
    BY <2>1, <2>2
<1>5. ASSUME phase = "remove" PROVE PhaseInv'
  <2>1. Removing
    BY <1>1, <1>5, Zenon DEF PhaseInv
  <2>2. Leaving /\ Quiet /\ (todo = Do("gone") => ~mapped /\ ~master /\ ~olmsg)
    BY <2>1, Zenon DEF Removing
  <2>3. \/ /\ phase' = phase /\ todo' = Do("gone") /\ Quiet' /\ ~mapped' /\ ~master' /\ ~olmsg'
        \/ phase' = "gone" /\ Gone'
    BY <2>2, LeavingStep, Zenon
  <2>4. todo' = Do("gone") => Leaving'
    BY Zenon DEF Leaving
  <2>5. (phase' = "remove" /\ Removing') \/ (phase' = "gone" /\ Gone')
    BY <1>5, <2>3, <2>4, Zenon DEF Removing
  <2> QED
    BY <2>5, Due, Zenon
<1>6. ASSUME phase = "probe" PROVE PhaseInv'
  <2>1. Quiet /\ ~olmsg /\ (GivingUp \/ Attaching)
    BY <1>1, <1>6, Zenon DEF PhaseInv, ProbePhase
  <2>2. ASSUME GivingUp PROVE PhaseInv'
    <3>1. Leaving /\ (todo = Do("gone") => ~mapped /\ ~master /\ ~olmsg)
      BY <2>1, <2>2, Zenon DEF GivingUp
    <3>2. \/ /\ phase' = phase /\ todo' = Do("gone") /\ Quiet' /\ ~mapped' /\ ~master' /\ ~olmsg'
          \/ phase' = "gone" /\ Gone'
      BY <2>1, <3>1, LeavingStep, Zenon
    <3>3. todo' = Do("gone") => Leaving'
      BY Zenon DEF Leaving
    <3>4. (phase' = "probe" /\ ProbePhase') \/ (phase' = "gone" /\ Gone')
      BY <1>6, <3>2, <3>3, Zenon DEF ProbePhase, GivingUp
    <3> QED
      BY <3>4, Due, Zenon
  <2>3. ASSUME Attaching PROVE PhaseInv'
    <3>1. (phase' = "probe" /\ ProbePhase') \/ (phase' = "gone" /\ Gone') \/ (phase' = "setup" /\ SetupPhase')
      BY <1>1, <1>6, <2>1, <2>3, ProbeStep, Zenon
    <3> QED
      BY <3>1, Due, Zenon
  <2> QED
    BY <2>1, <2>2, <2>3, Zenon
<1>7. ASSUME phase = "setup" PROVE PhaseInv'
  <2>1. SetupPhase
    BY <1>1, <1>7, Zenon DEF PhaseInv
  <2>2. \/ phase' = "setup" /\ SetupPhase'
        \/ phase' = "remove" /\ Removing'
        \/ phase' = "bound" /\ Bound'
    BY <1>1, <1>7, <2>1, SetupStep, Zenon
  <2> QED
    BY <2>2, Due, Zenon
<1>8. PhaseInv'
  BY <1>4, <1>5, <1>6, <1>7, Zenon
<1>9. Pending'
  BY <1>1, PendingStep, Zenon
<1> QED
  BY <1>2, <1>8, <1>9, Zenon DEF IInv

\* The handler's two steps leave everything alone that the invariant is about.
LEMMA IsrInv ==
  ASSUME IInv, (IsrClaim \/ IsrMask) \/ UNCHANGED vars
  PROVE  IInv'
<1>1. /\ todo' = todo /\ phase' = phase /\ loads' = loads /\ tests' = tests /\ nvlen' = nvlen
      /\ window' = window /\ halt' = halt /\ reset' = reset /\ master' = master /\ tcm' = tcm
      /\ mapped' = mapped /\ olmsg' = olmsg /\ held' = held /\ irq' = irq /\ msi' = msi
      /\ isr' = isr \/ isr' \in {"idle", "claim"}
      /\ mask' = mask \/ mask' \in BOOLEAN
  <2>1. CASE IsrClaim
    BY <2>1 DEF IsrClaim, loadVars, armVars, hostVars
  <2>2. CASE IsrMask
    <3>1. /\ todo' = todo /\ phase' = phase /\ loads' = loads /\ tests' = tests /\ nvlen' = nvlen
          /\ window' = window /\ halt' = halt /\ reset' = reset /\ master' = master /\ tcm' = tcm
          /\ mapped' = mapped /\ olmsg' = olmsg /\ held' = held /\ irq' = irq /\ msi' = msi
          /\ isr' = "idle" /\ mask' = (mask /\ window # "pcie")
      BY <2>2, Zenon DEF IsrMask, loadVars, armVars, hostVars
    <3>2. mask \in BOOLEAN
      BY Zenon DEF IInv, TypeOK
    <3> QED
      BY <3>1, <3>2
  <2>3. CASE UNCHANGED vars
    BY <2>3, Zenon DEF vars, loadVars, armVars, hostVars, irqVars
  <2> QED
    BY <2>1, <2>2, <2>3
<1>2. TypeOK'
  <2>1. TypeOK
    BY Zenon DEF IInv
  <2>2. todo' \in Seq(Steps)
    BY <1>1, <2>1, Zenon DEF TypeOK
  <2> QED
    BY <1>1, <2>1, <2>2, TypeFrame, Zenon
<1>3. Quiet' <=> Quiet
  BY <1>1 DEF Quiet
<1>4. (Gone' <=> Gone) /\ (Bound' <=> Bound) /\ (Removing' <=> Removing) /\ (GivingUp' <=> GivingUp)
  BY <1>1, <1>3 DEF Gone, Bound, Removing, GivingUp, Leaving
<1>5. Attaching' <=> Attaching
  BY <1>1 DEF Attaching, Aimed
<1>6. SetupPhase' <=> SetupPhase
  <2>1. SetupList(todo)' <=> SetupList(todo)
    BY <1>1 DEF SetupList
  <2>2. Handler' <=> Handler
    BY <1>1 DEF Handler
  <2>3. Contents' <=> Contents
    BY <1>1 DEF Contents, Filled, Whole, On
  <2>4. Aimed' <=> Aimed
    BY <1>1 DEF Aimed
  <2> QED
    BY <1>1, <1>3, <2>1, <2>2, <2>3, <2>4 DEF SetupPhase
<1>7. ProbePhase' <=> ProbePhase
  BY <1>1, <1>3, <1>4, <1>5 DEF ProbePhase
<1>8. PhaseInv' <=> PhaseInv
  BY <1>1, <1>4, <1>6, <1>7 DEF PhaseInv
<1>9. Pending' <=> Pending
  BY <1>1 DEF Pending
<1> QED
  BY <1>2, <1>8, <1>9, Zenon DEF IInv

LEMMA LoadInv == ASSUME IInv, Load PROVE IInv'
<1>1. phase = "gone" /\ TypeOK /\ Gone
  BY Zenon DEF Load, IInv, PhaseInv
<1>2. phase' = "probe" /\ ProbePhase' /\ todo' \in Seq(Steps)
  BY <1>1, LoadPhase, Zenon
<1>3. PhaseInv'
  BY <1>2, Due, Zenon
<1>4. /\ loads' = loads + 1 /\ tests' \in TestSets /\ nvlen' \in NvramLens
      /\ window' = window /\ halt' = halt /\ reset' = reset /\ master' = master /\ mask' = mask /\ tcm' = tcm
      /\ mapped' = mapped /\ olmsg' = olmsg /\ held' = held /\ irq' = irq /\ msi' = msi /\ isr' = isr
  BY Zenon DEF Load, armVars, hostVars, irqVars
<1>5. loads' \in Nat /\ tests' \in TestSets \cup {{}} /\ nvlen' \in NvramLens \cup {0}
  <2>1. loads \in Nat
    BY <1>1, Zenon DEF TypeOK
  <2>2. \A n \in Nat : n + 1 \in Nat
    OBVIOUS
  <2>3. loads' \in Nat
    BY <1>4, <2>1, <2>2, Zenon
  <2>4. tests' \in TestSets \cup {{}} /\ nvlen' \in NvramLens \cup {0}
    BY <1>4
  <2> QED
    BY <2>3, <2>4
<1>6. phase' \in {"gone", "probe", "setup", "bound", "remove"}
  BY <1>2
<1>7. TypeOK'
  BY <1>1, <1>2, <1>4, <1>5, <1>6, Zenon DEF TypeOK
<1>8. tcm[ProbeWord.lo] # "inverted"
  BY <1>1, Zenon DEF IInv, Pending, Gone
<1>9. Pending'
  BY <1>4, <1>8 DEF Pending
<1> QED
  BY <1>3, <1>7, <1>9, Zenon DEF IInv

LEMMA RemoveInv == ASSUME IInv, Remove PROVE IInv'
<1>1. TypeOK /\ Bound
  BY Zenon DEF Remove, IInv, PhaseInv
<1>2. phase' = "remove" /\ Removing' /\ todo' \in Seq(Steps)
  BY <1>1, RemovePhase, Zenon
<1>3. PhaseInv'
  BY <1>2, Due, Zenon
<1>4. /\ loads' = loads /\ tests' = tests /\ nvlen' = nvlen
      /\ window' = window /\ halt' = halt /\ reset' = reset /\ master' = master /\ mask' = mask /\ tcm' = tcm
      /\ mapped' = mapped /\ olmsg' = olmsg /\ held' = held /\ irq' = irq /\ msi' = msi /\ isr' = isr
  BY Zenon DEF Remove, loadVars, armVars, hostVars, irqVars
<1>5. phase' \in {"gone", "probe", "setup", "bound", "remove"}
  BY <1>2
<1>6. TypeOK'
  BY <1>1, <1>2, <1>4, <1>5, TypeFrame, Zenon
<1>7. tcm[ProbeWord.lo] # "inverted"
  BY <1>1, Zenon DEF IInv, Pending, Bound
<1>8. Pending'
  BY <1>4, <1>7 DEF Pending
<1> QED
  BY <1>3, <1>6, <1>8, Zenon DEF IInv

LEMMA NextInv == ASSUME IInv, [Next]_vars PROVE IInv'
<1>1. CASE Step
  BY <1>1, StepInv, Zenon
<1>2. CASE Load
  BY <1>2, LoadInv, Zenon
<1>3. CASE Remove
  BY <1>3, RemoveInv, Zenon
<1>4. CASE (IsrClaim \/ IsrMask) \/ UNCHANGED vars
  BY <1>4, IsrInv, Zenon
<1> QED
  BY <1>1, <1>2, <1>3, <1>4, Zenon DEF Next

LEMMA Inductive == Spec => []IInv
<1>1. Init => IInv
  BY InitInv, Zenon
<1>2. IInv /\ [Next]_vars => IInv'
  BY NextInv, Zenon
<1> QED
  BY <1>1, <1>2, PTL DEF Spec

\* BootPath's variables have their types, and the list of steps still to take is
\* one that probe, the callback or remove can be in the middle of.
THEOREM BootTypes == Spec => []TypeOK
<1>1. IInv => TypeOK
  BY Zenon DEF IInv
<1> QED
  BY <1>1, Inductive, PTL

\* From the firmware callback on, a running ARM finds the download finished:
\* brcmf_pcie_download_fw_nvram lets it go after the last store of firmware, NVRAM,
\* seed and test blocks, and until then the halt that enumeration and
\* enter_download_state left is in force.  What is stored later is the word that
\* test 243 inverts, which lies in none of them, and its very next step puts it back.
THEOREM DownloadComesFirst == Spec => []DownloadBeforeRelease
<1>1. ASSUME IInv, phase = "setup", ArmRuns, NEW i \in DOMAIN todo, todo[i][1] \in {"tcm", "round trip"}
      PROVE  todo[i][2] = ProbeWord
  <2>1. todo \in Seq(Steps) /\ SetupPhase
    BY <1>1, Zenon DEF IInv, TypeOK, PhaseInv
  <2>2. Sealed(todo)
    BY <1>1, <2>1 DEF SetupPhase, ArmRuns
  <2>3. i \in 1 .. Len(todo) /\ todo[i] \in Steps
    BY <2>1
  <2>4. todo[i][1] = "tcm" => todo[i][2] = ProbeWord
    BY <2>2, <2>3, Zenon DEF Sealed, Late
  <2>5. todo[i][1] = "round trip" => todo[i][2] = ProbeWord
    BY <2>3, Carried, Zenon
  <2> QED
    BY <1>1, <2>4, <2>5
<1>2. ASSUME IInv, tcm[ProbeWord.lo] = "inverted"
      PROVE  At("tcm") /\ Arg = ProbeWord /\ Head(todo)[3] # "inverted"
  <2>1. todo \in Seq(Steps) /\ todo # <<>> /\ todo[1] \in Restores
    BY <1>2, Zenon DEF IInv, TypeOK, Pending
  <2>2. Head(todo) = todo[1]
    BY <2>1
  <2>3. todo[1][1] = "tcm" /\ todo[1][2] = ProbeWord /\ todo[1][3] # "inverted"
    BY <2>1 DEF Restores, Restore
  <2> QED
    BY <2>1, <2>2, <2>3 DEF At, Arg
<1>3. IInv => DownloadBeforeRelease
  BY <1>1, <1>2, Zenon DEF DownloadBeforeRelease
<1> QED
  BY <1>3, Inductive, PTL

\* The ARM is let go over a whole firmware image, and over whole NVRAM and seed
\* images where the tests write them: no store of the tests overlaps them, and
\* the zeroing that would overlap the seed is left out when there is one.
THEOREM ReleasedOverWholeImages == Spec => []ReleasedWhole
<1>1. IInv => ReleasedWhole
  <2> SUFFICES ASSUME IInv, phase = "setup", ArmRuns
               PROVE  /\ Whole(Firmware, "fw")
                      /\ nvlen > 0 /\ ~On("276") =>
                           Whole(Nvram(nvlen), "nvram") /\ (On("236") => Whole(Seed(nvlen), "seed"))
    BY DEF ReleasedWhole
  <2>1. todo \in Seq(Steps) /\ SetupPhase
    BY Zenon DEF IInv, TypeOK, PhaseInv
  <2>2. Sealed(todo) /\ Contents
    BY <2>1 DEF SetupPhase, ArmRuns
  <2>3. \A e : e[1] = "tcm" /\ e[2] # ProbeWord => ~Has(todo, e)
    BY <2>2, Zenon DEF Sealed, Late, Has
  <2>4. /\ FwStore[1] = "tcm" /\ FwStore[2] = Firmware
        /\ NvramStore(nvlen)[1] = "tcm" /\ NvramStore(nvlen)[2] = Nvram(nvlen)
        /\ SeedStore(nvlen)[1] = "tcm" /\ SeedStore(nvlen)[2] = Seed(nvlen)
    BY DEF FwStore, NvramStore, SeedStore
  <2>6. Firmware # ProbeWord /\ Nvram(nvlen) # ProbeWord /\ Seed(nvlen) # ProbeWord
    BY <2>1, WordApart, Zenon DEF SetupPhase
  <2>5. ~Has(todo, FwStore) /\ ~Has(todo, NvramStore(nvlen)) /\ ~Has(todo, SeedStore(nvlen))
    BY <2>3, <2>4, <2>6, Zenon
  <2> QED
    BY <2>2, <2>5 DEF Contents, Filled
<1> QED
  BY <1>1, Inductive, PTL

\* Outside probe and the callback, downloaded firmware that runs never finds bus
\* mastering on: the callback and remove end it, and probe gives up without it.
THEOREM DmaStaysInDownload == Spec => []DmaOnlyInDownload
<1>1. IInv => DmaOnlyInDownload
  <2> SUFFICES ASSUME IInv, phase \notin {"probe", "setup"}, tcm[0] = "fw" PROVE ~master
    BY DEF DmaOnlyInDownload
  <2>1. phase \in {"gone", "probe", "setup", "bound", "remove"} /\ PhaseInv
    BY Zenon DEF IInv, TypeOK
  <2>2. phase \in {"gone", "bound", "remove"}
    BY <2>1
  <2> QED
    BY <2>1, <2>2 DEF PhaseInv, Gone, Bound, Removing
<1> QED
  BY <1>1, Inductive, PTL

\* However the download goes, the handler, MSI, the buffers and the mappings are
\* given back, and a handler never outlives the mappings it reads through.
THEOREM EverythingIsGivenBack == Spec => []DownloadGivesBack
<1>1. IInv => DownloadGivesBack
  <2> SUFFICES ASSUME IInv PROVE DownloadGivesBack
    OBVIOUS
  <2>1. phase \in {"gone", "probe", "setup", "bound", "remove"} /\ PhaseInv
    BY Zenon DEF IInv, TypeOK
  <2>2. phase = "setup" \/ Quiet
    BY <2>1 DEF PhaseInv, Gone, Bound, Removing, ProbePhase
  <2>3. phase = "setup" => mapped /\ (irq = "msi" => msi)
    BY <2>1 DEF PhaseInv, SetupPhase, Handler
  <2>4. phase = "gone" => ~mapped /\ ~olmsg /\ held = {}
    BY <2>1 DEF PhaseInv, Gone, Quiet
  <2>5. phase = "bound" => Quiet
    BY <2>1 DEF PhaseInv, Bound
  <2> QED
    BY <2>2, <2>3, <2>4, <2>5 DEF DownloadGivesBack, Quiet
<1> QED
  BY <1>1, Inductive, PTL
=============================================================================
